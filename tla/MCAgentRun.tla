----------------------------- MODULE MCAgentRun -----------------------------
(* AgentRun alone, as a live Twitch run with a source.                     *)
EXTENDS AgentRun

MCSetups == {[adapter |-> TRUE, queue |-> FALSE, platform |-> "twitch"]}
=============================================================================
