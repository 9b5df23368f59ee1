--------------------------- MODULE MCLiveRuntime ----------------------------
(* LiveRuntime with the runs that differ in what they wait for: a live     *)
(* Twitch run, a live YouTube run without local perception, and a run      *)
(* without a source.                                                       *)
EXTENDS LiveRuntime

Built(a, q, p) == [adapter |-> a, queue |-> q, platform |-> p]

MCSetups == {Built(TRUE, TRUE, "twitch"), Built(TRUE, FALSE, "youtube"), Built(FALSE, FALSE, "none")}
=============================================================================
