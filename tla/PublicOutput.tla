---------------------------- MODULE PublicOutput ----------------------------
(***************************************************************************)
(* The public-output path of one run: the Reactor's turns on the asyncio   *)
(* loop (reactor.py), the router that asks the policy and awaits the       *)
(* sender (public_router.py) behind the TUI wrapper (output_sink.py), the  *)
(* operator's keys on the TUI thread (send_commands.py), the token guard   *)
(* and the life of the run (app.py).                                       *)
(*                                                                         *)
(* A run in public mode has one Reactor and two places that drive it: its  *)
(* own loop task and the last tick Agent.run makes once the source ended.  *)
(* They share the router.  A step that holds the loop keeps every other    *)
(* coroutine out, but not the operator's thread nor the clock.             *)
(***************************************************************************)
EXTENDS PublicSendPolicy, FiniteSets

CONSTANTS
    Channel,        \* the target the router was built with
    MaxTurns        \* bound of the model: turns started in the run

ASSUME ChannelAssumption == Channel \in Targets

VARIABLES
    \* the run, its runners and the router they share
    phase,          \* "starting" | "running" | "draining" | "stopped"
    pc,             \* pc[r]: where runner r is in its turn
    held,           \* the runner that has the loop between two of its own steps
    routerLast,     \* PublicOutputRouter.last_decision
    turns,          \* turns started
    \* history
    verdict,        \* verdict[r]: the decision runner r's turn got
    stragglers,     \* sends begun since the promotion was last withdrawn
    lastTurn        \* what became of the last turn that ended, and what was shown

runVars == <<phase, pc, held, routerLast, turns, verdict, stragglers, lastTurn>>
vars == <<policyVars, runVars>>

Runners == {"loop", "final"}
Steps == {"idle", "composing", "decided", "sending", "failing", "disarming", "degrading", "gone"}
NoTurn == [decided |-> "none", outcome |-> "none", marker |-> "none", noted |-> FALSE]

(* A sender is built only when the configuration arms live.                *)
SenderPresent == mode = "live"

Init ==
    /\ PolicyInit
    /\ liveCapability => SenderPresent
    /\ phase = "starting"
    /\ pc = [r \in Runners |-> "idle"]
    /\ held = "free"
    /\ routerLast = None
    /\ turns = 0
    /\ verdict = [r \in Runners |-> None]
    /\ stragglers = 0
    /\ lastTurn = NoTurn

-----------------------------------------------------------------------------
(* Agent.run: the guard validates before anything starts.  A read token    *)
(* that fails raises; a send capability that fails disarms the session.    *)
StartRun ==
    /\ phase = "starting"
    /\ \/ ~SenderPresent /\ phase' = "running" /\ UNCHANGED policyVars
       \/ SenderPresent /\ phase' = "running" /\ DisableLive
       \/ /\ SenderPresent
          /\ phase' \in {"running", "stopped"}
          /\ EnableLiveCapability
    /\ UNCHANGED <<pc, held, routerLast, turns, verdict, stragglers, lastTurn>>

(* The source ended: Agent.run drives one more tick of the same Reactor,   *)
(* while the Reactor's own loop may be in the middle of a turn.            *)
DrainRun ==
    /\ phase = "running"
    /\ held = "free"
    /\ phase' = "draining"
    /\ UNCHANGED <<policyVars, pc, held, routerLast, turns, verdict, stragglers, lastTurn>>

(* The end of the run, or its cancellation: the runners are cancelled      *)
(* where they are.  A send in flight gets a CancelledError, which the      *)
(* router does not catch.                                                  *)
StopRun ==
    /\ phase \in {"running", "draining"}
    /\ held = "free"
    /\ phase' = "stopped"
    /\ pc' = [r \in Runners |-> "gone"]
    /\ UNCHANGED <<policyVars, held, routerLast, turns, verdict, stragglers, lastTurn>>

(* A fault: the last tick runs before the source has ended.                *)
MayRunAnytime(r) == phase \in {"running", "draining"}

MayRun(r) == phase = "draining" \/ (phase = "running" /\ r = "loop")

(* Reactor.run_once up to the await of the model's answer.                 *)
StartTurn(r) ==
    /\ MayRun(r)
    /\ pc[r] = "idle"
    /\ held = "free"
    /\ turns < MaxTurns
    /\ turns' = turns + 1
    /\ pc' = [pc EXCEPT ![r] = "composing"]
    /\ UNCHANGED <<policyVars, phase, held, routerLast, verdict, stragglers, lastTurn>>

(* An LLMError, #nothing or #end_conv: the turn ends before the router.    *)
SkipTurn(r) ==
    /\ pc[r] = "composing"
    /\ held = "free"
    /\ pc' = [pc EXCEPT ![r] = "idle"]
    /\ UNCHANGED <<policyVars, phase, held, routerLast, turns, verdict, stragglers, lastTurn>>

(* The end of a turn, in the wrapper and in Reactor._react: both look at   *)
(* what the shared router decided last, whoever asked it.                  *)
EndTurn(r, last, outcome) ==
    lastTurn' = [decided |-> verdict'[r].action,
                 outcome |-> outcome,
                 marker |-> CASE last.action = "send" -> "SENT"
                              [] last.action = "shadow" -> "SHADOW"
                              [] OTHER -> "none",
                 noted |-> last.action # "drop"]

(* A fault: the router awaits something between the decision and the send. *)
DecideTurnThenYield(r) ==
    /\ pc[r] = "composing"
    /\ held = "free"
    /\ Decide(Channel)
    /\ routerLast' = lastDecision'
    /\ verdict' = [verdict EXCEPT ![r] = lastDecision']
    /\ IF lastDecision'.action = "send" /\ SenderPresent
       THEN pc' = [pc EXCEPT ![r] = "decided"] /\ UNCHANGED lastTurn
       ELSE pc' = [pc EXCEPT ![r] = "idle"] /\ EndTurn(r, routerLast', "none")
    /\ UNCHANGED <<phase, held, turns, stragglers>>

(* PublicOutputRouter.route: the policy decides.  A shadow or a drop ends  *)
(* the turn without an await; a send keeps the loop until the sender       *)
(* suspends.                                                               *)
DecideTurn(r) ==
    /\ pc[r] = "composing"
    /\ held = "free"
    /\ Decide(Channel)
    /\ routerLast' = lastDecision'
    /\ verdict' = [verdict EXCEPT ![r] = lastDecision']
    /\ \/ /\ lastDecision'.action = "send" /\ SenderPresent
          /\ pc' = [pc EXCEPT ![r] = "decided"]
          /\ held' = r
          /\ UNCHANGED lastTurn
       \/ /\ ~(lastDecision'.action = "send" /\ SenderPresent)
          /\ pc' = [pc EXCEPT ![r] = "idle"]
          /\ EndTurn(r, routerLast', "none")
          /\ UNCHANGED held
    /\ UNCHANGED <<phase, turns, stragglers>>

(* sender.send up to its first await: it suspends, or refuses at once      *)
(* (not connected, message refused) with the loop still held.              *)
BeginSend(r) ==
    /\ pc[r] = "decided"
    /\ \/ /\ pc' = [pc EXCEPT ![r] = "sending"]
          /\ held' = "free"
          /\ stragglers' = IF promoted THEN 0 ELSE stragglers + 1
       \/ /\ pc' = [pc EXCEPT ![r] = "failing"]
          /\ UNCHANGED <<held, stragglers>>
    /\ UNCHANGED <<policyVars, phase, routerLast, turns, verdict, lastTurn>>

(* The sender returns: the marker, record_success, the run event, then the *)
(* wrapper's and the Reactor's look at the router.                         *)
SendReturns(r) ==
    /\ pc[r] = "sending"
    /\ held = "free"
    /\ RecordSuccess
    /\ pc' = [pc EXCEPT ![r] = "idle"]
    /\ UNCHANGED verdict
    /\ EndTurn(r, routerLast, "delivered")
    /\ UNCHANGED <<phase, held, routerLast, turns, stragglers>>

(* The sender raises PublicSendFailure; an authorization failure disarms   *)
(* the policy before it is counted.                                        *)
SendRaises(r) ==
    /\ pc[r] = "sending"
    /\ held = "free"
    /\ held' = r
    /\ \/ pc' = [pc EXCEPT ![r] = "failing"] /\ UNCHANGED policyVars
       \/ pc' = [pc EXCEPT ![r] = "disarming"] /\ DisableLive
    /\ UNCHANGED <<phase, routerLast, turns, verdict, stragglers, lastTurn>>

(* Any other exception ends the Reactor's loop; run() only learns of it    *)
(* when it gathers its children.  In the last tick it ends the run.        *)
SendBreaks ==
    /\ pc["loop"] = "sending"
    /\ held = "free"
    /\ pc' = [pc EXCEPT !["loop"] = "gone"]
    /\ UNCHANGED <<policyVars, phase, held, routerLast, turns, verdict, stragglers, lastTurn>>

(* A fault: the sender and the router both count the same failure.         *)
RecordFailedTurnTwice(r) ==
    /\ pc[r] = "failing"
    /\ consecutiveFailures' = consecutiveFailures + 2
    /\ killSwitch' = (killSwitch \/ consecutiveFailures' >= FailureThreshold)
    /\ promoted' = (promoted /\ consecutiveFailures' < FailureThreshold)
    /\ pc' = [pc EXCEPT ![r] = "degrading"]
    /\ UNCHANGED <<mode, liveCapability, liveDisabled, minuteEvents, hourEvents, lastDecision,
                   now, granted, phase, held, routerLast, turns, verdict, stragglers, lastTurn>>

(* record_failure and the "failed" run event.                              *)
RecordFailedTurn(r) ==
    /\ pc[r] = "failing"
    /\ RecordFailure
    /\ pc' = [pc EXCEPT ![r] = "degrading"]
    /\ UNCHANGED <<phase, held, routerLast, turns, verdict, stragglers, lastTurn>>

(* _record_auto_degrade_if_engaged: its snapshot prunes once more, after   *)
(* record_failure gave the lock back.                                      *)
EndFailedTurn(r) ==
    /\ pc[r] = "degrading"
    /\ Snapshot
    /\ pc' = [pc EXCEPT ![r] = "idle"]
    /\ held' = "free"
    /\ UNCHANGED verdict
    /\ EndTurn(r, routerLast, "failed")
    /\ UNCHANGED <<phase, routerLast, turns, stragglers>>

(* After an authorization failure no auto-degrade is looked for.           *)
EndDisarmedTurn(r) ==
    /\ pc[r] = "disarming"
    /\ RecordFailure
    /\ pc' = [pc EXCEPT ![r] = "idle"]
    /\ held' = "free"
    /\ UNCHANGED verdict
    /\ EndTurn(r, routerLast, "failed")
    /\ UNCHANGED <<phase, routerLast, turns, stragglers>>

(* SendCommandSurface, from the TUI thread, at any time.                   *)
OperatorPromotes ==
    /\ Promote
    /\ stragglers' = 0
    /\ UNCHANGED <<phase, pc, held, routerLast, turns, verdict, lastTurn>>

OperatorKills ==
    /\ EngageKillSwitch
    /\ UNCHANGED runVars

(* A fault: the guard runs on a thread of its own.                         *)
GuardDisarmsAnytime ==
    /\ phase \in {"running", "draining"}
    /\ DisableLive
    /\ UNCHANGED runVars

(* A guard's monitor task loses the send capability.                       *)
GuardDisarms ==
    /\ phase \in {"running", "draining"}
    /\ held = "free"
    /\ DisableLive
    /\ UNCHANGED runVars

ClockTicks ==
    /\ Tick
    /\ UNCHANGED runVars

RunnerStep(r) ==
    \/ StartTurn(r)
    \/ SkipTurn(r)
    \/ DecideTurn(r)
    \/ BeginSend(r)
    \/ SendReturns(r)
    \/ SendRaises(r)
    \/ RecordFailedTurn(r)
    \/ EndFailedTurn(r)
    \/ EndDisarmedTurn(r)

Next ==
    \/ StartRun
    \/ DrainRun
    \/ StopRun
    \/ \E r \in Runners : RunnerStep(r)
    \/ SendBreaks
    \/ OperatorPromotes
    \/ OperatorKills
    \/ GuardDisarms
    \/ ClockTicks

Spec == Init /\ [][Next]_vars

-----------------------------------------------------------------------------
(* Every variable stays in its range.                                      *)
TypeOK ==
    /\ PolicyTypeOK
    /\ phase \in {"starting", "running", "draining", "stopped"}
    /\ pc \in [Runners -> Steps]
    /\ held \in Runners \cup {"free"}
    /\ routerLast \in SendDecision \cup {None}
    /\ turns \in 0..MaxTurns
    /\ verdict \in [Runners -> SendDecision \cup {None}]
    /\ stragglers \in Nat
    /\ lastTurn \in [decided : {"none", "send", "shadow", "drop"},
                     outcome : {"none", "delivered", "failed"},
                     marker : {"none", "SENT", "SHADOW"},
                     noted : BOOLEAN]

(* The kill-switch is immediate but for one message: once the promotion is *)
(* withdrawn, by the operator's thread or by the failures, at most the     *)
(* send whose decision the loop had just taken still begins.               *)
OneStragglerAtMost == stragglers <= 1

(* A revocation leaves no straggler at all: both places that disarm run on *)
(* the event loop, where no turn is between its decision and its send.     *)
NoSendBeginsDisarmed ==
    [][\A r \in Runners : pc[r] # "sending" /\ pc'[r] = "sending" => ~liveDisabled]_vars

(* As long as one turn at a time is in the router, a delivered message is  *)
(* marked as sent and remembered by the Reactor, and a rehearsal never     *)
(* carries the sent marker.                                                *)
MarkersFollowTheTurn ==
    phase = "running" =>
        /\ lastTurn.outcome = "delivered" => lastTurn.marker = "SENT" /\ lastTurn.noted
        /\ lastTurn.decided = "shadow" => lastTurn.marker = "SHADOW"
        /\ lastTurn.decided = "drop" => lastTurn.marker = "none" /\ ~lastTurn.noted
=============================================================================
