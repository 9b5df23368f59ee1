------------------------------ MODULE SendGate ------------------------------
(***************************************************************************)
(* What the public-output policy promises to the operator, without its    *)
(* flags and its pruned deques: a gate with three positions, a streak of  *)
(* failed sends, and the log of everything that was allowed through.      *)
(* PublicSendPolicy and PublicOutput are shown to implement it.           *)
(***************************************************************************)
EXTENDS Integers, Sequences

CONSTANTS
    Targets,            \* the targets a message may be addressed to
    AllowedTargets,     \* the allow-list of the configuration
    MaxPerMinute,       \* grants in one minute window, at most
    MaxPerHour,         \* grants in one hour window, at most
    MinuteWindow,       \* width of the minute window, in clock ticks
    HourWindow,         \* width of the hour window, in clock ticks
    FailureThreshold    \* consecutive failures that close the gate

VARIABLES
    gate,       \* "shadow" | "live" | "disarmed"
    streak,     \* consecutive failed sends
    clock,      \* the injected monotonic clock
    grants      \* every send and shadow allowed so far, oldest first

gateVars == <<gate, streak, clock, grants>>

Grants == [at : Int, action : {"send", "shadow"}, target : Targets]

-----------------------------------------------------------------------------

(* The max-th grant before this one, if there was one, is a window away:   *)
(* a sliding window stated on the log, with no window state.               *)
RoomIn(log, window, max) ==
    Len(log) >= max => clock - log[Len(log) + 1 - max].at >= window

Init ==
    /\ gate = "shadow"
    /\ streak = 0
    /\ clock = 0
    /\ grants = <<>>

(* A message goes through: for real only while the gate is live and only   *)
(* to a target of the allow-list, as a rehearsal otherwise.                *)
Grant(action, target) ==
    /\ action = "send" <=> gate = "live"
    /\ action = "send" => target \in AllowedTargets
    /\ RoomIn(grants, MinuteWindow, MaxPerMinute)
    /\ RoomIn(grants, HourWindow, MaxPerHour)
    /\ grants' = Append(grants, [at |-> clock, action |-> action, target |-> target])
    /\ UNCHANGED <<gate, streak, clock>>

(* Only this opens the gate, never once it is disarmed.                    *)
Open ==
    /\ gate # "disarmed"
    /\ gate' = "live"
    /\ streak' = 0
    /\ UNCHANGED <<clock, grants>>

Close ==
    /\ gate' = IF gate = "disarmed" THEN "disarmed" ELSE "shadow"
    /\ UNCHANGED <<streak, clock, grants>>

Disarm ==
    /\ gate' = "disarmed"
    /\ UNCHANGED <<streak, clock, grants>>

(* The failure that reaches the threshold closes the gate in the same step. *)
Fail ==
    /\ streak' = streak + 1
    /\ gate' = IF streak' >= FailureThreshold /\ gate = "live" THEN "shadow" ELSE gate
    /\ UNCHANGED <<clock, grants>>

Succeed ==
    /\ streak' = 0
    /\ UNCHANGED <<gate, clock, grants>>

Tick ==
    /\ clock' > clock
    /\ UNCHANGED <<gate, streak, grants>>

Next ==
    \/ \E action \in {"send", "shadow"}, target \in Targets : Grant(action, target)
    \/ Open
    \/ Close
    \/ Disarm
    \/ Fail
    \/ Succeed
    \/ Tick

Spec == Init /\ [][Next]_gateVars
=============================================================================
