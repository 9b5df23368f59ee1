-------------------------- MODULE PublicSendPolicy --------------------------
(***************************************************************************)
(* src/src/minnarone/public_send.py: the decision state shared by the      *)
(* router (event loop), the operator's command surface (TUI thread) and    *)
(* the token guards.  Every method runs under one reentrant lock, so each  *)
(* is one action.                                                          *)
(***************************************************************************)
EXTENDS Integers, Sequences

CONSTANTS
    Targets,            \* PublicTarget values a caller may pass
    AllowedTargets,     \* config.allowed_targets
    MaxPerMinute,       \* config.max_per_minute
    MaxPerHour,         \* config.max_per_hour
    FailureThreshold,   \* config.failure_threshold
    MinuteWindow,       \* _MINUTE_WINDOW, in clock ticks
    HourWindow,         \* _HOUR_WINDOW, in clock ticks
    MaxClock,           \* bound of the model: last instant of the clock
    MaxFailures         \* bound of the model: failures recorded in a row

(* PublicSendConfig.__post_init__ refuses limits below 1.                  *)
ASSUME ConfigAssumption ==
    /\ AllowedTargets \subseteq Targets
    /\ MaxPerMinute \in Nat \ {0}
    /\ MaxPerHour \in Nat \ {0}
    /\ FailureThreshold \in Nat \ {0}
    /\ MinuteWindow \in Nat
    /\ HourWindow \in Nat
    /\ MaxClock \in Nat
    /\ MaxFailures \in Nat

VARIABLES
    mode,                   \* _config.mode, chosen at construction
    liveCapability,         \* _live_capability
    promoted,               \* _promoted
    killSwitch,             \* _kill_switch
    liveDisabled,           \* _live_disabled
    consecutiveFailures,    \* _consecutive_failures
    minuteEvents,           \* _minute_events: instants of the grants still in the window
    hourEvents,             \* _hour_events
    lastDecision,           \* _last_decision
    now,                    \* what the injected clock returns
    granted                 \* history: every send and shadow decision ever made

switches == <<liveCapability, promoted, killSwitch, liveDisabled>>
windows == <<minuteEvents, hourEvents>>
policyVars == <<mode, switches, consecutiveFailures, windows, lastDecision, now, granted>>

Modes == {"off", "shadow", "live"}
Reasons == {"ok", "mode_off", "not_promoted", "kill_switch", "channel_not_allowed",
            "budget_minute", "budget_hour"}
SendDecision == [action : {"send", "shadow", "drop"}, reason : Reasons]
None == [action |-> "none", reason |-> "ok"]
Granted == [at : Nat, action : {"send", "shadow"}, target : Targets]

PolicyInit ==
    /\ mode \in Modes
    /\ liveCapability \in BOOLEAN
    /\ promoted = FALSE
    /\ killSwitch = FALSE
    /\ liveDisabled = FALSE
    /\ consecutiveFailures = 0
    /\ minuteEvents = <<>>
    /\ hourEvents = <<>>
    /\ lastDecision = None
    /\ now = 0
    /\ granted = <<>>

-----------------------------------------------------------------------------
(* A fault for comparison: the oldest instant leaves the window one tick   *)
(* before its time.                                                        *)
PrunedEarly(events, floor) ==
    {SubSeq(events, k + 1, Len(events)) :
        k \in {k \in 0..Len(events) :
                /\ \A i \in 1..k : events[i] <= floor + 1
                /\ k < Len(events) => events[k + 1] > floor + 1}}

(* _prune: instants are popped from the left while they are at or below    *)
(* the floor.  The set has exactly one member.                             *)
Pruned(events, floor) ==
    {SubSeq(events, k + 1, Len(events)) :
        k \in {k \in 0..Len(events) :
                /\ \A i \in 1..k : events[i] <= floor
                /\ k < Len(events) => events[k + 1] > floor}}

Prune ==
    /\ minuteEvents' \in Pruned(minuteEvents, now - MinuteWindow)
    /\ hourEvents' \in Pruned(hourEvents, now - HourWindow)

(* A fault: the allow-list is not consulted.                               *)
IntendedAnywhere(target) ==
    CASE mode = "off" -> [action |-> "drop", reason |-> "mode_off"]
      [] mode = "shadow" -> [action |-> "shadow", reason |-> "ok"]
      [] mode = "live" /\ (liveDisabled \/ killSwitch) ->
            [action |-> "shadow", reason |-> "kill_switch"]
      [] mode = "live" /\ ~liveDisabled /\ ~killSwitch /\ ~promoted ->
            [action |-> "shadow", reason |-> "not_promoted"]
      [] OTHER -> [action |-> "send", reason |-> "ok"]

(* _intended: what mode and switches want, before the budget.              *)
Intended(target) ==
    CASE mode = "off" -> [action |-> "drop", reason |-> "mode_off"]
      [] mode = "shadow" -> [action |-> "shadow", reason |-> "ok"]
      [] mode = "live" /\ (liveDisabled \/ killSwitch) ->
            [action |-> "shadow", reason |-> "kill_switch"]
      [] mode = "live" /\ ~liveDisabled /\ ~killSwitch /\ ~promoted ->
            [action |-> "shadow", reason |-> "not_promoted"]
      [] mode = "live" /\ ~liveDisabled /\ ~killSwitch /\ promoted /\ target \notin AllowedTargets ->
            [action |-> "drop", reason |-> "channel_not_allowed"]
      [] OTHER -> [action |-> "send", reason |-> "ok"]

(* Two faults: the limit is off by one; only the minute window is looked at. *)
BudgetBlockLate(minute, hour) ==
    IF Len(minute) > MaxPerMinute THEN "budget_minute"
    ELSE IF Len(hour) > MaxPerHour THEN "budget_hour"
    ELSE "ok"

BudgetBlockMinuteOnly(minute, hour) ==
    IF Len(minute) >= MaxPerMinute THEN "budget_minute" ELSE "ok"

(* _budget_block, on the pruned windows; "ok" when neither is exhausted.   *)
BudgetBlock(minute, hour) ==
    IF Len(minute) >= MaxPerMinute THEN "budget_minute"
    ELSE IF Len(hour) >= MaxPerHour THEN "budget_hour"
    ELSE "ok"

(* The decision of decide() on windows already pruned.                     *)
DecisionFor(target, minute, hour) ==
    IF Intended(target).action # "drop" /\ BudgetBlock(minute, hour) # "ok"
    THEN [action |-> "drop", reason |-> BudgetBlock(minute, hour)]
    ELSE Intended(target)

(* decide(): drops return early and consume nothing, sends and shadows     *)
(* both consume one slot of both windows.                                  *)
Decide(target) ==
    /\ \E minute \in Pruned(minuteEvents, now - MinuteWindow),
          hour \in Pruned(hourEvents, now - HourWindow) :
        /\ lastDecision' = DecisionFor(target, minute, hour)
        /\ \/ /\ lastDecision'.action = "drop"
              /\ minuteEvents' = minute
              /\ hourEvents' = hour
              /\ granted' = granted
           \/ /\ lastDecision'.action # "drop"
              /\ minuteEvents' = Append(minute, now)
              /\ hourEvents' = Append(hour, now)
              /\ granted' = Append(granted, [at |-> now, action |-> lastDecision'.action,
                                             target |-> target])
    /\ UNCHANGED <<mode, switches, consecutiveFailures, now>>

(* promote(): refused unless the mode arms live, the session is not        *)
(* disarmed and the sender's capability was validated.                     *)
PromoteAccepted == mode = "live" /\ ~liveDisabled /\ liveCapability

(* A fault: a promotion that keeps the old failure streak.                 *)
PromoteKeepingStreak ==
    /\ PromoteAccepted
    /\ promoted' = TRUE
    /\ killSwitch' = FALSE
    /\ UNCHANGED <<mode, liveCapability, liveDisabled, consecutiveFailures, windows,
                   lastDecision, now, granted>>

Promote ==
    /\ PromoteAccepted
    /\ promoted' = TRUE
    /\ killSwitch' = FALSE
    /\ consecutiveFailures' = 0
    /\ UNCHANGED <<mode, liveCapability, liveDisabled, windows, lastDecision, now, granted>>

EngageKillSwitch ==
    /\ killSwitch' = TRUE
    /\ promoted' = FALSE
    /\ UNCHANGED <<mode, liveCapability, liveDisabled, consecutiveFailures, windows,
                   lastDecision, now, granted>>

(* disable_live(): permanent for the session.                              *)
DisableLive ==
    /\ liveDisabled' = TRUE
    /\ liveCapability' = FALSE
    /\ killSwitch' = TRUE
    /\ promoted' = FALSE
    /\ UNCHANGED <<mode, consecutiveFailures, windows, lastDecision, now, granted>>

(* A fault: a refreshed token gives a revoked session its capability back. *)
EnableAfterRevocation ==
    /\ mode = "live"
    /\ liveCapability' = TRUE
    /\ UNCHANGED <<mode, promoted, killSwitch, liveDisabled, consecutiveFailures, windows,
                   lastDecision, now, granted>>

EnableLiveCapability ==
    /\ ~liveDisabled
    /\ mode = "live"
    /\ liveCapability' = TRUE
    /\ UNCHANGED <<mode, promoted, killSwitch, liveDisabled, consecutiveFailures, windows,
                   lastDecision, now, granted>>

(* record_failure(): the failure that reaches the threshold engages the    *)
(* kill-switch, under the same lock.                                       *)
RecordFailure ==
    /\ consecutiveFailures' = consecutiveFailures + 1
    /\ IF consecutiveFailures' >= FailureThreshold
       THEN killSwitch' = TRUE /\ promoted' = FALSE
       ELSE UNCHANGED <<killSwitch, promoted>>
    /\ UNCHANGED <<mode, liveCapability, liveDisabled, windows, lastDecision, now, granted>>

RecordSuccess ==
    /\ consecutiveFailures' = 0
    /\ UNCHANGED <<mode, switches, windows, lastDecision, now, granted>>

(* snapshot(): read-only but for the pruning of the windows.               *)
Snapshot ==
    /\ Prune
    /\ UNCHANGED <<mode, switches, consecutiveFailures, lastDecision, now, granted>>

(* External: time.monotonic, the clock app.py injects.                     *)
Tick ==
    /\ now < MaxClock
    /\ now' = now + 1
    /\ UNCHANGED <<mode, switches, consecutiveFailures, windows, lastDecision, granted>>

PolicyNext ==
    \/ \E target \in Targets : Decide(target)
    \/ Promote
    \/ EngageKillSwitch
    \/ DisableLive
    \/ EnableLiveCapability
    \/ consecutiveFailures < MaxFailures /\ RecordFailure
    \/ RecordSuccess
    \/ Snapshot
    \/ Tick

PolicySpec == PolicyInit /\ [][PolicyNext]_policyVars

-----------------------------------------------------------------------------
(* Every variable stays in the range the code gives it; the deques never   *)
(* outgrow the configured budgets.                                         *)
PolicyTypeOK ==
    /\ mode \in Modes
    /\ liveCapability \in BOOLEAN
    /\ promoted \in BOOLEAN
    /\ killSwitch \in BOOLEAN
    /\ liveDisabled \in BOOLEAN
    /\ consecutiveFailures \in Nat
    /\ minuteEvents \in Seq(Nat) /\ Len(minuteEvents) <= MaxPerMinute
    /\ hourEvents \in Seq(Nat) /\ Len(hourEvents) <= MaxPerHour
    /\ lastDecision \in SendDecision \cup {None}
    /\ now \in Nat
    /\ granted \in Seq(Granted)

(* No window of that width, wherever it is placed, holds more grants than  *)
(* the limit: the grant max places later comes at least a window later.    *)
AtMostPer(window, max) ==
    \A i \in 1..Len(granted) :
        i + max <= Len(granted) => granted[i + max].at - granted[i].at >= window

(* The minute budget holds over the whole session, for sends and shadows   *)
(* together, although the policy only keeps the instants that decide() and *)
(* snapshot() have not pruned.                                             *)
MinuteBudget == AtMostPer(MinuteWindow, MaxPerMinute)

(* The hour budget, likewise.                                              *)
HourBudget == AtMostPer(HourWindow, MaxPerHour)

(* The promise of the configuration: neither budget is ever exceeded.      *)
BothBudgets == MinuteBudget /\ HourBudget

(* promote() is the only way to live: the promotion implies an armed mode, *)
(* a validated sender, no kill-switch, no revocation and a failure streak  *)
(* below the threshold, whatever the interleaving of router, operator and  *)
(* guards ("la revoca permanente vince anche se arriva insieme a una       *)
(* promozione operatore").                                                 *)
PromotionIsArmed ==
    promoted => /\ mode = "live"
                /\ liveCapability
                /\ ~liveDisabled
                /\ ~killSwitch
                /\ consecutiveFailures < FailureThreshold

(* After disable_live() the sender's capability never comes back and every *)
(* later decision of a live session is a rehearsal.                        *)
RevocationIsPermanent == liveDisabled => killSwitch /\ ~liveCapability

(* Seen as a gate, the policy does what SendGate says and nothing else.    *)
Gate == INSTANCE SendGate WITH
    gate <- IF liveDisabled THEN "disarmed" ELSE IF promoted THEN "live" ELSE "shadow",
    streak <- consecutiveFailures,
    clock <- now,
    grants <- granted

ImplementsGate == Gate!Spec
=============================================================================
