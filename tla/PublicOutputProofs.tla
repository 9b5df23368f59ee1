------------------------- MODULE PublicOutputProofs -------------------------
(***************************************************************************)
(* Theorems about PublicSendPolicy, about PublicOutput, about what         *)
(* RunReplay does with the policy, and about Startup, for every            *)
(* configuration and any number of turns, keys and failures.               *)
(*                                                                         *)
(* The policy's budgets are not inductive as they stand: it forgets the    *)
(* instants it prunes, so the invariant must say what a pruned instant     *)
(* was.  WindowKept does: the deque is the tail of the log of grants, and  *)
(* every grant it no longer holds is at least a window old.                *)
(*                                                                         *)
(* That at most one send begins after the promotion was withdrawn is not   *)
(* inductive: it rests on who holds the loop.  A runner that has decided   *)
(* and one that handles a failure both hold it, so there is at most one,   *)
(* and as long as one has decided no send has begun since.                 *)
(*                                                                         *)
(* What the audit tells is not inductive either: between two of its steps  *)
(* a turn has its row and is not on the panel yet, or the other way round, *)
(* and a cut row may still cost the next one.  AuditKept says, for each    *)
(* step, which of the two the turn is in; RowsKept counts the row that may *)
(* yet be lost.                                                            *)
(*                                                                         *)
(* Last, the start-up that decides whether the policy is armed at all.     *)
(* What it has built when it fails depends on how far it came, so          *)
(* StartupKept says, stage by stage, what each stage leaves to those that  *)
(* come after it.                                                          *)
(***************************************************************************)
EXTENDS PublicOutput, RunReplay, Startup, FiniteSetTheorems, TLAPS

WindowKept(events, window) ==
    /\ Len(events) <= Len(granted)
    /\ \A i \in 1..Len(events) : events[i] = granted[Len(granted) - Len(events) + i].at
    /\ \A i \in 1..(Len(granted) - Len(events)) : granted[i].at <= now - window

PolicyIInv ==
    /\ PolicyTypeOK
    /\ PromotionIsArmed
    /\ RevocationIsPermanent
    /\ WindowKept(minuteEvents, MinuteWindow)
    /\ WindowKept(hourEvents, HourWindow)
    /\ MinuteBudget
    /\ HourBudget

-----------------------------------------------------------------------------
(* What _prune leaves is the tail of the deque, and everything it popped   *)
(* is at least a window old: pruning never loses a grant that counts.      *)
LEMMA PrunedWindow ==
    ASSUME NEW events \in Seq(Nat), NEW window \in Nat, PolicyTypeOK,
           WindowKept(events, window),
           NEW kept \in Pruned(events, now - window)
    PROVE  /\ kept \in Seq(Nat)
           /\ Len(kept) <= Len(events)
           /\ WindowKept(kept, window)
<1>1. PICK k \in 0..Len(events) :
        /\ kept = SubSeq(events, k + 1, Len(events))
        /\ \A i \in 1..k : events[i] <= now - window
    BY DEF Pruned
<1>2. /\ kept \in Seq(Nat)
      /\ Len(kept) = Len(events) - k
      /\ \A i \in 1..Len(kept) : kept[i] = events[i + k]
    BY <1>1
<1>3. /\ granted \in Seq(Granted) /\ Len(granted) \in Nat
      /\ Len(events) \in Nat /\ Len(kept) \in Nat
      /\ k \in Nat /\ k <= Len(events) /\ Len(kept) = Len(events) - k
      /\ Len(events) <= Len(granted)
    BY <1>2 DEF PolicyTypeOK, WindowKept
<1>4. \A i \in 1..Len(kept) : kept[i] = granted[Len(granted) - Len(kept) + i].at
  <2>1. ASSUME NEW i \in 1..Len(kept)
        PROVE  kept[i] = granted[Len(granted) - Len(kept) + i].at
    <3>1. i + k \in 1..Len(events) /\ kept[i] = events[i + k]
        BY <1>1, <1>2, <2>1
    <3>2. events[i + k] = granted[Len(granted) - Len(events) + (i + k)].at
        BY <3>1 DEF WindowKept
    <3>3. Len(granted) - Len(events) + (i + k) = Len(granted) - Len(kept) + i
        BY <1>3
    <3>4. QED BY <3>1, <3>2, <3>3
  <2>2. QED BY <2>1
<1>5. \A i \in 1..(Len(granted) - Len(kept)) : granted[i].at <= now - window
  <2>1. ASSUME NEW i \in 1..(Len(granted) - Len(kept))
        PROVE  granted[i].at <= now - window
    <3>1. CASE i \in 1..(Len(granted) - Len(events))
        BY <3>1 DEF WindowKept
    <3>2. CASE i \notin 1..(Len(granted) - Len(events))
      <4>1. DEFINE j == i - (Len(granted) - Len(events))
      <4>2. j \in 1..k /\ j \in 1..Len(events) /\ i = Len(granted) - Len(events) + j
          BY <1>1, <1>2, <1>3, <3>2 DEF WindowKept
      <4>3. events[j] = granted[i].at
          BY <4>2 DEF WindowKept
      <4>4. QED BY <1>1, <4>2, <4>3
    <3>3. QED BY <3>1, <3>2
  <2>2. QED BY <2>1
<1>6. Len(kept) <= Len(events) /\ Len(kept) <= Len(granted)
    BY <1>3
<1>7. QED BY <1>2, <1>4, <1>5, <1>6 DEF WindowKept

(* A deque that is not full means the grant max places back has left the   *)
(* window: this is the abstract gate's condition for one more grant.       *)
LEMMA RoomInWindow ==
    ASSUME NEW events \in Seq(Nat), NEW window \in Nat, NEW max \in Nat \ {0}, PolicyTypeOK,
           WindowKept(events, window), Len(events) < max, Len(granted) >= max
    PROVE  /\ Len(granted) + 1 - max \in 1..Len(granted)
           /\ now - granted[Len(granted) + 1 - max].at >= window
<1>1. granted \in Seq(Granted) /\ now \in Nat /\ Len(granted) \in Nat
    BY DEF PolicyTypeOK
<1>2. Len(granted) + 1 - max \in 1..(Len(granted) - Len(events))
    BY <1>1
<1>3. Len(granted) + 1 - max \in 1..Len(granted)
    BY <1>1
<1>4. granted[Len(granted) + 1 - max].at <= now - window
    BY <1>2 DEF WindowKept
<1>5. granted[Len(granted) + 1 - max].at \in Nat
  <2>1. granted[Len(granted) + 1 - max] \in Granted
      BY <1>1, <1>3
  <2>2. QED BY <2>1 DEF Granted
<1>6. QED BY <1>1, <1>3, <1>4, <1>5

(* Appending the current instant to the log and to the deque keeps them in *)
(* step.                                                                   *)
LEMMA GrantedWindow ==
    ASSUME NEW events \in Seq(Nat), NEW window \in Nat, PolicyTypeOK,
           WindowKept(events, window),
           NEW grant \in Granted, grant.at = now
    PROVE  LET log == Append(granted, grant)
               after == Append(events, now)
           IN  /\ Len(after) <= Len(log)
               /\ \A i \in 1..Len(after) : after[i] = log[Len(log) - Len(after) + i].at
               /\ \A i \in 1..(Len(log) - Len(after)) : log[i].at <= now - window
<1> DEFINE log == Append(granted, grant)
           after == Append(events, now)
<1>1. /\ granted \in Seq(Granted) /\ now \in Nat
      /\ Len(granted) \in Nat /\ Len(events) \in Nat /\ Len(events) <= Len(granted)
    BY DEF PolicyTypeOK, WindowKept
<1>2. /\ Len(after) = Len(events) + 1
      /\ Len(log) = Len(granted) + 1
      /\ \A i \in 1..Len(events) : after[i] = events[i]
      /\ after[Len(events) + 1] = now
      /\ \A i \in 1..Len(granted) : log[i] = granted[i]
      /\ log[Len(granted) + 1] = grant
    BY <1>1
<1> HIDE DEF log, after
<1>3. ASSUME NEW i \in 1..Len(after)
      PROVE  after[i] = log[Len(log) - Len(after) + i].at
  <2>1. CASE i = Len(events) + 1
      BY <1>1, <1>2, <2>1
  <2>2. CASE i \in 1..Len(events)
    <3>1. Len(granted) - Len(events) + i \in 1..Len(granted)
        BY <1>1, <2>2 DEF WindowKept
    <3>2. events[i] = granted[Len(granted) - Len(events) + i].at
        BY <2>2 DEF WindowKept
    <3>3. Len(log) - Len(after) + i = Len(granted) - Len(events) + i
        BY <1>1, <1>2, <2>2
    <3>4. QED BY <1>2, <2>2, <3>1, <3>2, <3>3
  <2>3. i = Len(events) + 1 \/ i \in 1..Len(events)
      BY <1>1, <1>2
  <2>4. QED BY <2>1, <2>2, <2>3
<1>4. ASSUME NEW i \in 1..(Len(log) - Len(after))
      PROVE  log[i].at <= now - window
  <2>1. i \in 1..(Len(granted) - Len(events)) /\ i \in 1..Len(granted)
      BY <1>1, <1>2
  <2>2. granted[i].at <= now - window
      BY <2>1 DEF WindowKept
  <2>3. QED BY <1>2, <2>1, <2>2
<1>5. Len(after) <= Len(log)
    BY <1>1, <1>2
<1>6. QED BY <1>3, <1>4, <1>5 DEF log, after

(* One more grant keeps the sliding budget when the one max places back is *)
(* a window away.                                                          *)
LEMMA GrantedBudget ==
    ASSUME NEW window \in Nat, NEW max \in Nat \ {0}, PolicyTypeOK,
           AtMostPer(window, max),
           Len(granted) >= max => now - granted[Len(granted) + 1 - max].at >= window,
           NEW grant \in Granted, grant.at = now,
           granted' = Append(granted, grant)
    PROVE  AtMostPer(window, max)'
<1>1. granted \in Seq(Granted) /\ now \in Nat /\ Len(granted) \in Nat
    BY DEF PolicyTypeOK
<1>2. /\ Len(granted') = Len(granted) + 1
      /\ \A i \in 1..Len(granted) : granted'[i] = granted[i]
      /\ granted'[Len(granted) + 1] = grant
    BY <1>1
<1>3. ASSUME NEW i \in 1..Len(granted'), i + max <= Len(granted')
      PROVE  granted'[i + max].at - granted'[i].at >= window
  <2>1. i \in 1..Len(granted)
      BY <1>1, <1>2, <1>3
  <2>2. CASE i + max <= Len(granted)
      BY <1>1, <1>2, <2>1, <2>2 DEF AtMostPer
  <2>3. CASE i + max = Len(granted) + 1
    <3>1. i = Len(granted) + 1 - max /\ Len(granted) >= max
        BY <1>1, <2>1, <2>3
    <3>2. QED BY <1>2, <2>1, <2>3, <3>1
  <2>4. QED BY <1>1, <1>2, <1>3, <2>1, <2>2, <2>3
<1>4. QED BY <1>3 DEF AtMostPer

-----------------------------------------------------------------------------
(* The parts of the invariant that speak of the log and of the deques.     *)
Budgets ==
    /\ WindowKept(minuteEvents, MinuteWindow)
    /\ WindowKept(hourEvents, HourWindow)
    /\ MinuteBudget
    /\ HourBudget

Switches == PromotionIsArmed /\ RevocationIsPermanent

LEMMA PolicyInitIInv == PolicyInit => PolicyIInv
<1> SUFFICES ASSUME PolicyInit PROVE PolicyIInv
    OBVIOUS
<1>1. PolicyTypeOK
  <2>1. /\ <<>> \in Seq(Nat) /\ <<>> \in Seq(Granted)
        /\ Len(<<>>) <= MaxPerMinute /\ Len(<<>>) <= MaxPerHour
      BY ConfigAssumption
  <2>2. QED BY <2>1 DEF PolicyInit, PolicyTypeOK
<1>2. Switches
    BY DEF PolicyInit, Switches, PromotionIsArmed, RevocationIsPermanent
<1>3. Budgets
    BY ConfigAssumption DEF PolicyInit, Budgets, WindowKept, MinuteBudget, HourBudget, AtMostPer
<1>4. QED BY <1>1, <1>2, <1>3 DEF PolicyIInv, Switches, Budgets

(* The decision never has an action or a reason outside its vocabulary,    *)
(* and a grant finds both pruned windows below their limits.               *)
LEMMA DecisionIsTyped ==
    ASSUME NEW target, NEW minute, NEW hour, mode \in Modes
    PROVE  /\ DecisionFor(target, minute, hour) \in SendDecision
           /\ DecisionFor(target, minute, hour).action # "drop" =>
                /\ ~(Len(minute) >= MaxPerMinute)
                /\ ~(Len(hour) >= MaxPerHour)
                /\ DecisionFor(target, minute, hour) = Intended(target)
<1>1. Intended(target) \in SendDecision
    BY DEF Intended, SendDecision, Reasons, Modes
<1>2. BudgetBlock(minute, hour) \in Reasons
    BY DEF BudgetBlock, Reasons
<1>3. DecisionFor(target, minute, hour) \in SendDecision
    BY <1>1, <1>2 DEF DecisionFor, SendDecision
<1>4. ASSUME DecisionFor(target, minute, hour).action # "drop"
      PROVE  BudgetBlock(minute, hour) = "ok" /\ DecisionFor(target, minute, hour) = Intended(target)
    BY <1>4 DEF DecisionFor
<1>5. BudgetBlock(minute, hour) = "ok" =>
        ~(Len(minute) >= MaxPerMinute) /\ ~(Len(hour) >= MaxPerHour)
    BY DEF BudgetBlock
<1>6. QED BY <1>3, <1>4, <1>5

LEMMA DecideIInv ==
    ASSUME PolicyIInv, NEW target \in Targets, Decide(target)
    PROVE  PolicyIInv'
<1>1. PolicyTypeOK /\ Switches /\ Budgets
    BY DEF PolicyIInv, Switches, Budgets
<1>2. PICK minute \in Pruned(minuteEvents, now - MinuteWindow),
           hour \in Pruned(hourEvents, now - HourWindow) :
        /\ lastDecision' = DecisionFor(target, minute, hour)
        /\ \/ /\ lastDecision'.action = "drop"
              /\ minuteEvents' = minute
              /\ hourEvents' = hour
              /\ granted' = granted
           \/ /\ lastDecision'.action # "drop"
              /\ minuteEvents' = Append(minute, now)
              /\ hourEvents' = Append(hour, now)
              /\ granted' = Append(granted, [at |-> now, action |-> lastDecision'.action,
                                             target |-> target])
    BY DEF Decide
<1>3. UNCHANGED <<mode, liveCapability, promoted, killSwitch, liveDisabled,
                  consecutiveFailures, now>>
    BY DEF Decide, switches
<1>4. /\ minuteEvents \in Seq(Nat) /\ hourEvents \in Seq(Nat)
      /\ Len(minuteEvents) <= MaxPerMinute /\ Len(hourEvents) <= MaxPerHour
      /\ now \in Nat /\ granted \in Seq(Granted) /\ mode \in Modes
    BY <1>1 DEF PolicyTypeOK
<1>5. /\ minute \in Seq(Nat) /\ Len(minute) <= Len(minuteEvents)
      /\ WindowKept(minute, MinuteWindow)
    BY <1>1, <1>4, PrunedWindow, ConfigAssumption DEF Budgets
<1>6. /\ hour \in Seq(Nat) /\ Len(hour) <= Len(hourEvents)
      /\ WindowKept(hour, HourWindow)
    BY <1>1, <1>4, PrunedWindow, ConfigAssumption DEF Budgets
<1>7. /\ lastDecision' \in SendDecision
      /\ lastDecision'.action # "drop" =>
            ~(Len(minute) >= MaxPerMinute) /\ ~(Len(hour) >= MaxPerHour)
    BY <1>2, <1>4, DecisionIsTyped
<1>8. Switches'
    BY <1>1, <1>3 DEF Switches, PromotionIsArmed, RevocationIsPermanent
<1>9. CASE lastDecision'.action = "drop"
  <2>1. minuteEvents' = minute /\ hourEvents' = hour /\ granted' = granted
      BY <1>2, <1>9
  <2>2. PolicyTypeOK'
      BY <1>1, <1>3, <1>4, <1>5, <1>6, <1>7, <2>1, ConfigAssumption DEF PolicyTypeOK
  <2>3. Budgets'
      BY <1>1, <1>3, <1>5, <1>6, <2>1
      DEF Budgets, WindowKept, MinuteBudget, HourBudget, AtMostPer
  <2>4. QED BY <1>8, <2>2, <2>3 DEF PolicyIInv, Switches, Budgets
<1>10. CASE lastDecision'.action # "drop"
  <2> DEFINE grant == [at |-> now, action |-> lastDecision'.action, target |-> target]
  <2>1. /\ minuteEvents' = Append(minute, now)
        /\ hourEvents' = Append(hour, now)
        /\ granted' = Append(granted, grant)
      BY <1>2, <1>10
  <2>2. grant \in Granted /\ grant.at = now
      BY <1>4, <1>7, <1>10 DEF Granted, SendDecision
  <2> HIDE DEF grant
  <2>3. Len(minute) < MaxPerMinute /\ Len(hour) < MaxPerHour
      BY <1>5, <1>6, <1>7, <1>10, ConfigAssumption
  <2>4. PolicyTypeOK'
    <3>1. /\ minuteEvents' \in Seq(Nat) /\ Len(minuteEvents') <= MaxPerMinute
          /\ hourEvents' \in Seq(Nat) /\ Len(hourEvents') <= MaxPerHour
        BY <1>4, <1>5, <1>6, <2>1, <2>3, ConfigAssumption
    <3>2. granted' \in Seq(Granted)
        BY <1>4, <2>1, <2>2
    <3>3. QED BY <1>1, <1>3, <1>7, <3>1, <3>2 DEF PolicyTypeOK
  <2>5. WindowKept(minuteEvents, MinuteWindow)'
    <3>1. now' = now /\ MinuteWindow \in Nat
        BY <1>3, ConfigAssumption
    <3>2. /\ Len(minuteEvents') <= Len(granted')
          /\ \A i \in 1..Len(minuteEvents') :
                minuteEvents'[i] = granted'[Len(granted') - Len(minuteEvents') + i].at
          /\ \A i \in 1..(Len(granted') - Len(minuteEvents')) :
                granted'[i].at <= now' - MinuteWindow
        BY <1>1, <1>5, <2>1, <2>2, <3>1, GrantedWindow
    <3>3. QED BY <3>2 DEF WindowKept
  <2>6. WindowKept(hourEvents, HourWindow)'
    <3>1. now' = now /\ HourWindow \in Nat
        BY <1>3, ConfigAssumption
    <3>2. /\ Len(hourEvents') <= Len(granted')
          /\ \A i \in 1..Len(hourEvents') :
                hourEvents'[i] = granted'[Len(granted') - Len(hourEvents') + i].at
          /\ \A i \in 1..(Len(granted') - Len(hourEvents')) :
                granted'[i].at <= now' - HourWindow
        BY <1>1, <1>6, <2>1, <2>2, <3>1, GrantedWindow
    <3>3. QED BY <3>2 DEF WindowKept
  <2>7. MinuteBudget'
      BY <1>1, <1>5, <2>1, <2>2, <2>3, RoomInWindow, GrantedBudget, ConfigAssumption
      DEF MinuteBudget, Budgets
  <2>8. HourBudget'
      BY <1>1, <1>6, <2>1, <2>2, <2>3, RoomInWindow, GrantedBudget, ConfigAssumption
      DEF HourBudget, Budgets
  <2>9. QED BY <1>8, <2>4, <2>5, <2>6, <2>7, <2>8 DEF PolicyIInv, Switches
<1>11. QED BY <1>9, <1>10

(* The switches and counters move without touching the log or the deques.  *)
LEMMA BudgetsUntouched ==
    ASSUME Budgets, UNCHANGED <<minuteEvents, hourEvents, now, granted>>
    PROVE  Budgets'
BY DEF Budgets, WindowKept, MinuteBudget, HourBudget, AtMostPer

LEMMA SwitchIInv ==
    ASSUME PolicyIInv,
           \/ Promote \/ EngageKillSwitch \/ DisableLive
           \/ EnableLiveCapability \/ RecordFailure \/ RecordSuccess
    PROVE  PolicyIInv'
<1>1. PolicyTypeOK /\ Switches /\ Budgets
    BY DEF PolicyIInv, Switches, Budgets
<1>2. UNCHANGED <<mode, minuteEvents, hourEvents, lastDecision, now, granted>>
    BY DEF Promote, EngageKillSwitch, DisableLive, EnableLiveCapability, RecordFailure,
           RecordSuccess, windows
<1>3. Budgets'
    BY <1>1, <1>2, BudgetsUntouched
<1>4. /\ liveCapability' \in BOOLEAN /\ promoted' \in BOOLEAN
      /\ killSwitch' \in BOOLEAN /\ liveDisabled' \in BOOLEAN
    BY <1>1 DEF PolicyTypeOK, Promote, EngageKillSwitch, DisableLive, EnableLiveCapability,
                RecordFailure, RecordSuccess, switches
<1>5. consecutiveFailures' \in Nat
    BY <1>1 DEF PolicyTypeOK, Promote, EngageKillSwitch, DisableLive, EnableLiveCapability,
                RecordFailure, RecordSuccess
<1>6. PolicyTypeOK'
    BY <1>1, <1>2, <1>4, <1>5 DEF PolicyTypeOK
<1>7. Switches'
  <2> USE DEF Switches, PromotionIsArmed, RevocationIsPermanent
  <2>1. CASE Promote
      BY <1>1, <2>1, ConfigAssumption DEF Promote, PromoteAccepted
  <2>2. CASE EngageKillSwitch
      BY <1>1, <2>2 DEF EngageKillSwitch
  <2>3. CASE DisableLive
      BY <2>3 DEF DisableLive
  <2>4. CASE EnableLiveCapability
      BY <1>1, <2>4 DEF EnableLiveCapability
  <2>5. CASE RecordFailure
    <3>1. CASE consecutiveFailures' >= FailureThreshold
        BY <1>1, <2>5, <3>1 DEF RecordFailure
    <3>2. CASE ~(consecutiveFailures' >= FailureThreshold)
      <4>1. consecutiveFailures' < FailureThreshold
          BY <1>5, <3>2, ConfigAssumption
      <4>2. QED BY <1>1, <2>5, <3>2, <4>1 DEF RecordFailure
    <3>3. QED BY <3>1, <3>2
  <2>6. CASE RecordSuccess
    <3>1. 0 < FailureThreshold
        BY ConfigAssumption
    <3>2. QED BY <1>1, <2>6, <3>1 DEF RecordSuccess, switches
  <2>7. QED BY <2>1, <2>2, <2>3, <2>4, <2>5, <2>6
<1>8. QED BY <1>3, <1>6, <1>7 DEF PolicyIInv, Switches, Budgets

LEMMA SnapshotIInv ==
    ASSUME PolicyIInv, Snapshot
    PROVE  PolicyIInv'
<1>1. PolicyTypeOK /\ Switches /\ Budgets
    BY DEF PolicyIInv, Switches, Budgets
<1>2. UNCHANGED <<mode, liveCapability, promoted, killSwitch, liveDisabled,
                  consecutiveFailures, lastDecision, now, granted>>
    BY DEF Snapshot, switches
<1>3. /\ minuteEvents \in Seq(Nat) /\ Len(minuteEvents) <= MaxPerMinute
      /\ hourEvents \in Seq(Nat) /\ Len(hourEvents) <= MaxPerHour
    BY <1>1 DEF PolicyTypeOK
<1>4. /\ minuteEvents' \in Seq(Nat) /\ Len(minuteEvents') <= Len(minuteEvents)
      /\ WindowKept(minuteEvents', MinuteWindow)
    BY <1>1, <1>3, PrunedWindow, ConfigAssumption DEF Snapshot, Prune, Budgets
<1>5. /\ hourEvents' \in Seq(Nat) /\ Len(hourEvents') <= Len(hourEvents)
      /\ WindowKept(hourEvents', HourWindow)
    BY <1>1, <1>3, PrunedWindow, ConfigAssumption DEF Snapshot, Prune, Budgets
<1>6. Len(minuteEvents') <= MaxPerMinute /\ Len(hourEvents') <= MaxPerHour
    BY <1>3, <1>4, <1>5, ConfigAssumption
<1>7. PolicyTypeOK'
    BY <1>1, <1>2, <1>4, <1>5, <1>6 DEF PolicyTypeOK
<1>8. Budgets'
    BY <1>1, <1>2, <1>4, <1>5 DEF Budgets, WindowKept, MinuteBudget, HourBudget, AtMostPer
<1>9. Switches'
    BY <1>1, <1>2 DEF Switches, PromotionIsArmed, RevocationIsPermanent
<1>10. QED BY <1>7, <1>8, <1>9 DEF PolicyIInv, Switches, Budgets

(* Time only makes old grants older.                                       *)
LEMMA OlderWindow ==
    ASSUME NEW events \in Seq(Nat), NEW window \in Nat, PolicyTypeOK, WindowKept(events, window)
    PROVE  \A i \in 1..(Len(granted) - Len(events)) : granted[i].at <= (now + 1) - window
<1> TAKE i \in 1..(Len(granted) - Len(events))
<1>1. granted \in Seq(Granted) /\ now \in Nat /\ Len(granted) \in Nat /\ Len(events) \in Nat
    BY DEF PolicyTypeOK
<1>2. granted[i].at <= now - window
    BY DEF WindowKept
<1>3. granted[i].at \in Nat
  <2>1. i \in 1..Len(granted)
      BY <1>1
  <2>2. granted[i] \in Granted
      BY <1>1, <2>1
  <2>3. QED BY <2>2 DEF Granted
<1>4. QED BY <1>1, <1>2, <1>3

LEMMA TickIInv ==
    ASSUME PolicyIInv, Tick
    PROVE  PolicyIInv'
<1>1. PolicyTypeOK /\ Switches /\ Budgets
    BY DEF PolicyIInv, Switches, Budgets
<1>2. /\ now' = now + 1
      /\ UNCHANGED <<mode, liveCapability, promoted, killSwitch, liveDisabled,
                     consecutiveFailures, minuteEvents, hourEvents, lastDecision, granted>>
    BY DEF Tick, switches, windows
<1>3. now' \in Nat
    BY <1>1, <1>2 DEF PolicyTypeOK
<1>4. PolicyTypeOK'
    BY <1>1, <1>2, <1>3 DEF PolicyTypeOK
<1>5. Switches'
    BY <1>1, <1>2 DEF Switches, PromotionIsArmed, RevocationIsPermanent
<1>6. minuteEvents \in Seq(Nat) /\ hourEvents \in Seq(Nat)
    BY <1>1 DEF PolicyTypeOK
<1>7. WindowKept(minuteEvents, MinuteWindow)'
    BY <1>1, <1>2, <1>6, OlderWindow, ConfigAssumption DEF Budgets, WindowKept
<1>8. WindowKept(hourEvents, HourWindow)'
    BY <1>1, <1>2, <1>6, OlderWindow, ConfigAssumption DEF Budgets, WindowKept
<1>9. MinuteBudget' /\ HourBudget'
    BY <1>1, <1>2 DEF Budgets, MinuteBudget, HourBudget, AtMostPer
<1>10. QED BY <1>4, <1>5, <1>7, <1>8, <1>9 DEF PolicyIInv, Switches

(* What any user of the policy does to it: one of its methods, the clock,  *)
(* or nothing.  The bound on failures in a row is only the model's.        *)
PolicyStep ==
    \/ \E target \in Targets : Decide(target)
    \/ Promote \/ EngageKillSwitch \/ DisableLive \/ EnableLiveCapability
    \/ RecordFailure \/ RecordSuccess \/ Snapshot \/ Tick
    \/ UNCHANGED policyVars

LEMMA NextIsStep == [PolicyNext]_policyVars => PolicyStep
<1>1. QED BY DEF PolicyNext, PolicyStep

LEMMA PolicyStepIInv == PolicyIInv /\ PolicyStep => PolicyIInv'
<1> SUFFICES ASSUME PolicyIInv, PolicyStep PROVE PolicyIInv'
    OBVIOUS
<1>1. ASSUME NEW target \in Targets, Decide(target) PROVE PolicyIInv'
    BY <1>1, DecideIInv
<1>2. CASE Snapshot
    BY <1>2, SnapshotIInv
<1>3. CASE Tick
    BY <1>3, TickIInv
<1>4. CASE \/ Promote \/ EngageKillSwitch \/ DisableLive
           \/ EnableLiveCapability \/ RecordFailure \/ RecordSuccess
    BY <1>4, SwitchIInv
<1>5. CASE UNCHANGED policyVars
  <2>1. PolicyTypeOK /\ Switches /\ Budgets
      BY DEF PolicyIInv, Switches, Budgets
  <2>2. UNCHANGED <<mode, liveCapability, promoted, killSwitch, liveDisabled,
                    consecutiveFailures, minuteEvents, hourEvents, lastDecision, now, granted>>
      BY <1>5 DEF policyVars, switches, windows
  <2>3. PolicyTypeOK' /\ Switches'
      BY <2>1, <2>2 DEF PolicyTypeOK, Switches, PromotionIsArmed, RevocationIsPermanent
  <2>4. Budgets'
      BY <2>1, <2>2, BudgetsUntouched
  <2>5. QED BY <2>3, <2>4 DEF PolicyIInv, Switches, Budgets
<1>6. QED BY <1>1, <1>2, <1>3, <1>4, <1>5 DEF PolicyStep

(* The inductive invariant holds in every reachable state, whatever the    *)
(* limits, the windows, the targets and the bounds of the model.           *)
THEOREM PolicyInductive == PolicySpec => []PolicyIInv
<1>1. QED BY PolicyInitIInv, PolicyStepIInv, NextIsStep, PTL DEF PolicySpec

(* PolicyTypeOK for every configuration: in particular the deques of       *)
(* public_send.py never hold more instants than the configured budgets.    *)
THEOREM TypeCorrect == PolicySpec => []PolicyTypeOK
<1>1. PolicyIInv => PolicyTypeOK
    BY DEF PolicyIInv
<1>2. QED BY <1>1, PolicyInductive, PTL

(* The sliding budgets of decide(): no window of that width, wherever it   *)
(* is placed in the session, holds more sends and shadows than its limit.  *)
THEOREM BudgetsHold == PolicySpec => []BothBudgets
<1>1. PolicyIInv => BothBudgets
    BY DEF BothBudgets, PolicyIInv
<1>2. QED BY <1>1, PolicyInductive, PTL

(* promote() is the only way to live, and live never coexists with a       *)
(* revocation, a kill-switch, a missing capability or a streak of failures *)
(* at the threshold.                                                       *)
THEOREM PromotionArmed == PolicySpec => []PromotionIsArmed
<1>1. PolicyIInv => PromotionIsArmed
    BY DEF PolicyIInv
<1>2. QED BY <1>1, PolicyInductive, PTL

(* disable_live() is for the session.                                      *)
THEOREM RevocationPermanent == PolicySpec => []RevocationIsPermanent
<1>1. PolicyIInv => RevocationIsPermanent
    BY DEF PolicyIInv
<1>2. QED BY <1>1, PolicyInductive, PTL

-----------------------------------------------------------------------------
(* Refinement: the flags and the pruned deques do what the gate does.      *)

gateNow == IF liveDisabled THEN "disarmed" ELSE IF promoted THEN "live" ELSE "shadow"

(* A decision that is not a drop is a grant of the abstract gate: for real *)
(* only while live and to an allowed target, and with room in both windows *)
(* of the log.                                                             *)
LEMMA DecideGrants ==
    ASSUME PolicyIInv, NEW target \in Targets, Decide(target)
    PROVE  \/ \E action \in {"send", "shadow"} : Gate!Grant(action, target)
           \/ UNCHANGED Gate!gateVars
<1>1. PolicyTypeOK /\ Switches /\ Budgets
    BY DEF PolicyIInv, Switches, Budgets
<1>2. PICK minute \in Pruned(minuteEvents, now - MinuteWindow),
           hour \in Pruned(hourEvents, now - HourWindow) :
        /\ lastDecision' = DecisionFor(target, minute, hour)
        /\ \/ lastDecision'.action = "drop" /\ granted' = granted
           \/ /\ lastDecision'.action # "drop"
              /\ granted' = Append(granted, [at |-> now, action |-> lastDecision'.action,
                                             target |-> target])
    BY DEF Decide
<1>3. UNCHANGED <<mode, liveCapability, promoted, killSwitch, liveDisabled,
                  consecutiveFailures, now>>
    BY DEF Decide, switches
<1>4. /\ minuteEvents \in Seq(Nat) /\ hourEvents \in Seq(Nat) /\ mode \in Modes
    BY <1>1 DEF PolicyTypeOK
<1>5. minute \in Seq(Nat) /\ WindowKept(minute, MinuteWindow)
    BY <1>1, <1>4, PrunedWindow, ConfigAssumption DEF Budgets
<1>6. hour \in Seq(Nat) /\ WindowKept(hour, HourWindow)
    BY <1>1, <1>4, PrunedWindow, ConfigAssumption DEF Budgets
<1>7. CASE lastDecision'.action = "drop"
    BY <1>2, <1>3, <1>7 DEF Gate!gateVars
<1>8. CASE lastDecision'.action # "drop"
  <2>1. /\ lastDecision' = Intended(target)
        /\ lastDecision' \in SendDecision
        /\ ~(Len(minute) >= MaxPerMinute) /\ ~(Len(hour) >= MaxPerHour)
      BY <1>2, <1>4, <1>8, DecisionIsTyped
  <2>2. lastDecision'.action \in {"send", "shadow"}
      BY <1>8, <2>1 DEF SendDecision
  <2>3. lastDecision'.action = "send" <=> gateNow = "live"
      BY <1>1, <1>4, <1>8, <2>1
      DEF Intended, gateNow, Modes, Switches, PromotionIsArmed, RevocationIsPermanent
  <2>4. lastDecision'.action = "send" => target \in AllowedTargets
      BY <1>4, <2>1 DEF Intended, Modes
  <2>5. Len(minute) < MaxPerMinute /\ Len(hour) < MaxPerHour
      BY <1>5, <1>6, <2>1, ConfigAssumption
  <2>6. Len(granted) >= MaxPerMinute =>
            now - granted[Len(granted) + 1 - MaxPerMinute].at >= MinuteWindow
      BY <1>1, <1>5, <2>5, RoomInWindow, ConfigAssumption
  <2>7. Len(granted) >= MaxPerHour =>
            now - granted[Len(granted) + 1 - MaxPerHour].at >= HourWindow
      BY <1>1, <1>6, <2>5, RoomInWindow, ConfigAssumption
  <2>8. granted' = Append(granted, [at |-> now, action |-> lastDecision'.action,
                                    target |-> target])
      BY <1>2, <1>8
  <2>9. Gate!Grant(lastDecision'.action, target)
      BY <1>3, <2>3, <2>4, <2>6, <2>7, <2>8 DEF Gate!Grant, Gate!RoomIn, gateNow
  <2>10. QED BY <2>2, <2>9
<1>9. QED BY <1>7, <1>8

LEMMA StepImplementsGate ==
    ASSUME PolicyIInv, PolicyStep
    PROVE  [Gate!Next]_(Gate!gateVars)
<1>1. PolicyTypeOK /\ Switches
    BY DEF PolicyIInv, Switches
<1> USE DEF Gate!Next, Gate!gateVars
<1>2. ASSUME NEW target \in Targets, Decide(target)
      PROVE  [Gate!Next]_(Gate!gateVars)
    BY <1>2, DecideGrants
<1>3. CASE Promote
    BY <1>3 DEF Promote, PromoteAccepted, Gate!Open
<1>4. CASE EngageKillSwitch
    BY <1>4 DEF EngageKillSwitch, Gate!Close
<1>5. CASE DisableLive
    BY <1>5 DEF DisableLive, Gate!Disarm
<1>6. CASE EnableLiveCapability
    BY <1>6 DEF EnableLiveCapability
<1>7. CASE RecordFailure
  <2>1. promoted => ~liveDisabled
      BY <1>1 DEF Switches, PromotionIsArmed
  <2>2. CASE consecutiveFailures' >= FailureThreshold
      BY <1>7, <2>1, <2>2 DEF RecordFailure, Gate!Fail
  <2>3. CASE ~(consecutiveFailures' >= FailureThreshold)
      BY <1>7, <2>3 DEF RecordFailure, Gate!Fail
  <2>4. QED BY <2>2, <2>3
<1>8. CASE RecordSuccess
    BY <1>8 DEF RecordSuccess, switches, Gate!Succeed
<1>9. CASE Snapshot
    BY <1>9 DEF Snapshot, switches
<1>10. CASE Tick
  <2>1. now' > now
      BY <1>1, <1>10 DEF Tick, PolicyTypeOK
  <2>2. QED BY <1>10, <2>1 DEF Tick, switches, Gate!Tick
<1>11. CASE UNCHANGED policyVars
    BY <1>11 DEF policyVars, switches
<1>12. QED
    BY <1>2, <1>3, <1>4, <1>5, <1>6, <1>7, <1>8, <1>9, <1>10, <1>11 DEF PolicyStep

LEMMA InitImplementsGate == PolicyInit => Gate!Init
<1>1. QED BY DEF PolicyInit, Gate!Init

(* public_send.py implements the gate the operator is promised: sends are  *)
(* granted only between a promotion and its withdrawal, only to allowed    *)
(* targets, within both sliding budgets; the failure that reaches the      *)
(* threshold and every revocation close it in the same step.               *)
THEOREM PolicyImplementsGate == PolicySpec => ImplementsGate
<1>1. PolicyInit => Gate!Init
    BY InitImplementsGate
<1>2. PolicyIInv /\ [PolicyNext]_policyVars => [Gate!Next]_(Gate!gateVars)
    BY StepImplementsGate, NextIsStep
<1>3. QED BY <1>1, <1>2, PolicyInductive, PTL DEF PolicySpec, ImplementsGate, Gate!Spec

-----------------------------------------------------------------------------
HoldingSteps == {"decided", "failing", "disarming", "degrading"}

(* Between two of its steps, a runner that may not be interrupted has the  *)
(* loop, and before the run starts nobody has begun a turn.                *)
LoopDiscipline ==
    /\ pc \in [Runners -> Steps]
    /\ \A r \in Runners : pc[r] \in HoldingSteps => held = r
    /\ phase = "starting" => \A r \in Runners : pc[r] = "idle"

(* A decision to send that still has to be carried out was taken in a      *)
(* session that is not disarmed, and it is the only one there will be      *)
(* until the next promotion.                                               *)
StragglersKept ==
    /\ stragglers \in {0, 1}
    /\ promoted => stragglers = 0
    /\ \A r \in Runners : pc[r] = "decided" => stragglers = 0 /\ ~liveDisabled

IInv == LoopDiscipline /\ StragglersKept

(* The mode is one of the three the configuration knows.                   *)
KnownMode == mode \in Modes

-----------------------------------------------------------------------------
LEMMA InitIInv == Init => IInv
<1>1. Init => LoopDiscipline
    BY DEF Init, LoopDiscipline, HoldingSteps, Steps, Runners
<1>2. Init => StragglersKept
    BY DEF Init, StragglersKept, Runners, PolicyInit
<1>3. QED BY <1>1, <1>2 DEF IInv

(* Nobody who may not be interrupted is there while the loop is free.      *)
LEMMA FreeLoop ==
    ASSUME LoopDiscipline, held = "free"
    PROVE  \A r \in Runners : pc[r] \notin HoldingSteps
<1>1. QED BY DEF LoopDiscipline, Runners

(* The runner that holds the loop is the only one that may not be          *)
(* interrupted.                                                            *)
LEMMA OneHolder ==
    ASSUME LoopDiscipline, NEW r \in Runners, pc[r] \in HoldingSteps
    PROVE  /\ phase # "starting"
           /\ \A s \in Runners : s # r => pc[s] \notin HoldingSteps
<1>1. QED BY DEF LoopDiscipline, HoldingSteps

(* The parts of the invariant read only these variables.                   *)
LEMMA Untouched ==
    ASSUME IInv, UNCHANGED <<pc, held, stragglers, liveDisabled>>,
           promoted' => promoted,
           phase' = "starting" => phase = "starting"
    PROVE  IInv'
<1>1. QED BY DEF IInv, LoopDiscipline, StragglersKept

(* The steps that begin nothing and end no critical section: the promotion *)
(* can only be lost, the revocation only comes while the loop is free.     *)
LEMMA QuietStep ==
    ASSUME IInv, held = "free", held' = "free",
           UNCHANGED stragglers,
           promoted' => promoted,
           phase' # "starting",
           pc' \in [Runners -> Steps],
           \A r \in Runners : pc'[r] \in HoldingSteps => pc[r] \in HoldingSteps
    PROVE  IInv'
<1>1. \A r \in Runners : pc'[r] \notin HoldingSteps
    BY FreeLoop DEF IInv
<1>2. LoopDiscipline'
    BY <1>1 DEF LoopDiscipline
<1>3. StragglersKept'
    BY <1>1 DEF StragglersKept, IInv, HoldingSteps
<1>4. QED BY <1>2, <1>3 DEF IInv

LEMMA StartRunIInv ==
    ASSUME IInv, StartRun
    PROVE  IInv'
<1>1. \A r \in Runners : pc[r] = "idle"
    BY DEF StartRun, IInv, LoopDiscipline
<1>2. pc' = pc /\ stragglers' = stragglers /\ phase' # "starting" /\ held' = held
    BY DEF StartRun
<1>3. promoted' => promoted
    BY DEF StartRun, policyVars, switches, windows, DisableLive, EnableLiveCapability
<1>4. LoopDiscipline'
    BY <1>1, <1>2 DEF IInv, LoopDiscipline, HoldingSteps
<1>5. StragglersKept'
    BY <1>1, <1>2, <1>3 DEF IInv, StragglersKept
<1>6. QED BY <1>4, <1>5 DEF IInv

(* A decision to send is taken only while the policy is promoted and not   *)
(* disarmed.                                                               *)
LEMMA SendIsPromoted ==
    ASSUME KnownMode, Decide(Channel), lastDecision'.action = "send"
    PROVE  promoted /\ ~liveDisabled
<1>1. PICK minute \in Pruned(minuteEvents, now - MinuteWindow),
           hour \in Pruned(hourEvents, now - HourWindow) :
        lastDecision' = DecisionFor(Channel, minute, hour)
    BY DEF Decide
<1>2. Intended(Channel).action = "send"
    BY <1>1 DEF DecisionFor
<1>3. QED BY <1>2 DEF KnownMode, Modes, Intended

LEMMA DecideTurnIInv ==
    ASSUME IInv, KnownMode, NEW r \in Runners, DecideTurn(r)
    PROVE  IInv'
<1>1. /\ UNCHANGED <<promoted, liveDisabled, stragglers, phase>>
      /\ pc[r] = "composing" /\ held = "free"
    BY DEF DecideTurn, Decide, switches
<1>2. \A s \in Runners : pc[s] \notin HoldingSteps
    BY <1>1, FreeLoop DEF IInv
<1>3. phase # "starting"
    BY <1>1 DEF IInv, LoopDiscipline
<1>4. CASE lastDecision'.action = "send" /\ SenderPresent
  <2>1. pc' = [pc EXCEPT ![r] = "decided"] /\ held' = r
      BY <1>4 DEF DecideTurn
  <2>2. promoted /\ ~liveDisabled
      BY <1>4, SendIsPromoted DEF DecideTurn
  <2>3. LoopDiscipline'
      BY <1>1, <1>2, <1>3, <2>1 DEF IInv, LoopDiscipline, Steps
  <2>4. StragglersKept'
      BY <1>1, <1>2, <2>1, <2>2 DEF IInv, LoopDiscipline, StragglersKept, HoldingSteps
  <2>5. QED BY <2>3, <2>4 DEF IInv
<1>5. CASE ~(lastDecision'.action = "send" /\ SenderPresent)
  <2>1. pc' = [pc EXCEPT ![r] = "idle"] /\ held' = held
      BY <1>5 DEF DecideTurn
  <2>2. pc' \in [Runners -> Steps]
      BY <2>1 DEF IInv, LoopDiscipline, Steps
  <2>3. \A s \in Runners : pc'[s] \in HoldingSteps => pc[s] \in HoldingSteps
      BY <2>1 DEF IInv, LoopDiscipline, HoldingSteps
  <2>4. QED BY <1>1, <1>3, <2>1, <2>2, <2>3, QuietStep
<1>6. QED BY <1>4, <1>5

LEMMA BeginSendIInv ==
    ASSUME IInv, NEW r \in Runners, BeginSend(r)
    PROVE  IInv'
<1>1. /\ UNCHANGED <<promoted, liveDisabled, phase>>
      /\ pc[r] = "decided"
    BY DEF BeginSend, policyVars, switches, windows
<1>2. /\ phase # "starting"
      /\ \A s \in Runners : s # r => pc[s] \notin HoldingSteps
    BY <1>1, OneHolder DEF IInv, HoldingSteps
<1>3. stragglers = 0 /\ held = r
    BY <1>1 DEF IInv, LoopDiscipline, StragglersKept, HoldingSteps
<1>4. CASE pc' = [pc EXCEPT ![r] = "sending"]
  <2>1. \A s \in Runners : pc'[s] \notin HoldingSteps
      BY <1>2, <1>4 DEF IInv, LoopDiscipline, HoldingSteps
  <2>2. stragglers' = IF promoted THEN 0 ELSE stragglers + 1
      BY <1>4 DEF BeginSend, IInv, LoopDiscipline
  <2>3. LoopDiscipline'
      BY <1>1, <1>2, <1>4, <2>1 DEF IInv, LoopDiscipline, Steps
  <2>4. StragglersKept'
      BY <1>1, <1>3, <2>1, <2>2 DEF StragglersKept, HoldingSteps
  <2>5. QED BY <2>3, <2>4 DEF IInv
<1>5. CASE pc' = [pc EXCEPT ![r] = "failing"]
  <2>1. held' = held /\ stragglers' = stragglers
      BY <1>5 DEF BeginSend, IInv, LoopDiscipline
  <2>2. LoopDiscipline'
      BY <1>1, <1>2, <1>3, <1>5, <2>1 DEF IInv, LoopDiscipline, Steps
  <2>3. StragglersKept'
      BY <1>1, <1>2, <1>3, <1>5, <2>1 DEF IInv, LoopDiscipline, StragglersKept, HoldingSteps
  <2>4. QED BY <2>2, <2>3 DEF IInv
<1>6. QED BY <1>4, <1>5 DEF BeginSend

(* The sender raised: the loop is taken for the handling of the failure.   *)
LEMMA SendRaisesIInv ==
    ASSUME IInv, NEW r \in Runners, SendRaises(r)
    PROVE  IInv'
<1>1. /\ held = "free" /\ held' = r /\ pc[r] = "sending"
      /\ UNCHANGED <<phase, stragglers>>
      /\ promoted' => promoted
    BY DEF SendRaises, policyVars, switches, windows, DisableLive
<1>2. \A s \in Runners : pc[s] \notin HoldingSteps
    BY <1>1, FreeLoop DEF IInv
<1>3. \/ pc' = [pc EXCEPT ![r] = "failing"]
      \/ pc' = [pc EXCEPT ![r] = "disarming"]
    BY DEF SendRaises
<1>4. phase # "starting"
    BY <1>1 DEF IInv, LoopDiscipline
<1>5. LoopDiscipline'
    BY <1>1, <1>2, <1>3, <1>4 DEF IInv, LoopDiscipline, Steps
<1>6. StragglersKept'
    BY <1>1, <1>2, <1>3 DEF IInv, LoopDiscipline, StragglersKept, HoldingSteps
<1>7. QED BY <1>5, <1>6 DEF IInv

(* The handling of a failure ends, or goes from one of its steps to the    *)
(* next: only the runner that holds the loop moves.                        *)
LEMMA FailureIInv ==
    ASSUME IInv, NEW r \in Runners,
           RecordFailedTurn(r) \/ EndFailedTurn(r) \/ EndDisarmedTurn(r)
    PROVE  IInv'
<1>1. /\ pc[r] \in HoldingSteps /\ pc[r] # "decided"
      /\ UNCHANGED <<phase, stragglers, liveDisabled>>
      /\ promoted' => promoted
    BY DEF RecordFailedTurn, EndFailedTurn, EndDisarmedTurn, HoldingSteps, RecordFailure,
           Snapshot, switches
<1>2. /\ phase # "starting"
      /\ \A s \in Runners : s # r => pc[s] \notin HoldingSteps
    BY <1>1, OneHolder DEF IInv
<1>3. held = r
    BY <1>1 DEF IInv, LoopDiscipline
<1>4. \/ pc' = [pc EXCEPT ![r] = "degrading"] /\ held' = held
      \/ pc' = [pc EXCEPT ![r] = "idle"]
    BY DEF RecordFailedTurn, EndFailedTurn, EndDisarmedTurn
<1>5. LoopDiscipline'
    BY <1>1, <1>2, <1>3, <1>4 DEF IInv, LoopDiscipline, Steps, HoldingSteps
<1>6. StragglersKept'
    BY <1>1, <1>2, <1>4 DEF IInv, LoopDiscipline, StragglersKept, HoldingSteps
<1>7. QED BY <1>5, <1>6 DEF IInv

(* Everything else a runner does while the loop is free.                   *)
LEMMA OtherTurnIInv ==
    ASSUME IInv, NEW r \in Runners, StartTurn(r) \/ SkipTurn(r) \/ SendReturns(r)
    PROVE  IInv'
<1>1. /\ held = "free" /\ held' = "free" /\ UNCHANGED <<stragglers, phase, promoted>>
      /\ pc[r] # "idle" \/ phase # "starting"
    BY DEF StartTurn, SkipTurn, SendReturns, MayRun, policyVars, switches, windows, RecordSuccess,
           switches
<1>2. phase # "starting"
    BY <1>1 DEF IInv, LoopDiscipline
<1>3. \/ pc' = [pc EXCEPT ![r] = "composing"]
      \/ pc' = [pc EXCEPT ![r] = "idle"]
    BY DEF StartTurn, SkipTurn, SendReturns
<1>4. pc' \in [Runners -> Steps]
    BY <1>3 DEF IInv, LoopDiscipline, Steps
<1>5. \A s \in Runners : pc'[s] \in HoldingSteps => pc[s] \in HoldingSteps
    BY <1>3 DEF IInv, LoopDiscipline, HoldingSteps
<1>6. QED BY <1>1, <1>2, <1>4, <1>5, QuietStep

(* The run goes from one phase to the next, or its loop task breaks.       *)
LEMMA RunIInv ==
    ASSUME IInv, DrainRun \/ StopRun \/ SendBreaks
    PROVE  IInv'
<1>1. /\ held = "free" /\ held' = "free" /\ UNCHANGED <<stragglers, promoted>>
      /\ phase \in {"running", "draining"} \/ pc["loop"] = "sending"
      /\ phase' # "starting" \/ phase' = phase
    BY DEF DrainRun, StopRun, SendBreaks, policyVars, switches, windows
<1>2. phase' # "starting"
    BY <1>1 DEF IInv, LoopDiscipline, Runners
<1>3. \/ pc' = pc
      \/ pc' = [r \in Runners |-> "gone"]
      \/ pc' = [pc EXCEPT !["loop"] = "gone"]
    BY DEF DrainRun, StopRun, SendBreaks
<1>4. pc' \in [Runners -> Steps]
    BY <1>3 DEF IInv, LoopDiscipline, Steps
<1>5. \A s \in Runners : pc'[s] \in HoldingSteps => pc[s] \in HoldingSteps
    BY <1>3 DEF IInv, LoopDiscipline, HoldingSteps
<1>6. QED BY <1>1, <1>2, <1>4, <1>5, QuietStep

(* The operator's thread and the guard: a promotion forgets the stragglers *)
(* of the one before, a kill comes at any moment, a revocation only while  *)
(* the loop is free.                                                       *)
LEMMA OutsideIInv ==
    ASSUME IInv, OperatorPromotes \/ OperatorKills \/ GuardDisarms \/ ClockTicks
    PROVE  IInv'
<1>1. CASE OperatorPromotes
  <2>1. /\ UNCHANGED <<phase, pc, held, liveDisabled>>
        /\ stragglers' = 0
      BY <1>1 DEF OperatorPromotes, Promote
  <2>2. QED BY <2>1 DEF IInv, LoopDiscipline, StragglersKept
<1>2. CASE OperatorKills \/ ClockTicks
  <2>1. /\ UNCHANGED <<phase, pc, held, stragglers, liveDisabled>>
        /\ promoted' => promoted
      BY <1>2 DEF OperatorKills, ClockTicks, runVars, EngageKillSwitch, Tick,
                  switches
  <2>2. QED BY <2>1, Untouched
<1>3. CASE GuardDisarms
  <2>1. /\ held = "free" /\ UNCHANGED <<phase, pc, held, stragglers>> /\ phase # "starting"
        /\ promoted' => promoted
      BY <1>3 DEF GuardDisarms, runVars, DisableLive
  <2>2. pc' \in [Runners -> Steps]
      BY <2>1 DEF IInv, LoopDiscipline
  <2>3. QED BY <2>1, <2>2, QuietStep
<1>4. QED BY <1>1, <1>2, <1>3

(* The mode is chosen at construction: no step changes it.                 *)
LEMMA ModeIsFixed == [Next]_vars => mode' = mode
<1>1. ASSUME NEW r \in Runners, RunnerStep(r) PROVE mode' = mode
    BY <1>1 DEF RunnerStep, StartTurn, SkipTurn, DecideTurn, BeginSend, SendReturns, SendRaises,
       RecordFailedTurn, EndFailedTurn, EndDisarmedTurn, policyVars, switches, windows, Decide,
       RecordSuccess, RecordFailure, DisableLive, Snapshot
<1>2. QED BY <1>1 DEF Next, vars, policyVars, switches, windows, StartRun, DrainRun, StopRun, SendBreaks,
         OperatorPromotes, OperatorKills, GuardDisarms, ClockTicks, DisableLive,
         EnableLiveCapability, Promote, EngageKillSwitch, Tick

LEMMA NextIInv == IInv /\ KnownMode /\ [Next]_vars => IInv'
<1> SUFFICES ASSUME IInv, KnownMode, [Next]_vars PROVE IInv'
    OBVIOUS
<1>1. CASE StartRun
    BY <1>1, StartRunIInv
<1>2. CASE DrainRun \/ StopRun \/ SendBreaks
    BY <1>2, RunIInv
<1>3. ASSUME NEW r \in Runners, RunnerStep(r) PROVE IInv'
    BY <1>3, DecideTurnIInv, BeginSendIInv, SendRaisesIInv, FailureIInv, OtherTurnIInv
       DEF RunnerStep
<1>4. CASE OperatorPromotes \/ OperatorKills \/ GuardDisarms \/ ClockTicks
    BY <1>4, OutsideIInv
<1>5. CASE UNCHANGED vars
    BY <1>5, Untouched DEF vars, runVars, policyVars, switches, windows
<1>6. QED BY <1>1, <1>2, <1>3, <1>4, <1>5 DEF Next

(* The strengthening holds in every reachable state of the output path.    *)
THEOREM Inductive == Spec => []IInv
<1>1. Init => KnownMode
    BY DEF Init, KnownMode, PolicyInit
<1>2. KnownMode /\ [Next]_vars => KnownMode'
    BY ModeIsFixed DEF KnownMode
<1>3. QED BY <1>1, <1>2, InitIInv, NextIInv, PTL DEF Spec

-----------------------------------------------------------------------------
(* After the operator's kill, or the automatic one, at most one more       *)
(* message begins: the one whose decision the loop had just taken.         *)
THEOREM OneStraggler == Spec => []OneStragglerAtMost
<1>1. IInv => OneStragglerAtMost
    BY DEF IInv, StragglersKept, OneStragglerAtMost
<1>2. QED BY <1>1, Inductive, PTL

(* No message begins in a session whose capability was revoked.            *)
THEOREM NoneDisarmed == Spec => NoSendBeginsDisarmed
<1>1. ASSUME IInv, Next, NEW r \in Runners, pc[r] # "sending", pc'[r] = "sending"
      PROVE  ~liveDisabled
  <2>1. ASSUME NEW s \in Runners, RunnerStep(s) PROVE pc[r] = "decided"
      BY <1>1, <2>1 DEF RunnerStep, StartTurn, SkipTurn, DecideTurn, BeginSend, SendReturns,
         SendRaises, RecordFailedTurn, EndFailedTurn, EndDisarmedTurn, IInv, LoopDiscipline
  <2>2. \E s \in Runners : RunnerStep(s)
      BY <1>1 DEF Next, StartRun, DrainRun, StopRun, SendBreaks, OperatorPromotes, OperatorKills,
         GuardDisarms, ClockTicks, runVars, IInv, LoopDiscipline
  <2>3. QED BY <1>1, <2>1, <2>2 DEF IInv, StragglersKept
<1>2. IInv /\ [Next]_vars =>
        [\A r \in Runners : pc[r] # "sending" /\ pc'[r] = "sending" => ~liveDisabled]_vars
    BY <1>1
<1>3. QED BY <1>2, Inductive, PTL DEF Spec, NoSendBeginsDisarmed

-----------------------------------------------------------------------------
(* What a turn is told at its end is what its own decision was, as long as *)
(* nobody else has asked the router in between.  Before the source ends    *)
(* the final tick has not begun, so that the router's last decision is the *)
(* one of the turn that is in it.                                          *)
InRouter == {"decided", "sending", "failing", "disarming", "degrading"}

ToldRight(told) ==
    /\ told.outcome = "delivered" => told.marker = "SENT" /\ told.noted
    /\ told.decided = "shadow" => told.marker = "SHADOW"
    /\ told.decided = "drop" => told.marker = "none" /\ ~told.noted

RouterIsTheLoops ==
    /\ pc \in [Runners -> Steps]
    /\ DOMAIN verdict = Runners
    /\ phase \in {"starting", "running"} =>
        /\ pc["final"] = "idle"
        /\ pc["loop"] \in InRouter => routerLast.action = "send" /\ verdict["loop"].action = "send"
        /\ ToldRight(lastTurn)

(* What the wrapper and the Reactor read in the router at the end of a     *)
(* turn that the router's last decision was taken for.                     *)
LEMMA EndTurnTells ==
    ASSUME NEW r \in Runners, NEW last, NEW outcome \in {"none", "delivered", "failed"},
           EndTurn(r, last, outcome),
           verdict'[r].action = last.action,
           outcome = "delivered" => last.action = "send"
    PROVE  ToldRight(lastTurn')
<1>1. /\ lastTurn'.decided = last.action
      /\ lastTurn'.outcome = outcome
      /\ lastTurn'.marker = CASE last.action = "send" -> "SENT"
                              [] last.action = "shadow" -> "SHADOW"
                              [] OTHER -> "none"
      /\ lastTurn'.noted = (last.action # "drop")
    BY DEF EndTurn
<1>2. CASE last.action = "send"
    BY <1>1, <1>2 DEF ToldRight
<1>3. CASE last.action # "send"
    BY <1>1, <1>3 DEF ToldRight
<1>4. QED BY <1>2, <1>3

LEMMA DecideTurnTells ==
    ASSUME RouterIsTheLoops, NEW r \in Runners, DecideTurn(r), phase = "running"
    PROVE  RouterIsTheLoops'
<1>1. /\ pc[r] = "composing"
      /\ phase' = phase
      /\ routerLast' = lastDecision'
      /\ verdict' = [verdict EXCEPT ![r] = lastDecision']
    BY DEF DecideTurn
<1>2. r = "loop" /\ pc["final"] = "idle"
    BY <1>1 DEF RouterIsTheLoops, Runners
<1>3. DOMAIN verdict' = Runners /\ verdict'["loop"] = lastDecision'
    BY <1>1, <1>2 DEF RouterIsTheLoops
<1>4. CASE lastDecision'.action = "send" /\ SenderPresent
  <2>1. pc' = [pc EXCEPT !["loop"] = "decided"] /\ UNCHANGED lastTurn
      BY <1>2, <1>4 DEF DecideTurn
  <2>2. QED BY <1>1, <1>2, <1>3, <1>4, <2>1 DEF RouterIsTheLoops, Steps, ToldRight
<1>5. CASE ~(lastDecision'.action = "send" /\ SenderPresent)
  <2>1. pc' = [pc EXCEPT !["loop"] = "idle"] /\ EndTurn("loop", routerLast', "none")
      BY <1>2, <1>5 DEF DecideTurn
  <2>2. ToldRight(lastTurn')
      BY <1>1, <1>2, <1>3, <2>1, EndTurnTells
  <2>3. QED BY <1>1, <1>2, <1>3, <2>1, <2>2 DEF RouterIsTheLoops, Steps, InRouter
<1>6. QED BY <1>4, <1>5

(* A turn that was in the router ends.                                     *)
LEMMA TurnEndTells ==
    ASSUME RouterIsTheLoops, NEW r \in Runners, phase = "running",
           SendReturns(r) \/ EndFailedTurn(r) \/ EndDisarmedTurn(r)
    PROVE  RouterIsTheLoops'
<1>1. /\ pc[r] \in InRouter
      /\ UNCHANGED <<phase, routerLast, verdict>>
      /\ pc' = [pc EXCEPT ![r] = "idle"]
    BY DEF SendReturns, EndFailedTurn, EndDisarmedTurn, InRouter
<1>2. r = "loop"
    BY <1>1 DEF RouterIsTheLoops, Runners, InRouter
<1>3. routerLast.action = "send" /\ verdict'["loop"].action = "send"
    BY <1>1, <1>2 DEF RouterIsTheLoops
<1>4. \E outcome \in {"delivered", "failed"} : EndTurn(r, routerLast, outcome)
    BY DEF SendReturns, EndFailedTurn, EndDisarmedTurn
<1>5. ToldRight(lastTurn')
    BY <1>2, <1>3, <1>4, EndTurnTells
<1>6. QED BY <1>1, <1>2, <1>5 DEF RouterIsTheLoops, Steps, InRouter

LEMMA RunnerTells ==
    ASSUME RouterIsTheLoops, LoopDiscipline, NEW r \in Runners, RunnerStep(r)
    PROVE  RouterIsTheLoops'
<1>1. DOMAIN verdict' = Runners
    BY DEF RouterIsTheLoops, RunnerStep, StartTurn, SkipTurn, DecideTurn, BeginSend, SendReturns,
       SendRaises, RecordFailedTurn, EndFailedTurn, EndDisarmedTurn
<1>2. pc' \in [Runners -> Steps]
    BY DEF RouterIsTheLoops, Steps, RunnerStep, StartTurn, SkipTurn, DecideTurn, BeginSend,
       SendReturns, SendRaises, RecordFailedTurn, EndFailedTurn, EndDisarmedTurn
<1>3. phase' = phase
    BY DEF RunnerStep, StartTurn, SkipTurn, DecideTurn, BeginSend, SendReturns, SendRaises,
       RecordFailedTurn, EndFailedTurn, EndDisarmedTurn
<1>4. phase # "starting"
    BY DEF LoopDiscipline, RunnerStep, MayRun, StartTurn, SkipTurn, DecideTurn, BeginSend,
       SendReturns, SendRaises, RecordFailedTurn, EndFailedTurn, EndDisarmedTurn
<1>5. CASE phase = "running"
  <2>1. CASE DecideTurn(r)
      BY <1>5, <2>1, DecideTurnTells
  <2>2. CASE SendReturns(r) \/ EndFailedTurn(r) \/ EndDisarmedTurn(r)
      BY <1>5, <2>2, TurnEndTells
  <2>3. CASE StartTurn(r) \/ SkipTurn(r)
    <3>1. UNCHANGED <<routerLast, verdict, lastTurn>>
        BY <2>3 DEF StartTurn, SkipTurn
    <3>2. pc' = [pc EXCEPT ![r] = "composing"] \/ pc' = [pc EXCEPT ![r] = "idle"]
        BY <2>3 DEF StartTurn, SkipTurn
    <3>3. r = "loop"
        BY <1>5, <2>3 DEF StartTurn, SkipTurn, MayRun, RouterIsTheLoops, Runners
    <3>4. pc'["final"] = "idle" /\ pc'["loop"] \notin InRouter
        BY <1>5, <3>2, <3>3 DEF RouterIsTheLoops, Runners, InRouter
    <3>5. QED BY <1>1, <1>2, <1>3, <1>5, <3>1, <3>4 DEF RouterIsTheLoops, ToldRight
  <2>4. CASE BeginSend(r) \/ SendRaises(r) \/ RecordFailedTurn(r)
    <3>1. UNCHANGED <<routerLast, verdict, lastTurn>> /\ pc[r] \in InRouter
        BY <2>4 DEF BeginSend, SendRaises, RecordFailedTurn, InRouter
    <3>2. r = "loop"
        BY <1>5, <3>1 DEF RouterIsTheLoops, Runners, InRouter
    <3>3. pc'["final"] = pc["final"]
        BY <2>4, <3>2 DEF BeginSend, SendRaises, RecordFailedTurn, RouterIsTheLoops, Runners
    <3>4. QED BY <1>1, <1>2, <1>3, <1>5, <3>1, <3>2, <3>3 DEF RouterIsTheLoops, ToldRight
  <2>5. QED BY <2>1, <2>2, <2>3, <2>4 DEF RunnerStep
<1>6. CASE phase # "running"
    BY <1>1, <1>2, <1>3, <1>4, <1>6 DEF RouterIsTheLoops
<1>7. QED BY <1>5, <1>6

LEMMA NextTells ==
    ASSUME RouterIsTheLoops, LoopDiscipline, [Next]_vars
    PROVE  RouterIsTheLoops'
<1>1. CASE StartRun
  <2>1. /\ UNCHANGED <<pc, routerLast, verdict, lastTurn>>
        /\ phase = "starting"
      BY <1>1 DEF StartRun
  <2>2. QED BY <2>1 DEF RouterIsTheLoops, ToldRight
<1>2. CASE DrainRun \/ StopRun
    BY <1>2 DEF DrainRun, StopRun, RouterIsTheLoops, Steps
<1>3. CASE SendBreaks
  <2>1. /\ UNCHANGED <<phase, routerLast, verdict, lastTurn>>
        /\ pc' = [pc EXCEPT !["loop"] = "gone"]
      BY <1>3 DEF SendBreaks
  <2>2. QED BY <2>1 DEF RouterIsTheLoops, Runners, Steps, InRouter, ToldRight
<1>4. ASSUME NEW r \in Runners, RunnerStep(r) PROVE RouterIsTheLoops'
    BY <1>4, RunnerTells
<1>5. CASE OperatorPromotes \/ OperatorKills \/ GuardDisarms \/ ClockTicks \/ UNCHANGED vars
  <2>1. UNCHANGED <<phase, pc, routerLast, verdict, lastTurn>>
      BY <1>5 DEF OperatorPromotes, OperatorKills, GuardDisarms, ClockTicks, runVars, vars
  <2>2. QED BY <2>1 DEF RouterIsTheLoops, ToldRight
<1>6. QED BY <1>1, <1>2, <1>3, <1>4, <1>5 DEF Next

(* Until the source has ended, a delivered message is marked as sent and   *)
(* remembered, and a rehearsal or a drop is never shown as a message that  *)
(* went out, although marker and memory read a field that both runners     *)
(* share and not the turn's own decision.                                  *)
THEOREM MarkersAreTheTurns == Spec => []MarkersFollowTheTurn
<1>1. Init => RouterIsTheLoops
    BY DEF Init, RouterIsTheLoops, Runners, Steps, InRouter, NoTurn, ToldRight
<1>2. IInv => LoopDiscipline
    BY DEF IInv
<1>3. RouterIsTheLoops => MarkersFollowTheTurn
    BY DEF RouterIsTheLoops, MarkersFollowTheTurn, ToldRight
<1>4. QED BY <1>1, <1>2, <1>3, NextTells, Inductive, PTL DEF Spec

-----------------------------------------------------------------------------
(* The run is one more user of the policy: whatever the router, the        *)
(* commands, the guard and the failures do, in any order and with any      *)
(* await between them, is one method of the policy at a time.              *)
LEMMA StepOfPolicy == [Next]_vars => PolicyStep
<1>1. ASSUME NEW r \in Runners, RunnerStep(r) PROVE PolicyStep
  <2>1. CASE DecideTurn(r)
      BY <2>1, ChannelAssumption DEF DecideTurn, PolicyStep
  <2>2. CASE StartTurn(r) \/ SkipTurn(r) \/ BeginSend(r)
      BY <2>2 DEF StartTurn, SkipTurn, BeginSend, PolicyStep
  <2>3. CASE SendReturns(r) \/ SendRaises(r)
      BY <2>3 DEF SendReturns, SendRaises, PolicyStep
  <2>4. CASE RecordFailedTurn(r) \/ EndFailedTurn(r) \/ EndDisarmedTurn(r)
      BY <2>4 DEF RecordFailedTurn, EndFailedTurn, EndDisarmedTurn, PolicyStep
  <2>5. QED BY <1>1, <2>1, <2>2, <2>3, <2>4 DEF RunnerStep
<1>2. CASE StartRun \/ DrainRun \/ StopRun \/ SendBreaks
    BY <1>2 DEF StartRun, DrainRun, StopRun, SendBreaks, PolicyStep
<1>3. CASE OperatorPromotes \/ OperatorKills \/ GuardDisarms \/ ClockTicks
    BY <1>3 DEF OperatorPromotes, OperatorKills, GuardDisarms, ClockTicks, PolicyStep
<1>4. CASE UNCHANGED vars
    BY <1>4 DEF vars, PolicyStep
<1>5. QED BY <1>1, <1>2, <1>3, <1>4 DEF Next

LEMMA RunKeepsPolicy == Spec => []PolicyIInv
<1>1. Init => PolicyIInv
    BY PolicyInitIInv DEF Init
<1>2. PolicyIInv /\ [Next]_vars => PolicyIInv'
    BY StepOfPolicy, PolicyStepIInv
<1>3. QED BY <1>1, <1>2, PTL DEF Spec

(* What the policy promises holds in a run: the threads and awaits around  *)
(* it neither spend more than its budgets, nor leave it live unarmed, nor  *)
(* undo a revocation.                                                      *)
THEOREM PolicyIsKept == Spec => [](BothBudgets /\ PromotionIsArmed /\ RevocationIsPermanent)
<1>1. PolicyIInv => BothBudgets /\ PromotionIsArmed /\ RevocationIsPermanent
    BY DEF PolicyIInv, BothBudgets
<1>2. QED BY <1>1, RunKeepsPolicy, PTL

(* The output path implements the gate: every message that goes out, and   *)
(* every rehearsal, is a grant of it, and each failure, command and        *)
(* revocation moves it as the policy alone would.                          *)
THEOREM OutputImplementsGate == Spec => ImplementsGate
<1>1. Init => Gate!Init
    BY InitImplementsGate DEF Init
<1>2. PolicyIInv /\ [Next]_vars => [Gate!Next]_(Gate!gateVars)
    BY StepOfPolicy, StepImplementsGate
<1>3. QED BY <1>1, <1>2, RunKeepsPolicy, PTL DEF Spec, ImplementsGate, Gate!Spec

-----------------------------------------------------------------------------
(* RunReplay.  That a promotion takes two presses is not inductive: the    *)
(* second press is told from the first by the instant that the first one   *)
(* has left, and a kill forgets that instant only after it has been        *)
(* recorded.  What saves it is that no key is taken in between.            *)

(* An instant that the next press may still be compared with was left by a *)
(* press that no kill came after.                                          *)
PressesKept ==
    /\ presses \in 0..2
    /\ promoted => presses = 2
    /\ up /\ command # "kill_switch" /\ pressedAt # NotPressed => presses >= 1

-----------------------------------------------------------------------------
(* The turns of the Reactor leave the keys alone, and none of them         *)
(* promotes.                                                               *)
LEMMA TurnsKeepPresses ==
    ASSUME PressesKept, UNCHANGED keyVars, promoted' => promoted
    PROVE  PressesKept'
<1>1. QED BY DEF PressesKept, keyVars

Turns ==
    \/ Ask \/ SaysNothing \/ SaysPrivately
    \/ \E blank \in BOOLEAN : SaysPublicly(blank)
    \/ SendIsTaken \/ SendIsRefused \/ LooksForDegrade \/ RecordsDegrade
    \/ SendIsForbidden \/ CountForbidden
    \/ NoteOutput \/ CancelTurn

LEMMA TurnsAreQuiet == Turns => UNCHANGED keyVars /\ (promoted' => promoted)
<1>1. CASE Ask \/ SaysNothing \/ SaysPrivately \/ RecordsDegrade \/ NoteOutput \/ CancelTurn
    BY <1>1 DEF Ask, SaysNothing, SaysPrivately, RecordsDegrade, NoteOutput, CancelTurn,
                policyVars, switches
<1>2. ASSUME NEW blank \in BOOLEAN, SaysPublicly(blank)
      PROVE  UNCHANGED keyVars /\ (promoted' => promoted)
    BY <1>2 DEF SaysPublicly, Decide, switches
<1>3. CASE SendIsTaken \/ SendIsRefused \/ CountForbidden
    BY <1>3 DEF SendIsTaken, SendIsRefused, CountForbidden, RecordSuccess, RecordFailure,
                switches
<1>4. CASE LooksForDegrade \/ SendIsForbidden
    BY <1>4 DEF LooksForDegrade, SendIsForbidden, Snapshot, DisableLive, switches
<1>5. QED BY <1>1, <1>2, <1>3, <1>4 DEF Turns

LEMMA PressPromoteKeeps == PressesKept /\ PressPromote => PressesKept'
<1>1. QED BY DEF PressesKept, PressPromote, Pressed, policyVars, switches

(* The press that confirms finds the instant that the first one left.      *)
LEMMA ConfirmPromoteKeeps == PressesKept /\ ConfirmPromote => PressesKept'
<1> SUFFICES ASSUME PressesKept, ConfirmPromote PROVE PressesKept'
    OBVIOUS
<1>1. up /\ command = "none" /\ pressedAt # NotPressed
    BY DEF ConfirmPromote, KeysFree, Confirms
<1>2. presses >= 1 /\ presses' = 2
    BY <1>1 DEF PressesKept, ConfirmPromote, Pressed
<1>3. QED BY <1>2 DEF PressesKept

LEMMA PressKillKeeps == PressesKept /\ PressKill => PressesKept'
<1>1. QED BY DEF PressesKept, PressKill, EngageKillSwitch

(* The record of a kill forgets the instant; any other leaves it.          *)
LEMMA RecordCommandKeeps == PressesKept /\ RecordCommand => PressesKept'
<1> SUFFICES ASSUME PressesKept, RecordCommand PROVE PressesKept'
    OBVIOUS
<1>1. UNCHANGED <<promoted, presses>>
    BY DEF RecordCommand, policyVars, switches
<1>2. up
    BY DEF RecordCommand
<1>3. CASE command = "kill_switch"
    BY <1>1, <1>3 DEF PressesKept, RecordCommand
<1>4. CASE command # "kill_switch"
    BY <1>1, <1>2, <1>4 DEF PressesKept, RecordCommand
<1>5. QED BY <1>3, <1>4

LEMMA MarkStreamerKeeps == PressesKept /\ MarkStreamer => PressesKept'
<1>1. QED BY DEF PressesKept, MarkStreamer, policyVars, switches

LEMMA NextKeepsPresses ==
    ASSUME PressesKept, [ReplayNext]_<<policyVars, replayVars>>
    PROVE  PressesKept'
<1>1. CASE Turns
    BY <1>1, TurnsAreQuiet, TurnsKeepPresses
<1>2. CASE PressPromote \/ ConfirmPromote \/ PressKill \/ RecordCommand \/ MarkStreamer
    BY <1>2, PressPromoteKeeps, ConfirmPromoteKeeps, PressKillKeeps, RecordCommandKeeps,
       MarkStreamerKeeps
<1>3. CASE GuardDisables
    BY <1>3, TurnsKeepPresses DEF GuardDisables, DisableLive, replayVars, keyVars
<1>4. CASE TimePasses
    BY <1>4, TurnsKeepPresses DEF TimePasses, Tick, switches, replayVars, keyVars
<1>5. CASE UNCHANGED <<policyVars, replayVars>>
    BY <1>5, TurnsKeepPresses DEF policyVars, switches, replayVars, keyVars
<1>6. QED BY <1>1, <1>2, <1>3, <1>4, <1>5 DEF ReplayNext, Turns

(* A run of the TUI is live only after two presses of P that no K came     *)
(* between or after, whatever is being sent or recorded meanwhile.         *)
THEOREM PromotionConfirmed == ReplaySpec => []PromotionIsConfirmed
<1>1. PolicyInit /\ ReplayInit => PressesKept
    BY DEF PolicyInit, ReplayInit, PressesKept
<1>2. PressesKept => PromotionIsConfirmed
    BY DEF PressesKept, PromotionIsConfirmed
<1>3. QED BY <1>1, <1>2, NextKeepsPresses, PTL DEF ReplaySpec

-----------------------------------------------------------------------------
(* The turns, the keys and the guard use the policy one method at a time.  *)
LEMMA ReplayStepOfPolicy == [ReplayNext]_<<policyVars, replayVars>> => PolicyStep
<1>1. CASE Ask \/ SaysNothing \/ SaysPrivately \/ RecordsDegrade \/ NoteOutput \/ CancelTurn
    BY <1>1 DEF Ask, SaysNothing, SaysPrivately, RecordsDegrade, NoteOutput, CancelTurn,
                PolicyStep
<1>2. ASSUME NEW blank \in BOOLEAN, SaysPublicly(blank) PROVE PolicyStep
    BY <1>2, AudienceAssumption DEF SaysPublicly, PolicyStep
<1>3. CASE SendIsTaken \/ SendIsRefused \/ CountForbidden
    BY <1>3 DEF SendIsTaken, SendIsRefused, CountForbidden, PolicyStep
<1>4. CASE LooksForDegrade \/ SendIsForbidden
    BY <1>4 DEF LooksForDegrade, SendIsForbidden, PolicyStep
<1>5. CASE PressPromote \/ ConfirmPromote \/ PressKill
    BY <1>5 DEF PressPromote, ConfirmPromote, PressKill, PolicyStep
<1>6. CASE RecordCommand \/ MarkStreamer \/ GuardDisables \/ TimePasses
    BY <1>6 DEF RecordCommand, MarkStreamer, GuardDisables, TimePasses, PolicyStep
<1>7. CASE UNCHANGED <<policyVars, replayVars>>
    BY <1>7 DEF PolicyStep
<1>8. QED BY <1>1, <1>2, <1>3, <1>4, <1>5, <1>6, <1>7 DEF ReplayNext

(* What the TUI and its audit do with the policy implements the gate, even *)
(* when a row cannot be written or the run ends in the middle of a turn.   *)
THEOREM ReplayImplementsGate == ReplaySpec => ImplementsGate
<1>1. PolicyInit => PolicyIInv /\ Gate!Init
    BY PolicyInitIInv, InitImplementsGate
<1>2. PolicyIInv /\ [ReplayNext]_<<policyVars, replayVars>> => PolicyIInv'
    BY ReplayStepOfPolicy, PolicyStepIInv
<1>3. PolicyIInv /\ [ReplayNext]_<<policyVars, replayVars>> => [Gate!Next]_(Gate!gateVars)
    BY ReplayStepOfPolicy, StepImplementsGate
<1>4. QED BY <1>1, <1>2, <1>3, PTL DEF ReplaySpec, ImplementsGate, Gate!Spec

-----------------------------------------------------------------------------
(* The audit.  Rows, and the entries of the panel.                         *)
Rows == [kind : {"trigger", "decision", "transition", "output", "mark", "torn", "garbage"},
         what : {"none", "send", "shadow", "drop", "failed", "auto_degrade", "auto_kill",
                 "promote", "kill_switch"},
         of : Nat, blank : BOOLEAN]
Entries == [marker : {"none", "SENT", "SHADOW"}, of : Nat, blank : BOOLEAN]
Spoils(row) == row.kind \in {"torn", "garbage"}
SpoiledIn(file) == {i \in 1..Len(file) : Spoils(file[i])}

LEMMA SpoiledRows == Torn \in Rows /\ Garbage \in Rows /\ Spoils(Torn) /\ Spoils(Garbage)
                     /\ Torn.kind = "torn" /\ Garbage.kind = "garbage"
<1>1. QED BY DEF Torn, Garbage, Row, Rows, Spoils

(* What a write makes of the rows: it appends the row, or the half of it,  *)
(* or spoils a half that was left there.                                   *)
Appended(file, row, more) == ~EndsTorn(file) /\ more = Append(file, row)
Joined(file, more) == EndsTorn(file) /\ more = [file EXCEPT ![Len(file)] = Garbage]
Halved(file, more) == ~EndsTorn(file) /\ more = Append(file, Torn)

LEMMA WriteMakes ==
    ASSUME NEW row, Written(row) \/ NotWritten(row)
    PROVE  /\ attempts' = attempts + 1
           /\ \/ faults' = faults /\ (Appended(rows, row, rows') \/ Joined(rows, rows'))
              \/ faults' = faults + 1 /\ \/ rows' = rows
                                         \/ Halved(rows, rows')
                                         \/ Appended(rows, row, rows')
                                         \/ Joined(rows, rows')
<1>1. QED BY DEF Written, NotWritten, Put, Cut, Appended, Joined, Halved

(* The numbers of places of a longer sequence.                             *)
LEMMA SpoiledFinite ==
    ASSUME NEW file \in Seq(Rows)
    PROVE  IsFiniteSet(SpoiledIn(file)) /\ Cardinality(SpoiledIn(file)) \in 0..Len(file)
<1>1. Len(file) \in Nat /\ SpoiledIn(file) \in SUBSET (1..Len(file))
    BY DEF SpoiledIn
<1>2. IsFiniteSet(1..Len(file)) /\ Cardinality(1..Len(file)) = Len(file)
  <2>1. PICK n : n = Len(file)
      OBVIOUS
  <2>2. n \in Nat /\ n \in Int /\ 1 \in Int
      BY <1>1, <2>1
  <2>3. IsFiniteSet(1..n) /\ Cardinality(1..n) = IF 1 > n THEN 0 ELSE n - 1 + 1
      BY <2>2, FS_Interval
  <2>4. QED BY <2>1, <2>2, <2>3
<1>3. IsFiniteSet(SpoiledIn(file)) /\ Cardinality(SpoiledIn(file)) <= Len(file)
    BY <1>1, <1>2, FS_Subset
<1>4. QED BY <1>1, <1>3, FS_CardinalityType

LEMMA AppendedRows ==
    ASSUME NEW file \in Seq(Rows), NEW row \in Rows
    PROVE  /\ Append(file, row) \in Seq(Rows)
           /\ EndsTorn(Append(file, row)) <=> row.kind = "torn"
           /\ Cardinality(SpoiledIn(Append(file, row))) =
                IF Spoils(row) THEN Cardinality(SpoiledIn(file)) + 1 ELSE Cardinality(SpoiledIn(file))
<1> DEFINE more == Append(file, row)
           n == Len(file)
<1>1. n \in Nat /\ more \in Seq(Rows) /\ Len(more) = n + 1 /\ more[n + 1] = row
      /\ \A i \in 1..n : more[i] = file[i]
    OBVIOUS
<1>2. EndsTorn(more) <=> row.kind = "torn"
    BY <1>1 DEF EndsTorn
<1> HIDE DEF more
<1>3. SpoiledIn(more) = IF Spoils(row) THEN SpoiledIn(file) \cup {n + 1} ELSE SpoiledIn(file)
  <2>1. \A i : i \in 1..n + 1 <=> i \in 1..n \/ i = n + 1
      BY <1>1
  <2>2. \A i : i \in SpoiledIn(more) <=> i \in SpoiledIn(file) \/ (i = n + 1 /\ Spoils(row))
      BY <1>1, <2>1 DEF SpoiledIn
  <2>3. QED BY <2>2
<1>4. n + 1 \notin SpoiledIn(file)
    BY <1>1 DEF SpoiledIn
<1>5. QED BY <1>1, <1>2, <1>3, <1>4, SpoiledFinite, FS_AddElement DEF more

LEMMA JoinedRows ==
    ASSUME NEW file \in Seq(Rows), NEW more, Joined(file, more)
    PROVE  /\ more \in Seq(Rows) /\ Len(more) = Len(file) /\ ~EndsTorn(more)
           /\ SpoiledIn(more) = SpoiledIn(file)
           /\ \A i \in 1..Len(more) : more[i] = file[i] \/ Spoils(more[i])
<1> DEFINE n == Len(file)
<1>1. n \in 1..n /\ file[n].kind = "torn" /\ more = [file EXCEPT ![n] = Garbage]
    BY DEF Joined, EndsTorn
<1>2. more \in Seq(Rows) /\ Len(more) = n /\ more[n] = Garbage
      /\ \A i \in 1..n : i # n => more[i] = file[i]
    BY <1>1, SpoiledRows
<1>3. ~EndsTorn(more)
    BY <1>2, SpoiledRows DEF EndsTorn
<1>4. \A i \in 1..n : Spoils(more[i]) <=> Spoils(file[i])
    BY <1>1, <1>2, SpoiledRows DEF Spoils
<1>5. SpoiledIn(more) = SpoiledIn(file)
    BY <1>2, <1>4 DEF SpoiledIn
<1>6. QED BY <1>2, <1>3, <1>5, SpoiledRows

-----------------------------------------------------------------------------
(* A write that fails spoils one row, and one more when it leaves a half.  *)
Accounted(file, tried, failed) ==
    LET spoiled == Cardinality(SpoiledIn(file))
        whole == Len(file) - spoiled
    IN /\ spoiled <= failed
       /\ tried - whole <= 2 * failed - (IF EndsTorn(file) THEN 1 ELSE 0)
       /\ whole <= tried

RowsKept ==
    /\ rows \in Seq(Rows) /\ attempts \in Nat /\ faults \in Nat
    /\ Accounted(rows, attempts, faults)

LEMMA CountsKept ==
    ASSUME NEW file, NEW tried \in Nat, NEW failed \in Nat,
           NEW more, NEW failures \in {failed, failed + 1}, NEW length \in Nat,
           NEW n \in Nat, n = Cardinality(SpoiledIn(file)), length = Len(file),
           Accounted(file, tried, failed),
           \/ /\ ~EndsTorn(file) /\ ~EndsTorn(more) /\ Len(more) = length + 1
              /\ Cardinality(SpoiledIn(more)) = n
           \/ /\ EndsTorn(file) /\ ~EndsTorn(more) /\ Len(more) = length
              /\ Cardinality(SpoiledIn(more)) = n
           \/ /\ ~EndsTorn(file) /\ EndsTorn(more) /\ Len(more) = length + 1
              /\ Cardinality(SpoiledIn(more)) = n + 1 /\ failures = failed + 1
           \/ more = file /\ failures = failed + 1
    PROVE  Accounted(more, tried + 1, failures)
<1>1. /\ n <= failed
      /\ tried - (length - n) <= 2 * failed - (IF EndsTorn(file) THEN 1 ELSE 0)
      /\ length - n <= tried
    BY DEF Accounted
<1>2. CASE more = file /\ failures = failed + 1
    BY <1>1, <1>2 DEF Accounted
<1>3. CASE ~(more = file /\ failures = failed + 1)
    BY <1>1, <1>3 DEF Accounted
<1>4. QED BY <1>2, <1>3

LEMMA WriteKeepsRows ==
    ASSUME RowsKept, NEW row \in Rows, ~Spoils(row), Written(row) \/ NotWritten(row)
    PROVE  RowsKept'
<1>1. PICK n, m : n = Len(rows) /\ m = Cardinality(SpoiledIn(rows))
    OBVIOUS
<1>2. rows \in Seq(Rows) /\ attempts \in Nat /\ faults \in Nat /\ Accounted(rows, attempts, faults)
      /\ n \in Nat /\ m \in Nat
    BY <1>1, SpoiledFinite DEF RowsKept
<1>3. attempts' = attempts + 1 /\ faults' \in {faults, faults + 1}
    BY WriteMakes
<1>4. row.kind # "torn"
    BY DEF Spoils
<1>5. CASE Appended(rows, row, rows')
  <2>1. rows' = Append(rows, row) /\ ~EndsTorn(rows)
      BY <1>5 DEF Appended
  <2>2. rows' \in Seq(Rows) /\ Len(rows') = n + 1
      BY <1>1, <1>2, <2>1
  <2>3. Cardinality(SpoiledIn(rows')) = m /\ ~EndsTorn(rows')
      BY <1>1, <1>2, <1>4, <2>1, AppendedRows
  <2>4. Accounted(rows', attempts + 1, faults')
      BY <1>1, <1>2, <1>3, <2>1, <2>2, <2>3, CountsKept
  <2>5. QED BY <1>2, <1>3, <2>2, <2>4 DEF RowsKept
<1>6. CASE Joined(rows, rows')
  <2>1. rows' \in Seq(Rows) /\ Len(rows') = n /\ Cardinality(SpoiledIn(rows')) = m /\ ~EndsTorn(rows')
      BY <1>1, <1>2, <1>6, JoinedRows
  <2>2. EndsTorn(rows)
      BY <1>6 DEF Joined
  <2>3. Accounted(rows', attempts + 1, faults')
      BY <1>1, <1>2, <1>3, <2>1, <2>2, CountsKept
  <2>4. QED BY <1>2, <1>3, <2>1, <2>3 DEF RowsKept
<1>7. CASE Halved(rows, rows') /\ faults' = faults + 1
  <2>1. rows' = Append(rows, Torn) /\ ~EndsTorn(rows)
      BY <1>7 DEF Halved
  <2>2. rows' \in Seq(Rows) /\ Len(rows') = n + 1
      BY <1>1, <1>2, <2>1, SpoiledRows
  <2>3. Cardinality(SpoiledIn(rows')) = m + 1 /\ EndsTorn(rows')
      BY <1>1, <1>2, <2>1, AppendedRows, SpoiledRows
  <2>4. Accounted(rows', attempts + 1, faults')
      BY <1>1, <1>2, <1>3, <1>7, <2>1, <2>2, <2>3, CountsKept
  <2>5. QED BY <1>2, <1>3, <2>2, <2>4 DEF RowsKept
<1>8. CASE rows' = rows /\ faults' = faults + 1
  <2>1. Accounted(rows', attempts + 1, faults')
      BY <1>1, <1>2, <1>3, <1>8, CountsKept
  <2>2. QED BY <1>2, <1>3, <1>8, <2>1 DEF RowsKept
<1>9. QED BY <1>5, <1>6, <1>7, <1>8, WriteMakes

(* Without a fault no row is spoiled.                                      *)
LEMMA NoFaultNoSpoil ==
    ASSUME RowsKept, faults = 0
    PROVE  ~EndsTorn(rows) /\ \A i \in 1..Len(rows) : ~Spoils(rows[i])
<1>1. rows \in Seq(Rows) /\ Cardinality(SpoiledIn(rows)) <= 0
    BY DEF RowsKept, Accounted
<1>2. IsFiniteSet(SpoiledIn(rows)) /\ Cardinality(SpoiledIn(rows)) = 0
    BY <1>1, SpoiledFinite
<1>3. SpoiledIn(rows) = {}
    BY <1>2, FS_EmptySet
<1>4. \A i \in 1..Len(rows) : ~Spoils(rows[i])
    BY <1>3 DEF SpoiledIn
<1>5. QED BY <1>1, <1>4 DEF EndsTorn, Spoils

(* Then a write that does not fail appends the row.                        *)
LEMMA WriteIsWhole ==
    ASSUME RowsKept, NEW row, Written(row) \/ NotWritten(row), faults' = 0
    PROVE  faults = 0 /\ rows' = Append(rows, row)
<1>1. faults \in Nat
    BY DEF RowsKept
<1>2. faults = 0 /\ faults' = faults
    BY <1>1, WriteMakes
<1>3. ~EndsTorn(rows)
    BY <1>2, NoFaultNoSpoil
<1>4. QED BY <1>1, <1>2, <1>3, WriteMakes DEF Appended, Joined

-----------------------------------------------------------------------------
(* What is told of a run by its rows, and shown of it by its panel.        *)
ToldBy(row, private) == Tells(row) /\ (MarkerOf(row) = "none") = private
Told(file, private) == {k \in 1..Len(file) : ToldBy(file[k], private)}
Shown(entries) == {i \in 1..Len(entries) : ~entries[i].blank}
ShownAs(entry, failed) == IF entry.of \in failed THEN "SHADOW" ELSE entry.marker
SameMessage(row, entry, failed) == row.of = entry.of /\ MarkerOf(row) = ShownAs(entry, failed)

(* Both are in the order of the turns.                                     *)
EntriesUp(entries, most) ==
    /\ \A i \in 1..Len(entries) : entries[i].of \in Nat /\ entries[i].of <= most
    /\ \A i, j \in 1..Len(entries) : i < j => entries[i].of < entries[j].of
RowsUp(file, private, most) ==
    /\ \A k \in Told(file, private) : file[k].of \in Nat /\ file[k].of <= most
    /\ \A k, l \in Told(file, private) : k < l => file[k].of < file[l].of

(* Each message that is shown is told, and each that is told since is      *)
(* shown, but for the turn that is between the two.                        *)
AllTold(file, entries, private, failed, untold) ==
    \A i \in Shown(entries) : entries[i].of \in untold
        \/ \E k \in Told(file, private) : SameMessage(file[k], entries[i], failed)
NoneSkipped(file, entries, private, unshown) ==
    \A i \in Shown(entries), k \in Told(file, private) : file[k].of > entries[i].of =>
        file[k].of \in unshown \/ \E j \in Shown(entries) : entries[j].of = file[k].of

(* Between its decision and its end a turn's message is not shown, and     *)
(* until its row is written it is not told.                                *)
Deciding == {"asking", "sending", "disarming"}
Failing == {"degrading", "killing"}
Noting(t, private) == private /\ t.step = "noting"
LastShown(t) == IF t.step \in Deciding \cup Failing THEN t.of - 1 ELSE t.of
LastTold(t, private) == IF t.step \in Deciding \/ Noting(t, private) THEN t.of - 1 ELSE t.of
Untold(t, private) == IF Noting(t, private) THEN {t.of} ELSE {}
Unshown(t) == IF t.step \in Failing /\ ~t.blank THEN {t.of} ELSE {}

Matched(file, entries, private, failed, t) ==
    /\ EntriesUp(entries, LastShown(t))
    /\ RowsUp(file, private, LastTold(t, private))
    /\ AllTold(file, entries, private, failed, Untold(t, private))
    /\ NoneSkipped(file, entries, private, Unshown(t))

(* The message that was refused and is not yet shown has its row.          *)
FailureIsTold(file, private, t) ==
    t.step \in Failing /\ ~t.blank =>
        \E k \in Told(file, private) : file[k].of = t.of /\ MarkerOf(file[k]) = "SHADOW"

(* The message of a private turn is shown before it has its row.           *)
NoteIsShown(entries, private, t) ==
    /\ private => \A i \in 1..Len(entries) : entries[i].marker = "none"
    /\ Noting(t, private) => \E i \in Shown(entries) : entries[i].of = t.of

(* The fates of the turns.                                                 *)
FatesKept ==
    /\ \A m \in refused : m \in Nat /\ m <= turn.of
    /\ turn.step \in {"asking", "sending"} => turn.of \notin refused
    /\ turn.step \in Failing \cup {"disarming"} => turn.of \in refused
    /\ output = "private" =>
        /\ refused = {} /\ ~turn.blank
        /\ turn.step \in {"idle", "asking", "noting", "dead"}

(* The rows that claim a delivery, and those that tell of one.             *)
Claims(row) == row.kind = "decision" /\ row.what = "send" /\ ~row.blank
ClaimsAreTrue(file, got) == \A k \in 1..Len(file) : Claims(file[k]) => file[k].of \in got
TellsOf(row, m) == row.kind = "decision" /\ row.of = m /\ (row.what = "send" \/ row.blank)
TakenAreTold(file, got, t) ==
    \A m \in got : (t.step = "dead" /\ m = t.of) \/ \E k \in 1..Len(file) : TellsOf(file[k], m)

AuditTyped ==
    /\ output \in {"public", "private"} /\ command \in {"none", "promote", "kill_switch"}
    /\ turn \in [step : {"idle", "noting", "dead"} \cup Deciding \cup Failing, of : Nat, blank : BOOLEAN]
    /\ panel \in Seq(Entries)

AuditKept ==
    /\ FatesKept
    /\ ClaimsAreTrue(rows, taken)
    /\ faults = 0 =>
        /\ Matched(rows, panel, output = "private", refused, turn)
        /\ FailureIsTold(rows, output = "private", turn)
        /\ NoteIsShown(panel, output = "private", turn)
        /\ TakenAreTold(rows, taken, turn)

-----------------------------------------------------------------------------
(* A row more.                                                             *)
LEMMA ToldMore ==
    ASSUME NEW file \in Seq(Rows), NEW row \in Rows, NEW private
    PROVE  LET more == Append(file, row) IN
           /\ Len(file) \in Nat /\ Len(more) = Len(file) + 1 /\ more[Len(file) + 1] = row
           /\ \A k \in 1..Len(file) : more[k] = file[k]
           /\ Told(more, private) =
                Told(file, private) \cup (IF ToldBy(row, private) THEN {Len(file) + 1} ELSE {})
<1> DEFINE more == Append(file, row)
           n == Len(file)
<1>1. n \in Nat /\ Len(more) = n + 1 /\ more[n + 1] = row /\ \A k \in 1..n : more[k] = file[k]
    OBVIOUS
<1> HIDE DEF more, n
<1>2. \A k : k \in 1..n + 1 <=> k \in 1..n \/ k = n + 1
    BY <1>1
<1>3. \A k : k \in Told(more, private) <=> k \in Told(file, private) \/ (k = n + 1 /\ ToldBy(row, private))
    BY <1>1, <1>2 DEF Told, n
<1>4. Told(more, private) = Told(file, private) \cup (IF ToldBy(row, private) THEN {n + 1} ELSE {})
    BY <1>3
<1>5. QED BY <1>1, <1>4 DEF more, n

LEMMA RowsUpTo ==
    ASSUME NEW file, NEW private, NEW t \in Nat, RowsUp(file, private, t - 1)
    PROVE  RowsUp(file, private, t)
<1>1. QED BY DEF RowsUp

LEMMA MoreRows ==
    ASSUME NEW file \in Seq(Rows), NEW row \in Rows, NEW more, more = Append(file, row),
           NEW private, NEW entries, NEW failed, NEW set, AllTold(file, entries, private, failed, set)
    PROVE  AllTold(more, entries, private, failed, set)
<1>1. Told(file, private) \subseteq Told(more, private)
    BY ToldMore
<1>2. \A k \in Told(file, private) : more[k] = file[k]
    BY ToldMore DEF Told
<1>3. QED BY <1>1, <1>2 DEF AllTold

(* One that is not told of changes nothing.                                *)
LEMMA UntoldRow ==
    ASSUME NEW file \in Seq(Rows), NEW row \in Rows, NEW private, ~ToldBy(row, private),
           NEW more, more = Append(file, row), NEW entries, NEW failed, NEW set, NEW most
    PROVE  /\ RowsUp(file, private, most) => RowsUp(more, private, most)
           /\ AllTold(file, entries, private, failed, set) => AllTold(more, entries, private, failed, set)
           /\ NoneSkipped(file, entries, private, set) => NoneSkipped(more, entries, private, set)
<1>1. Told(more, private) = Told(file, private)
    BY ToldMore
<1>2. \A k \in Told(file, private) : more[k] = file[k]
    BY ToldMore DEF Told
<1>3. RowsUp(file, private, most) => RowsUp(more, private, most)
    BY <1>1, <1>2 DEF RowsUp
<1>4. AllTold(file, entries, private, failed, set) => AllTold(more, entries, private, failed, set)
    BY <1>1, <1>2 DEF AllTold
<1>5. NoneSkipped(file, entries, private, set) => NoneSkipped(more, entries, private, set)
    BY <1>1, <1>2 DEF NoneSkipped
<1>6. QED BY <1>3, <1>4, <1>5

(* One that is told of, of the turn t, is the last.                        *)
LEMMA ToldRow ==
    ASSUME NEW file \in Seq(Rows), NEW row \in Rows, NEW private, ToldBy(row, private),
           NEW more, more = Append(file, row), NEW t \in Nat, row.of = t, RowsUp(file, private, t - 1),
           NEW entries
    PROVE  /\ RowsUp(more, private, t)
           /\ NoneSkipped(file, entries, private, {}) => NoneSkipped(more, entries, private, {t})
<1> DEFINE n == Len(file)
<1>1. n \in Nat /\ Told(more, private) = Told(file, private) \cup {n + 1} /\ more[n + 1] = row
    BY ToldMore
<1>2. \A k \in Told(file, private) : more[k] = file[k] /\ k \in 1..n
    BY ToldMore DEF Told
<1> HIDE DEF n
<1>3. RowsUp(more, private, t)
  <2>1. ASSUME NEW k \in Told(more, private) PROVE more[k].of \in Nat /\ more[k].of <= t
    <3>1. CASE k = n + 1
      <4>1. more[k].of = t
          BY <1>1, <3>1
      <4>2. QED BY <4>1
    <3>2. CASE k \in Told(file, private)
      <4>1. file[k].of \in Nat /\ file[k].of <= t - 1 /\ more[k] = file[k]
          BY <1>2, <3>2 DEF RowsUp
      <4>2. QED BY <4>1
    <3>3. QED BY <1>1, <3>1, <3>2
  <2>2. ASSUME NEW k \in Told(more, private), NEW l \in Told(more, private), k < l
        PROVE  more[k].of < more[l].of
    <3>1. k \in Told(file, private)
      <4>1. CASE k = n + 1
        <5>1. l \in 1..n \/ l = n + 1
            BY <1>1, <1>2
        <5>2. QED BY <1>1, <2>2, <4>1, <5>1
      <4>2. QED BY <1>1, <4>1
    <3>2. CASE l = n + 1
      <4>1. file[k].of \in Nat /\ file[k].of <= t - 1 /\ more[k] = file[k] /\ more[l].of = t
          BY <1>1, <1>2, <3>1, <3>2 DEF RowsUp
      <4>2. QED BY <4>1
    <3>3. CASE l \in Told(file, private)
        BY <1>2, <2>2, <3>1, <3>3 DEF RowsUp
    <3>4. QED BY <1>1, <3>2, <3>3
  <2>3. QED BY <2>1, <2>2 DEF RowsUp
<1>4. ASSUME NoneSkipped(file, entries, private, {})
      PROVE  NoneSkipped(more, entries, private, {t})
    BY <1>1, <1>2, <1>4 DEF NoneSkipped
<1>5. QED BY <1>3, <1>4

(* An entry more: what the panel was, but perhaps its first, and the entry. *)
Longer(entries, entry, more) ==
    \E d \in {0, 1} :
        /\ Len(entries) \in Nat /\ Len(more) \in Nat \ {0} /\ Len(more) = Len(entries) + 1 - d
        /\ more[Len(more)] = entry
        /\ \A i \in 1..Len(more) - 1 : i + d \in 1..Len(entries) /\ more[i] = entries[i + d]

LEMMA ShowMakes ==
    ASSUME NEW marker, Show(marker), panel \in Seq(Entries), NEW entry \in Entries,
           entry = [marker |-> marker, of |-> turn.of, blank |-> turn'.blank]
    PROVE  Longer(panel, entry, panel') /\ panel' \in Seq(Entries)
<1> DEFINE more == Append(panel, entry)
           n == Len(panel)
           d == IF n + 1 > PanelSize THEN 1 ELSE 0
<1>1. n \in Nat /\ more \in Seq(Entries) /\ Len(more) = n + 1 /\ more[n + 1] = entry
      /\ \A i \in 1..n : more[i] = panel[i]
    OBVIOUS
<1>2. d \in {0, 1} /\ d <= n
    BY <1>1, ReplayAssumption
<1>3. panel' = SubSeq(more, d + 1, n + 1)
    BY <1>1 DEF Show
<1> HIDE DEF more, n, d
<1>4. panel' \in Seq(Entries) /\ Len(panel') = n + 1 - d /\ \A i \in 1..n + 1 - d : panel'[i] = more[i + d]
    BY <1>1, <1>2, <1>3
<1>5. n + 1 - d \in Nat \ {0} /\ n + 1 - d \in 1..n + 1 - d /\ (n + 1 - d) + d = n + 1
    BY <1>1, <1>2
<1>6. panel'[n + 1 - d] = entry
    BY <1>1, <1>4, <1>5
<1>7. ASSUME NEW i \in 1..(n + 1 - d) - 1 PROVE i + d \in 1..n /\ panel'[i] = panel[i + d]
  <2>1. i + d \in 1..n /\ i \in 1..n + 1 - d
      BY <1>1, <1>2
  <2>2. QED BY <1>1, <1>4, <2>1
<1>8. QED BY <1>1, <1>2, <1>4, <1>5, <1>6, <1>7 DEF Longer, n

(* The entry of the turn t is the last, and in the order.                  *)
LEMMA EntryIsLast ==
    ASSUME NEW entries, NEW entry, NEW more, Longer(entries, entry, more),
           NEW t \in Nat, entry.of = t, EntriesUp(entries, t - 1)
    PROVE  /\ EntriesUp(more, t)
           /\ \A i \in 1..Len(more) : more[i] = entry \/
                \E j \in 1..Len(entries) : more[i] = entries[j]
           /\ entry.blank \/ \E i \in Shown(more) : more[i].of = t
<1>1. PICK d \in {0, 1} :
        /\ Len(entries) \in Nat /\ Len(more) \in Nat \ {0} /\ Len(more) = Len(entries) + 1 - d
        /\ more[Len(more)] = entry
        /\ \A i \in 1..Len(more) - 1 : i + d \in 1..Len(entries) /\ more[i] = entries[i + d]
    BY DEF Longer
<1>2. PICK m : m = Len(more)
    OBVIOUS
<1>3. m \in Nat \ {0} /\ m \in 1..m /\ more[m] = entry /\ more[m].of = t
      /\ \A i \in 1..m : i = m \/ i \in 1..m - 1
    BY <1>1, <1>2
<1>4. \A i \in 1..m - 1 : i + d \in 1..Len(entries) /\ more[i] = entries[i + d]
    BY <1>1, <1>2
<1>5. \A i \in 1..m - 1 : more[i].of \in Nat /\ more[i].of <= t - 1
    BY <1>4 DEF EntriesUp
<1>6. \A i \in 1..m : more[i].of \in Nat /\ more[i].of <= t
    BY <1>3, <1>5
<1>7. ASSUME NEW i \in 1..m, NEW j \in 1..m, i < j PROVE more[i].of < more[j].of
  <2>1. i \in 1..m - 1
      BY <1>3, <1>7
  <2>2. CASE j = m
      BY <1>3, <1>5, <2>1, <2>2
  <2>3. CASE j \in 1..m - 1
    <3>1. i + d < j + d
        BY <1>3, <1>7
    <3>2. QED BY <1>4, <2>1, <2>3, <3>1 DEF EntriesUp
  <2>4. QED BY <1>3, <2>2, <2>3
<1>8. EntriesUp(more, t)
    BY <1>2, <1>6, <1>7 DEF EntriesUp
<1>9. \A i \in 1..m : more[i] = entry \/ \E j \in 1..Len(entries) : more[i] = entries[j]
    BY <1>3, <1>4
<1>10. entry.blank \/ (m \in Shown(more) /\ more[m].of = t)
    BY <1>2, <1>3 DEF Shown
<1>11. QED BY <1>2, <1>8, <1>9, <1>10

(* Then what is shown is still told, if the entry is.                      *)
LEMMA EntryIsTold ==
    ASSUME NEW file, NEW entries, NEW entry, NEW more, Longer(entries, entry, more),
           NEW t \in Nat, entry.of = t, EntriesUp(entries, t - 1),
           NEW private, NEW failed, NEW set, AllTold(file, entries, private, failed, {}),
           \/ t \in set
           \/ entry.blank
           \/ \E k \in Told(file, private) : SameMessage(file[k], entry, failed)
    PROVE  AllTold(file, more, private, failed, set)
<1>1. ASSUME NEW i \in Shown(more)
      PROVE  more[i].of \in set \/ \E k \in Told(file, private) : SameMessage(file[k], more[i], failed)
  <2>1. i \in 1..Len(more) /\ ~more[i].blank
      BY DEF Shown
  <2>2. CASE more[i] = entry
      BY <2>1, <2>2
  <2>3. ASSUME NEW j \in 1..Len(entries), more[i] = entries[j]
        PROVE  \E k \in Told(file, private) : SameMessage(file[k], more[i], failed)
    <3>1. j \in Shown(entries)
        BY <2>1, <2>3 DEF Shown
    <3>2. QED BY <2>3, <3>1 DEF AllTold
  <2>4. QED BY <2>1, <2>2, <2>3, EntryIsLast
<1>2. QED BY <1>1 DEF AllTold

(* And what is told since is still shown.                                  *)
LEMMA EntrySkipsNone ==
    ASSUME NEW file, NEW entries, NEW entry, NEW more, Longer(entries, entry, more),
           NEW t \in Nat, entry.of = t, EntriesUp(entries, t - 1),
           NEW private, RowsUp(file, private, t), NEW set, NoneSkipped(file, entries, private, set),
           set = {} \/ (set = {t} /\ ~entry.blank)
    PROVE  NoneSkipped(file, more, private, {})
<1>1. PICK d \in {0, 1} :
        /\ Len(entries) \in Nat /\ Len(more) \in Nat \ {0} /\ Len(more) = Len(entries) + 1 - d
        /\ more[Len(more)] = entry
        /\ \A i \in 1..Len(more) - 1 : i + d \in 1..Len(entries) /\ more[i] = entries[i + d]
    BY DEF Longer
<1>2. PICK m, n : m = Len(more) /\ n = Len(entries)
    OBVIOUS
<1>3. m \in Nat \ {0} /\ m \in 1..m /\ more[m] = entry /\ more[m].of = t /\ n \in Nat /\ m = n + 1 - d
      /\ \A i \in 1..m : i = m \/ i \in 1..m - 1
    BY <1>1, <1>2
<1>4. \A i \in 1..m - 1 : i + d \in 1..n /\ more[i] = entries[i + d]
    BY <1>1, <1>2
<1>5. SUFFICES ASSUME NEW i \in Shown(more), NEW k \in Told(file, private), file[k].of > more[i].of
      PROVE  \E j \in Shown(more) : more[j].of = file[k].of
    BY DEF NoneSkipped
<1>6. file[k].of \in Nat /\ file[k].of <= t
    BY DEF RowsUp
<1>7. i \in 1..m - 1
    BY <1>2, <1>3, <1>5, <1>6 DEF Shown
<1>8. i + d \in Shown(entries) /\ more[i] = entries[i + d]
    BY <1>2, <1>4, <1>7 DEF Shown
<1>9. CASE file[k].of \in set
  <2>1. file[k].of = t /\ ~entry.blank
      BY <1>9
  <2>2. QED BY <2>1, EntryIsLast
<1>10. ASSUME NEW j \in Shown(entries), entries[j].of = file[k].of
       PROVE  \E l \in Shown(more) : more[l].of = file[k].of
  <2>1. j \in 1..n /\ i + d \in 1..n /\ ~entries[j].blank
      BY <1>2, <1>8 DEF Shown
  <2>2. entries[j].of > entries[i + d].of
      BY <1>5, <1>8, <1>10
  <2>3. entries[j].of \in Nat /\ entries[i + d].of \in Nat
      BY <1>2, <2>1 DEF EntriesUp
  <2>4. ~(j < i + d) /\ j # i + d
      BY <1>2, <2>1, <2>2, <2>3 DEF EntriesUp
  <2>5. j - d \in 1..m - 1 /\ (j - d) + d = j
      BY <1>3, <1>7, <2>1, <2>4
  <2>6. more[j - d] = entries[j]
      BY <1>4, <2>5
  <2>7. j - d \in Shown(more)
      BY <1>2, <1>3, <2>1, <2>5, <2>6 DEF Shown
  <2>8. QED BY <1>10, <2>6, <2>7
<1>11. QED BY <1>5, <1>8, <1>9, <1>10 DEF NoneSkipped

-----------------------------------------------------------------------------
(* The message is told and shown at once.                                  *)
LEMMA TellAndShow ==
    ASSUME NEW file \in Seq(Rows), NEW row \in Rows, NEW entries, NEW entry,
           NEW fuller, fuller = Append(file, row), NEW more, Longer(entries, entry, more),
           NEW t \in Nat, row.of = t, entry.of = t, NEW private, NEW failed,
           EntriesUp(entries, t - 1), RowsUp(file, private, t - 1),
           AllTold(file, entries, private, failed, {}), NoneSkipped(file, entries, private, {}),
           \/ entry.blank /\ ~ToldBy(row, private)
           \/ ~entry.blank /\ ToldBy(row, private) /\ SameMessage(row, entry, failed)
    PROVE  /\ EntriesUp(more, t) /\ RowsUp(fuller, private, t)
           /\ AllTold(fuller, more, private, failed, {}) /\ NoneSkipped(fuller, more, private, {})
<1>1. EntriesUp(more, t)
    BY EntryIsLast
<1>2. CASE entry.blank /\ ~ToldBy(row, private)
  <2>1. RowsUp(file, private, t)
      BY DEF RowsUp
  <2>2. /\ RowsUp(fuller, private, t) /\ AllTold(fuller, entries, private, failed, {})
        /\ NoneSkipped(fuller, entries, private, {})
      BY <1>2, <2>1, UntoldRow
  <2>3. AllTold(fuller, more, private, failed, {})
      BY <1>2, <2>2, EntryIsTold
  <2>4. NoneSkipped(fuller, more, private, {})
      BY <2>2, EntrySkipsNone
  <2>5. QED BY <1>1, <2>2, <2>3, <2>4
<1>3. CASE ~entry.blank /\ ToldBy(row, private) /\ SameMessage(row, entry, failed)
  <2>1. ToldBy(row, private)
      BY <1>3
  <2>2. RowsUp(fuller, private, t) /\ NoneSkipped(fuller, entries, private, {t})
      BY <2>1, ToldRow
  <2>3. AllTold(fuller, entries, private, failed, {})
      BY MoreRows
  <2>4. \E k \in Told(fuller, private) : fuller[k] = row
      BY <2>1, ToldMore
  <2>5. \E k \in Told(fuller, private) : SameMessage(fuller[k], entry, failed)
      BY <1>3, <2>4
  <2>6. AllTold(fuller, more, private, failed, {})
      BY <2>3, <2>5, EntryIsTold
  <2>7. NoneSkipped(fuller, more, private, {})
      BY <1>3, <2>2, EntrySkipsNone
  <2>8. QED BY <1>1, <2>2, <2>6, <2>7
<1>4. QED BY <1>2, <1>3

(* A turn that goes on without a message.                                  *)
Milder(t, u, private) ==
    /\ LastShown(t) <= LastShown(u) /\ LastTold(t, private) <= LastTold(u, private)
    /\ Untold(t, private) \subseteq Untold(u, private) /\ Unshown(t) \subseteq Unshown(u)

LEMMA TurnMoves ==
    ASSUME NEW file, NEW entries, NEW private, NEW failed, NEW t, NEW u, Milder(t, u, private),
           LastShown(t) \in Int, LastShown(u) \in Int, LastTold(t, private) \in Int,
           LastTold(u, private) \in Int, Matched(file, entries, private, failed, t)
    PROVE  Matched(file, entries, private, failed, u)
<1>1. EntriesUp(entries, LastShown(u)) /\ RowsUp(file, private, LastTold(u, private))
    BY DEF Matched, Milder, EntriesUp, RowsUp
<1>2. AllTold(file, entries, private, failed, Untold(u, private))
    BY DEF Matched, Milder, AllTold
<1>3. NoneSkipped(file, entries, private, Unshown(u))
    BY DEF Matched, Milder, NoneSkipped
<1>4. QED BY <1>1, <1>2, <1>3 DEF Matched

-----------------------------------------------------------------------------
(* Steps.  A row is written, or it is not.                                 *)
Writes(row) == Written(row) \/ NotWritten(row)
Message(row) == row \in Rows /\ ~Spoils(row)

LEMMA ClaimsMore ==
    ASSUME NEW file \in Seq(Rows), NEW row \in Rows, NEW got, NEW more,
           ClaimsAreTrue(file, got), Claims(row) => row.of \in got, more = Append(file, row)
    PROVE  ClaimsAreTrue(more, got)
<1>1. /\ Len(file) \in Nat /\ Len(more) = Len(file) + 1 /\ more[Len(file) + 1] = row
      /\ \A k \in 1..Len(file) : more[k] = file[k]
    BY ToldMore
<1>2. \A k \in 1..Len(more) : k = Len(file) + 1 \/ k \in 1..Len(file)
    BY <1>1
<1>3. QED BY <1>1, <1>2 DEF ClaimsAreTrue

LEMMA WriteKeeps ==
    ASSUME RowsKept, NEW row, Message(row), Writes(row), ClaimsAreTrue(rows, taken),
           taken \subseteq taken', Claims(row) => row.of \in taken'
    PROVE  RowsKept' /\ ClaimsAreTrue(rows', taken')
<1>1. row \in Rows /\ ~Spoils(row) /\ rows \in Seq(Rows)
    BY DEF Message, RowsKept
<1>2. RowsKept'
    BY <1>1, WriteKeepsRows DEF Writes
<1>3. ClaimsAreTrue(rows, taken')
    BY DEF ClaimsAreTrue
<1>4. rows' = rows \/ Halved(rows, rows') \/ Appended(rows, row, rows') \/ Joined(rows, rows')
    BY WriteMakes DEF Writes
<1>5. CASE rows' = rows
    BY <1>2, <1>3, <1>5
<1>6. CASE Appended(rows, row, rows')
    BY <1>1, <1>2, <1>3, <1>6, ClaimsMore DEF Appended
<1>7. CASE Halved(rows, rows')
  <2>1. ~Claims(Torn) /\ Torn \in Rows
      BY SpoiledRows DEF Claims
  <2>2. QED BY <1>1, <1>2, <1>3, <1>7, <2>1, ClaimsMore DEF Halved
<1>8. CASE Joined(rows, rows')
  <2>1. /\ Len(rows') = Len(rows)
        /\ \A i \in 1..Len(rows') : rows'[i] = rows[i] \/ Spoils(rows'[i])
      BY <1>1, <1>8, JoinedRows
  <2>2. \A i \in 1..Len(rows') : Claims(rows'[i]) => rows'[i] = rows[i] /\ i \in 1..Len(rows)
      BY <2>1 DEF Claims, Spoils
  <2>3. ClaimsAreTrue(rows', taken')
      BY <1>3, <2>2 DEF ClaimsAreTrue
  <2>4. QED BY <1>2, <2>3
<1>9. QED BY <1>4, <1>5, <1>6, <1>7, <1>8

LEMMA TakenMore ==
    ASSUME NEW file \in Seq(Rows), NEW row \in Rows, NEW got, NEW new, NEW more, NEW t, NEW u,
           TakenAreTold(file, got, t), more = Append(file, row), t.step = "dead" => u = t,
           \A m \in new : m \in got \/ TellsOf(row, m)
    PROVE  TakenAreTold(more, new, u)
<1>1. /\ Len(file) \in Nat /\ Len(more) = Len(file) + 1 /\ more[Len(file) + 1] = row
      /\ \A k \in 1..Len(file) : more[k] = file[k]
    BY ToldMore
<1>2. 1..Len(file) \subseteq 1..Len(more) /\ Len(file) + 1 \in 1..Len(more)
    BY <1>1
<1>3. ASSUME NEW m \in new
      PROVE  (u.step = "dead" /\ m = u.of) \/ \E k \in 1..Len(more) : TellsOf(more[k], m)
  <2>1. CASE TellsOf(row, m)
      BY <1>1, <1>2, <2>1
  <2>2. CASE m \in got
    <3>1. (t.step = "dead" /\ m = t.of) \/ \E k \in 1..Len(file) : TellsOf(file[k], m)
        BY <2>2 DEF TakenAreTold
    <3>2. CASE \E k \in 1..Len(file) : TellsOf(file[k], m)
        BY <1>1, <1>2, <3>2
    <3>3. QED BY <3>1, <3>2
  <2>3. QED BY <2>1, <2>2
<1>4. QED BY <1>3 DEF TakenAreTold

LEMMA RowIsMessage ==
    ASSUME NEW kind \in {"trigger", "decision", "transition", "output", "mark"},
           NEW what \in {"none", "send", "shadow", "drop", "failed", "auto_degrade", "auto_kill",
                         "promote", "kill_switch"},
           NEW of \in Nat, NEW blank \in BOOLEAN, NEW row, row = Row(kind, what, of, blank)
    PROVE  /\ Message(row) /\ row.kind = kind /\ row.what = what /\ row.of = of /\ row.blank = blank
<1>1. QED BY DEF Message, Row, Rows, Spoils

(* A row that the disk does not take ends what the audit promises.         *)
LEMMA BrokenStep ==
    ASSUME RowsKept, AuditKept, FatesKept', NEW row, Message(row), NotWritten(row),
           taken \subseteq taken', Claims(row) => row.of \in taken'
    PROVE  RowsKept' /\ AuditKept'
<1>1. RowsKept' /\ ClaimsAreTrue(rows', taken')
    BY WriteKeeps DEF AuditKept, Writes
<1>2. faults' # 0
    BY DEF RowsKept, NotWritten
<1>3. QED BY <1>1, <1>2 DEF AuditKept

(* A step that tells and shows of no message.                              *)
UntoldWrite(row) == Message(row) /\ Writes(row) /\ ~Claims(row) /\ ~ToldBy(row, output = "private")

LEMMA QuietTurn ==
    ASSUME RowsKept, AuditTyped, AuditKept, AuditTyped', FatesKept', UNCHANGED <<output, panel, refused>>,
           Milder(turn, turn', output = "private"),
           turn'.step \in Failing /\ ~turn'.blank =>
                turn.step \in Failing /\ turn'.of = turn.of /\ ~turn.blank,
           Noting(turn', output = "private") => Noting(turn, output = "private") /\ turn'.of = turn.of,
           turn.step = "dead" => turn' = turn,
           taken \subseteq taken', \A m \in taken' : m \in taken \/ (turn'.step = "dead" /\ m = turn'.of),
           UNCHANGED <<rows, attempts, faults>> \/ \E row : UntoldWrite(row)
    PROVE  RowsKept' /\ AuditKept'
<1> DEFINE private == output = "private"
<1>1. RowsKept' /\ ClaimsAreTrue(rows', taken')
  <2>1. ASSUME NEW row, UntoldWrite(row) PROVE RowsKept' /\ ClaimsAreTrue(rows', taken')
      BY <2>1, WriteKeeps DEF UntoldWrite, AuditKept
  <2>2. CASE UNCHANGED <<rows, attempts, faults>>
      BY <2>2 DEF RowsKept, AuditKept, ClaimsAreTrue
  <2>3. QED BY <2>1, <2>2
<1>2. ASSUME faults' = 0
      PROVE  /\ Matched(rows', panel', output' = "private", refused', turn')
             /\ FailureIsTold(rows', output' = "private", turn')
             /\ NoteIsShown(panel', output' = "private", turn')
             /\ TakenAreTold(rows', taken', turn')
  <2>1. /\ Matched(rows, panel, private, refused, turn) /\ FailureIsTold(rows, private, turn)
        /\ NoteIsShown(panel, private, turn) /\ TakenAreTold(rows, taken, turn) /\ rows \in Seq(Rows)
        /\ \/ rows' = rows
           \/ \E row : row \in Rows /\ rows' = Append(rows, row) /\ ~ToldBy(row, private)
    <3>1. CASE UNCHANGED <<rows, attempts, faults>>
        BY <1>2, <3>1 DEF AuditKept, RowsKept
    <3>2. ASSUME NEW row, UntoldWrite(row)
          PROVE  faults = 0 /\ row \in Rows /\ rows' = Append(rows, row) /\ ~ToldBy(row, private)
        BY <1>2, <3>2, WriteIsWhole DEF UntoldWrite, Writes, Message
    <3>3. QED BY <3>1, <3>2 DEF AuditKept, RowsKept
  <2>2. Matched(rows, panel, private, refused, turn')
    <3>1. turn.of \in Nat /\ turn'.of \in Nat
        BY DEF AuditTyped
    <3>2. /\ LastShown(turn) \in Int /\ LastShown(turn') \in Int
          /\ LastTold(turn, private) \in Int /\ LastTold(turn', private) \in Int
        BY <3>1 DEF LastShown, LastTold
    <3>3. QED BY <2>1, <3>2, TurnMoves
  <2>3. FailureIsTold(rows, private, turn') /\ NoteIsShown(panel, private, turn')
      BY <2>1 DEF FailureIsTold, NoteIsShown
  <2>4. TakenAreTold(rows, taken', turn')
    <3>1. ASSUME NEW m \in taken'
          PROVE  (turn'.step = "dead" /\ m = turn'.of) \/ \E k \in 1..Len(rows) : TellsOf(rows[k], m)
        BY <2>1 DEF TakenAreTold
    <3>2. QED BY <3>1 DEF TakenAreTold
  <2>5. CASE rows' = rows
      BY <2>2, <2>3, <2>4, <2>5
  <2>6. ASSUME NEW row, row \in Rows, rows' = Append(rows, row), ~ToldBy(row, private)
        PROVE  /\ Matched(rows', panel, private, refused, turn')
               /\ FailureIsTold(rows', private, turn')
               /\ TakenAreTold(rows', taken', turn')
    <3>1. Matched(rows', panel, private, refused, turn')
        BY <2>1, <2>2, <2>6, UntoldRow DEF Matched
    <3>2. FailureIsTold(rows', private, turn')
      <4>1. Told(rows, private) \subseteq Told(rows', private)
          BY <2>1, <2>6, ToldMore
      <4>2. \A k \in Told(rows, private) : rows'[k] = rows[k]
          BY <2>1, <2>6, ToldMore DEF Told
      <4>3. QED BY <2>3, <4>1, <4>2 DEF FailureIsTold
    <3>3. TakenAreTold(rows', taken', turn')
        BY <2>1, <2>4, <2>6, TakenMore
    <3>4. QED BY <3>1, <3>2, <3>3
  <2>7. QED BY <2>1, <2>3, <2>5, <2>6
<1>3. QED BY <1>1, <1>2 DEF AuditKept

-----------------------------------------------------------------------------
(* What is shown is an entry.                                              *)
LEMMA ShowIsTyped ==
    ASSUME AuditTyped, NEW marker \in {"none", "SENT", "SHADOW"}, Show(marker), turn'.blank \in BOOLEAN
    PROVE  /\ panel' \in Seq(Entries)
           /\ \E entry \in Entries : /\ entry = [marker |-> marker, of |-> turn.of, blank |-> turn'.blank]
                                     /\ Longer(panel, entry, panel')
<1>1. [marker |-> marker, of |-> turn.of, blank |-> turn'.blank] \in Entries /\ panel \in Seq(Entries)
    BY DEF AuditTyped, Entries
<1>2. QED BY <1>1, ShowMakes

LEMMA EndRouteIsTyped ==
    ASSUME AuditTyped, NEW action, EndRoute(action), turn'.blank \in BOOLEAN
    PROVE  panel' \in Seq(Entries)
<1>1. panel' = panel \/ Show("SENT") \/ Show("SHADOW")
    BY DEF EndRoute
<1>2. QED BY <1>1, ShowIsTyped DEF AuditTyped

LEMMA StepIsTyped ==
    ASSUME AuditTyped, [ReplayNext]_<<policyVars, replayVars>>
    PROVE  AuditTyped'
<1> USE DEF AuditTyped, Deciding, Failing
<1>0. CASE Ask
  <2>1. turn.of \in Nat /\ UNCHANGED <<output, command, panel>>
      BY <1>0 DEF Ask, keyVars
  <2>2. turn.of + 1 \in Nat /\ turn' = [step |-> "asking", of |-> turn.of + 1, blank |-> FALSE]
      BY <1>0, <2>1 DEF Ask
  <2>3. QED BY <2>1, <2>2
<1>1. CASE SaysNothing \/ NoteOutput \/ CancelTurn
    BY <1>1 DEF SaysNothing, NoteOutput, CancelTurn, Goto, keyVars
<1>2. CASE SaysPrivately
  <2>1. /\ UNCHANGED <<output, command>>
        /\ turn' \in [step : {"idle", "noting", "dead"} \cup Deciding \cup Failing, of : Nat, blank : BOOLEAN]
      BY <1>2 DEF SaysPrivately, Goto, keyVars
  <2>2. panel' \in Seq(Entries)
      BY <1>2, <2>1, ShowIsTyped DEF SaysPrivately
  <2>3. QED BY <2>1, <2>2
<1>3. ASSUME NEW blank \in BOOLEAN, SaysPublicly(blank) PROVE AuditTyped'
  <2>1. /\ UNCHANGED <<output, command>>
        /\ turn' \in [step : {"idle", "noting", "dead"} \cup Deciding \cup Failing, of : Nat, blank : BOOLEAN]
      BY <1>3 DEF SaysPublicly, keyVars
  <2>2. panel' = panel \/ EndRoute(lastDecision'.action)
      BY <1>3 DEF SaysPublicly, Breaks
  <2>3. QED BY <2>1, <2>2, EndRouteIsTyped
<1>4. CASE SendIsTaken \/ SendIsRefused \/ LooksForDegrade \/ RecordsDegrade \/ CountForbidden
  <2>1. /\ UNCHANGED <<output, command>>
        /\ turn' \in [step : {"idle", "noting", "dead"} \cup Deciding \cup Failing, of : Nat, blank : BOOLEAN]
      BY <1>4 DEF SendIsTaken, SendIsRefused, LooksForDegrade, RecordsDegrade, CountForbidden, Goto,
                  keyVars
  <2>2. panel' = panel \/ EndRoute("send")
      BY <1>4 DEF SendIsTaken, SendIsRefused, LooksForDegrade, RecordsDegrade, CountForbidden, Breaks
  <2>3. QED BY <2>1, <2>2, EndRouteIsTyped
<1>5. CASE SendIsForbidden
    BY <1>5 DEF SendIsForbidden, Goto, keyVars
<1>6. CASE PressPromote \/ ConfirmPromote \/ PressKill \/ RecordCommand \/ MarkStreamer
    BY <1>6 DEF PressPromote, ConfirmPromote, PressKill, RecordCommand, MarkStreamer
<1>7. CASE GuardDisables \/ TimePasses \/ UNCHANGED <<policyVars, replayVars>>
    BY <1>7 DEF GuardDisables, TimePasses, replayVars
<1>8. QED BY <1>0, <1>1, <1>2, <1>3, <1>4, <1>5, <1>6, <1>7 DEF ReplayNext

LEMMA StepKeepsFates ==
    ASSUME AuditTyped, FatesKept, [ReplayNext]_<<policyVars, replayVars>>
    PROVE  FatesKept'
<1> USE DEF Failing
<1>1. turn.of \in Nat /\ turn = [step |-> turn.step, of |-> turn.of, blank |-> turn.blank]
    BY DEF AuditTyped, Deciding
<1>2. CASE Ask
  <2>1. UNCHANGED <<output, refused>> /\ turn' = [step |-> "asking", of |-> turn.of + 1, blank |-> FALSE]
      BY <1>2 DEF Ask, fates
  <2>2. \A m \in refused : m \in Nat /\ m <= turn.of + 1 /\ m # turn.of + 1
      BY <1>1 DEF FatesKept
  <2>3. QED BY <2>1, <2>2 DEF FatesKept
<1>3. CASE SaysNothing \/ SaysPrivately \/ NoteOutput \/ CancelTurn
    BY <1>1, <1>3 DEF FatesKept, SaysNothing, SaysPrivately, NoteOutput, CancelTurn, Goto, At, fates
<1>4. ASSUME NEW blank \in BOOLEAN, SaysPublicly(blank) PROVE FatesKept'
    BY <1>1, <1>4 DEF FatesKept, SaysPublicly, At
<1>5. CASE SendIsTaken
    BY <1>1, <1>5 DEF FatesKept, SendIsTaken, Goto, At
<1>6. CASE LooksForDegrade \/ RecordsDegrade \/ CountForbidden
    BY <1>1, <1>6 DEF FatesKept, LooksForDegrade, RecordsDegrade, CountForbidden, Goto, At, fates
<1>7. CASE SendIsRefused \/ SendIsForbidden
  <2>1. /\ turn.step = "sending" /\ refused' = refused \cup {turn.of} /\ output' = output
        /\ turn'.of = turn.of /\ turn'.step \in {"degrading", "disarming", "dead"}
      BY <1>1, <1>7 DEF SendIsRefused, SendIsForbidden, Goto, At
  <2>2. output # "private"
      BY <2>1 DEF FatesKept
  <2>3. \A m \in refused' : m \in Nat /\ m <= turn'.of
      BY <1>1, <2>1 DEF FatesKept
  <2>4. QED BY <2>1, <2>2, <2>3 DEF FatesKept
<1>8. CASE PressPromote \/ ConfirmPromote \/ PressKill \/ RecordCommand \/ MarkStreamer
    BY <1>8 DEF FatesKept, PressPromote, ConfirmPromote, PressKill, RecordCommand, MarkStreamer, fates
<1>9. CASE GuardDisables \/ TimePasses \/ UNCHANGED <<policyVars, replayVars>>
    BY <1>9 DEF FatesKept, GuardDisables, TimePasses, replayVars, fates
<1>10. QED BY <1>2, <1>3, <1>4, <1>5, <1>6, <1>7, <1>8, <1>9 DEF ReplayNext

(* The message is told and shown at once.                                  *)
TellsAndShows(what, marker) ==
    /\ turn.step \in Deciding /\ output # "private"
    /\ turn' = [turn EXCEPT !.step = "noting", !.blank = turn'.blank] /\ turn'.blank \in BOOLEAN
    /\ UNCHANGED <<output, refused>>
    /\ Written(DecisionRow(what)) /\ Show(marker)
    /\ \/ what = "send" /\ marker = "SENT" /\ turn.of \notin refused /\ taken' = taken \cup {turn.of}
       \/ what = "shadow" /\ marker = "SHADOW" /\ taken' = taken
       \/ what = "failed" /\ marker = "SENT" /\ turn.of \in refused /\ taken' = taken

LEMMA TellsAndShowsKeeps ==
    ASSUME RowsKept, AuditTyped, AuditKept, FatesKept', AuditTyped', NEW what, NEW marker,
           TellsAndShows(what, marker)
    PROVE  RowsKept' /\ AuditKept'
<1> DEFINE row == DecisionRow(what)
           t == turn.of
<1>1. /\ turn'.of = t /\ turn'.step = "noting" /\ t \in Nat /\ turn'.blank \in BOOLEAN
      /\ what \in {"send", "shadow", "failed"} /\ marker \in {"none", "SENT", "SHADOW"}
      /\ (output' = "private") = FALSE /\ (output = "private") = FALSE /\ refused' = refused
      /\ turn.step \in Deciding /\ turn.step \notin Failing /\ turn.step # "noting" /\ turn.step # "dead"
    BY DEF TellsAndShows, AuditTyped, Deciding, Failing
<1>2. /\ Message(row) /\ row.kind = "decision" /\ row.what = what /\ row.of = t /\ row.blank = turn'.blank
    BY <1>1, RowIsMessage DEF DecisionRow
<1>3. RowsKept' /\ ClaimsAreTrue(rows', taken')
  <2>1. Writes(row) /\ taken \subseteq taken' /\ (what = "send" => t \in taken')
      BY DEF TellsAndShows, Writes
  <2>2. QED BY <1>2, <2>1, WriteKeeps DEF AuditKept, Claims
<1>4. ASSUME faults' = 0
      PROVE  /\ Matched(rows', panel', FALSE, refused, turn')
             /\ FailureIsTold(rows', FALSE, turn')
             /\ NoteIsShown(panel', FALSE, turn')
             /\ TakenAreTold(rows', taken', turn')
  <2>1. faults = 0 /\ rows' = Append(rows, row) /\ rows \in Seq(Rows) /\ row \in Rows
      BY <1>2, <1>4, WriteIsWhole DEF TellsAndShows, RowsKept, Message
  <2>2. Matched(rows, panel, FALSE, refused, turn) /\ TakenAreTold(rows, taken, turn)
      BY <1>1, <2>1 DEF AuditKept
  <2>3. /\ EntriesUp(panel, t - 1) /\ RowsUp(rows, FALSE, t - 1)
        /\ AllTold(rows, panel, FALSE, refused, {}) /\ NoneSkipped(rows, panel, FALSE, {})
      BY <1>1, <2>2 DEF Matched, LastShown, LastTold, Untold, Unshown, Noting
  <2>4. PICK entry \in Entries : /\ entry = [marker |-> marker, of |-> t, blank |-> turn'.blank]
                                 /\ Longer(panel, entry, panel')
      BY <1>1, ShowIsTyped DEF TellsAndShows
  <2>5. entry.of = t /\ entry.blank = turn'.blank /\ entry.marker = marker
      BY <2>4
  <2>6. \/ entry.blank /\ ~ToldBy(row, FALSE)
        \/ ~entry.blank /\ ToldBy(row, FALSE) /\ SameMessage(row, entry, refused)
    <3>1. Tells(row) <=> ~entry.blank
        BY <1>1, <1>2, <2>5 DEF Tells, Malformed
    <3>2. MarkerOf(row) = IF what = "send" THEN "SENT" ELSE "SHADOW"
        BY <1>2 DEF MarkerOf
    <3>3. ShownAs(entry, refused) = MarkerOf(row)
        BY <2>5, <3>2 DEF ShownAs, TellsAndShows
    <3>4. QED BY <1>2, <2>5, <3>1, <3>2, <3>3 DEF ToldBy, SameMessage
  <2>7. /\ EntriesUp(panel', t) /\ RowsUp(rows', FALSE, t)
        /\ AllTold(rows', panel', FALSE, refused, {}) /\ NoneSkipped(rows', panel', FALSE, {})
    <3>1. t \in Nat /\ row.of = t /\ entry.of = t /\ row \in Rows /\ rows \in Seq(Rows)
          /\ rows' = Append(rows, row) /\ Longer(panel, entry, panel')
        BY <1>1, <1>2, <2>1, <2>4, <2>5
    <3> HIDE DEF t, row
    <3>2. QED BY <2>3, <2>6, <3>1, TellAndShow
  <2>8. Matched(rows', panel', FALSE, refused, turn')
      BY <1>1, <2>7 DEF Matched, LastShown, LastTold, Untold, Unshown, Noting,
                         Deciding, Failing
  <2>9. TakenAreTold(rows', taken', turn')
    <3>1. \A m \in taken' : m \in taken \/ TellsOf(row, m)
        BY <1>2 DEF TellsAndShows, TellsOf
    <3>2. QED BY <1>1, <2>1, <2>2, <3>1, TakenMore
  <2>10. FailureIsTold(rows', FALSE, turn') /\ NoteIsShown(panel', FALSE, turn')
      BY <1>1 DEF FailureIsTold, NoteIsShown, Noting, Failing
  <2>11. QED BY <2>8, <2>9, <2>10
<1>5. QED BY <1>1, <1>3, <1>4 DEF AuditKept

(* The message that was refused, and told, is shown.                       *)
ShowsLate ==
    /\ turn.step \in Failing /\ output # "private"
    /\ turn' = [turn EXCEPT !.step = "noting"]
    /\ UNCHANGED <<output, refused, taken>>
    /\ Show("SENT")
    /\ UNCHANGED <<rows, attempts, faults>> \/ \E row : UntoldWrite(row)

LEMMA ShowsLateKeeps ==
    ASSUME RowsKept, AuditTyped, AuditKept, FatesKept', AuditTyped', ShowsLate
    PROVE  RowsKept' /\ AuditKept'
<1> DEFINE t == turn.of
<1>1. /\ turn'.of = t /\ turn'.step = "noting" /\ t \in Nat /\ turn'.blank = turn.blank
      /\ turn'.blank \in BOOLEAN
      /\ (output' = "private") = FALSE /\ (output = "private") = FALSE /\ refused' = refused
      /\ turn.step \in Failing /\ turn.step \notin Deciding /\ turn.step # "noting" /\ turn.step # "dead"
    BY DEF ShowsLate, AuditTyped, Deciding, Failing
<1>2. RowsKept' /\ ClaimsAreTrue(rows', taken')
  <2>1. ASSUME NEW row, UntoldWrite(row) PROVE RowsKept' /\ ClaimsAreTrue(rows', taken')
      BY <2>1, WriteKeeps DEF UntoldWrite, AuditKept, ShowsLate
  <2>2. CASE UNCHANGED <<rows, attempts, faults>>
      BY <2>2 DEF RowsKept, AuditKept, ClaimsAreTrue, ShowsLate
  <2>3. QED BY <2>1, <2>2 DEF ShowsLate
<1>3. ASSUME faults' = 0
      PROVE  /\ Matched(rows', panel', FALSE, refused, turn')
             /\ FailureIsTold(rows', FALSE, turn')
             /\ NoteIsShown(panel', FALSE, turn')
             /\ TakenAreTold(rows', taken', turn')
  <2>1. /\ Matched(rows, panel, FALSE, refused, turn) /\ FailureIsTold(rows, FALSE, turn)
        /\ TakenAreTold(rows, taken, turn) /\ rows \in Seq(Rows)
        /\ \/ rows' = rows
           \/ \E row : row \in Rows /\ rows' = Append(rows, row) /\ ~ToldBy(row, FALSE)
    <3>1. CASE UNCHANGED <<rows, attempts, faults>>
        BY <1>1, <1>3, <3>1 DEF AuditKept, RowsKept
    <3>2. ASSUME NEW row, UntoldWrite(row)
          PROVE  faults = 0 /\ row \in Rows /\ rows' = Append(rows, row) /\ ~ToldBy(row, FALSE)
        BY <1>1, <1>3, <3>2, WriteIsWhole DEF UntoldWrite, Writes, Message
    <3>3. QED BY <1>1, <3>1, <3>2 DEF AuditKept, RowsKept, ShowsLate
  <2>2. /\ EntriesUp(panel, t - 1) /\ RowsUp(rows, FALSE, t) /\ AllTold(rows, panel, FALSE, refused, {})
        /\ NoneSkipped(rows, panel, FALSE, IF turn.blank THEN {} ELSE {t})
      BY <1>1, <2>1 DEF Matched, LastShown, LastTold, Untold, Unshown, Noting
  <2>3. PICK entry \in Entries : /\ entry = [marker |-> "SENT", of |-> t, blank |-> turn'.blank]
                                 /\ Longer(panel, entry, panel')
      BY <1>1, ShowIsTyped DEF ShowsLate
  <2>4. entry.of = t /\ entry.blank = turn.blank
      BY <1>1, <2>3
  <2>5. EntriesUp(panel', t)
      BY <1>1, <2>2, <2>3, <2>4, EntryIsLast
  <2>6. AllTold(rows, panel', FALSE, refused, {})
    <3>1. t \in refused
        BY <1>1 DEF AuditKept, FatesKept
    <3>2. entry.blank \/ \E k \in Told(rows, FALSE) : SameMessage(rows[k], entry, refused)
        BY <1>1, <2>1, <2>4, <3>1 DEF FailureIsTold, SameMessage, ShownAs
    <3>3. QED BY <1>1, <2>2, <2>3, <2>4, <3>2, EntryIsTold
  <2>7. NoneSkipped(rows, panel', FALSE, {})
    <3>1. PICK set : set = IF turn.blank THEN {} ELSE {t}
        OBVIOUS
    <3>2. NoneSkipped(rows, panel, FALSE, set) /\ (set = {} \/ (set = {t} /\ ~entry.blank))
        BY <2>2, <2>4, <3>1
    <3>3. QED BY <1>1, <2>2, <2>3, <2>4, <3>2, EntrySkipsNone
  <2>8. /\ RowsUp(rows', FALSE, t) /\ AllTold(rows', panel', FALSE, refused, {})
        /\ NoneSkipped(rows', panel', FALSE, {}) /\ TakenAreTold(rows', taken', turn')
    <3>1. CASE rows' = rows
      <4>1. TakenAreTold(rows, taken', turn')
          BY <1>1, <2>1 DEF TakenAreTold, ShowsLate
      <4>2. QED BY <2>2, <2>6, <2>7, <3>1, <4>1
    <3>2. ASSUME NEW row, row \in Rows, rows' = Append(rows, row), ~ToldBy(row, FALSE)
          PROVE  /\ RowsUp(rows', FALSE, t) /\ AllTold(rows', panel', FALSE, refused, {})
                 /\ NoneSkipped(rows', panel', FALSE, {}) /\ TakenAreTold(rows', taken', turn')
      <4>1. /\ RowsUp(rows', FALSE, t) /\ AllTold(rows', panel', FALSE, refused, {})
            /\ NoneSkipped(rows', panel', FALSE, {})
          BY <2>1, <2>2, <2>6, <2>7, <3>2, UntoldRow
      <4>2. TakenAreTold(rows', taken', turn')
        <5>1. taken' = taken /\ (turn.step = "dead" => turn' = turn)
            BY <1>1 DEF ShowsLate
        <5>2. TakenAreTold(rows', taken, turn')
            BY <2>1, <3>2, <5>1, TakenMore
        <5>3. QED BY <5>1, <5>2
      <4>3. QED BY <4>1, <4>2
    <3>3. QED BY <2>1, <3>1, <3>2
  <2>9. Matched(rows', panel', FALSE, refused, turn')
      BY <1>1, <2>5, <2>8 DEF Matched, LastShown, LastTold, Untold, Unshown, Noting,
                         Deciding, Failing
  <2>10. FailureIsTold(rows', FALSE, turn') /\ NoteIsShown(panel', FALSE, turn')
      BY <1>1 DEF FailureIsTold, NoteIsShown, Noting, Failing
  <2>11. QED BY <2>8, <2>9, <2>10
<1>4. QED BY <1>1, <1>2, <1>3 DEF AuditKept

(* A private message is shown first.                                       *)
LEMMA SaysPrivatelyKeeps ==
    ASSUME RowsKept, AuditTyped, AuditKept, FatesKept', AuditTyped', SaysPrivately
    PROVE  RowsKept' /\ AuditKept'
<1> DEFINE t == turn.of
<1>1. /\ turn'.of = t /\ turn'.step = "noting" /\ turn.step = "asking" /\ t \in Nat
      /\ turn'.blank = turn.blank /\ turn'.blank \in BOOLEAN /\ ~turn.blank /\ Show("none")
      /\ (output' = "private") = TRUE /\ (output = "private") = TRUE /\ UNCHANGED <<refused, taken>>
      /\ UNCHANGED <<rows, attempts, faults>>
    BY DEF SaysPrivately, Goto, At, AuditTyped, AuditKept, FatesKept, fates
<1>2. RowsKept' /\ ClaimsAreTrue(rows', taken')
    BY <1>1 DEF RowsKept, AuditKept, ClaimsAreTrue
<1>3. ASSUME faults' = 0
      PROVE  /\ Matched(rows, panel', TRUE, refused, turn')
             /\ FailureIsTold(rows, TRUE, turn')
             /\ NoteIsShown(panel', TRUE, turn')
             /\ TakenAreTold(rows, taken, turn')
  <2>1. /\ Matched(rows, panel, TRUE, refused, turn) /\ NoteIsShown(panel, TRUE, turn)
        /\ TakenAreTold(rows, taken, turn)
      BY <1>1, <1>3 DEF AuditKept
  <2>2. /\ EntriesUp(panel, t - 1) /\ RowsUp(rows, TRUE, t - 1) /\ AllTold(rows, panel, TRUE, refused, {})
        /\ NoneSkipped(rows, panel, TRUE, {})
      BY <1>1, <2>1 DEF Matched, LastShown, LastTold, Untold, Unshown, Noting,
                         Deciding, Failing
  <2>3. PICK entry \in Entries : /\ entry = [marker |-> "none", of |-> t, blank |-> turn'.blank]
                                 /\ Longer(panel, entry, panel')
      BY <1>1, ShowIsTyped
  <2>4. entry.of = t /\ ~entry.blank /\ entry.marker = "none"
      BY <1>1, <2>3
  <2>5. /\ EntriesUp(panel', t) /\ \E i \in Shown(panel') : panel'[i].of = t
        /\ \A i \in 1..Len(panel') : panel'[i] = entry \/
              \E j \in 1..Len(panel) : panel'[i] = panel[j]
      BY <1>1, <2>2, <2>3, <2>4, EntryIsLast
  <2>6. AllTold(rows, panel', TRUE, refused, {t})
    <3>1. PICK set : set = {t}
        OBVIOUS
    <3>2. t \in Nat /\ t \in set
        BY <1>1, <3>1
    <3> HIDE DEF t
    <3>3. AllTold(rows, panel', TRUE, refused, set)
        BY <2>2, <2>3, <2>4, <3>2, EntryIsTold
    <3>4. QED BY <3>1, <3>3
  <2>7. NoneSkipped(rows, panel', TRUE, {})
    <3>1. t \in Nat
        BY <1>1
    <3> HIDE DEF t
    <3>a. RowsUp(rows, TRUE, t - 1)
        BY <2>2
    <3>2. RowsUp(rows, TRUE, t)
        BY <3>1, <3>a, RowsUpTo
    <3>3. QED BY <2>2, <2>3, <2>4, <3>1, <3>2, EntrySkipsNone
  <2>8. Matched(rows, panel', TRUE, refused, turn')
      BY <1>1, <2>2, <2>5, <2>6, <2>7 DEF Matched, LastShown, LastTold, Untold, Unshown, Noting,
                         Deciding, Failing
  <2>9. NoteIsShown(panel', TRUE, turn')
      BY <1>1, <2>1, <2>4, <2>5 DEF NoteIsShown, Noting
  <2>10. TakenAreTold(rows, taken, turn') /\ FailureIsTold(rows, TRUE, turn')
      BY <1>1, <2>1 DEF TakenAreTold, FailureIsTold, Failing
  <2>11. QED BY <2>8, <2>9, <2>10
<1>4. QED BY <1>1, <1>2, <1>3 DEF AuditKept

(* And then it has its row.                                                *)
LEMMA NotesPrivatelyKeeps ==
    ASSUME RowsKept, AuditTyped, AuditKept, FatesKept', AuditTyped', NoteOutput, output = "private"
    PROVE  RowsKept' /\ AuditKept'
<1> DEFINE t == turn.of
           row == Row("output", "none", turn.of, turn.blank)
<1>1. /\ turn'.of = t /\ turn'.step = "idle" /\ turn.step = "noting" /\ t \in Nat
      /\ ~turn.blank /\ Writes(row) /\ UNCHANGED <<panel, refused, taken>> /\ refused = {}
      /\ (output' = "private") = TRUE /\ (output = "private") = TRUE
    BY DEF NoteOutput, Goto, At, AuditTyped, AuditKept, FatesKept, fates, Writes
<1>2. /\ Message(row) /\ row.kind = "output" /\ row.of = t /\ ~row.blank
  <2>1. row = Row("output", "none", t, turn.blank) /\ t \in Nat /\ turn.blank \in BOOLEAN /\ ~turn.blank
      BY <1>1 DEF AuditTyped
  <2> HIDE DEF t, row
  <2>2. QED BY <2>1, RowIsMessage
<1>3. RowsKept' /\ ClaimsAreTrue(rows', taken')
    BY <1>1, <1>2, WriteKeeps DEF AuditKept, Claims
<1>4. ASSUME faults' = 0
      PROVE  /\ Matched(rows', panel, TRUE, refused, turn')
             /\ FailureIsTold(rows', TRUE, turn')
             /\ NoteIsShown(panel, TRUE, turn')
             /\ TakenAreTold(rows', taken, turn')
  <2>1. faults = 0 /\ rows' = Append(rows, row) /\ rows \in Seq(Rows) /\ row \in Rows
      BY <1>1, <1>2, <1>4, WriteIsWhole DEF RowsKept, Message, Writes
  <2>2. /\ Matched(rows, panel, TRUE, refused, turn) /\ NoteIsShown(panel, TRUE, turn)
        /\ TakenAreTold(rows, taken, turn)
      BY <1>1, <2>1 DEF AuditKept
  <2>3. /\ EntriesUp(panel, t) /\ RowsUp(rows, TRUE, t - 1) /\ AllTold(rows, panel, TRUE, refused, {t})
        /\ NoneSkipped(rows, panel, TRUE, {})
      BY <1>1, <2>2 DEF Matched, LastShown, LastTold, Untold, Unshown, Noting,
                         Deciding, Failing
  <2>4. ToldBy(row, TRUE) /\ MarkerOf(row) = "none"
      BY <1>2 DEF ToldBy, Tells, Malformed, MarkerOf
  <2>5. RowsUp(rows', TRUE, t) /\ NoneSkipped(rows', panel, TRUE, {t})
    <3> HIDE DEF t, row
    <3>1. QED BY <1>1, <1>2, <2>1, <2>3, <2>4, ToldRow
  <2>6. AllTold(rows', panel, TRUE, refused, {})
    <3>1. AllTold(rows', panel, TRUE, refused, {t})
      <4>1. PICK set : set = {t}
          OBVIOUS
      <4> HIDE DEF t, row
      <4>2. AllTold(rows', panel, TRUE, refused, set)
          BY <2>1, <2>3, <4>1, MoreRows
      <4>3. QED BY <4>1, <4>2
    <3>2. \E k \in Told(rows', TRUE) : rows'[k] = row
        BY <2>1, <2>4, ToldMore
    <3>3. ASSUME NEW i \in Shown(panel), panel[i].of = t
          PROVE  SameMessage(row, panel[i], refused)
      <4>1. panel[i].marker = "none"
          BY <2>2 DEF NoteIsShown, Shown
      <4>2. QED BY <1>1, <1>2, <2>4, <3>3, <4>1 DEF SameMessage, ShownAs
    <3>4. QED BY <3>1, <3>2, <3>3 DEF AllTold
  <2>7. NoneSkipped(rows', panel, TRUE, {})
    <3>1. \E j \in Shown(panel) : panel[j].of = t
        BY <1>1, <2>2 DEF NoteIsShown, Noting
    <3>2. QED BY <2>5, <3>1 DEF NoneSkipped
  <2>8. Matched(rows', panel, TRUE, refused, turn')
      BY <1>1, <2>3, <2>5, <2>6, <2>7 DEF Matched, LastShown, LastTold, Untold, Unshown, Noting,
                         Deciding, Failing
  <2>9. NoteIsShown(panel, TRUE, turn') /\ FailureIsTold(rows', TRUE, turn')
      BY <1>1, <2>2 DEF NoteIsShown, Noting, FailureIsTold, Failing
  <2>10. TakenAreTold(rows', taken, turn')
    <3>1. turn.step # "dead"
        BY <1>1
    <3> HIDE DEF t, row
    <3>2. QED BY <2>1, <2>2, <3>1, TakenMore
  <2>11. QED BY <2>8, <2>9, <2>10
<1>5. QED BY <1>1, <1>3, <1>4 DEF AuditKept

(* A turn more that was refused changes nothing of those shown before.     *)
LEMMA RefusedMore ==
    ASSUME NEW file, NEW entries, NEW private, NEW failed, NEW set, NEW t \in Nat,
           NEW more, more = failed \cup {t},
           EntriesUp(entries, t - 1), AllTold(file, entries, private, failed, set)
    PROVE  AllTold(file, entries, private, more, set)
<1>1. ASSUME NEW i \in Shown(entries) PROVE ShownAs(entries[i], more) = ShownAs(entries[i], failed)
  <2>1. entries[i].of \in Nat /\ entries[i].of <= t - 1
      BY DEF Shown, EntriesUp
  <2>2. entries[i].of # t
      BY <2>1
  <2>3. QED BY <2>2 DEF ShownAs
<1>2. QED BY <1>1 DEF AllTold, SameMessage

(* A refusal is told before it is shown.                                   *)
LEMMA SendIsRefusedKeeps ==
    ASSUME RowsKept, AuditTyped, AuditKept, FatesKept', AuditTyped', SendIsRefused
    PROVE  RowsKept' /\ AuditKept'
<1> DEFINE t == turn.of
           row == DecisionRow("failed")
<1>1. /\ turn'.of = t /\ turn.step = "sending" /\ t \in Nat /\ turn'.blank = turn.blank
      /\ turn.blank \in BOOLEAN /\ UNCHANGED <<output, panel, taken>> /\ refused' = refused \cup {t}
      /\ (output' = "private") = FALSE /\ (output = "private") = FALSE
      /\ (turn'.step = "degrading" /\ Written(row)) \/ NotWritten(row)
    BY DEF SendIsRefused, Goto, At, AuditTyped, AuditKept, FatesKept, Breaks
<1>2. /\ Message(row) /\ row.kind = "decision" /\ row.what = "failed" /\ row.of = t /\ row.blank = turn.blank
    BY <1>1, RowIsMessage DEF DecisionRow
<1>3. CASE NotWritten(row)
    BY <1>1, <1>2, <1>3, BrokenStep DEF Claims
<1>4. CASE turn'.step = "degrading" /\ Written(row)
  <2>1. RowsKept' /\ ClaimsAreTrue(rows', taken')
      BY <1>1, <1>2, <1>4, WriteKeeps DEF AuditKept, Claims, Writes
  <2>2. ASSUME faults' = 0
        PROVE  /\ Matched(rows', panel, FALSE, refused', turn')
               /\ FailureIsTold(rows', FALSE, turn')
               /\ NoteIsShown(panel, FALSE, turn')
               /\ TakenAreTold(rows', taken, turn')
    <3>1. faults = 0 /\ rows' = Append(rows, row) /\ rows \in Seq(Rows) /\ row \in Rows
        BY <1>2, <1>4, <2>2, WriteIsWhole DEF RowsKept, Message
    <3>2. Matched(rows, panel, FALSE, refused, turn) /\ TakenAreTold(rows, taken, turn)
        BY <1>1, <3>1 DEF AuditKept
    <3>3. /\ EntriesUp(panel, t - 1) /\ RowsUp(rows, FALSE, t - 1)
          /\ AllTold(rows, panel, FALSE, refused, {}) /\ NoneSkipped(rows, panel, FALSE, {})
        BY <1>1, <3>2 DEF Matched, LastShown, LastTold, Untold, Unshown, Noting, Deciding,
        Failing
    <3>4. AllTold(rows, panel, FALSE, refused', {})
      <4> HIDE DEF t
      <4>1. QED BY <1>1, <3>3, RefusedMore
    <3>5. /\ RowsUp(rows', FALSE, t) /\ AllTold(rows', panel, FALSE, refused', {})
          /\ NoneSkipped(rows', panel, FALSE, IF turn.blank THEN {} ELSE {t})
          /\ ~turn.blank => \E k \in Told(rows', FALSE) : rows'[k] = row
      <4>1. t \in Nat /\ row.of = t
          BY <1>1, <1>2
      <4>2. AllTold(rows', panel, FALSE, refused', {})
          BY <3>1, <3>4, MoreRows
      <4>3. CASE turn.blank
        <5>1. ~ToldBy(row, FALSE)
            BY <1>2, <4>3 DEF ToldBy, Tells, Malformed
        <5> HIDE DEF t, row
        <5>2. RowsUp(rows, FALSE, t)
            BY <3>3, <4>1, RowsUpTo
        <5>3. RowsUp(rows', FALSE, t) /\ NoneSkipped(rows', panel, FALSE, {})
            BY <3>1, <3>3, <5>1, <5>2, UntoldRow
        <5>4. QED BY <4>2, <4>3, <5>3
      <4>4. CASE ~turn.blank
        <5>1. ToldBy(row, FALSE)
            BY <1>2, <4>4 DEF ToldBy, Tells, Malformed, MarkerOf
        <5> HIDE DEF t, row
        <5>2. RowsUp(rows', FALSE, t) /\ NoneSkipped(rows', panel, FALSE, {t})
            BY <3>1, <3>3, <4>1, <5>1, ToldRow
        <5>3. \E k \in Told(rows', FALSE) : rows'[k] = row
            BY <3>1, <5>1, ToldMore
        <5>4. QED BY <4>2, <4>4, <5>2, <5>3
      <4>5. QED BY <4>3, <4>4
    <3>6. Matched(rows', panel, FALSE, refused', turn')
        BY <1>1, <1>4, <3>3, <3>5 DEF Matched, LastShown, LastTold, Untold, Unshown, Noting,
                         Deciding, Failing
    <3>7. FailureIsTold(rows', FALSE, turn')
      <4>1. MarkerOf(row) = "SHADOW"
          BY <1>2 DEF MarkerOf
      <4>2. QED BY <1>1, <1>2, <3>5, <4>1 DEF FailureIsTold
    <3>8. NoteIsShown(panel, FALSE, turn')
        BY DEF NoteIsShown, Noting
    <3>9. TakenAreTold(rows', taken, turn')
      <4>1. turn.step # "dead"
          BY <1>1
      <4> HIDE DEF t, row
      <4>2. QED BY <3>1, <3>2, <4>1, TakenMore
    <3>10. QED BY <3>6, <3>7, <3>8, <3>9
  <2>3. QED BY <1>1, <2>1, <2>2 DEF AuditKept
<1>5. QED BY <1>1, <1>3, <1>4

(* One that is forbidden is neither told nor shown yet.                    *)
LEMMA SendIsForbiddenKeeps ==
    ASSUME RowsKept, AuditTyped, AuditKept, FatesKept', AuditTyped', SendIsForbidden
    PROVE  RowsKept' /\ AuditKept'
<1> DEFINE t == turn.of
<1>1. /\ turn'.of = t /\ turn.step = "sending" /\ t \in Nat /\ turn'.step = "disarming"
      /\ UNCHANGED <<output, panel, taken, rows, attempts, faults>> /\ refused' = refused \cup {t}
      /\ (output' = "private") = FALSE /\ (output = "private") = FALSE
    BY DEF SendIsForbidden, Goto, At, AuditTyped, AuditKept, FatesKept
<1>2. RowsKept' /\ ClaimsAreTrue(rows', taken')
    BY <1>1 DEF RowsKept, AuditKept
<1>3. ASSUME faults = 0
      PROVE  /\ Matched(rows, panel, FALSE, refused', turn')
             /\ FailureIsTold(rows, FALSE, turn')
             /\ NoteIsShown(panel, FALSE, turn')
             /\ TakenAreTold(rows, taken, turn')
  <2>1. Matched(rows, panel, FALSE, refused, turn) /\ TakenAreTold(rows, taken, turn)
      BY <1>1, <1>3 DEF AuditKept
  <2>2. /\ EntriesUp(panel, t - 1) /\ RowsUp(rows, FALSE, t - 1)
        /\ AllTold(rows, panel, FALSE, refused, {}) /\ NoneSkipped(rows, panel, FALSE, {})
      BY <1>1, <2>1 DEF Matched, LastShown, LastTold, Untold, Unshown, Noting, Deciding,
        Failing
  <2>3. AllTold(rows, panel, FALSE, refused', {})
    <3> HIDE DEF t
    <3>1. QED BY <1>1, <2>2, RefusedMore
  <2>4. Matched(rows, panel, FALSE, refused', turn')
      BY <1>1, <2>2, <2>3 DEF Matched, LastShown, LastTold, Untold, Unshown, Noting,
                         Deciding, Failing
  <2>5. /\ FailureIsTold(rows, FALSE, turn') /\ NoteIsShown(panel, FALSE, turn')
        /\ TakenAreTold(rows, taken, turn')
      BY <1>1, <2>1 DEF FailureIsTold, Failing, NoteIsShown, Noting, TakenAreTold
  <2>6. QED BY <2>4, <2>5
<1>4. QED BY <1>1, <1>2, <1>3 DEF AuditKept

-----------------------------------------------------------------------------
(* The steps of a turn, and those of the others.                           *)
LEMMA AskKeeps ==
    ASSUME RowsKept, AuditTyped, AuditKept, FatesKept', AuditTyped', Ask
    PROVE  RowsKept' /\ AuditKept'
<1> DEFINE trigger == Row("trigger", "none", turn.of + 1, FALSE)
<1>1. /\ turn.step = "idle" /\ turn' = [step |-> "asking", of |-> turn.of + 1, blank |-> FALSE]
      /\ UNCHANGED <<output, panel, refused, taken>> /\ turn.of \in Nat /\ Writes(trigger)
    BY DEF Ask, At, AuditTyped, Writes, fates
<1>2. Milder(turn, turn', output = "private")
  <2>1. /\ LastShown(turn) = turn.of /\ LastShown(turn') = turn.of + 1 - 1
        /\ LastTold(turn, output = "private") = turn.of
        /\ LastTold(turn', output = "private") = turn.of + 1 - 1
        /\ Untold(turn, output = "private") = {} /\ Unshown(turn) = {}
      BY <1>1 DEF LastShown, LastTold, Untold, Unshown, Noting,
                         Deciding, Failing
  <2>2. QED BY <1>1, <2>1 DEF Milder
<1>3. UntoldWrite(trigger)
  <2>1. Message(trigger) /\ trigger.kind = "trigger"
    <3>1. turn.of + 1 \in Nat
        BY <1>1
    <3>2. QED BY <3>1 DEF Message, Row, Rows, Spoils
  <2>2. QED BY <1>1, <2>1 DEF UntoldWrite, Claims, ToldBy, Tells
<1>4. turn'.step \notin Failing /\ turn.step # "dead" /\ ~Noting(turn', output = "private")
    BY <1>1 DEF Failing, Noting
<1> HIDE DEF trigger
<1>5. QED BY <1>1, <1>2, <1>3, <1>4, QuietTurn

(* The turn is where it was, or goes on without having said anything.      *)
LEMMA SameIsMilder ==
    ASSUME AuditTyped
    PROVE  /\ turn.of \in Nat
           /\ \A private \in BOOLEAN : Milder(turn, turn, private)
<1>1. turn.of \in Nat
    BY DEF AuditTyped
<1>2. ASSUME NEW private \in BOOLEAN PROVE Milder(turn, turn, private)
    BY <1>1 DEF Milder, LastShown, LastTold
<1>3. QED BY <1>1, <1>2

LEMMA LeaveIsMilder ==
    ASSUME AuditTyped, turn.step \in {"asking", "sending", "noting"}, turn'.of = turn.of,
           turn'.step \in {"idle", "dead"} \/ (turn.step = "asking" /\ turn'.step = "sending")
             \/ (turn'.step = "noting" /\ turn.step # "noting" /\ output # "private"),
           ~Noting(turn, output = "private")
    PROVE  Milder(turn, turn', output = "private") /\ turn'.step \notin Failing /\ turn.step # "dead"
           /\ ~Noting(turn', output = "private")
<1>1. turn.of \in Nat
    BY DEF AuditTyped
<1>2. /\ LastShown(turn) <= LastShown(turn')
      /\ LastTold(turn, output = "private") <= LastTold(turn', output = "private")
    BY <1>1 DEF LastShown, LastTold, Noting, Deciding, Failing
<1>3. Untold(turn, output = "private") = {} /\ Unshown(turn) = {}
    BY DEF Untold, Unshown, Noting, Failing
<1>4. QED BY <1>2, <1>3 DEF Milder, Noting, Failing

LEMMA LeavesQuietly ==
    ASSUME RowsKept, AuditTyped, AuditKept, FatesKept', AuditTyped', SaysNothing \/ CancelTurn
    PROVE  RowsKept' /\ AuditKept'
<1>1. /\ turn.step \in {"asking", "sending"} /\ turn'.of = turn.of /\ turn'.step \in {"idle", "dead"}
      /\ UNCHANGED <<output, panel, refused, rows, attempts, faults>>
      /\ taken' = taken \/ (turn'.step = "dead" /\ taken' = taken \cup {turn'.of})
    BY DEF SaysNothing, CancelTurn, Goto, At, fates, AuditTyped
<1>2. ~Noting(turn, output = "private")
    BY <1>1 DEF Noting
<1>3. /\ Milder(turn, turn', output = "private") /\ turn'.step \notin Failing /\ turn.step # "dead"
      /\ ~Noting(turn', output = "private")
    BY <1>1, <1>2, LeaveIsMilder
<1>4. taken \subseteq taken' /\ \A m \in taken' : m \in taken \/ (turn'.step = "dead" /\ m = turn'.of)
    BY <1>1
<1>5. QED BY <1>1, <1>3, <1>4, QuietTurn

LEMMA NotesPubliclyKeeps ==
    ASSUME RowsKept, AuditTyped, AuditKept, FatesKept', AuditTyped', NoteOutput, output # "private"
    PROVE  RowsKept' /\ AuditKept'
<1> DEFINE row == Row("output", "none", turn.of, turn.blank)
<1>1. /\ turn.step = "noting" /\ turn'.of = turn.of /\ turn'.step = "idle"
      /\ UNCHANGED <<output, panel, refused, taken>> /\ Writes(row)
      /\ turn.of \in Nat /\ turn.blank \in BOOLEAN
    BY DEF NoteOutput, Goto, At, fates, AuditTyped, Writes
<1>2. /\ Milder(turn, turn', output = "private") /\ turn'.step \notin Failing /\ turn.step # "dead"
      /\ ~Noting(turn', output = "private")
    BY <1>1, LeaveIsMilder DEF Noting
<1>3. UntoldWrite(row)
  <2>1. Message(row) /\ row.kind = "output"
      BY <1>1, RowIsMessage
  <2>2. QED BY <1>1, <2>1 DEF UntoldWrite, Claims, ToldBy, MarkerOf
<1> HIDE DEF row
<1>4. QED BY <1>1, <1>2, <1>3, QuietTurn

(* The keys and the clock leave the turn alone.                            *)
LEMMA OthersKeep ==
    ASSUME RowsKept, AuditTyped, AuditKept, FatesKept', AuditTyped',
           UNCHANGED <<output, turn, panel, refused, taken>>,
           \/ UNCHANGED <<rows, attempts, faults>>
           \/ \E row : /\ Message(row) /\ Writes(row)
                       /\ row.kind \in {"transition", "mark"}
    PROVE  RowsKept' /\ AuditKept'
<1>1. Milder(turn, turn', output = "private")
    BY SameIsMilder
<1>2. ASSUME NEW row, Message(row), Writes(row), row.kind \in {"transition", "mark"}
      PROVE  UntoldWrite(row)
    BY <1>2 DEF UntoldWrite, Claims, ToldBy, Tells
<1>3. UNCHANGED <<rows, attempts, faults>> \/ \E row : UntoldWrite(row)
    BY <1>2
<1>4. QED BY <1>1, <1>3, QuietTurn

(* The decision of a turn, and what it writes.                             *)
LEMMA DecideSays == ASSUME Decide(Audience) PROVE lastDecision'.action \in {"send", "shadow", "drop"}
<1>1. \A minute, hour : DecisionFor(Audience, minute, hour).action \in {"send", "shadow", "drop"}
    BY DEF DecisionFor, Intended
<1>2. QED BY <1>1 DEF Decide

LEMMA SaysPubliclyKeeps ==
    ASSUME RowsKept, AuditTyped, AuditKept, FatesKept', AuditTyped', NEW blank \in BOOLEAN,
           SaysPublicly(blank)
    PROVE  RowsKept' /\ AuditKept'
<1> DEFINE action == lastDecision'.action
           row == DecisionRow(action)
<1>1. /\ turn.step = "asking" /\ output = "public" /\ UNCHANGED <<output, taken, refused>>
      /\ action \in {"send", "shadow", "drop"} /\ turn.of \in Nat
      /\ \E step \in {"sending", "noting", "dead"} : turn' = [turn EXCEPT !.step = step, !.blank = blank]
    BY DecideSays DEF SaysPublicly, At, AuditTyped
<1>2. turn'.of = turn.of /\ turn'.blank = blank
    BY <1>1 DEF AuditTyped
<1>3. CASE turn'.step = "sending" /\ UNCHANGED <<rows, attempts, faults, panel>>
  <2>1. /\ Milder(turn, turn', output = "private") /\ turn'.step \notin Failing /\ turn.step # "dead"
        /\ ~Noting(turn', output = "private")
      BY <1>1, <1>2, <1>3, LeaveIsMilder DEF Noting
  <2>2. QED BY <1>1, <1>3, <2>1, QuietTurn
<1>4. action # "send" => Message(row) /\ ~Claims(row) /\ row.kind = "decision" /\ row.what = action
    BY <1>1, <1>2, RowIsMessage DEF DecisionRow, Claims
<1>5. CASE action = "drop" /\ Written(row) /\ EndRoute(action)
  <2>1. turn'.step = "noting" /\ panel' = panel
      BY <1>5 DEF EndRoute
  <2>2. UntoldWrite(row)
      BY <1>4, <1>5 DEF UntoldWrite, Writes, ToldBy, Tells
  <2>3. /\ Milder(turn, turn', output = "private") /\ turn'.step \notin Failing /\ turn.step # "dead"
        /\ ~Noting(turn', output = "private")
      BY <1>1, <1>2, <2>1, LeaveIsMilder DEF Noting
  <2> HIDE DEF row, action
  <2>4. QED BY <1>1, <2>1, <2>2, <2>3, QuietTurn
<1>6. CASE action = "shadow" /\ Written(row) /\ EndRoute(action)
  <2>1. TellsAndShows("shadow", "SHADOW")
      BY <1>1, <1>2, <1>6 DEF TellsAndShows, EndRoute, Deciding, AuditTyped
  <2>2. QED BY <2>1, TellsAndShowsKeeps
<1>7. CASE action # "send" /\ Breaks(row)
    BY <1>1, <1>4, <1>7, BrokenStep DEF Breaks
<1>8. QED BY <1>1, <1>3, <1>5, <1>6, <1>7 DEF SaysPublicly

LEMMA SendEnds ==
    ASSUME RowsKept, AuditTyped, AuditKept, FatesKept', AuditTyped', SendIsTaken \/ CountForbidden
    PROVE  RowsKept' /\ AuditKept'
<1>1. /\ turn.step \in {"sending", "disarming"} /\ output # "private" /\ UNCHANGED <<output, refused>>
      /\ turn.of \in Nat /\ turn.blank \in BOOLEAN /\ turn'.blank = turn.blank /\ turn'.of = turn.of
    BY DEF SendIsTaken, CountForbidden, At, Goto, AuditTyped, AuditKept, FatesKept, fates
<1>2. CASE SendIsTaken
  <2>1. turn.step = "sending" /\ taken' = taken \cup {turn.of}
      BY <1>2 DEF SendIsTaken, At
  <2>2. turn.of \notin refused
      BY <2>1 DEF AuditKept, FatesKept
  <2>3. CASE Goto("noting") /\ Written(DecisionRow("send")) /\ EndRoute("send")
    <3>1. TellsAndShows("send", "SENT")
        BY <1>1, <2>1, <2>2, <2>3 DEF TellsAndShows, EndRoute, Deciding, Goto, AuditTyped
    <3>2. QED BY <3>1, TellsAndShowsKeeps
  <2>4. CASE Breaks(DecisionRow("send"))
    <3>1. Message(DecisionRow("send")) /\ DecisionRow("send").of = turn.of
        BY <1>1, RowIsMessage DEF DecisionRow
    <3>2. QED BY <2>1, <2>4, <3>1, BrokenStep DEF Breaks
  <2>5. QED BY <1>2, <2>3, <2>4 DEF SendIsTaken
<1>3. CASE CountForbidden
  <2>1. turn.step = "disarming" /\ taken' = taken
      BY <1>3 DEF CountForbidden, At, fates
  <2>2. turn.of \in refused
      BY <2>1 DEF AuditKept, FatesKept
  <2>3. CASE Goto("noting") /\ Written(DecisionRow("failed")) /\ EndRoute("send")
    <3>1. TellsAndShows("failed", "SENT")
        BY <1>1, <2>1, <2>2, <2>3 DEF TellsAndShows, EndRoute, Deciding, Goto, AuditTyped
    <3>2. QED BY <3>1, TellsAndShowsKeeps
  <2>4. CASE Breaks(DecisionRow("failed"))
    <3>1. Message(DecisionRow("failed")) /\ ~Claims(DecisionRow("failed"))
        BY <1>1, RowIsMessage DEF DecisionRow, Claims
    <3>2. QED BY <2>1, <2>4, <3>1, BrokenStep DEF Breaks
  <2>5. QED BY <1>3, <2>3, <2>4 DEF CountForbidden
<1>4. QED BY <1>2, <1>3

LEMMA DegradesKeep ==
    ASSUME RowsKept, AuditTyped, AuditKept, FatesKept', AuditTyped', LooksForDegrade \/ RecordsDegrade
    PROVE  RowsKept' /\ AuditKept'
<1> DEFINE degrade == Row("decision", "auto_degrade", 0, TRUE)
           kill == Row("transition", "auto_kill", 0, FALSE)
<1>1. /\ turn.step \in Failing /\ turn.step # "noting" /\ turn.step # "dead" /\ output # "private"
      /\ UNCHANGED <<output, refused, taken>>
      /\ turn.of \in Nat /\ turn.blank \in BOOLEAN /\ turn'.blank = turn.blank /\ turn'.of = turn.of
    BY DEF LooksForDegrade, RecordsDegrade, At, Goto, AuditTyped, AuditKept, FatesKept, fates, Failing
<1>2. /\ Message(degrade) /\ ~Claims(degrade) /\ ~ToldBy(degrade, output = "private")
      /\ Message(kill) /\ ~Claims(kill) /\ ~ToldBy(kill, output = "private")
    BY DEF Message, Row, Rows, Spoils, Claims, ToldBy, Tells, Malformed
<1>3. CASE Breaks(degrade) \/ Breaks(kill)
    BY <1>1, <1>2, <1>3, BrokenStep DEF Breaks
<1>4. CASE Goto("killing") /\ Written(degrade) /\ UNCHANGED panel
  <2>1. turn'.step = "killing" /\ UntoldWrite(degrade)
      BY <1>2, <1>4 DEF Goto, AuditTyped, UntoldWrite, Writes
  <2>2. Milder(turn, turn', output = "private") /\ ~Noting(turn', output = "private")
      BY <1>1, <2>1 DEF Milder, LastShown, LastTold, Untold, Unshown, Noting,
                         Deciding, Failing
  <2> HIDE DEF degrade
  <2>3. QED BY <1>1, <1>4, <2>1, <2>2, QuietTurn
<1>5. CASE Goto("noting") /\ EndRoute("send") /\ UNCHANGED <<rows, attempts, faults>>
  <2>1. ShowsLate
      BY <1>1, <1>5 DEF ShowsLate, Goto, EndRoute
  <2>2. QED BY <2>1, ShowsLateKeeps
<1>6. CASE Goto("noting") /\ Written(kill) /\ EndRoute("send")
  <2>1. UntoldWrite(kill)
      BY <1>2, <1>6 DEF UntoldWrite, Writes
  <2>2. ShowsLate
      BY <1>1, <1>6, <2>1 DEF ShowsLate, Goto, EndRoute
  <2>3. QED BY <2>2, ShowsLateKeeps
<1>7. QED BY <1>3, <1>4, <1>5, <1>6 DEF LooksForDegrade, RecordsDegrade

LEMMA KeysKeep ==
    ASSUME RowsKept, AuditTyped, AuditKept, FatesKept', AuditTyped',
           \/ PressPromote \/ ConfirmPromote \/ PressKill \/ RecordCommand \/ MarkStreamer
           \/ GuardDisables \/ TimePasses \/ UNCHANGED <<policyVars, replayVars>>
    PROVE  RowsKept' /\ AuditKept'
<1>1. CASE PressPromote \/ ConfirmPromote \/ PressKill
    BY <1>1, OthersKeep DEF PressPromote, ConfirmPromote, PressKill, fates
<1>2. CASE GuardDisables \/ TimePasses \/ UNCHANGED <<policyVars, replayVars>>
    BY <1>2, OthersKeep DEF GuardDisables, TimePasses, replayVars
<1>3. CASE RecordCommand
  <2>1. /\ UNCHANGED <<output, turn, panel, refused, taken>> /\ command \in {"promote", "kill_switch"}
        /\ Writes(Row("transition", command, 0, FALSE))
      BY <1>3 DEF RecordCommand, fates, AuditTyped, Writes
  <2>2. /\ Message(Row("transition", command, 0, FALSE))
        /\ Row("transition", command, 0, FALSE).kind = "transition"
      BY <2>1 DEF Message, Row, Rows, Spoils
  <2>3. QED BY <2>1, <2>2, OthersKeep
<1>4. CASE MarkStreamer
  <2>1. /\ UNCHANGED <<output, turn, panel, refused, taken>>
        /\ Writes(Row("mark", "none", 0, FALSE))
      BY <1>4 DEF MarkStreamer, fates, Writes
  <2>2. /\ Message(Row("mark", "none", 0, FALSE)) /\ Row("mark", "none", 0, FALSE).kind = "mark"
      BY DEF Message, Row, Rows, Spoils
  <2>3. QED BY <2>1, <2>2, OthersKeep
<1>5. QED BY <1>1, <1>2, <1>3, <1>4

LEMMA StepKeepsAudit ==
    ASSUME RowsKept, AuditTyped, AuditKept, [ReplayNext]_<<policyVars, replayVars>>
    PROVE  RowsKept' /\ AuditTyped' /\ AuditKept'
<1>1. AuditTyped' /\ FatesKept'
    BY StepIsTyped, StepKeepsFates DEF AuditKept
<1>2. CASE Ask
    BY <1>1, <1>2, AskKeeps
<1>3. CASE SaysNothing \/ CancelTurn
    BY <1>1, <1>3, LeavesQuietly
<1>4. CASE SaysPrivately
    BY <1>1, <1>4, SaysPrivatelyKeeps
<1>5. ASSUME NEW blank \in BOOLEAN, SaysPublicly(blank) PROVE RowsKept' /\ AuditKept'
    BY <1>1, <1>5, SaysPubliclyKeeps
<1>6. CASE SendIsTaken \/ CountForbidden
    BY <1>1, <1>6, SendEnds
<1>7. CASE SendIsRefused
    BY <1>1, <1>7, SendIsRefusedKeeps
<1>8. CASE LooksForDegrade \/ RecordsDegrade
    BY <1>1, <1>8, DegradesKeep
<1>9. CASE SendIsForbidden
    BY <1>1, <1>9, SendIsForbiddenKeeps
<1>10. CASE NoteOutput
    BY <1>1, <1>10, NotesPrivatelyKeeps, NotesPubliclyKeeps
<1>11. CASE \/ PressPromote \/ ConfirmPromote \/ PressKill \/ RecordCommand \/ MarkStreamer
            \/ GuardDisables \/ TimePasses \/ UNCHANGED <<policyVars, replayVars>>
    BY <1>1, <1>11, KeysKeep
<1>12. QED BY <1>1, <1>2, <1>3, <1>4, <1>5, <1>6, <1>7, <1>8, <1>9, <1>10, <1>11 DEF ReplayNext

LEMMA AuditBegins == ReplayInit => RowsKept /\ AuditTyped /\ AuditKept
<1> SUFFICES ASSUME ReplayInit PROVE RowsKept /\ AuditTyped /\ AuditKept
    OBVIOUS
<1>1. rows = <<>> /\ rows \in Seq(Rows) /\ Len(rows) = 0 /\ ~EndsTorn(rows) /\ SpoiledIn(rows) = {}
    BY DEF ReplayInit, EndsTorn, SpoiledIn
<1>2. RowsKept
  <2>1. Cardinality(SpoiledIn(rows)) = 0
      BY <1>1, FS_EmptySet
  <2>2. QED BY <1>1, <2>1 DEF RowsKept, Accounted, ReplayInit
<1>3. panel = <<>> /\ panel \in Seq(Entries) /\ Len(panel) = 0 /\ Shown(panel) = {}
      /\ \A private : Told(rows, private) = {}
    BY <1>1 DEF ReplayInit, Shown, Told
<1>4. turn.step = "idle" /\ turn.of = 0 /\ turn.blank = FALSE /\ taken = {} /\ refused = {}
    BY DEF ReplayInit
<1>5. AuditTyped
    BY <1>3 DEF ReplayInit, AuditTyped
<1>6. FatesKept /\ ClaimsAreTrue(rows, taken)
    BY <1>1, <1>4 DEF FatesKept, ClaimsAreTrue, Failing
<1>7. Matched(rows, panel, output = "private", refused, turn)
    BY <1>3, <1>4 DEF Matched, EntriesUp, RowsUp, AllTold, NoneSkipped
<1>8. /\ FailureIsTold(rows, output = "private", turn) /\ NoteIsShown(panel, output = "private", turn)
      /\ TakenAreTold(rows, taken, turn)
    BY <1>3, <1>4 DEF FailureIsTold, NoteIsShown, TakenAreTold, Noting, Failing
<1>9. QED BY <1>2, <1>5, <1>6, <1>7, <1>8 DEF AuditKept

(* What the invariant says of the audit.                                   *)
LEMMA AuditIsKept ==
    ASSUME RowsKept, AuditTyped, AuditKept
    PROVE  SentIsDelivered /\ PanelIsReplayed /\ RowsAreAccounted
<1>1. RowsAreAccounted
  <2>1. /\ rows \in Seq(Rows) /\ attempts \in Nat /\ faults \in Nat
        /\ Cardinality(SpoiledIn(rows)) <= faults
        /\ attempts - (Len(rows) - Cardinality(SpoiledIn(rows)))
              <= 2 * faults - (IF EndsTorn(rows) THEN 1 ELSE 0)
        /\ Len(rows) - Cardinality(SpoiledIn(rows)) <= attempts
      BY DEF RowsKept, Accounted
  <2>2. PICK n, m : n = Len(rows) /\ m = Cardinality(SpoiledIn(rows))
      OBVIOUS
  <2>3. n \in Nat /\ m \in Nat /\ attempts - (n - m) <= 2 * faults
      BY <2>1, <2>2, SpoiledFinite
  <2>4. SpoiledIn(rows) = {i \in 1..Len(rows) : rows[i].kind \in {"torn", "garbage"}}
      BY DEF SpoiledIn, Spoils
  <2>5. QED BY <2>1, <2>2, <2>3, <2>4 DEF RowsAreAccounted
<1>2. rows \in Seq(Rows) /\ DOMAIN rows = 1..Len(rows) /\ DOMAIN panel = 1..Len(panel)
    BY DEF RowsKept, AuditTyped
<1>3. SentIsDelivered
  <2>1. {rows[k].of : k \in {k \in Replayed : MarkerOf(rows[k]) = "SENT"}} \subseteq taken
    <3>1. ASSUME NEW k \in Replayed, MarkerOf(rows[k]) = "SENT" PROVE rows[k].of \in taken
      <4>1. k \in 1..Len(rows) /\ Claims(rows[k])
          BY <1>2, <3>1 DEF Replayed, Tells, Malformed, MarkerOf, Claims
      <4>2. QED BY <4>1 DEF AuditKept, ClaimsAreTrue
    <3>2. QED BY <3>1
  <2>2. ASSUME faults = 0, NEW m \in taken,
               ~(turn.step = "dead" /\ m = turn.of)
        PROVE  \/ \E k \in Replayed : MarkerOf(rows[k]) = "SENT" /\ rows[k].of = m
               \/ \E k \in DOMAIN rows : rows[k].kind = "decision" /\ rows[k].blank /\ rows[k].of = m
    <3>1. PICK k \in 1..Len(rows) : TellsOf(rows[k], m)
        BY <2>2 DEF AuditKept, TakenAreTold
    <3>2. CASE rows[k].blank
        BY <1>2, <3>1, <3>2 DEF TellsOf
    <3>3. CASE ~rows[k].blank
        BY <1>2, <3>1, <3>3 DEF TellsOf, Replayed, Tells, Malformed, MarkerOf
    <3>4. QED BY <3>2, <3>3
  <2>3. QED BY <2>1, <2>2 DEF SentIsDelivered
<1>4. PanelIsReplayed
  <2>1. {i \in DOMAIN panel : ~panel[i].blank} = Shown(panel)
      BY <1>2 DEF Shown
  <2>2. {k \in Replayed : (MarkerOf(rows[k]) = "none") = (output = "private")} =
            Told(rows, output = "private")
      BY <1>2 DEF Replayed, Told, ToldBy
  <2>3. SUFFICES ASSUME faults = 0, turn.step \notin Failing, ~Noting(turn, output = "private")
        PROVE  /\ \A i, j \in Shown(panel) : i < j => panel[i].of < panel[j].of
               /\ \A k, l \in Told(rows, output = "private") : k < l => rows[k].of < rows[l].of
               /\ \A i \in Shown(panel) : \E k \in Told(rows, output = "private") :
                    /\ rows[k].of = panel[i].of
                    /\ MarkerOf(rows[k]) = IF panel[i].of \in refused THEN "SHADOW" ELSE panel[i].marker
               /\ \A i \in Shown(panel), k \in Told(rows, output = "private") :
                    rows[k].of > panel[i].of => \E j \in Shown(panel) : panel[j].of = rows[k].of
      BY <2>1, <2>2 DEF PanelIsReplayed, Failing, Noting
  <2>4. Matched(rows, panel, output = "private", refused, turn)
      BY <2>3 DEF AuditKept
  <2>5. /\ AllTold(rows, panel, output = "private", refused, {})
        /\ NoneSkipped(rows, panel, output = "private", {})
      BY <2>3, <2>4 DEF Matched, Untold, Unshown
  <2>6. \A i, j \in Shown(panel) : i < j => panel[i].of < panel[j].of
      BY <2>4 DEF Matched, EntriesUp, Shown
  <2>7. \A k, l \in Told(rows, output = "private") : k < l => rows[k].of < rows[l].of
      BY <2>4 DEF Matched, RowsUp
  <2>8. QED BY <2>5, <2>6, <2>7 DEF AllTold, NoneSkipped, SameMessage, ShownAs
<1>5. QED BY <1>1, <1>3, <1>4

(* The audit tells the run: it claims no delivery that did not happen and, *)
(* when every write succeeded, leaves none out; what the panel shows is    *)
(* the end of what the replay shows, each message with its marker; writes  *)
(* that fail cost no more rows than twice their number; and a promotion    *)
(* took two presses.                                                       *)
THEOREM AuditIsTrue == ReplaySpec => []ReplayTellsTheRun
<1>1. PolicyInit /\ ReplayInit => RowsKept /\ AuditTyped /\ AuditKept /\ PressesKept
    BY AuditBegins DEF PolicyInit, ReplayInit, PressesKept
<1>2. /\ RowsKept /\ AuditTyped /\ AuditKept /\ PressesKept
      /\ [ReplayNext]_<<policyVars, replayVars>>
      => RowsKept' /\ AuditTyped' /\ AuditKept' /\ PressesKept'
    BY StepKeepsAudit, NextKeepsPresses
<1>3. RowsKept /\ AuditTyped /\ AuditKept /\ PressesKept => ReplayTellsTheRun
    BY AuditIsKept DEF ReplayTellsTheRun, PressesKept, PromotionIsConfirmed
<1>4. QED BY <1>1, <1>2, <1>3, PTL DEF ReplaySpec

-----------------------------------------------------------------------------
(* The stages from one on, to the last but "ended".                        *)
FromBuilt == {"built", "live"}
FromAdapter == {"adapter"} \cup FromBuilt
FromPerceivers == {"perceivers"} \cup FromAdapter
FromReactors == {"reactors"} \cup FromPerceivers
FromRouters == {"routers"} \cup FromReactors
FromSender == {"sender"} \cup FromRouters
FromTexts == {"texts"} \cup FromSender
FromCredentials == {"credentials"} \cup FromTexts
FromSession == {"session"} \cup FromCredentials
FromEnvironment == {"environment"} \cup FromSession

(* What the inputs may be, in what is asked of them.                       *)
InputsKept ==
    /\ ReadingOf \in {"accepted", "refused", "crashed"}
    /\ ReadingOf = "accepted" => Holds(conf)

SessionKept ==
    /\ stage \in {"reading", "environment", "session"} => session = "none"
    /\ invocation # "tui" => session = "none"
    /\ invocation = "tui" /\ stage \in FromCredentials => session = "active"
    /\ stage = "session" => invocation = "tui"
    /\ stage = "ended" => session # "active"

EnvironKept ==
    /\ environ \subseteq Credentials
    /\ environ \cap WriteCredentials \subseteq shell \cup (IF YouTubeLive THEN dotenv ELSE {})
    /\ invocation = "check" => environ \cap WriteCredentials \subseteq shell

SenderBuilt ==
    /\ sender = IF TwitchLive THEN "twitch" ELSE IF YouTubeLive THEN "youtube" ELSE "none"
    /\ guard = sender
    /\ sender # "none" => identity # "none"

(* What each stage leaves to those that come after it.                     *)
StagesKept ==
    /\ stage \in FromEnvironment => ReadingOf = "accepted"
    /\ stage \in FromTexts /\ TwitchLive =>
            ChatCredentials /\ "TWITCH_SEND_OAUTH_TOKEN" \in environ
    /\ stage \in FromSender => conf.provider # "unknown"
    /\ stage \in FromRouters => SenderBuilt
    /\ stage \in FromReactors =>
            /\ policy = IF RouterKind # "policy" THEN "none" ELSE IF Capable THEN "capable" ELSE "closed"
            /\ router.kind \in {"panel", RouterKind}
    /\ stage \in FromPerceivers => {r.style : r \in reactors} = StylesToBuild
    /\ stage \in FromAdapter => perceivers = {"chat"} \cup EnabledMedia /\ queued = EnabledMedia
    /\ stage \in FromBuilt =>
            /\ delivered = EnabledMedia \cup (IF ChatIsDelivered THEN {"chat"} ELSE {})
            /\ AdapterHolds

ExitKept ==
    /\ stage # "ended" => exit = "none"
    /\ exit = "0" => invocation = "check" /\ ReadingOf = "accepted" /\ Needed \subseteq environ
    /\ exit = "2" => \/ ReadingOf = "refused" \/ ~(Needed \subseteq environ)
                     \/ LoadsAtStart
    /\ ReadingOf # "accepted" =>
            stage \in {"reading", "ended"} /\ environ = {} /\ session = "none" /\ sender = "none"

StartupKept ==
    /\ StartupTypeOK
    /\ InputsKept
    /\ SessionKept
    /\ EnvironKept
    /\ StagesKept
    /\ ExitKept

-----------------------------------------------------------------------------
(* A value of a section is accepted, refused, or a crash, and nothing else *)
(* can become of it; no section is called "file".                          *)
LEMMA FieldsAreRead ==
    ASSUME NEW section, NEW field, NEW kind
    PROVE  ReadField(section, field, kind) \in {"accepted", "refused", "crashed"}
BY DEF ReadField

LEMMA FileIsNoSection == "file" \notin DOMAIN Sections
<1>1. DOMAIN Sections = {"root", "twitch", "twitchSend", "youtube", "youtubeSend", "os_capture",
            "vad", "asr", "speaker_embedding", "speaker_clustering", "video", "vlm",
            "commentator", "operator", "original_chat", "meeting_synthesizer", "suggester",
            "llamacpp", "disclosure", "retention"}
    BY SMTT(60) DEF Sections
<1>2. QED
    BY <1>1

(* The plain configuration holds.                                          *)
LEMMA PlainHolds == Holds(PlainConfig)
BY DEF Holds, PlainConfig, PlainTwitch, PlainYouTube, TwitchHolds, YouTubeHolds, CaptureHolds,
       StylesFit, PublicPersona, MaySend

(* What is accepted holds: a file with an odd value is otherwise plain.    *)
LEMMA InputsFromInit == StartupInit => InputsKept
<1>1. SUFFICES ASSUME StartupInit PROVE InputsKept
    OBVIOUS
<1>2. CASE conf \in Configs /\ oddity = NoOddity
    <2>1. ReadingOf = IF Holds(conf) THEN "accepted" ELSE "refused"
        BY <1>2 DEF ReadingOf, NoOddity
    <2>2. QED
        BY <2>1 DEF InputsKept
<1>3. CASE conf = PlainConfig /\ oddity \in Oddities
    <2>1. PICK section \in DOMAIN Sections : oddity \in OdditiesOf(section)
        BY <1>3 DEF Oddities
    <2>2. oddity[1] = section
        BY <2>1 DEF OdditiesOf
    <2>3. oddity[1] # "file"
        BY <2>1, <2>2, FileIsNoSection
    <2>4. ReadField(oddity[1], oddity[2], oddity[3]) \in {"accepted", "refused", "crashed"}
        BY FieldsAreRead
    <2>5. ReadingOf \in {"accepted", "refused", "crashed"}
        BY <2>3, <2>4, Zenon DEF ReadingOf
    <2>6. QED
        BY <2>5, <1>3, PlainHolds, Zenon DEF InputsKept
<1>4. CASE conf = PlainConfig /\ oddity \in {<<"file", bad, "none">> : bad \in DOMAIN BadFiles}
    <2>1. PICK bad \in DOMAIN BadFiles : oddity = <<"file", bad, "none">>
        BY <1>4
    <2>2. oddity[1] = "file" /\ oddity[2] = bad /\ oddity # NoOddity
        BY <2>1 DEF NoOddity
    <2>3. BadFiles[bad] \in {"accepted", "refused", "crashed"}
        BY <2>1 DEF BadFiles
    <2>4. ReadingOf = BadFiles[bad]
        BY <2>2, Zenon DEF ReadingOf
    <2>5. QED
        BY <2>3, <2>4, <1>4, PlainHolds, Zenon DEF InputsKept
<1>5. QED
    BY <1>1, <1>2, <1>3, <1>4 DEF StartupInit

LEMMA StartupKeptInit == StartupInit => StartupKept
<1>1. SUFFICES ASSUME StartupInit PROVE StartupKept
    OBVIOUS
<1>2. InputsKept
    BY <1>1, InputsFromInit
<1>3. StartupTypeOK /\ SessionKept /\ EnvironKept /\ ExitKept
    BY <1>1 DEF StartupInit, StartupTypeOK, SessionKept, EnvironKept, ExitKept, Media,
        FromCredentials, FromTexts, FromSender, FromRouters, FromReactors, FromPerceivers,
        FromAdapter, FromBuilt
<1>4. StagesKept
    BY <1>1 DEF StartupInit, StagesKept, FromEnvironment, FromSession, FromCredentials, FromTexts, FromSender, FromRouters, FromReactors, FromPerceivers, FromAdapter, FromBuilt
<1>5. QED
    BY <1>2, <1>3, <1>4 DEF StartupKept

-----------------------------------------------------------------------------
(* What is asked of the inputs does not change; what is asked of them and  *)
(* of one more variable changes with that one only.                        *)
LEMMA InputsStay ==
    ASSUME UNCHANGED <<invocation, conf, oddity>>
    PROVE  /\ ReadingOf' = ReadingOf /\ Holds(conf)' = Holds(conf)
           /\ TwitchLive' = TwitchLive /\ YouTubeLive' = YouTubeLive
           /\ StylesToBuild' = StylesToBuild /\ RouterKind' = RouterKind
           /\ EnabledMedia' = EnabledMedia /\ LoadsAtStart' = LoadsAtStart
           /\ ChatIsDelivered' = ChatIsDelivered /\ Needed' = Needed
           /\ environ' = environ => ChatCredentials' = ChatCredentials
           /\ UNCHANGED <<sender, guard>> => Capable' = Capable
           /\ UNCHANGED <<environ, perceivers>> => AdapterHolds' = AdapterHolds
BY DEF ReadingOf, Holds, TwitchLive, YouTubeLive, StylesToBuild, RouterKind, EnabledMedia,
       LoadsAtStart, ChatIsDelivered, Needed, ChatCredentials, Capable, AdapterHolds

(* What an action that ends a startup has to leave.                        *)
LEMMA RaisesKeeps ==
    ASSUME StartupKept, NEW code \in {"1", "2", "traceback"}, Raises(code),
           stage \in FromEnvironment,
           code = "2" => ~(Needed \subseteq environ) \/ LoadsAtStart
    PROVE  StartupKept'
<1>1. /\ UNCHANGED <<invocation, conf, oddity, shell, dotenv, environ, sender, guard, identity,
                    router, policy, reactors, perceivers, queued, delivered>>
      /\ stage' = "ended" /\ exit' = code
      /\ session' = IF session = "active" THEN "completed" ELSE session
    BY DEF Raises, Ends, inputVars, buildVars
<1>2. StartupTypeOK'
    BY <1>1 DEF StartupKept, StartupTypeOK
<1>3. InputsKept'
    BY <1>1, InputsStay, Zenon DEF StartupKept, InputsKept
<1>4. SessionKept'
    BY <1>1 DEF StartupKept, SessionKept, FromEnvironment, FromSession, FromCredentials, FromTexts, FromSender, FromRouters, FromReactors,
        FromPerceivers, FromAdapter, FromBuilt
<1>5. EnvironKept'
    BY <1>1, InputsStay DEF StartupKept, EnvironKept
<1>6. StagesKept'
    BY <1>1 DEF StagesKept, FromEnvironment, FromSession, FromCredentials, FromTexts, FromSender, FromRouters, FromReactors,
        FromPerceivers, FromAdapter, FromBuilt
<1>7. ExitKept'
    <2>1. ReadingOf' = "accepted"
        BY <1>1, InputsStay DEF StartupKept, StagesKept
    <2>2. QED
        BY <1>1, <2>1, InputsStay DEF StartupKept, ExitKept
<1>8. QED
    BY <1>2, <1>3, <1>4, <1>5, <1>6, <1>7 DEF StartupKept

(* The file is read, accepted or not.                                      *)
LEMMA ReadConfigKeeps ==
    ASSUME StartupKept, ReadConfig
    PROVE  StartupKept'
<1>1. /\ UNCHANGED <<invocation, conf, oddity, shell, dotenv, environ, session, sender, guard,
                    identity, router, policy, reactors, perceivers, queued, delivered>>
      /\ stage = "reading" /\ exit = "none"
      /\ ReadingOf \in {"accepted", "refused", "crashed"}
    BY DEF ReadConfig, inputVars, buildVars, StartupKept, InputsKept, ExitKept
<1>2. \/ ReadingOf = "accepted" /\ stage' = "environment" /\ exit' = "none"
      \/ ReadingOf = "refused" /\ stage' = "ended" /\ exit' = "2"
      \/ ReadingOf = "crashed" /\ stage' = "ended" /\ exit' = "traceback"
    BY <1>1 DEF ReadConfig, Ends, Goes
<1>3. StartupTypeOK'
    BY <1>1, <1>2 DEF StartupKept, StartupTypeOK
<1>4. InputsKept'
    BY <1>1, InputsStay, Zenon DEF StartupKept, InputsKept
<1>5. SessionKept'
    BY <1>1, <1>2 DEF StartupKept, SessionKept, FromEnvironment, FromSession, FromCredentials, FromTexts, FromSender, FromRouters, FromReactors,
        FromPerceivers, FromAdapter, FromBuilt
<1>6. EnvironKept'
    BY <1>1, InputsStay DEF StartupKept, EnvironKept
<1>7. StagesKept'
    BY <1>1, <1>2, InputsStay DEF StagesKept, FromEnvironment, FromSession, FromCredentials, FromTexts, FromSender, FromRouters, FromReactors,
        FromPerceivers, FromAdapter, FromBuilt
<1>8. ExitKept'
    BY <1>1, <1>2, InputsStay DEF StartupKept, ExitKept
<1>9. QED
    BY <1>3, <1>4, <1>5, <1>6, <1>7, <1>8 DEF StartupKept

(* The credentials: what is excluded does not come from a .env file.       *)
LEMMA LoadEnvironmentKeeps ==
    ASSUME StartupKept, LoadEnvironment
    PROVE  StartupKept'
<1>1. /\ UNCHANGED <<invocation, conf, oddity, session, exit, sender, guard,
                    identity, router, policy, reactors, perceivers, queued, delivered>>
      /\ stage = "environment" /\ exit = "none"
      /\ stage' = IF invocation = "tui" THEN "session" ELSE "credentials"
    BY DEF LoadEnvironment, Goes, buildVars, StartupKept, ExitKept
<1>2. /\ shell' \subseteq Credentials /\ dotenv' \subseteq Credentials
      /\ environ' = shell' \cup (dotenv' \ Excluded)
    BY DEF LoadEnvironment
<1>3. StartupTypeOK'
    BY <1>1, <1>2 DEF StartupKept, StartupTypeOK
<1>4. InputsKept'
    BY <1>1, InputsStay, Zenon DEF StartupKept, InputsKept
<1>5. SessionKept'
    BY <1>1 DEF StartupKept, SessionKept, FromEnvironment, FromSession, FromCredentials, FromTexts, FromSender, FromRouters, FromReactors,
        FromPerceivers, FromAdapter, FromBuilt
<1>6. EnvironKept'
    BY <1>1, <1>2, InputsStay DEF EnvironKept, Excluded
<1>7. ReadingOf' = "accepted"
    BY <1>1, InputsStay DEF StartupKept, StagesKept, FromEnvironment, FromSession, FromCredentials, FromTexts, FromSender, FromRouters, FromReactors,
        FromPerceivers, FromAdapter, FromBuilt
<1>8. StagesKept'
    BY <1>1, <1>7 DEF StagesKept, FromEnvironment, FromSession, FromCredentials, FromTexts, FromSender, FromRouters, FromReactors,
        FromPerceivers, FromAdapter, FromBuilt
<1>9. ExitKept'
    BY <1>1, <1>7 DEF ExitKept
<1>10. QED
    BY <1>3, <1>4, <1>5, <1>6, <1>8, <1>9 DEF StartupKept

(* The directory of a run under the TUI.                                   *)
LEMMA BeginSessionKeeps ==
    ASSUME StartupKept, NEW textual \in BOOLEAN, BeginSession(textual)
    PROVE  StartupKept'
<1>1. /\ UNCHANGED <<invocation, conf, oddity, shell, dotenv, environ, sender, guard,
                    identity, router, policy, reactors, perceivers, queued, delivered>>
      /\ stage = "session" /\ exit = "none"
    BY DEF BeginSession, inputVars, buildVars, StartupKept, ExitKept
<1>2. \/ stage' = "credentials" /\ exit' = "none" /\ session' = "active"
      \/ stage' = "ended" /\ exit' = "1" /\ session' = session
    BY <1>1 DEF BeginSession, Ends, Goes
<1>3. StartupTypeOK'
    BY <1>1, <1>2 DEF StartupKept, StartupTypeOK
<1>4. InputsKept'
    BY <1>1, InputsStay, Zenon DEF StartupKept, InputsKept
<1>5. SessionKept'
    BY <1>1, <1>2 DEF StartupKept, SessionKept, FromEnvironment, FromSession, FromCredentials, FromTexts, FromSender, FromRouters, FromReactors,
        FromPerceivers, FromAdapter, FromBuilt
<1>6. EnvironKept'
    BY <1>1, InputsStay DEF StartupKept, EnvironKept
<1>7. ReadingOf' = "accepted"
    BY <1>1, InputsStay DEF StartupKept, StagesKept, FromEnvironment, FromSession, FromCredentials, FromTexts, FromSender, FromRouters, FromReactors,
        FromPerceivers, FromAdapter, FromBuilt
<1>8. StagesKept'
    BY <1>1, <1>2, <1>7 DEF StagesKept, FromEnvironment, FromSession, FromCredentials, FromTexts, FromSender, FromRouters, FromReactors,
        FromPerceivers, FromAdapter, FromBuilt
<1>9. ExitKept'
    BY <1>1, <1>2, <1>7 DEF ExitKept
<1>10. QED
    BY <1>3, <1>4, <1>5, <1>6, <1>8, <1>9 DEF StartupKept

(* What every action after the environment has in common, as far as it     *)
(* goes on: only what is built changes.                                    *)
LEMMA GoesOnKeeps ==
    ASSUME StartupKept, stage \in FromCredentials, stage' \in FromTexts,
           UNCHANGED <<invocation, conf, oddity, shell, dotenv, environ, session, exit>>
    PROVE  /\ InputsKept' /\ SessionKept' /\ EnvironKept' /\ ExitKept' /\ ReadingOf' = "accepted"
           /\ ReadingOf = "accepted" /\ Holds(conf)
<1>1. InputsKept'
    BY InputsStay, Zenon DEF StartupKept, InputsKept
<1>2. SessionKept'
    BY DEF StartupKept, SessionKept, FromEnvironment, FromSession, FromCredentials, FromTexts, FromSender, FromRouters, FromReactors,
        FromPerceivers, FromAdapter, FromBuilt
<1>3. EnvironKept'
    BY InputsStay DEF StartupKept, EnvironKept
<1>4. ReadingOf' = "accepted" /\ ReadingOf = "accepted" /\ Holds(conf)
    BY InputsStay DEF StartupKept, StagesKept, InputsKept, FromEnvironment, FromSession, FromCredentials, FromTexts, FromSender, FromRouters, FromReactors,
        FromPerceivers, FromAdapter, FromBuilt
<1>5. ExitKept'
    <2>1. exit = "none"
        BY DEF StartupKept, ExitKept, FromEnvironment, FromSession, FromCredentials, FromTexts, FromSender, FromRouters, FromReactors,
        FromPerceivers, FromAdapter, FromBuilt
    <2>2. QED
        BY <1>4, <2>1 DEF ExitKept
<1>6. QED
    BY <1>1, <1>2, <1>3, <1>4, <1>5

(* The gate of a live Twitch run opens with all that it needs.             *)
LEMMA CheckCredentialsKeeps ==
    ASSUME StartupKept, CheckCredentials
    PROVE  StartupKept'
<1>1. stage = "credentials" /\ stage \in FromEnvironment /\ stage \in FromCredentials
    BY DEF CheckCredentials, FromEnvironment, FromSession, FromCredentials, FromTexts, FromSender, FromRouters, FromReactors,
        FromPerceivers, FromAdapter, FromBuilt
<1>2. CASE TwitchLive /\ ~(ChatCredentials /\ "TWITCH_SEND_OAUTH_TOKEN" \in environ)
    <2>1. Raises("2")
        BY <1>2 DEF CheckCredentials
    <2>2. ~(Needed \subseteq environ)
        BY <1>2 DEF TwitchLive, ChatCredentials, Needed
    <2>3. QED
        BY <1>1, <2>1, <2>2, RaisesKeeps
<1>3. CASE ~(TwitchLive /\ ~(ChatCredentials /\ "TWITCH_SEND_OAUTH_TOKEN" \in environ))
    <2>1. /\ UNCHANGED <<invocation, conf, oddity, shell, dotenv, environ, session, exit, sender,
                         guard, identity, router, policy, reactors, perceivers, queued, delivered>>
          /\ stage' = "texts"
        BY <1>3 DEF CheckCredentials, Goes, inputVars, buildVars
    <2>2. stage' \in FromTexts
        BY <2>1 DEF FromEnvironment, FromSession, FromCredentials, FromTexts, FromSender, FromRouters, FromReactors,
        FromPerceivers, FromAdapter, FromBuilt
    <2>3. StartupTypeOK'
        BY <2>1 DEF StartupKept, StartupTypeOK
    <2>4. StagesKept'
        BY <2>1, <1>1, <1>3, <2>2, GoesOnKeeps, InputsStay DEF StagesKept, FromEnvironment, FromSession, FromCredentials, FromTexts, FromSender, FromRouters, FromReactors,
        FromPerceivers, FromAdapter, FromBuilt
    <2>5. QED
        BY <1>1, <2>1, <2>2, <2>3, <2>4, GoesOnKeeps DEF StartupKept
<1>4. QED
    BY <1>2, <1>3

LEMMA LoadTextsKeeps ==
    ASSUME StartupKept, NEW valid \in BOOLEAN, LoadTexts(valid)
    PROVE  StartupKept'
<1>1. stage = "texts" /\ stage \in FromEnvironment /\ stage \in FromCredentials
    BY DEF LoadTexts, FromEnvironment, FromSession, FromCredentials, FromTexts, FromSender, FromRouters, FromReactors,
        FromPerceivers, FromAdapter, FromBuilt
<1>2. CASE ~valid \/ conf.provider = "unknown"
    <2>1. Raises("traceback")
        BY <1>2 DEF LoadTexts
    <2>2. QED
        BY <1>1, <2>1, RaisesKeeps
<1>3. CASE ~(~valid \/ conf.provider = "unknown")
    <2>1. /\ UNCHANGED <<invocation, conf, oddity, shell, dotenv, environ, session, exit, sender,
                         guard, identity, router, policy, reactors, perceivers, queued, delivered>>
          /\ stage' = "sender"
        BY <1>3 DEF LoadTexts, Goes, inputVars, buildVars
    <2>2. stage' \in FromTexts
        BY <2>1 DEF FromEnvironment, FromSession, FromCredentials, FromTexts, FromSender, FromRouters, FromReactors,
        FromPerceivers, FromAdapter, FromBuilt
    <2>3. StartupTypeOK'
        BY <2>1 DEF StartupKept, StartupTypeOK
    <2>4. StagesKept'
        BY <2>1, <1>1, <1>3, <2>2, GoesOnKeeps, InputsStay DEF StartupKept, StagesKept, FromEnvironment, FromSession, FromCredentials, FromTexts, FromSender, FromRouters, FromReactors,
        FromPerceivers, FromAdapter, FromBuilt
    <2>5. QED
        BY <1>1, <2>1, <2>2, <2>3, <2>4, GoesOnKeeps DEF StartupKept
<1>4. QED
    BY <1>2, <1>3

(* A sender is made of a live section only, with the guard of its side;    *)
(* who it writes as is known, for the gate was passed.                     *)
LEMMA BuildSenderKeeps ==
    ASSUME StartupKept, BuildSender
    PROVE  StartupKept'
<1>1. stage = "sender" /\ stage \in FromEnvironment /\ stage \in FromCredentials
    BY DEF BuildSender, FromEnvironment, FromSession, FromCredentials, FromTexts, FromSender, FromRouters, FromReactors,
        FromPerceivers, FromAdapter, FromBuilt
<1>2. /\ UNCHANGED <<invocation, conf, oddity, shell, dotenv, environ, session, exit,
                     router, policy, reactors, perceivers, queued, delivered>>
      /\ stage' = "routers"
      /\ identity' = IF conf.adapter = "twitch" /\ conf.twitch.send # "off" /\ "TWITCH_BOT_USERNAME" \in environ
                     THEN "account" ELSE IF YouTubeLive THEN "channel" ELSE "none"
      /\ sender' = IF TwitchLive THEN "twitch" ELSE IF YouTubeLive THEN "youtube" ELSE "none"
      /\ guard' = sender'
    BY DEF BuildSender, Goes, inputVars
<1>3. stage' \in FromTexts
    BY <1>2 DEF FromEnvironment, FromSession, FromCredentials, FromTexts, FromSender, FromRouters, FromReactors,
        FromPerceivers, FromAdapter, FromBuilt
<1>4. StartupTypeOK'
    BY <1>2 DEF StartupKept, StartupTypeOK
<1>5. SenderBuilt'
    <2>1. TwitchLive => identity' = "account"
        BY <1>1, <1>2 DEF StartupKept, StagesKept, FromEnvironment, FromSession, FromCredentials, FromTexts, FromSender, FromRouters, FromReactors,
        FromPerceivers, FromAdapter, FromBuilt, ChatCredentials, TwitchLive
    <2>2. identity' \in {"account", "channel", "none"}
        BY <1>2
    <2>3. ~TwitchLive /\ YouTubeLive => identity' # "none"
        BY <1>2
    <2>4. QED
        BY <1>2, <2>1, <2>3, InputsStay DEF SenderBuilt
<1>6. StagesKept'
    BY <1>1, <1>2, <1>3, <1>5, GoesOnKeeps, InputsStay DEF StartupKept, StagesKept, FromEnvironment, FromSession, FromCredentials, FromTexts, FromSender, FromRouters, FromReactors,
        FromPerceivers, FromAdapter, FromBuilt
<1>7. QED
    BY <1>1, <1>2, <1>3, <1>4, <1>6, GoesOnKeeps DEF StartupKept

LEMMA ChooseRoutersKeeps ==
    ASSUME StartupKept, ChooseRouters
    PROVE  StartupKept'
<1>1. stage = "routers" /\ stage \in FromEnvironment /\ stage \in FromCredentials
    BY DEF ChooseRouters, FromEnvironment, FromSession, FromCredentials, FromTexts, FromSender, FromRouters, FromReactors,
        FromPerceivers, FromAdapter, FromBuilt
<1>2. /\ UNCHANGED <<invocation, conf, oddity, shell, dotenv, environ, session, exit, sender,
                     guard, identity, reactors, perceivers, queued, delivered>>
      /\ stage' = "reactors"
      /\ router' = IF invocation = "tui" /\ StylesToBuild # {}
                   THEN [kind |-> "panel", inner |-> RouterKind, echo |-> RouterKind = "console"]
                   ELSE [kind |-> RouterKind, inner |-> "none", echo |-> TRUE]
      /\ policy' = IF RouterKind # "policy" THEN "none" ELSE IF Capable THEN "capable" ELSE "closed"
    BY DEF ChooseRouters, Goes, inputVars
<1>3. stage' \in FromTexts
    BY <1>2 DEF FromEnvironment, FromSession, FromCredentials, FromTexts, FromSender, FromRouters, FromReactors,
        FromPerceivers, FromAdapter, FromBuilt
<1>4. router'.kind \in {"panel", RouterKind}
    BY <1>2
<1>5. StartupTypeOK'
    BY <1>2 DEF StartupKept, StartupTypeOK
<1>6. SenderBuilt'
    BY <1>1, <1>2, InputsStay DEF StartupKept, StagesKept, SenderBuilt, FromEnvironment, FromSession, FromCredentials, FromTexts, FromSender, FromRouters, FromReactors,
        FromPerceivers, FromAdapter, FromBuilt
<1>7. StagesKept'
    BY <1>1, <1>2, <1>3, <1>4, <1>6, GoesOnKeeps, InputsStay DEF StartupKept, StagesKept, FromEnvironment, FromSession, FromCredentials, FromTexts, FromSender, FromRouters, FromReactors,
        FromPerceivers, FromAdapter, FromBuilt
<1>8. QED
    BY <1>1, <1>2, <1>3, <1>5, <1>7, GoesOnKeeps DEF StartupKept

(* Every style that is to be built has its reactor, and no other.          *)
LEMMA BuildReactorsKeeps ==
    ASSUME StartupKept, BuildReactors
    PROVE  StartupKept'
<1>1. stage = "reactors" /\ stage \in FromEnvironment /\ stage \in FromCredentials
    BY DEF BuildReactors, FromEnvironment, FromSession, FromCredentials, FromTexts, FromSender, FromRouters, FromReactors,
        FromPerceivers, FromAdapter, FromBuilt
<1>2. /\ UNCHANGED <<invocation, conf, oddity, shell, dotenv, environ, session, exit, sender,
                     guard, identity, router, policy, perceivers, queued, delivered>>
      /\ stage' = "perceivers"
      /\ reactors' = {[style |-> style, trigger |-> TriggerOf(style)] : style \in StylesToBuild}
    BY DEF BuildReactors, Goes, inputVars
<1>3. stage' \in FromTexts
    BY <1>2 DEF FromEnvironment, FromSession, FromCredentials, FromTexts, FromSender, FromRouters, FromReactors,
        FromPerceivers, FromAdapter, FromBuilt
<1>4. {r.style : r \in reactors'} = StylesToBuild
    <2>1. ASSUME NEW style \in StylesToBuild PROVE style \in {r.style : r \in reactors'}
        <3>1. [style |-> style, trigger |-> TriggerOf(style)] \in reactors'
            BY <1>2
        <3>2. QED
            BY <3>1
    <2>2. ASSUME NEW r \in reactors' PROVE r.style \in StylesToBuild
        BY <1>2
    <2>3. QED
        BY <2>1, <2>2
<1>5. StartupTypeOK'
    BY <1>2 DEF StartupKept, StartupTypeOK
<1>6. SenderBuilt'
    BY <1>1, <1>2, InputsStay DEF StartupKept, StagesKept, SenderBuilt, FromEnvironment, FromSession, FromCredentials, FromTexts, FromSender, FromRouters, FromReactors,
        FromPerceivers, FromAdapter, FromBuilt
<1>7. StagesKept'
    BY <1>1, <1>2, <1>3, <1>4, <1>6, GoesOnKeeps, InputsStay DEF StartupKept, StagesKept, FromEnvironment, FromSession, FromCredentials, FromTexts, FromSender, FromRouters, FromReactors,
        FromPerceivers, FromAdapter, FromBuilt
<1>8. QED
    BY <1>1, <1>2, <1>3, <1>5, <1>7, GoesOnKeeps DEF StartupKept

(* Enabled media are media.                                                *)
LEMMA EnabledAreMedia == EnabledMedia \subseteq Media
BY DEF EnabledMedia

LEMMA BuildPerceiversKeeps ==
    ASSUME StartupKept, NEW loads \in BOOLEAN, BuildPerceivers(loads)
    PROVE  StartupKept'
<1>1. stage = "perceivers" /\ stage \in FromEnvironment /\ stage \in FromCredentials
    BY DEF BuildPerceivers, FromEnvironment, FromSession, FromCredentials, FromTexts, FromSender, FromRouters, FromReactors,
        FromPerceivers, FromAdapter, FromBuilt
<1>2. CASE LoadsAtStart /\ ~loads
    <2>1. Raises("2")
        BY <1>2 DEF BuildPerceivers
    <2>2. QED
        BY <1>1, <1>2, <2>1, RaisesKeeps
<1>3. CASE ~(LoadsAtStart /\ ~loads)
    <2>1. /\ UNCHANGED <<invocation, conf, oddity, shell, dotenv, environ, session, exit, sender,
                         guard, identity, router, policy, reactors, delivered>>
          /\ stage' = "adapter"
          /\ perceivers' = {"chat"} \cup EnabledMedia
          /\ queued' = perceivers' \cap Media
        BY <1>3 DEF BuildPerceivers, Goes, inputVars
    <2>2. stage' \in FromTexts
        BY <2>1 DEF FromEnvironment, FromSession, FromCredentials, FromTexts, FromSender, FromRouters, FromReactors,
        FromPerceivers, FromAdapter, FromBuilt
    <2>3. queued' = EnabledMedia
        BY <2>1, EnabledAreMedia DEF Media
    <2>4. StartupTypeOK'
        BY <2>1, <2>3, EnabledAreMedia DEF StartupKept, StartupTypeOK
    <2>5. SenderBuilt'
        BY <1>1, <2>1, InputsStay DEF StartupKept, StagesKept, SenderBuilt, FromEnvironment, FromSession, FromCredentials, FromTexts, FromSender, FromRouters, FromReactors,
        FromPerceivers, FromAdapter, FromBuilt
    <2>6. StagesKept'
        BY <1>1, <2>1, <2>2, <2>3, <2>5, GoesOnKeeps, InputsStay DEF StartupKept, StagesKept, FromEnvironment, FromSession, FromCredentials, FromTexts, FromSender, FromRouters, FromReactors,
        FromPerceivers, FromAdapter, FromBuilt
    <2>7. QED
        BY <1>1, <2>1, <2>2, <2>4, <2>6, GoesOnKeeps DEF StartupKept
<1>4. QED
    BY <1>2, <1>3

(* The adapter asks for what it needs; that there is a perceiver for what  *)
(* it delivers holds by then.                                              *)
LEMMA BuildAdapterKeeps ==
    ASSUME StartupKept, BuildAdapter
    PROVE  StartupKept'
<1>1. stage = "adapter" /\ stage \in FromEnvironment /\ stage \in FromCredentials
    BY DEF BuildAdapter, FromEnvironment, FromSession, FromCredentials, FromTexts, FromSender, FromRouters, FromReactors,
        FromPerceivers, FromAdapter, FromBuilt
<1>2. perceivers = {"chat"} \cup EnabledMedia
    BY <1>1 DEF StartupKept, StagesKept, FromEnvironment, FromSession, FromCredentials, FromTexts, FromSender, FromRouters, FromReactors,
        FromPerceivers, FromAdapter, FromBuilt
<1>3. CASE ~AdapterHolds
    <2>1. Raises("2")
        BY <1>3 DEF BuildAdapter
    <2>2. conf.adapter = "twitch" => conf.twitch.given
        BY <1>1 DEF StartupKept, StagesKept, InputsKept, Holds
    <2>3. ~(Needed \subseteq environ)
        BY <1>2, <1>3, <2>2 DEF AdapterHolds, Needed, ChatCredentials
    <2>4. QED
        BY <1>1, <2>1, <2>3, RaisesKeeps
<1>4. CASE AdapterHolds
    <2>1. /\ UNCHANGED <<invocation, conf, oddity, shell, dotenv, environ, session, exit, sender,
                         guard, identity, router, policy, reactors, perceivers, queued>>
          /\ stage' = "built"
          /\ delivered' = EnabledMedia \cup (IF ChatIsDelivered THEN {"chat"} ELSE {})
        BY <1>4 DEF BuildAdapter, Goes, inputVars
    <2>2. stage' \in FromTexts
        BY <2>1 DEF FromEnvironment, FromSession, FromCredentials, FromTexts, FromSender, FromRouters, FromReactors,
        FromPerceivers, FromAdapter, FromBuilt
    <2>3. StartupTypeOK'
        BY <2>1, EnabledAreMedia DEF StartupKept, StartupTypeOK
    <2>4. SenderBuilt'
        BY <1>1, <2>1, InputsStay DEF StartupKept, StagesKept, SenderBuilt, FromEnvironment, FromSession, FromCredentials, FromTexts, FromSender, FromRouters, FromReactors,
        FromPerceivers, FromAdapter, FromBuilt
    <2>5. StagesKept'
        BY <1>1, <1>4, <2>1, <2>2, <2>4, GoesOnKeeps, InputsStay DEF StartupKept, StagesKept, FromEnvironment, FromSession, FromCredentials, FromTexts, FromSender, FromRouters, FromReactors,
        FromPerceivers, FromAdapter, FromBuilt
    <2>6. QED
        BY <1>1, <2>1, <2>2, <2>3, <2>5, GoesOnKeeps DEF StartupKept
<1>5. QED
    BY <1>3, <1>4

(* What a run needs is there when the agent is built.                      *)
LEMMA BuiltHasWhatItNeeds == StartupKept /\ stage \in FromBuilt => Needed \subseteq environ
<1>1. SUFFICES ASSUME StartupKept, stage \in FromBuilt PROVE Needed \subseteq environ
    OBVIOUS
<1>2. AdapterHolds
    BY <1>1 DEF StartupKept, StagesKept
<1>3. TwitchLive => ChatCredentials /\ "TWITCH_SEND_OAUTH_TOKEN" \in environ
    BY <1>1 DEF StartupKept, StagesKept, FromEnvironment, FromSession, FromCredentials, FromTexts, FromSender, FromRouters, FromReactors,
        FromPerceivers, FromAdapter, FromBuilt
<1>4. QED
    BY <1>2, <1>3 DEF AdapterHolds, ChatCredentials, Needed

LEMMA CheckIsDoneKeeps ==
    ASSUME StartupKept, CheckIsDone
    PROVE  StartupKept'
<1>1. /\ UNCHANGED <<invocation, conf, oddity, shell, dotenv, environ, session, sender, guard,
                     identity, router, policy, reactors, perceivers, queued, delivered>>
      /\ stage = "built" /\ invocation = "check" /\ stage' = "ended" /\ exit' = "0"
    BY DEF CheckIsDone, Ends, inputVars, buildVars
<1>2. StartupTypeOK'
    BY <1>1 DEF StartupKept, StartupTypeOK
<1>3. InputsKept'
    BY <1>1, InputsStay, Zenon DEF StartupKept, InputsKept
<1>4. SessionKept'
    BY <1>1 DEF StartupKept, SessionKept, FromEnvironment, FromSession, FromCredentials, FromTexts, FromSender, FromRouters, FromReactors,
        FromPerceivers, FromAdapter, FromBuilt
<1>5. EnvironKept'
    BY <1>1, InputsStay DEF StartupKept, EnvironKept
<1>6. StagesKept'
    BY <1>1 DEF StagesKept, FromEnvironment, FromSession, FromCredentials, FromTexts, FromSender, FromRouters, FromReactors,
        FromPerceivers, FromAdapter, FromBuilt
<1>7. ExitKept'
    <2>1. ReadingOf' = "accepted"
        BY <1>1, InputsStay DEF StartupKept, StagesKept, FromEnvironment, FromSession, FromCredentials, FromTexts, FromSender, FromRouters, FromReactors,
        FromPerceivers, FromAdapter, FromBuilt
    <2>2. (Needed \subseteq environ)'
        BY <1>1, InputsStay, BuiltHasWhatItNeeds DEF FromBuilt
    <2>3. QED
        BY <1>1, <2>1, <2>2 DEF ExitKept
<1>8. QED
    BY <1>2, <1>3, <1>4, <1>5, <1>6, <1>7 DEF StartupKept

LEMMA ProbeServerKeeps ==
    ASSUME StartupKept, NEW ready \in BOOLEAN, ProbeServer(ready)
    PROVE  StartupKept'
<1>1. stage = "built" /\ stage \in FromEnvironment /\ stage \in FromCredentials
    BY DEF ProbeServer, FromEnvironment, FromSession, FromCredentials, FromTexts, FromSender, FromRouters, FromReactors,
        FromPerceivers, FromAdapter, FromBuilt
<1>2. CASE (conf.provider = "llamacpp" \/ conf.backend = "llamacpp") /\ ~ready
    <2>1. Raises("1")
        BY <1>2 DEF ProbeServer
    <2>2. QED
        BY <1>1, <2>1, RaisesKeeps
<1>3. CASE ~((conf.provider = "llamacpp" \/ conf.backend = "llamacpp") /\ ~ready)
    <2>1. /\ UNCHANGED <<invocation, conf, oddity, shell, dotenv, environ, session, exit, sender,
                         guard, identity, router, policy, reactors, perceivers, queued, delivered>>
          /\ stage' = "live"
        BY <1>3 DEF ProbeServer, Goes, inputVars, buildVars
    <2>2. stage' \in FromTexts
        BY <2>1 DEF FromEnvironment, FromSession, FromCredentials, FromTexts, FromSender, FromRouters, FromReactors,
        FromPerceivers, FromAdapter, FromBuilt
    <2>3. StartupTypeOK'
        BY <2>1 DEF StartupKept, StartupTypeOK
    <2>4. SenderBuilt'
        BY <1>1, <2>1, InputsStay DEF StartupKept, StagesKept, SenderBuilt, FromEnvironment, FromSession, FromCredentials, FromTexts, FromSender, FromRouters, FromReactors,
        FromPerceivers, FromAdapter, FromBuilt
    <2>5. StagesKept'
        BY <1>1, <2>1, <2>2, <2>4, GoesOnKeeps, InputsStay DEF StartupKept, StagesKept, FromEnvironment, FromSession, FromCredentials, FromTexts, FromSender, FromRouters, FromReactors,
        FromPerceivers, FromAdapter, FromBuilt
    <2>6. QED
        BY <1>1, <2>1, <2>2, <2>3, <2>5, GoesOnKeeps DEF StartupKept
<1>4. QED
    BY <1>2, <1>3

LEMMA StartupKeptStep == StartupKept /\ [StartupNext]_startupVars => StartupKept'
<1>1. SUFFICES ASSUME StartupKept, [StartupNext]_startupVars PROVE StartupKept'
    OBVIOUS
<1>2. CASE ReadConfig
    BY <1>1, <1>2, ReadConfigKeeps
<1>3. CASE LoadEnvironment
    BY <1>1, <1>3, LoadEnvironmentKeeps
<1>4. CASE CheckCredentials
    BY <1>1, <1>4, CheckCredentialsKeeps
<1>5. CASE BuildSender
    BY <1>1, <1>5, BuildSenderKeeps
<1>6. CASE ChooseRouters
    BY <1>1, <1>6, ChooseRoutersKeeps
<1>7. CASE BuildReactors
    BY <1>1, <1>7, BuildReactorsKeeps
<1>8. CASE BuildAdapter
    BY <1>1, <1>8, BuildAdapterKeeps
<1>9. CASE CheckIsDone
    BY <1>1, <1>9, CheckIsDoneKeeps
<1>10. ASSUME NEW well \in BOOLEAN,
              BeginSession(well) \/ LoadTexts(well) \/ BuildPerceivers(well) \/ ProbeServer(well)
       PROVE  StartupKept'
    BY <1>1, <1>10, BeginSessionKeeps, LoadTextsKeeps, BuildPerceiversKeeps, ProbeServerKeeps
<1>11. CASE UNCHANGED startupVars
    <2>1. UNCHANGED <<invocation, conf, oddity, shell, dotenv, stage, environ, session, exit, sender,
                     guard, identity, router, policy, reactors, perceivers, queued, delivered>>
        BY <1>11 DEF startupVars, inputVars, buildVars
    <2>2. StartupTypeOK' /\ InputsKept' /\ SessionKept' /\ EnvironKept'
        BY <1>1, <2>1, InputsStay DEF StartupKept, StartupTypeOK, InputsKept, SessionKept, EnvironKept
    <2>3. SenderBuilt' = SenderBuilt
        BY <2>1, InputsStay DEF SenderBuilt
    <2>4. StagesKept' /\ ExitKept'
        BY <1>1, <2>1, <2>3, InputsStay DEF StartupKept, StagesKept, ExitKept
    <2>5. QED
        BY <2>2, <2>4 DEF StartupKept
<1>12. QED
    BY <1>1, <1>2, <1>3, <1>4, <1>5, <1>6, <1>7, <1>8, <1>9, <1>10, <1>11 DEF StartupNext

(* What holds of a built agent.                                            *)
LEMMA ReadyKept ==
    ASSUME StartupKept, Ready
    PROVE  /\ ReadingOf = "accepted" /\ Holds(conf)
           /\ TwitchLive => ChatCredentials /\ "TWITCH_SEND_OAUTH_TOKEN" \in environ
           /\ conf.provider # "unknown"
           /\ SenderBuilt
           /\ policy = IF RouterKind # "policy" THEN "none" ELSE IF Capable THEN "capable" ELSE "closed"
           /\ router.kind \in {"panel", RouterKind}
           /\ {r.style : r \in reactors} = StylesToBuild
           /\ perceivers = {"chat"} \cup EnabledMedia /\ queued = EnabledMedia
           /\ delivered = EnabledMedia \cup (IF ChatIsDelivered THEN {"chat"} ELSE {})
<1>1. stage \in FromBuilt
    BY DEF Ready, FromBuilt
<1>2. /\ stage \in FromAdapter /\ stage \in FromPerceivers /\ stage \in FromReactors
      /\ stage \in FromRouters /\ stage \in FromSender /\ stage \in FromTexts
      /\ stage \in FromEnvironment
    BY <1>1 DEF FromEnvironment, FromSession, FromCredentials, FromTexts, FromSender, FromRouters, FromReactors,
        FromPerceivers, FromAdapter, FromBuilt
<1>3. StagesKept /\ InputsKept
    BY DEF StartupKept
<1>4. QED
    BY <1>1, <1>2, <1>3 DEF StagesKept, InputsKept

(* A policy decides only where there is a public chat.                     *)
LEMMA PolicyIsPublic ==
    ASSUME RouterKind = "policy"
    PROVE  conf.mode = "public" /\ conf.adapter \in {"twitch", "youtube"}
BY DEF RouterKind

LEMMA SendersAreGuarded == StartupKept => SenderIsGuarded
<1>1. SUFFICES ASSUME StartupKept, Ready, sender # "none"
               PROVE  LET section == IF sender = "twitch" THEN conf.twitch ELSE conf.youtube IN
                      /\ conf.adapter = sender /\ conf.mode = "public"
                      /\ section.send = "live" /\ section.allowed
                      /\ guard = sender /\ identity # "none"
                      /\ policy = IF sender = "twitch" THEN "capable" ELSE "closed"
                      /\ sender = "twitch" => {"TWITCH_BOT_USERNAME", "TWITCH_SEND_OAUTH_TOKEN"} \subseteq environ
    BY DEF SenderIsGuarded
<1>2. Holds(conf) /\ SenderBuilt
    BY <1>1, ReadyKept
<1>3. guard = sender /\ identity # "none"
    BY <1>1, <1>2 DEF SenderBuilt
<1>4. CASE TwitchLive
    <2>1. sender = "twitch"
        BY <1>2, <1>4 DEF SenderBuilt
    <2>2. conf.adapter = "twitch" /\ conf.twitch.given /\ conf.twitch.send = "live"
        BY <1>4 DEF TwitchLive
    <2>3. conf.mode = "public" /\ conf.twitch.allowed
        BY <1>2, <2>2 DEF Holds, TwitchHolds, MaySend
    <2>4. RouterKind = "policy"
        BY <2>2, <2>3 DEF RouterKind
    <2>5. Capable
        BY <2>1, <1>3 DEF Capable
    <2>6. policy = "capable"
        BY <1>1, <2>4, <2>5, ReadyKept
    <2>7. {"TWITCH_BOT_USERNAME", "TWITCH_SEND_OAUTH_TOKEN"} \subseteq environ
        BY <1>1, <1>4, ReadyKept DEF ChatCredentials
    <2>8. QED
        BY <1>3, <2>1, <2>2, <2>3, <2>6, <2>7
<1>5. CASE ~TwitchLive
    <2>1. sender = "youtube" /\ YouTubeLive
        BY <1>1, <1>2, <1>5 DEF SenderBuilt
    <2>2. conf.adapter = "youtube" /\ conf.youtube.given /\ conf.youtube.send = "live"
        BY <2>1 DEF YouTubeLive
    <2>3. conf.mode = "public" /\ conf.youtube.allowed
        BY <1>2, <2>2 DEF Holds, YouTubeHolds, MaySend
    <2>4. RouterKind = "policy"
        BY <2>2, <2>3 DEF RouterKind
    <2>5. ~Capable
        BY <2>1, <1>3 DEF Capable
    <2>6. policy = "closed"
        BY <1>1, <2>4, <2>5, ReadyKept
    <2>7. QED
        BY <1>3, <2>1, <2>2, <2>3, <2>6
<1>6. QED
    BY <1>4, <1>5

LEMMA VoicesAreOne == StartupKept => OneVoiceInPublic
<1>1. SUFFICES ASSUME StartupKept, Ready PROVE OneVoiceInPublic
    BY DEF OneVoiceInPublic
<1>2. Holds(conf) /\ SenderBuilt /\ {r.style : r \in reactors} = StylesToBuild
    BY <1>1, ReadyKept
<1>3. policy # "none" => StylesToBuild = {"original_chat"}
    <2>1. SUFFICES ASSUME policy # "none" PROVE StylesToBuild = {"original_chat"}
        OBVIOUS
    <2>2. RouterKind = "policy"
        BY <1>1, <2>1, ReadyKept
    <2>3. conf.mode = "public" /\ conf.adapter \in {"twitch", "youtube"}
        BY <2>2, PolicyIsPublic
    <2>4. conf.profiles \subseteq {"original_chat"}
        BY <1>2, <2>3 DEF Holds, PublicPersona
    <2>5. QED
        BY <2>3, <2>4 DEF StylesToBuild
<1>4. conf.mode = "public" => StylesToBuild \cap {"meeting_synthesizer", "suggester"} = {}
    BY <1>2 DEF Holds, StylesFit, StylesToBuild
<1>5. router.kind = "notImplemented" => StylesToBuild = {}
    BY <1>1, ReadyKept DEF RouterKind
<1>6. sender # "none" => policy # "none"
    BY <1>1, SendersAreGuarded DEF SenderIsGuarded
<1>7. QED
    BY <1>2, <1>3, <1>4, <1>5, <1>6 DEF OneVoiceInPublic

LEMMA ChannelsArePerceivedBuilt == StartupKept => ChannelsArePerceived
<1>1. SUFFICES ASSUME StartupKept, Ready
               PROVE  /\ delivered \subseteq perceivers
                      /\ delivered \cap Media = queued
                      /\ perceivers \ {"chat"} \subseteq delivered
    BY DEF ChannelsArePerceived
<1>2. /\ perceivers = {"chat"} \cup EnabledMedia /\ queued = EnabledMedia
      /\ delivered = EnabledMedia \cup (IF ChatIsDelivered THEN {"chat"} ELSE {})
    BY <1>1, ReadyKept
<1>3. EnabledMedia \subseteq Media /\ "chat" \notin Media
    BY EnabledAreMedia DEF Media
<1>4. QED
    BY <1>2, <1>3

(* What the main of the program starts is whole: what can write in public  *)
(* is guarded and says so, one voice speaks there, and what is captured is *)
(* perceived; a startup that fails leaves no directory open and no         *)
(* credential for writing behind; and a dry run that is content says the   *)
(* truth.  main(), Config.load() and build_agent(), for every              *)
(* configuration and whichever credentials are missing.                    *)
THEOREM StartupBuildsWhole == StartupSpec => []StartupIsSound
<1>1. StartupKept => StartupIsSound
    <2>1. SUFFICES ASSUME StartupKept PROVE StartupIsSound
        OBVIOUS
    <2>2. AgentsAreWhole
        BY <2>1, SendersAreGuarded, VoicesAreOne, ChannelsArePerceivedBuilt DEF AgentsAreWhole
    <2>3. StartupLeavesNothing
        BY <2>1 DEF StartupKept, SessionKept, EnvironKept, StartupLeavesNothing, FromEnvironment, FromSession, FromCredentials, FromTexts, FromSender, FromRouters, FromReactors,
        FromPerceivers, FromAdapter, FromBuilt
    <2>4. Ready => Needed \subseteq environ
        BY <2>1, BuiltHasWhatItNeeds DEF Ready, FromBuilt
    <2>5. Ready => ReadingOf = "accepted" /\ conf.provider # "unknown"
        BY <2>1, ReadyKept
    <2>6. CheckTellsTheTruth
        BY <2>1, <2>4, <2>5 DEF StartupKept, ExitKept, CheckTellsTheTruth
    <2>7. QED
        BY <2>2, <2>3, <2>6 DEF StartupIsSound
<1>2. QED
    BY <1>1, StartupKeptInit, StartupKeptStep, PTL DEF StartupSpec
=============================================================================
