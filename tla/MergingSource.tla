---------------------------- MODULE MergingSource ----------------------------
(***************************************************************************)
(* src/src/minnarone/merge.py, driven by the pump of app.py: one worker    *)
(* task per reader, a bounded buffer that keeps the priority channels, and *)
(* a stop() with two time limits.                                          *)
(*                                                                         *)
(* A reader is external: it may fail or hang in start(), events(), while   *)
(* it is cancelled, and in stop().  Everything else is the code between    *)
(* two awaits.  The condition's lock is never held across an await, so     *)
(* the pump hands on all that is buffered in one step.                     *)
(***************************************************************************)
EXTENDS Integers, Sequences, FiniteSets

CONSTANTS
    Channels,       \* one reader each
    Priority,       \* _priority
    QueueSize,      \* _queue_size
    MaxEvents       \* bound of the model: per channel, events its reader yields

(* __init__ refuses an empty mapping and a queue without room.             *)
ASSUME MergeAssumption ==
    /\ Channels # {}
    /\ QueueSize \in Nat \ {0}
    /\ MaxEvents \in [Channels -> Nat]

VARIABLES
    running,            \* _running
    pending,            \* _pending
    buffer,             \* _buffer: <<channel, number of the event in its channel>>
    produced, dropped,  \* _produced, _dropped
    failures,           \* _failures: per channel, what was noted
    productionFailed,   \* _production_failed
    worker,             \* per channel, where its _drain_reader is
    cancelled,          \* the workers with a cancel() not yet delivered
    reader,             \* "idle" | "started" | "stopping" | "released" | "stopRaised"
    pump,               \* "idle" | "waiting" | "ended" | "raised" | "failed" | "cancelled"
    woken,              \* the condition was notified since the pump last looked
    stopper,            \* stop(): "idle" | "waiting" | "stopped" | "interrupted"
    \* history
    emitted,            \* events each reader yielded
    evicted,            \* produced events that were dropped from the buffer
    received, latest    \* per channel, how many events the pump got, and the last of them

counts == <<produced, dropped, emitted, evicted>>
got == <<received, latest>>
noted == <<failures, productionFailed>>
taskVars == <<worker, cancelled, reader>>
pumpVars == <<pump, stopper, got>>
vars == <<running, pending, buffer, counts, noted, taskVars, pumpVars, woken>>

(* "late" is closing after the reader's own code held up a cancellation;   *)
(* "cut" is the second wait of a _close_reader that was cancelled.         *)
Places == {"none", "created", "starting", "reading", "unwinding", "closing", "late", "cut", "done"}

Init ==
    /\ running = FALSE
    /\ pending = {}
    /\ buffer = <<>>
    /\ produced = [ch \in Channels |-> 0]
    /\ dropped = [ch \in Channels |-> 0]
    /\ failures = [ch \in Channels |-> {}]
    /\ productionFailed = {}
    /\ worker = [ch \in Channels |-> "none"]
    /\ cancelled = {}
    /\ reader = [ch \in Channels |-> "idle"]
    /\ pump = "idle"
    /\ woken = FALSE
    /\ stopper = "idle"
    /\ emitted = [ch \in Channels |-> 0]
    /\ evicted = [ch \in Channels |-> 0]
    /\ received = [ch \in Channels |-> 0]
    /\ latest = [ch \in Channels |-> 0]

-----------------------------------------------------------------------------
(* The pump starts the adapter and begins to wait for events.              *)
Start ==
    /\ pump = "idle"
    /\ running' = TRUE
    /\ pending' = Channels
    /\ worker' = [ch \in Channels |-> "created"]
    /\ pump' = "waiting"
    /\ UNCHANGED <<buffer, counts, noted, cancelled, reader, stopper, got, woken>>

Note(ch, what) == failures' = [failures EXCEPT ![ch] = @ \cup {what}]

Goes(ch, from, to) ==
    /\ worker[ch] \in from
    /\ worker' = [worker EXCEPT ![ch] = to]

Unbothered(ch) == ch \notin cancelled

(* _drain_reader calls reader.start(), which returns.                      *)
BeginReading(ch) ==
    /\ Unbothered(ch)
    /\ \/ Goes(ch, {"created"}, "starting") /\ reader' = [reader EXCEPT ![ch] = "started"]
       \/ Goes(ch, {"starting"}, "reading") /\ UNCHANGED reader
    /\ UNCHANGED <<running, pending, buffer, counts, noted, cancelled, pumpVars, woken>>

(* A fault: the oldest event goes, whatever its channel.                   *)
AnyAt(s) == 1..Len(s)

(* _evict_one_low: the places of the events without priority.              *)
LowAt(s) == {i \in 1..Len(s) : s[i][1] \notin Priority}

Admit(ch, event) ==
    /\ Len(buffer) < QueueSize
    /\ buffer' = Append(buffer, event)
    /\ produced' = [produced EXCEPT ![ch] = @ + 1]
    /\ UNCHANGED <<dropped, evicted>>

(* A fault: the event takes the place of the one it evicts.                *)
EvictInPlace(ch, event) ==
    /\ Len(buffer) >= QueueSize
    /\ ch \in Priority
    /\ \E i \in LowAt(buffer) :
        /\ \A j \in LowAt(buffer) : i <= j
        /\ buffer' = [buffer EXCEPT ![i] = event]
        /\ dropped' = [dropped EXCEPT ![buffer[i][1]] = @ + 1]
        /\ evicted' = [evicted EXCEPT ![buffer[i][1]] = @ + 1]
    /\ produced' = [produced EXCEPT ![ch] = @ + 1]

(* A full buffer gives up its oldest event without priority, which was     *)
(* counted as produced and is now counted as dropped too.                  *)
Evict(ch, event) ==
    /\ Len(buffer) >= QueueSize
    /\ ch \in Priority
    /\ \E i \in LowAt(buffer) :
        /\ \A j \in LowAt(buffer) : i <= j
        /\ buffer' = SubSeq(buffer, 1, i - 1) \o SubSeq(buffer, i + 1, Len(buffer)) \o <<event>>
        /\ dropped' = [dropped EXCEPT ![buffer[i][1]] = @ + 1]
        /\ evicted' = [evicted EXCEPT ![buffer[i][1]] = @ + 1]
    /\ produced' = [produced EXCEPT ![ch] = @ + 1]

(* A fault: what is refused is not counted.                                *)
RefuseSilently(ch) ==
    /\ Len(buffer) >= QueueSize
    /\ ch \in Priority => LowAt(buffer) = {}
    /\ UNCHANGED <<buffer, produced, dropped, evicted>>

Refuse(ch) ==
    /\ Len(buffer) >= QueueSize
    /\ ch \in Priority => LowAt(buffer) = {}
    /\ dropped' = [dropped EXCEPT ![ch] = @ + 1]
    /\ UNCHANGED <<buffer, produced, evicted>>

(* The reader yields an event, and _enqueue takes it.                      *)
Emit(ch) ==
    LET event == <<ch, emitted[ch] + 1>> IN
    /\ worker[ch] = "reading"
    /\ Unbothered(ch)
    /\ emitted[ch] < MaxEvents[ch]
    /\ emitted' = [emitted EXCEPT ![ch] = @ + 1]
    /\ Admit(ch, event) \/ Evict(ch, event) \/ Refuse(ch)
    /\ woken' = TRUE
    /\ UNCHANGED <<running, pending, noted, taskVars, pumpVars>>

(* _close_reader makes a task of reader.stop() and waits for it.           *)
Close(ch, from, to) ==
    /\ Goes(ch, from, to)
    /\ reader' = [reader EXCEPT ![ch] = "stopping"]

(* The reader ends, or raises.                                             *)
EndReading(ch) ==
    /\ Unbothered(ch)
    /\ \/ /\ Close(ch, {"reading"}, "closing")
          /\ UNCHANGED noted
       \/ /\ Close(ch, {"starting", "reading"}, "closing")
          /\ Note(ch, "error")
          /\ productionFailed' = productionFailed \cup {ch}
    /\ UNCHANGED <<running, pending, buffer, counts, cancelled, pumpVars, woken>>

(* A CancelledError is delivered where the worker waits.  The reader's own *)
(* code may hold it up.  One that comes while the reader is being closed   *)
(* gives its stop() a second chance, and then ends the worker.             *)
DeliverCancellation(ch) ==
    /\ ch \in cancelled
    /\ cancelled' = cancelled \ {ch}
    /\ \/ Goes(ch, {"created", "cut"}, "done") /\ UNCHANGED reader
       \/ Close(ch, {"starting", "reading"}, "closing")
       \/ Goes(ch, {"starting", "reading", "unwinding"}, "unwinding") /\ UNCHANGED reader
       \/ Goes(ch, {"closing", "late"}, "cut") /\ UNCHANGED reader
    /\ UNCHANGED <<running, pending, buffer, counts, noted, pumpVars, woken>>

(* The reader lets go of the cancellation at last, or fails over it.       *)
EndUnwinding(ch) ==
    /\ Unbothered(ch)
    /\ Close(ch, {"unwinding"}, "late")
    /\ \/ UNCHANGED noted
       \/ Note(ch, "error") /\ productionFailed' = productionFailed \cup {ch}
    /\ UNCHANGED <<running, pending, buffer, counts, cancelled, pumpVars, woken>>

ReaderStops(ch) ==
    /\ reader[ch] = "stopping"
    /\ \E outcome \in {"released", "stopRaised"} : reader' = [reader EXCEPT ![ch] = outcome]
    /\ UNCHANGED <<running, pending, buffer, counts, noted, worker, cancelled, pumpVars, woken>>

(* The wait for reader.stop() is over, at the latest by its timeout.       *)
NoteClosing(ch) ==
    \/ reader[ch] = "released" /\ UNCHANGED failures
    \/ reader[ch] = "stopRaised" /\ Note(ch, "error")
    \/ reader[ch] = "stopping" /\ Note(ch, "cleanup timed out")

(* A fault: nobody tells the pump that the last reader has ended.          *)
EndWorkerSilently(ch) ==
    /\ Unbothered(ch)
    /\ Goes(ch, {"closing", "late"}, "done")
    /\ NoteClosing(ch)
    /\ pending' = pending \ {ch}
    /\ running' = (running /\ pending' # {})
    /\ UNCHANGED <<buffer, counts, productionFailed, cancelled, reader, pumpVars, woken>>

EndWorker(ch) ==
    /\ Unbothered(ch)
    /\ Goes(ch, {"closing", "late"}, "done")
    /\ NoteClosing(ch)
    /\ pending' = pending \ {ch}
    /\ running' = (running /\ pending' # {})
    /\ woken' = TRUE
    /\ UNCHANGED <<buffer, counts, productionFailed, cancelled, reader, pumpVars>>

(* A cancelled _close_reader raises: the rest of the finally is skipped.   *)
EndCutWorker(ch) ==
    /\ Unbothered(ch)
    /\ Goes(ch, {"cut"}, "done")
    /\ UNCHANGED <<running, pending, buffer, counts, noted, cancelled, reader, pumpVars, woken>>

-----------------------------------------------------------------------------
(* A fault: stop() waits for the workers without cancelling them.          *)
BeginStopPolitely ==
    /\ running' = FALSE
    /\ stopper' = "waiting"
    /\ UNCHANGED cancelled

(* stop(), up to its wait; the pump calls it however its loop ended.       *)
BeginStop ==
    /\ running' = FALSE
    /\ stopper' = "waiting"
    /\ cancelled' = {ch \in Channels : worker[ch] # "done"}

(* _raise_if_all_failed_silently.                                          *)
FailedSilently == productionFailed # {} /\ \A ch \in Channels : produced[ch] = 0

(* The events of a channel in a stretch of the buffer.                     *)
Of(s, ch) == {i \in 1..Len(s) : s[i][1] = ch}
Count(s, ch) == Cardinality(Of(s, ch))

HandOn(s) ==
    /\ received' = [ch \in Channels |-> received[ch] + Count(s, ch)]
    /\ latest' = [ch \in Channels |->
                    IF Of(s, ch) = {} THEN latest[ch]
                    ELSE s[CHOOSE i \in Of(s, ch) : \A j \in Of(s, ch) : j <= i][2]]

(* The pump takes all that is buffered, and ends with the last reader.     *)
Drain ==
    /\ pump = "waiting"
    /\ woken
    /\ HandOn(buffer)
    /\ buffer' = <<>>
    /\ woken' = FALSE
    /\ IF running /\ pending # {}
       THEN UNCHANGED <<running, pump, stopper, cancelled>>
       ELSE BeginStop /\ pump' = IF FailedSilently THEN "raised" ELSE "ended"
    /\ UNCHANGED <<pending, counts, noted, worker, reader>>

(* A perceiver raises in dispatch().                                       *)
DispatchRaises ==
    /\ pump = "waiting"
    /\ woken
    /\ \E k \in 1..Len(buffer) :
        /\ HandOn(SubSeq(buffer, 1, k))
        /\ buffer' = SubSeq(buffer, k + 1, Len(buffer))
    /\ pump' = "failed"
    /\ BeginStop
    /\ UNCHANGED <<pending, counts, noted, worker, reader, woken>>

PumpIsCancelled ==
    /\ pump = "waiting"
    /\ pump' = "cancelled"
    /\ BeginStop
    /\ UNCHANGED <<pending, buffer, counts, noted, worker, reader, got, woken>>

EndStop ==
    /\ stopper' = "stopped"
    /\ pending' = {}
    /\ woken' = TRUE
    /\ UNCHANGED <<running, buffer, counts, productionFailed, worker, reader, pump, got>>

StopEnds ==
    /\ stopper = "waiting"
    /\ \A ch \in Channels : worker[ch] = "done"
    /\ EndStop
    /\ UNCHANGED <<failures, cancelled>>

(* A fault: the workers that are left are cancelled again, not reported.   *)
StopTimesOutSilently ==
    /\ stopper = "waiting"
    /\ cancelled = {}
    /\ \E ch \in Channels : worker[ch] # "done"
    /\ \A ch \in Channels : worker[ch] \in {"unwinding", "late", "done"}
    /\ cancelled' = {ch \in Channels : worker[ch] # "done"}
    /\ UNCHANGED failures
    /\ EndStop

(* Twice the time limit of _close_reader is over: only readers that held   *)
(* up their cancellation can still be there.                               *)
StopTimesOut ==
    /\ stopper = "waiting"
    /\ cancelled = {}
    /\ \E ch \in Channels : worker[ch] # "done"
    /\ \A ch \in Channels : worker[ch] \in {"unwinding", "late", "done"}
    /\ cancelled' = {ch \in Channels : worker[ch] # "done"}
    /\ failures' = [ch \in Channels |->
                        IF worker[ch] = "done" THEN failures[ch]
                        ELSE failures[ch] \cup {"cleanup timed out"}]
    /\ EndStop

(* The pump is cancelled inside stop().                                    *)
StopIsCancelled ==
    /\ stopper = "waiting"
    /\ stopper' = "interrupted"
    /\ UNCHANGED <<running, pending, buffer, counts, noted, taskVars, pump, got, woken>>

Worker(ch) ==
    \/ BeginReading(ch) \/ Emit(ch) \/ EndReading(ch)
    \/ DeliverCancellation(ch) \/ EndUnwinding(ch) \/ ReaderStops(ch)
    \/ EndWorker(ch) \/ EndCutWorker(ch)

Next ==
    \/ Start
    \/ \E ch \in Channels : Worker(ch)
    \/ Drain
    \/ DispatchRaises
    \/ PumpIsCancelled
    \/ StopEnds
    \/ StopTimesOut
    \/ StopIsCancelled

Spec == Init /\ [][Next]_vars

(* The loop runs what is ready and its timers fire; readers may hang in    *)
(* start(), in events(), when cancelled and in stop().                     *)
LoopFairness ==
    /\ \A ch \in Channels : WF_vars(DeliverCancellation(ch) \/ EndWorker(ch) \/ EndCutWorker(ch))
    /\ WF_vars(Drain)
    /\ WF_vars(StopEnds \/ StopTimesOut)

FairSpec == Spec /\ LoopFairness

-----------------------------------------------------------------------------
(* Every variable stays in its range; the buffer respects its size.        *)
TypeOK ==
    /\ running \in BOOLEAN
    /\ pending \subseteq Channels
    /\ buffer \in Seq(Channels \X Nat)
    /\ Len(buffer) <= QueueSize
    /\ produced \in [Channels -> Nat]
    /\ dropped \in [Channels -> Nat]
    /\ failures \in [Channels -> SUBSET {"error", "cleanup timed out"}]
    /\ productionFailed \subseteq Channels
    /\ worker \in [Channels -> Places]
    /\ cancelled \subseteq Channels
    /\ reader \in [Channels -> {"idle", "started", "stopping", "released", "stopRaised"}]
    /\ pump \in {"idle", "waiting", "ended", "raised", "failed", "cancelled"}
    /\ woken \in BOOLEAN
    /\ stopper \in {"idle", "waiting", "stopped", "interrupted"}
    /\ emitted \in [Channels -> Nat]
    /\ \A ch \in Channels : emitted[ch] <= MaxEvents[ch]
    /\ evicted \in [Channels -> Nat]
    /\ received \in [Channels -> Nat]
    /\ latest \in [Channels -> Nat]

(* Every event a reader yielded was delivered, waits in the buffer or is   *)
(* in the dropped count the operator sees; produced also counts what was   *)
(* evicted later, and the buffer is never overfull.                        *)
Accounting ==
    /\ Len(buffer) <= QueueSize
    /\ \A ch \in Channels :
        /\ emitted[ch] = received[ch] + Count(buffer, ch) + dropped[ch]
        /\ produced[ch] = received[ch] + Count(buffer, ch) + evicted[ch]

(* The pump gets the events of a channel in the order of the channel,      *)
(* whatever was evicted between them.                                      *)
InOrder ==
    \A ch \in Channels : \A i \in Of(buffer, ch) :
        /\ latest[ch] < buffer[i][2]
        /\ \A j \in Of(buffer, ch) : i < j => buffer[i][2] < buffer[j][2]

(* What the pump gets and what was dropped add up to what the readers      *)
(* yielded, in the order of each channel.                                  *)
EventsAccounted == Accounting /\ InOrder

(* A priority event is lost only when the buffer holds nothing else.       *)
PriorityIsKept ==
    [][\A ch \in Channels \cap Priority :
        dropped'[ch] # dropped[ch] => \A i \in 1..Len(buffer) : buffer[i][1] \in Priority]_vars

(* When stop() has returned, every reader that was started has been told   *)
(* to stop, or is reported as a cleanup that timed out.                    *)
NoReaderForgotten ==
    stopper = "stopped" =>
        \A ch \in Channels : reader[ch] = "started" => "cleanup timed out" \in failures[ch]

(* No wake-up is lost: what is buffered reaches the pump unless the run    *)
(* ends first, and the stream ends with its last reader, although that     *)
(* one's stop() may hang.                                                  *)
NoLostWakeup ==
    /\ buffer # <<>> ~> buffer = <<>> \/ pump # "waiting"
    /\ pump = "waiting" /\ (\A ch \in Channels : worker[ch] \in {"closing", "done"})
        ~> pump # "waiting"

(* stop() returns, whatever the readers do.                                *)
StopReturns == stopper = "waiting" ~> stopper # "waiting"

(* Neither the pump nor stop() waits for ever, whatever the readers do.    *)
NobodyWaitsForEver == NoLostWakeup /\ StopReturns
=============================================================================
