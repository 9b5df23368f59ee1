--------------------------- MODULE PerceptionQueue ---------------------------
(***************************************************************************)
(* src/src/minnarone/perception_queue.py with perception_work.py and the   *)
(* write gate of PerceptionStore.append: slow audio and video perception   *)
(* behind one bounded queue, one worker task and one daemon thread at a    *)
(* time per channel.  The pump (app.py) starts the queue, submits what the *)
(* source emits and stops the queue when the source ends or it is          *)
(* cancelled; it never submits during or after stop().                     *)
(*                                                                         *)
(* Threads run beside the event loop.  Everything else is a step of the    *)
(* loop, from one await to the next.                                       *)
(***************************************************************************)
EXTENDS Integers, Sequences

CONSTANTS
    Channels,       \* the channels with a processor
    Video,          \* the channel whose stale frames are replaced
    Capacity,       \* maxsize of each asyncio.Queue
    MaxEvents       \* bound of the model: events submitted per channel

(* __init__ refuses a capacity below 1.                                    *)
ASSUME QueueAssumption ==
    /\ Capacity \in Nat \ {0}
    /\ MaxEvents \in Nat

VARIABLES
    running,        \* _running
    queues,         \* _queues: per channel, the numbers of the events waiting
    unfinished,     \* asyncio.Queue's count of items without a task_done()
    inflight,       \* _inflight
    tokens,         \* _active_tokens: the job whose token is active, or NoJob
    threads,        \* _active_threads
    worker,         \* the worker task: "none" | "waiting" | "running" | "ended"
    cancelling,     \* task.cancel() was called on the workers
    thread,         \* per job, how far its daemon thread is
    future,         \* per job, the future its worker awaits
    cancelledIds,   \* _cancelled_token_ids
    store,          \* the jobs whose perception was appended, in order
    processed, failed, cancelled, dropped, abandoned, cleanupFailures,  \* _MutableChannelStats
    stopper,        \* stop(): "idle" | "joining" | "waiting" | "stopped"
    interrupted,    \* stop() itself was cancelled
    submitted       \* history: calls of submit() per channel

queueVars == <<queues, unfinished>>
jobVars == <<inflight, tokens, threads, thread, future, cancelledIds>>
stats == <<processed, failed, cancelled, dropped, abandoned, cleanupFailures>>
stopVars == <<running, cancelling, stopper, interrupted>>
vars == <<queueVars, jobVars, stats, stopVars, worker, store, submitted>>

(* One job per event: the n-th event of its channel.                       *)
Jobs == Channels \X (1..MaxEvents)
NoJob == <<>>
Live == {"working", "writing", "written"}       \* the processor has not returned

Init ==
    /\ running = FALSE
    /\ queues = [ch \in Channels |-> <<>>]
    /\ unfinished = [ch \in Channels |-> 0]
    /\ inflight = [ch \in Channels |-> 0]
    /\ tokens = [ch \in Channels |-> NoJob]
    /\ threads = [ch \in Channels |-> NoJob]
    /\ worker = [ch \in Channels |-> "none"]
    /\ cancelling = FALSE
    /\ thread = [job \in Jobs |-> "none"]
    /\ future = [job \in Jobs |-> "none"]
    /\ cancelledIds = {}
    /\ store = <<>>
    /\ processed = [ch \in Channels |-> 0]
    /\ failed = [ch \in Channels |-> 0]
    /\ cancelled = [ch \in Channels |-> 0]
    /\ dropped = [ch \in Channels |-> 0]
    /\ abandoned = [ch \in Channels |-> 0]
    /\ cleanupFailures = [ch \in Channels |-> 0]
    /\ stopper = "idle"
    /\ interrupted = FALSE
    /\ submitted = [ch \in Channels |-> 0]

-----------------------------------------------------------------------------
Start ==
    /\ ~running
    /\ stopper = "idle"
    /\ running' = TRUE
    /\ worker' = [ch \in Channels |-> "waiting"]
    /\ UNCHANGED <<queueVars, jobVars, stats, cancelling, stopper, interrupted, store, submitted>>

(* A fault: the put is tried first, and a new frame is refused when full.  *)
KeptAll(ch) == queues[ch]

(* What submit() leaves in the queue before it puts: a new frame makes     *)
(* every waiting frame stale.                                              *)
Kept(ch) == IF ch = Video THEN <<>> ELSE queues[ch]

Submit(ch) ==
    LET kept == Kept(ch)
        drained == Len(queues[ch]) - Len(kept)
        accepted == Len(kept) < Capacity
    IN
    /\ running
    /\ stopper = "idle"
    /\ submitted[ch] < MaxEvents
    /\ submitted' = [submitted EXCEPT ![ch] = @ + 1]
    /\ queues' = [queues EXCEPT ![ch] = IF accepted THEN Append(kept, submitted'[ch]) ELSE kept]
    /\ unfinished' = [unfinished EXCEPT ![ch] = @ - drained + (IF accepted THEN 1 ELSE 0)]
    /\ dropped' = [dropped EXCEPT ![ch] = @ + drained + (IF accepted THEN 0 ELSE 1)]
    /\ UNCHANGED <<jobVars, processed, failed, cancelled, abandoned, cleanupFailures,
                   stopVars, worker, store>>

(* _worker: an event is taken, a token and a thread are made for it, and   *)
(* the worker awaits the thread's future.                                  *)
TakeJob(ch) ==
    LET job == <<ch, Head(queues[ch])>> IN
    /\ worker[ch] = "waiting"
    /\ ~cancelling
    /\ queues[ch] # <<>>
    /\ queues' = [queues EXCEPT ![ch] = Tail(@)]
    /\ inflight' = [inflight EXCEPT ![ch] = @ + 1]
    /\ tokens' = [tokens EXCEPT ![ch] = job]
    /\ threads' = [threads EXCEPT ![ch] = job]
    /\ thread' = [thread EXCEPT ![job] = "working"]
    /\ future' = [future EXCEPT ![job] = "pending"]
    /\ worker' = [worker EXCEPT ![ch] = "running"]
    /\ UNCHANGED <<unfinished, cancelledIds, stats, stopVars, store, submitted>>

(* The thread, in PerceptionStore.append: the last look at the token,      *)
(* under the store's lock but not under the token's.                       *)
CheckToken(job) ==
    /\ thread[job] = "working"
    /\ thread' = [thread EXCEPT ![job] = IF job \in cancelledIds THEN "written" ELSE "writing"]
    /\ UNCHANGED <<queueVars, inflight, tokens, threads, future, cancelledIds, stats, stopVars,
                   worker, store, submitted>>

WritePerception(job) ==
    /\ thread[job] = "writing"
    /\ store' = Append(store, job)
    /\ thread' = [thread EXCEPT ![job] = "written"]
    /\ UNCHANGED <<queueVars, inflight, tokens, threads, future, cancelledIds, stats, stopVars,
                   worker, submitted>>

(* The processor returns, or raises at any point, and the thread posts the *)
(* outcome to the loop.                                                    *)
EndThread(job) ==
    /\ \/ thread[job] \in {"working", "written"} /\ thread' = [thread EXCEPT ![job] = "returned"]
       \/ thread[job] \in Live /\ thread' = [thread EXCEPT ![job] = "raised"]
    /\ UNCHANGED <<queueVars, inflight, tokens, threads, future, cancelledIds, stats, stopVars,
                   worker, store, submitted>>

(* complete_with_result / complete_with_exception, on the loop.            *)
Complete(job) ==
    /\ thread[job] \in {"returned", "raised"}
    /\ thread' = [thread EXCEPT ![job] = "gone"]
    /\ future' = [future EXCEPT ![job] =
                    IF @ # "pending" THEN @
                    ELSE IF thread[job] = "returned" THEN "result" ELSE "exception"]
    /\ UNCHANGED <<queueVars, inflight, tokens, threads, cancelledIds, stats, stopVars,
                   worker, store, submitted>>

(* A fault: the worker goes on without awaiting its thread.                *)
SettleUnawaited(ch) ==
    LET job == tokens[ch] IN
    /\ worker[ch] = "running"
    /\ ~cancelling
    /\ \/ /\ future[job] \in {"pending", "result"}
          /\ processed' = [processed EXCEPT ![ch] = @ + 1]
          /\ UNCHANGED failed
       \/ /\ future[job] = "exception"
          /\ failed' = [failed EXCEPT ![ch] = @ + 1]
          /\ UNCHANGED processed
    /\ cancelledIds' = cancelledIds \ {job}
    /\ tokens' = [tokens EXCEPT ![ch] = NoJob]
    /\ threads' = [threads EXCEPT ![ch] = NoJob]
    /\ inflight' = [inflight EXCEPT ![ch] = @ - 1]
    /\ unfinished' = [unfinished EXCEPT ![ch] = @ - 1]
    /\ worker' = [worker EXCEPT ![ch] = "waiting"]
    /\ UNCHANGED <<queues, thread, future, cancelled, dropped, abandoned, cleanupFailures,
                   stopVars, store, submitted>>

(* The worker resumes with the outcome, settles the job and goes back to   *)
(* its queue.                                                              *)
SettleJob(ch) ==
    LET job == tokens[ch] IN
    /\ worker[ch] = "running"
    /\ ~cancelling
    /\ \/ /\ future[job] = "result"
          /\ processed' = [processed EXCEPT ![ch] = @ + 1]
          /\ UNCHANGED failed
       \/ /\ future[job] = "exception"
          /\ failed' = [failed EXCEPT ![ch] = @ + 1]
          /\ UNCHANGED processed
    /\ cancelledIds' = cancelledIds \ {job}
    /\ tokens' = [tokens EXCEPT ![ch] = NoJob]
    /\ threads' = [threads EXCEPT ![ch] = NoJob]
    /\ inflight' = [inflight EXCEPT ![ch] = @ - 1]
    /\ unfinished' = [unfinished EXCEPT ![ch] = @ - 1]
    /\ worker' = [worker EXCEPT ![ch] = "waiting"]
    /\ UNCHANGED <<queues, thread, future, cancelled, dropped, abandoned, cleanupFailures,
                   stopVars, store, submitted>>

(* A fault: the handle of a cancelled job's thread is dropped with the     *)
(* rest of the bookkeeping.                                                *)
CancelWorkerForgetful(ch) ==
    /\ cancelling
    /\ \/ worker[ch] = "waiting" /\ UNCHANGED <<jobVars, unfinished, cancelled>>
       \/ /\ worker[ch] = "running"
          /\ cancelledIds' = cancelledIds \cup {tokens[ch]}
          /\ cancelled' = [cancelled EXCEPT ![ch] = @ + 1]
          /\ tokens' = [tokens EXCEPT ![ch] = NoJob]
          /\ threads' = [threads EXCEPT ![ch] = NoJob]
          /\ inflight' = [inflight EXCEPT ![ch] = @ - 1]
          /\ unfinished' = [unfinished EXCEPT ![ch] = @ - 1]
          /\ UNCHANGED <<thread, future>>
    /\ worker' = [worker EXCEPT ![ch] = "ended"]
    /\ UNCHANGED <<queues, processed, failed, dropped, abandoned, cleanupFailures, stopVars,
                   store, submitted>>

(* The worker resumes with CancelledError, in get() or in its job; the     *)
(* thread of a cancelled job stays on record.                              *)
CancelWorker(ch) ==
    /\ cancelling
    /\ \/ worker[ch] = "waiting" /\ UNCHANGED <<jobVars, unfinished, cancelled>>
       \/ /\ worker[ch] = "running"
          /\ cancelledIds' = cancelledIds \cup {tokens[ch]}
          /\ cancelled' = [cancelled EXCEPT ![ch] = @ + 1]
          /\ tokens' = [tokens EXCEPT ![ch] = NoJob]
          /\ inflight' = [inflight EXCEPT ![ch] = @ - 1]
          /\ unfinished' = [unfinished EXCEPT ![ch] = @ - 1]
          /\ UNCHANGED <<threads, thread, future>>
    /\ worker' = [worker EXCEPT ![ch] = "ended"]
    /\ UNCHANGED <<queues, processed, failed, dropped, abandoned, cleanupFailures, stopVars,
                   store, submitted>>

-----------------------------------------------------------------------------
StopBegins ==
    /\ running
    /\ stopper = "idle"
    /\ stopper' = "joining"
    /\ UNCHANGED <<queueVars, jobVars, stats, running, cancelling, interrupted, worker, store,
                   submitted>>

(* A fault: the tasks are waited for without being cancelled.              *)
CancelNothing ==
    /\ running' = FALSE
    /\ stopper' = "waiting"
    /\ UNCHANGED <<inflight, tokens, threads, thread, future, cancelling, worker, store,
                   submitted>>

(* The finally of stop(), up to its await: every task is cancelled, and    *)
(* with it the future it awaits.                                           *)
CancelTasks ==
    /\ running' = FALSE
    /\ cancelling' = TRUE
    /\ future' = [job \in Jobs |-> IF future[job] = "pending" THEN "cancelled" ELSE future[job]]
    /\ stopper' = "waiting"
    /\ UNCHANGED <<inflight, tokens, threads, thread, worker, store, submitted>>

(* Every join() returned in time.                                          *)
StopJoined ==
    /\ stopper = "joining"
    /\ \A ch \in Channels : unfinished[ch] = 0
    /\ CancelTasks
    /\ UNCHANGED <<queueVars, cancelledIds, stats, interrupted>>

Pending(ch) == Len(queues[ch]) + inflight[ch]

(* A fault: the drained events are not reported with task_done().          *)
StopTimesOutUncounted ==
    /\ stopper = "joining"
    /\ cancelledIds' = cancelledIds \cup {tokens[ch] : ch \in {ch \in Channels : inflight[ch] > 0}}
    /\ cancelled' = [ch \in Channels |-> cancelled[ch] + Len(queues[ch])]
    /\ cleanupFailures' = [ch \in Channels |->
                            cleanupFailures[ch] + (IF Pending(ch) > 0 THEN 1 ELSE 0)]
    /\ queues' = [ch \in Channels |-> <<>>]
    /\ UNCHANGED <<unfinished, processed, failed, dropped, abandoned, interrupted>>
    /\ CancelTasks

(* A fault: a timeout cancels the job in flight only.                      *)
StopTimesOutUndrained ==
    /\ stopper = "joining"
    /\ cancelledIds' = cancelledIds \cup {tokens[ch] : ch \in {ch \in Channels : inflight[ch] > 0}}
    /\ cleanupFailures' = [ch \in Channels |->
                            cleanupFailures[ch] + (IF Pending(ch) > 0 THEN 1 ELSE 0)]
    /\ UNCHANGED <<queueVars, processed, failed, cancelled, dropped, abandoned, interrupted>>
    /\ CancelTasks

(* TimeoutError: channels with work left lose their token and their queue. *)
(* wait_for may also raise although the last job has just ended.           *)
StopTimesOut ==
    /\ stopper = "joining"
    /\ cancelledIds' = cancelledIds \cup {tokens[ch] : ch \in {ch \in Channels : inflight[ch] > 0}}
    /\ cancelled' = [ch \in Channels |-> cancelled[ch] + Len(queues[ch])]
    /\ cleanupFailures' = [ch \in Channels |->
                            cleanupFailures[ch] + (IF Pending(ch) > 0 THEN 1 ELSE 0)]
    /\ unfinished' = [ch \in Channels |-> unfinished[ch] - Len(queues[ch])]
    /\ queues' = [ch \in Channels |-> <<>>]
    /\ UNCHANGED <<processed, failed, dropped, abandoned, interrupted>>
    /\ CancelTasks

(* The pump is cancelled inside stop(): the join is given up without the   *)
(* handling of a timeout, the wait without the count of abandoned threads. *)
StopInterrupted ==
    /\ interrupted' = TRUE
    /\ \/ stopper = "joining" /\ CancelTasks /\ UNCHANGED <<queueVars, cancelledIds, stats>>
       \/ /\ stopper = "waiting"
          /\ stopper' = "stopped"
          /\ UNCHANGED <<queueVars, jobVars, stats, running, cancelling, worker, store, submitted>>

(* asyncio.wait returned: every worker ended at its next step, well before *)
(* the second timeout.  A thread that has just posted its outcome may or   *)
(* may not be alive still.                                                 *)
StopEnds ==
    /\ stopper = "waiting"
    /\ \A ch \in Channels : worker[ch] = "ended"
    /\ \E alive \in SUBSET Channels :
        /\ \A ch \in Channels :
            IF threads[ch] = NoJob \/ thread[threads[ch]] = "gone" THEN ch \notin alive
            ELSE thread[threads[ch]] \in Live => ch \in alive
        /\ abandoned' = [ch \in Channels |-> abandoned[ch] + (IF ch \in alive THEN 1 ELSE 0)]
        /\ cleanupFailures' = [ch \in Channels |->
                                cleanupFailures[ch] + (IF ch \in alive THEN 1 ELSE 0)]
    /\ stopper' = "stopped"
    /\ UNCHANGED <<queueVars, jobVars, processed, failed, cancelled, dropped, running, cancelling,
                   interrupted, worker, store, submitted>>

Next ==
    \/ Start
    \/ \E ch \in Channels : Submit(ch) \/ TakeJob(ch) \/ SettleJob(ch) \/ CancelWorker(ch)
    \/ \E job \in Jobs :
        CheckToken(job) \/ WritePerception(job) \/ EndThread(job) \/ Complete(job)
    \/ StopBegins
    \/ StopJoined
    \/ StopTimesOut
    \/ StopInterrupted
    \/ StopEnds

Spec == Init /\ [][Next]_vars

(* The loop runs what is ready and its timers fire; a processor may hang   *)
(* for ever.                                                               *)
LoopFairness ==
    /\ \A ch \in Channels : WF_vars(TakeJob(ch) \/ SettleJob(ch) \/ CancelWorker(ch))
    /\ \A job \in Jobs : WF_vars(Complete(job))
    /\ WF_vars(StopJoined \/ StopTimesOut \/ StopEnds)

FairSpec == Spec /\ LoopFairness

-----------------------------------------------------------------------------
(* Every variable stays in its range; the queues respect their capacity.   *)
TypeOK ==
    /\ running \in BOOLEAN
    /\ queues \in [Channels -> Seq(1..MaxEvents)]
    /\ \A ch \in Channels : Len(queues[ch]) <= Capacity
    /\ unfinished \in [Channels -> Nat]
    /\ inflight \in [Channels -> 0..1]
    /\ tokens \in [Channels -> Jobs \cup {NoJob}]
    /\ threads \in [Channels -> Jobs \cup {NoJob}]
    /\ worker \in [Channels -> {"none", "waiting", "running", "ended"}]
    /\ cancelling \in BOOLEAN
    /\ thread \in [Jobs -> Live \cup {"none", "returned", "raised", "gone"}]
    /\ future \in [Jobs -> {"none", "pending", "result", "exception", "cancelled"}]
    /\ cancelledIds \subseteq Jobs
    /\ store \in Seq(Jobs)
    /\ processed \in [Channels -> Nat]
    /\ failed \in [Channels -> Nat]
    /\ cancelled \in [Channels -> Nat]
    /\ dropped \in [Channels -> Nat]
    /\ abandoned \in [Channels -> Nat]
    /\ cleanupFailures \in [Channels -> Nat]
    /\ submitted \in [Channels -> Nat]
    /\ stopper \in {"idle", "joining", "waiting", "stopped"}
    /\ interrupted \in BOOLEAN

(* What became of the events that are through, as the operator sees it.    *)
Settled(ch) == processed[ch] + failed[ch] + cancelled[ch] + dropped[ch]

(* No event is lost or counted twice, whatever finishes, fails, times out  *)
(* or is cancelled in between: the counters the operator sees, the queue   *)
(* and the job in flight add up to what was submitted, and join() waits    *)
(* for exactly the last two.                                               *)
Ledger ==
    \A ch \in Channels :
        /\ submitted[ch] = Settled(ch) + Pending(ch)
        /\ unfinished[ch] = Pending(ch)

(* Once stop() has returned nothing is queued or in flight, timeout or not. *)
NothingLeftBehind ==
    stopper = "stopped" /\ ~interrupted => \A ch \in Channels : Pending(ch) = 0

(* A processor that outlives stop() and may still touch the store is       *)
(* reported as abandoned.                                                  *)
AbandonedThreadsAreCounted ==
    stopper = "stopped" /\ ~interrupted =>
        \A job \in Jobs : thread[job] \in Live =>
            abandoned[job[1]] = 1 /\ cleanupFailures[job[1]] > 0

(* A channel's perceptions reach the store in the order its events were    *)
(* submitted, although each is written by a thread of its own.             *)
WrittenInOrder ==
    \A i, j \in 1..Len(store) :
        i < j /\ store[i][1] = store[j][1] => store[i][2] < store[j][2]

(* What the video worker takes next is always the newest frame.            *)
LatestFrameWins ==
    \A ch \in Channels \cap {Video} :
        queues[ch] # <<>> => queues[ch] = <<submitted[ch]>>

(* What the operator is told adds up: every event is somewhere, nothing is *)
(* left of a stopped queue, and threads that outlive it are reported.      *)
EveryEventAccounted == Ledger /\ NothingLeftBehind /\ AbandonedThreadsAreCounted

(* The store gets the events of a channel in order, and the video the      *)
(* newest frame, whatever was dropped before.                              *)
FreshAndInOrder == WrittenInOrder /\ LatestFrameWins

(* stop() ends although a processor may hang for ever.                     *)
StopIsBounded == stopper = "joining" ~> stopper = "stopped"
=============================================================================
