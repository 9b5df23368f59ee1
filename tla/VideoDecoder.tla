---------------------------- MODULE VideoDecoder ----------------------------
(***************************************************************************)
(* TwitchPyAvVideoReader (src/src/minnarone/twitch_video.py): a thread     *)
(* opens a stream, decodes and samples its frames, and hands them to the   *)
(* event loop through a bounded queue, while merge.py's worker reads the   *)
(* queue, may be cancelled, and stops the reader at its end.               *)
(*                                                                         *)
(* What the thread does between two looks at the rest is one step.  A      *)
(* coroutine that it sends to the loop runs later, or never when the loop  *)
(* is closed first.                                                        *)
(***************************************************************************)
EXTENDS Integers, Sequences

CONSTANTS
    QueueLimit,     \* event_queue_size
    SampleInterval, \* 1 / fps, in ticks of the frames' own clock
    MaxFrames       \* bound of the model: frames of the stream

ASSUME DecoderAssumption ==
    QueueLimit \in Nat \ {0} /\ SampleInterval \in Nat \ {0} /\ MaxFrames \in Nat

VARIABLES
    thread,         \* where _decode_worker is, or "none" before start()
    activeStream,   \* _active_stream
    streamOpen,     \* the stream that was opened is still open
    stopRequested,  \* _stop_requested
    nextSample,     \* next_sample_time, or -1
    frameTime,      \* the time of the last frame that was decoded
    frames,         \* frames decoded
    queue,          \* _queue
    toPut,          \* what queue.put() was sent to the loop with, or Nothing
    putCancelled,   \* its future was cancelled
    completing,     \* _force_completion_item was sent to the loop, and has not run
    reader,         \* events() and its worker: "none" | "reading" | "returned" | "raised" | "cancelled"
    stopAt,         \* stop(): "idle" | "joining" | "done" | "timedOut"
    loopClosed,
    \* history
    sampled,        \* the times of the frames that were submitted
    taken,          \* the times of those that events() yielded
    failed          \* what ended the decoding was an error, before any stop

threadVars == <<thread, activeStream, streamOpen, nextSample, frameTime, frames, sampled, failed>>
handover == <<queue, toPut, putCancelled, completing>>
ownerVars == <<reader, stopAt, stopRequested, loopClosed, taken>>
decoderVars == <<threadVars, handover, ownerVars>>

Nothing == [item |-> "nothing"]
Failure == [item |-> "failure"]
Finished == [item |-> "finished"]
Frame(at) == [item |-> "frame", at |-> at]
IsFrame(item) == item.item = "frame"

(* start() has made the queue and begun the thread.                        *)
DecoderInit ==
    /\ thread = "none"
    /\ activeStream = FALSE
    /\ streamOpen = FALSE
    /\ stopRequested = FALSE
    /\ nextSample = -1
    /\ frameTime = 0
    /\ frames = 0
    /\ queue = <<>>
    /\ toPut = Nothing
    /\ putCancelled = FALSE
    /\ completing = FALSE
    /\ reader = "none"
    /\ stopAt = "idle"
    /\ loopClosed = FALSE
    /\ sampled = <<>>
    /\ taken = <<>>
    /\ failed = FALSE

-----------------------------------------------------------------------------
(* _submit_from_worker: an item that finds the loop closed is given up.    *)
Submit(item) ==
    IF loopClosed
    THEN thread' = "closing" /\ UNCHANGED handover
    ELSE /\ thread' = "submitting"
         /\ toPut' = item
         /\ putCancelled' = FALSE
         /\ UNCHANGED <<queue, completing>>

(* start(): the thread begins, and events() after it.                      *)
StartDecoding ==
    /\ thread = "none"
    /\ thread' = "opening"
    /\ reader' = "reading"
    /\ UNCHANGED <<activeStream, streamOpen, nextSample, frameTime, frames, sampled, failed,
                   handover, stopRequested, stopAt, loopClosed, taken>>

OpenStream ==
    /\ thread = "opening"
    /\ thread' = "opened"
    /\ streamOpen' = TRUE
    /\ UNCHANGED <<activeStream, nextSample, frameTime, frames, sampled, failed, handover, ownerVars>>

NameStream ==
    /\ thread = "opened"
    /\ thread' = "decoding"
    /\ activeStream' = TRUE
    /\ UNCHANGED <<streamOpen, nextSample, frameTime, frames, sampled, failed, handover, ownerVars>>

(* The opener or the decoder raises: its failure is for the reader, unless *)
(* it may be the stop's doing.                                             *)
DecodingFails ==
    /\ thread \in {"opening", "decoding"}
    /\ failed' = ~stopRequested
    /\ IF stopRequested THEN thread' = "closing" /\ UNCHANGED handover ELSE Submit(Failure)
    /\ UNCHANGED <<activeStream, streamOpen, nextSample, frameTime, frames, sampled, ownerVars>>

DecodingEnds ==
    /\ thread = "decoding"
    /\ thread' = "closing"
    /\ UNCHANGED <<activeStream, streamOpen, nextSample, frameTime, frames, sampled, failed,
                   handover, ownerVars>>

(* A frame: nothing more after a stop; passed over before its time.        *)
DecodeFrame(step) ==
    /\ thread = "decoding"
    /\ streamOpen
    /\ frames < MaxFrames
    /\ frames' = frames + 1
    /\ LET at == frameTime + step IN
       /\ frameTime' = at
       /\ IF stopRequested
          THEN thread' = "closing" /\ UNCHANGED <<nextSample, sampled, handover>>
          ELSE IF nextSample # -1 /\ at < nextSample
          THEN UNCHANGED <<thread, nextSample, sampled, handover>>
          ELSE /\ nextSample' = at + SampleInterval
               /\ sampled' = Append(sampled, at)
               /\ Submit(Frame(at))
    /\ UNCHANGED <<activeStream, streamOpen, failed, ownerVars>>

(* future.result(): the item was taken, or its coroutine cancelled.        *)
ItemIsTaken ==
    /\ thread = "submitting"
    /\ toPut = Nothing
    /\ thread' = IF failed \/ putCancelled THEN "closing" ELSE "decoding"
    /\ UNCHANGED <<activeStream, streamOpen, nextSample, frameTime, frames, sampled, failed,
                   handover, ownerVars>>

(* A fault: the thread waits for its item as long as there is a loop.      *)
GiveUpItemWithLoop ==
    /\ thread = "submitting"
    /\ toPut # Nothing
    /\ loopClosed
    /\ putCancelled' = TRUE
    /\ thread' = "closing"
    /\ UNCHANGED <<activeStream, streamOpen, nextSample, frameTime, frames, sampled, failed,
                   queue, toPut, completing, ownerVars>>

(* It times out, and a stop is there.                                      *)
GiveUpItem ==
    /\ thread = "submitting"
    /\ toPut # Nothing
    /\ stopRequested
    /\ putCancelled' = TRUE
    /\ thread' = "closing"
    /\ UNCHANGED <<activeStream, streamOpen, nextSample, frameTime, frames, sampled, failed,
                   queue, toPut, completing, ownerVars>>

(* The finally of _decode_worker: the stream is closed, the loop is told.  *)
CloseAndFinish ==
    /\ thread = "closing"
    /\ streamOpen' = (streamOpen /\ ~activeStream)
    /\ activeStream' = FALSE
    /\ completing' = ~loopClosed
    /\ thread' = IF loopClosed THEN "ended" ELSE "finishing"
    /\ UNCHANGED <<nextSample, frameTime, frames, sampled, failed, queue, toPut, putCancelled,
                   ownerVars>>

(* The completion ran, or half a second has passed.                        *)
ThreadEnds ==
    /\ thread = "finishing"
    /\ thread' = "ended"
    /\ UNCHANGED <<activeStream, streamOpen, nextSample, frameTime, frames, sampled, failed,
                   handover, ownerVars>>

-----------------------------------------------------------------------------
(* queue.put() in the loop: when there is room, or not at all when it was  *)
(* cancelled in time.                                                      *)
RunPut ==
    /\ toPut # Nothing
    /\ ~loopClosed
    /\ \/ Len(queue) < QueueLimit /\ queue' = Append(queue, toPut)
       \/ putCancelled /\ UNCHANGED queue
    /\ toPut' = Nothing
    /\ UNCHANGED <<putCancelled, completing, threadVars, ownerVars>>

(* A fault: whatever is first in a full queue makes room.                  *)
CompletedBlindly(items) == Append(IF Len(items) < QueueLimit THEN items ELSE Tail(items), Finished)

(* A full queue loses its first frame; a failure in its place is enough of *)
(* an end, and stays.                                                      *)
Completed(items) ==
    IF Len(items) < QueueLimit THEN Append(items, Finished)
    ELSE IF IsFrame(Head(items)) THEN Append(Tail(items), Finished)
    ELSE Append(Tail(items), Head(items))

RunCompletion ==
    /\ completing
    /\ ~loopClosed
    /\ queue' = Completed(queue)
    /\ completing' = FALSE
    /\ UNCHANGED <<toPut, putCancelled, threadVars, ownerVars>>

(* events(): one item.                                                     *)
ReadItem ==
    /\ reader = "reading"
    /\ queue # <<>>
    /\ queue' = Tail(queue)
    /\ LET item == Head(queue) IN
       /\ taken' = IF IsFrame(item) THEN Append(taken, item.at) ELSE taken
       /\ reader' = IF IsFrame(item) THEN "reading"
                    ELSE IF item = Failure THEN "raised" ELSE "returned"
    /\ UNCHANGED <<toPut, putCancelled, completing, stopAt, stopRequested, loopClosed, threadVars>>

CancelReader ==
    /\ reader = "reading"
    /\ reader' = "cancelled"
    /\ UNCHANGED <<stopAt, stopRequested, loopClosed, taken, threadVars, handover>>

(* The worker's last act is stop(): it closes the stream it can see.       *)
BeginStop ==
    /\ reader \in {"returned", "raised", "cancelled"}
    /\ stopAt = "idle"
    /\ stopAt' = "joining"
    /\ stopRequested' = TRUE
    /\ streamOpen' = (streamOpen /\ ~activeStream)
    /\ UNCHANGED <<reader, loopClosed, taken, thread, activeStream, nextSample, frameTime, frames,
                   sampled, failed, handover>>

EndStop ==
    /\ stopAt = "joining"
    /\ stopAt' \in IF thread = "ended" THEN {"done"} ELSE {"timedOut"}
    /\ UNCHANGED <<reader, stopRequested, loopClosed, taken, threadVars, handover>>

(* asyncio.run() ends: what still waits in the loop is cancelled.          *)
CloseLoop ==
    /\ stopAt \in {"done", "timedOut"}
    /\ ~loopClosed
    /\ loopClosed' = TRUE
    /\ toPut' = Nothing
    /\ putCancelled' = (putCancelled \/ toPut # Nothing)
    /\ completing' = FALSE
    /\ UNCHANGED <<queue, reader, stopAt, stopRequested, taken, threadVars>>

OnThread ==
    \/ StartDecoding \/ OpenStream \/ NameStream \/ DecodingFails \/ DecodingEnds
    \/ \E step \in 0..SampleInterval : DecodeFrame(step)
    \/ ItemIsTaken \/ GiveUpItem \/ CloseAndFinish \/ ThreadEnds

OnLoop == RunPut \/ RunCompletion \/ ReadItem \/ BeginStop \/ EndStop

DecoderNext == OnThread \/ OnLoop \/ CancelReader \/ CloseLoop

(* The thread and the loop go on, and the stream is not silent for ever: a *)
(* stream that is open gives frames, ends or fails, a closed one ends.     *)
DecoderFairness ==
    /\ WF_decoderVars(OpenStream \/ NameStream) /\ WF_decoderVars(DecodingEnds)
    /\ WF_decoderVars(ItemIsTaken) /\ WF_decoderVars(GiveUpItem)
    /\ WF_decoderVars(CloseAndFinish) /\ WF_decoderVars(ThreadEnds)
    /\ WF_decoderVars(RunPut) /\ WF_decoderVars(RunCompletion)
    /\ WF_decoderVars(ReadItem) /\ WF_decoderVars(BeginStop \/ EndStop)

DecoderSpec == DecoderInit /\ [][DecoderNext]_decoderVars /\ DecoderFairness

-----------------------------------------------------------------------------
DecoderTypeOK ==
    /\ thread \in {"none", "opening", "opened", "decoding", "submitting", "closing", "finishing", "ended"}
    /\ \A i \in 1..Len(queue) : queue[i] \in {Failure, Finished} \/ IsFrame(queue[i])
    /\ Len(queue) <= QueueLimit
    /\ reader \in {"none", "reading", "returned", "raised", "cancelled"}
    /\ stopAt \in {"idle", "joining", "done", "timedOut"}
    /\ frames \in 0..MaxFrames
    /\ {activeStream, streamOpen, stopRequested, putCancelled, completing, loopClosed, failed}
            \subseteq BOOLEAN

(* Frames come in order, and far enough apart; one may be missing at the   *)
(* end, and before it none.                                                *)
FramesInOrder ==
    LET n == Len(taken) IN
    /\ \A i \in 1..(n - 1) : taken[i + 1] >= taken[i] + SampleInterval
    /\ n <= Len(sampled)
    /\ \A i \in 1..n : taken[i] = sampled[i] \/ (taken[i] = sampled[i + 1] /\ thread \in {"finishing", "ended"})
    /\ reader = "returned" => n + 1 >= Len(sampled)

(* A stream that failed by itself never looks like one that came to its    *)
(* end; what was opened is closed when the thread has ended, and the       *)
(* thread has when stop() returns.                                         *)
FailuresSurface ==
    /\ reader = "returned" => ~failed
    /\ reader = "raised" => failed
    /\ thread = "ended" => ~streamOpen
    /\ stopAt = "done" => thread = "ended"

VideoIsHandedOver == FramesInOrder /\ FailuresSurface

(* The reader's events end with the stream, and a stop ends the thread,    *)
(* also when the loop that it reports to is closed meanwhile.              *)
DecoderEnds ==
    /\ thread = "opening" ~> reader # "reading"
    /\ stopRequested ~> thread = "ended"
=============================================================================
