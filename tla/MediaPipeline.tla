--------------------------- MODULE MediaPipeline ---------------------------
(***************************************************************************)
(* src/src/minnarone/twitch_media.py: Streamlink feeds FFmpeg through a    *)
(* pump task, and the audio or JPEG reader (twitch_audio.py,               *)
(* twitch_video.py) reads what FFmpeg makes of it, until one of the two    *)
(* processes ends, the reader's worker is cancelled, or both.              *)
(*                                                                         *)
(* Bytes are left out: a read, a write and a chunk that is yielded change  *)
(* nothing here.  A process that is killed ends.                           *)
(***************************************************************************)
EXTENDS Integers

VARIABLES
    process,        \* per program: "none" | "running" | "told" to end | "ok" | "bad"
    startAt,        \* start(): "launching" | "second" | "started" | "undoing" | "failed", or
                    \* "abandoned" by a cancellation while it undid
    pump,           \* "none" | "pumping" | "closing" stdin | "done" | "failed" | "cancelled"
    pumpError,      \* it is an error that the pump closes for
    pumpCancelled,  \* cancel() was called on it
    pumpTimedOut,   \* stop() has waited for it for process_stop_timeout
    stdinClosed,    \* FFmpeg's
    reported,       \* _reported_pump_failure
    media,          \* events(): "none" | "reading" | "waiting" | "yielding" | "returned" | "raised" | "cancelled"
    stopStep,       \* stop(): "idle", what it waits for, "returned", "raised" or "cancelled"
    \* history
    stopCancelled,  \* stop() was cancelled
    refused         \* the processes that do not end when they are told

processVars == <<process, refused>>
pumpVars == <<pump, pumpError, pumpCancelled, pumpTimedOut, stdinClosed>>
stoppingVars == <<stopStep, stopCancelled>>
mediaVars == <<processVars, startAt, pumpVars, reported, media, stoppingVars>>

Programs == {"streamlink", "ffmpeg"}
Exited(p) == process[p] \in {"ok", "bad"}
Becomes(p, status) == process' = [process EXCEPT ![p] = status]

(* terminate(), and the end of a wait: who has not ended is killed.        *)
Told(p) == [process EXCEPT ![p] = IF @ = "running" THEN "told" ELSE @]
Killed(p) == IF Exited(p) THEN process ELSE [process EXCEPT ![p] = "bad"]

PipelineInit ==
    /\ process = [p \in Programs |-> "none"]
    /\ refused \in SUBSET Programs
    /\ startAt = "launching"
    /\ pump = "none"
    /\ pumpError = FALSE
    /\ pumpCancelled = FALSE
    /\ pumpTimedOut = FALSE
    /\ stdinClosed = FALSE
    /\ reported = FALSE
    /\ media = "none"
    /\ stopStep = "idle"
    /\ stopCancelled = FALSE

-----------------------------------------------------------------------------
(* A program ends by itself, FFmpeg for want of input, or being told to.   *)
ProgramEnds(p, status) ==
    /\ process[p] = "running" \/ (process[p] = "told" /\ p \notin refused)
    /\ Becomes(p, status)
    /\ UNCHANGED <<refused, startAt, pumpVars, reported, media, stoppingVars>>

(* start(), which may fail or be cancelled at either program.              *)
LaunchStreamlink ==
    /\ startAt = "launching"
    /\ \/ Becomes("streamlink", "running") /\ startAt' = "second"
       \/ startAt' = "failed" /\ UNCHANGED process
    /\ UNCHANGED <<refused, pumpVars, reported, media, stoppingVars>>

LaunchFfmpeg ==
    /\ startAt = "second"
    /\ \/ /\ Becomes("ffmpeg", "running")
          /\ startAt' = "started"
          /\ pump' = "pumping"
          /\ media' = "reading"
       \/ /\ startAt' = "undoing"
          /\ process' = Told("streamlink")
          /\ UNCHANGED <<pump, media>>
    /\ UNCHANGED <<refused, pumpError, pumpCancelled, pumpTimedOut, stdinClosed, reported, stoppingVars>>

(* _stop_process of what start() had launched.                             *)
UndoLaunch ==
    /\ startAt = "undoing"
    /\ startAt' = "failed"
    /\ process' = Killed("streamlink")
    /\ UNCHANGED <<refused, pumpVars, reported, media, stoppingVars>>

(* The merge cancels the worker while _stop_process waits: Streamlink was  *)
(* told to end, and nobody will kill it.                                   *)
UndoIsCancelled ==
    /\ startAt = "undoing"
    /\ startAt' = "abandoned"
    /\ UNCHANGED <<processVars, pumpVars, reported, media, stoppingVars>>

-----------------------------------------------------------------------------
(* The pump meets the end of Streamlink, or an FFmpeg that takes no more.  *)
PumpMeetsEnd ==
    /\ pump = "pumping"
    /\ \/ Exited("streamlink") /\ pumpError' = (process["streamlink"] = "bad")
       \/ Exited("ffmpeg") /\ pumpError' = TRUE
    /\ pump' = "closing"
    /\ stdinClosed' = TRUE
    /\ UNCHANGED <<processVars, startAt, pumpCancelled, pumpTimedOut, reported, media, stoppingVars>>

(* Streamlink has ended its output and does not end in time, or FFmpeg     *)
(* takes no more though it runs.                                           *)
PumpFails ==
    /\ pump = "pumping"
    /\ pump' = "closing"
    /\ pumpError' = TRUE
    /\ stdinClosed' = TRUE
    /\ UNCHANGED <<processVars, startAt, pumpCancelled, pumpTimedOut, reported, media, stoppingVars>>

PumpIsCancelled ==
    /\ pump = "pumping"
    /\ pumpCancelled
    /\ pump' = "closing"
    /\ stdinClosed' = TRUE
    /\ UNCHANGED <<processVars, startAt, pumpError, pumpCancelled, pumpTimedOut, reported, media, stoppingVars>>

(* Its finally has closed FFmpeg's input or given it up, or the closing    *)
(* raises.  A cancellation may come too late for a wait that has ended.    *)
PumpEnds ==
    /\ pump = "closing"
    /\ \/ pumpCancelled /\ pump' = "cancelled"
       \/ ~pumpError /\ pump' = "done"
       \/ pump' = "failed"
    /\ UNCHANGED <<processVars, startAt, pumpError, pumpCancelled, pumpTimedOut, stdinClosed, reported, media, stoppingVars>>

-----------------------------------------------------------------------------
(* raise_pump_failure_if_done, or else go on.                              *)
RaiseOr(next) ==
    IF pump = "failed"
    THEN media' = "raised" /\ reported' = TRUE
    ELSE media' = next /\ UNCHANGED reported

(* FFmpeg's output has ended.                                              *)
MeetEnd ==
    /\ media = "reading"
    /\ Exited("ffmpeg")
    /\ RaiseOr("waiting")
    /\ UNCHANGED <<processVars, startAt, pumpVars, stoppingVars>>

(* Its status is looked at, and the pump once more after a turn.           *)
CheckStatus ==
    /\ media = "waiting"
    /\ media' = IF process["ffmpeg"] = "bad" THEN "raised" ELSE "yielding"
    /\ UNCHANGED <<processVars, startAt, pumpVars, reported, stoppingVars>>

EndMedia ==
    /\ media = "yielding"
    /\ RaiseOr("returned")
    /\ UNCHANGED <<processVars, startAt, pumpVars, stoppingVars>>

CancelMedia ==
    /\ media \in {"reading", "waiting", "yielding"}
    /\ media' = "cancelled"
    /\ UNCHANGED <<processVars, startAt, pumpVars, reported, stoppingVars>>

-----------------------------------------------------------------------------
(* stop(), when the reader's worker has ended: the pump, FFmpeg and then   *)
(* Streamlink, each told to end and then waited for or killed.             *)
StopPump ==
    /\ stopStep = "idle"
    /\ media \in {"returned", "raised", "cancelled"}
    /\ stopStep' = "awaitPump"
    /\ pumpCancelled' = (pumpCancelled \/ pump \in {"pumping", "closing"})
    /\ UNCHANGED <<processVars, startAt, pump, pumpError, pumpTimedOut, stdinClosed, reported, media,
                   stopCancelled>>

(* The time limit cancels the pump once more, and waits on for its end.    *)
PumpTimesOut ==
    /\ stopStep = "awaitPump"
    /\ pump \in {"pumping", "closing"}
    /\ ~pumpTimedOut
    /\ pumpTimedOut' = TRUE
    /\ pumpCancelled' = TRUE
    /\ UNCHANGED <<processVars, startAt, pump, pumpError, stdinClosed, reported, media, stoppingVars>>

StopFfmpeg ==
    /\ stopStep = "awaitPump"
    /\ pump \in {"done", "failed", "cancelled"}
    /\ stopStep' = "awaitFfmpeg"
    /\ process' = Told("ffmpeg")
    /\ UNCHANGED <<refused, startAt, pumpVars, reported, media, stopCancelled>>

(* A fault: who does not end when told is waited for.                      *)
StopStreamlinkPatiently ==
    /\ stopStep = "awaitFfmpeg"
    /\ Exited("ffmpeg")
    /\ stopStep' = "awaitStreamlink"
    /\ process' = Told("streamlink")
    /\ UNCHANGED <<refused, startAt, pumpVars, reported, media, stopCancelled>>

StopStreamlink ==
    /\ stopStep = "awaitFfmpeg"
    /\ stopStep' = "awaitStreamlink"
    /\ process' = [Killed("ffmpeg") EXCEPT !["streamlink"] = IF @ = "running" THEN "told" ELSE @]
    /\ UNCHANGED <<refused, startAt, pumpVars, reported, media, stopCancelled>>

(* What stop() calls a failure of the pump: also one that it had to cancel *)
(* a second time.                                                          *)
PumpHasFailed == pump = "failed" \/ (pump = "cancelled" /\ pumpTimedOut)

(* A fault: the failure of the pump is forgotten with its task.            *)
EndPipelineQuietly ==
    /\ stopStep = "awaitStreamlink"
    /\ stopStep' = "returned"
    /\ process' = Killed("streamlink")
    /\ UNCHANGED <<refused, startAt, pumpVars, media, reported, stopCancelled>>

(* A failure of the pump that nobody has seen is stop()'s, which may have  *)
(* missed it for a cancellation that it took for the pump's.               *)
EndPipeline ==
    /\ stopStep = "awaitStreamlink"
    /\ process' = Killed("streamlink")
    /\ \/ /\ stopStep' = IF PumpHasFailed /\ ~reported THEN "raised" ELSE "returned"
          /\ reported' = (reported \/ PumpHasFailed)
       \/ stopCancelled /\ stopStep' = "returned" /\ UNCHANGED reported
    /\ UNCHANGED <<refused, startAt, pumpVars, media, stopCancelled>>

(* stop() is cancelled, once, when the loop is closed under a cleanup that *)
(* has outlived its limit: the wait for the pump swallows that; otherwise  *)
(* the program that was told is not killed, and stop() ends with the other.*)
StopIsCancelled ==
    /\ ~stopCancelled
    /\ stopCancelled' = TRUE
    /\ \/ /\ stopStep = "awaitPump"
          /\ pumpCancelled' = (pumpCancelled \/ pump \in {"pumping", "closing"})
          /\ UNCHANGED <<process, stopStep>>
       \/ /\ stopStep = "awaitFfmpeg"
          /\ stopStep' = "leaving"
          /\ process' = Told("streamlink")
          /\ UNCHANGED pumpCancelled
       \/ /\ stopStep = "awaitStreamlink"
          /\ stopStep' = "cancelled"
          /\ UNCHANGED <<process, pumpCancelled>>
    /\ UNCHANGED <<refused, startAt, pump, pumpError, pumpTimedOut, stdinClosed, reported, media>>

LeavePipeline ==
    /\ stopStep = "leaving"
    /\ stopStep' = "cancelled"
    /\ process' = Killed("streamlink")
    /\ UNCHANGED <<refused, startAt, pumpVars, reported, media, stopCancelled>>

PipelineStep ==
    \/ LaunchStreamlink \/ LaunchFfmpeg \/ UndoLaunch
    \/ PumpMeetsEnd \/ PumpIsCancelled \/ PumpEnds
    \/ MeetEnd \/ CheckStatus \/ EndMedia
    \/ StopPump \/ StopFfmpeg \/ StopStreamlink \/ EndPipeline \/ LeavePipeline

PipelineNext ==
    \/ PipelineStep \/ CancelMedia
    \/ UndoIsCancelled \/ PumpFails \/ PumpTimesOut \/ StopIsCancelled
    \/ \E p \in Programs, status \in {"ok", "bad"} : ProgramEnds(p, status)

(* Every wait of the code is bounded; Streamlink and FFmpeg may run on,    *)
(* but FFmpeg ends when its input has.                                     *)
PipelineFairness ==
    /\ WF_mediaVars(LaunchFfmpeg) /\ WF_mediaVars(UndoLaunch)
    /\ WF_mediaVars(PumpMeetsEnd \/ PumpIsCancelled) /\ WF_mediaVars(PumpEnds)
    /\ WF_mediaVars(MeetEnd \/ CheckStatus \/ EndMedia)
    /\ WF_mediaVars(StopPump \/ StopFfmpeg \/ StopStreamlink \/ EndPipeline \/ LeavePipeline)
    /\ WF_mediaVars(stdinClosed /\ \E status \in {"ok", "bad"} : ProgramEnds("ffmpeg", status))

PipelineSpec == PipelineInit /\ [][PipelineNext]_mediaVars /\ PipelineFairness

-----------------------------------------------------------------------------
StopHasEnded == stopStep \in {"returned", "raised", "cancelled"}

PipelineTypeOK ==
    /\ process \in [Programs -> {"none", "running", "told", "ok", "bad"}]
    /\ refused \subseteq Programs
    /\ startAt \in {"launching", "second", "undoing", "started", "failed", "abandoned"}
    /\ pump \in {"none", "pumping", "closing", "done", "failed", "cancelled"}
    /\ {pumpError, pumpCancelled, pumpTimedOut, stdinClosed, reported, stopCancelled} \subseteq BOOLEAN
    /\ media \in {"none", "reading", "waiting", "yielding", "returned", "raised", "cancelled"}
    /\ StopHasEnded \/ stopStep \in {"idle", "awaitPump", "awaitFfmpeg", "awaitStreamlink", "leaving"}

(* However start() and stop() end, no pump is left and no program that was *)
(* not told to end; only a cancellation can leave one, and never both,     *)
(* that was told and not killed.  A failure of the pump, or its lateness,  *)
(* is told to somebody exactly once, unless stop() was itself cancelled.   *)
PipelineIsCleared ==
    /\ startAt = "failed" => \A p \in Programs : process[p] = "none" \/ Exited(p)
    /\ startAt = "abandoned" => process["ffmpeg"] = "none" /\ process["streamlink"] # "running"
    /\ StopHasEnded =>
        /\ pump \in {"done", "failed", "cancelled"}
        /\ \A p \in Programs : process[p] # "running"
        /\ \E p \in Programs : Exited(p)
        /\ stopStep # "cancelled" => \A p \in Programs : Exited(p)
        /\ PumpHasFailed /\ ~stopCancelled => reported
        /\ reported => PumpHasFailed
        /\ stopStep = "raised" => reported /\ (media # "raised" \/ process["ffmpeg"] = "bad")

(* Once one of the two has ended, or the reader is cancelled, stop()       *)
(* comes to an end.                                                        *)
PipelineEnds ==
    (startAt = "started" /\ ((\E p \in Programs : Exited(p)) \/ media = "cancelled"))
        ~> StopHasEnded
=============================================================================
