-------------------------- MODULE VideoPerception ---------------------------
(***************************************************************************)
(* Video perception: the sampling, the deduplication and the counters of   *)
(* src/src/minnarone/video.py, the captioner that app.py loads for the     *)
(* first frame, and the two of them: the local model of vlm.py, whose      *)
(* inference runs in a thread with a time limit and may outlive it, and    *)
(* the server of vlm_llamacpp.py.                                          *)
(*                                                                         *)
(* One frame at a time is perceived, by the thread of its job, which goes  *)
(* on when the queue has cancelled it.  A frame is what it shows, a number;*)
(* what the code measures as the share of changed bytes is the distance of *)
(* two numbers.  Its image is its width and height.                        *)
(***************************************************************************)
EXTENDS Integers, Sequences

CONSTANTS
    SampleEvery,    \* sample_every
    Change,         \* dedup_change_threshold
    MaxEdge,        \* max_image_edge
    MaxPixels,      \* max_image_pixels
    MaxFrames,      \* bounds of the model: frames seen,
    MaxScene        \* and what they can show

ASSUME VideoAssumption ==
    /\ {SampleEvery, MaxEdge, MaxPixels} \subseteq Nat \ {0}
    /\ {Change, MaxFrames, MaxScene} \subseteq Nat

Scenes == 0..MaxScene

VARIABLES
    backend,        \* vlm.backend
    captioner,      \* _LazyCaptioner: "none" | "ready" | "broken", _failure
    seen, sampled, skipped, captioned, empty, videoFailed,  \* VideoPerceptionStats
    reference,      \* _last of the deduper, or -1
    perceiver,      \* perceive_frame: "idle" | "captioning" | "joining" its inference
    scene,          \* what its frame shows
    frameCancelled, \* the token of the frame's job is cancelled
    busy,           \* _inference_lock
    inference,      \* per frame: "none" | "working" | its outcome: "text" | "nothing" | "error"
    alive,          \* the frames whose inference thread has not ended
    \* history
    captions,       \* the perceptions made: their frame, what it shows, the frame that they
                    \* describe, and whether store.append has "written", "refused" or
                    \* "dropped" them
    tried,          \* the scenes that went to the captioner
    imageSize       \* the size of the image that did last

statVars == <<seen, sampled, skipped, captioned, empty, videoFailed>>
threadVars == <<busy, inference, alive>>
frameVars == <<perceiver, scene, reference, frameCancelled>>
videoVars == <<backend, captioner, statVars, threadVars, frameVars, captions, tried, imageSize>>

VideoInit ==
    /\ backend \in {"qwen", "llamacpp"}
    /\ captioner = "none"
    /\ seen = 0
    /\ sampled = 0
    /\ skipped = 0
    /\ captioned = 0
    /\ empty = 0
    /\ videoFailed = 0
    /\ reference = -1
    /\ perceiver = "idle"
    /\ scene = 0
    /\ frameCancelled = FALSE
    /\ busy = FALSE
    /\ inference = [n \in 1..MaxFrames |-> "none"]
    /\ alive = {}
    /\ captions = <<>>
    /\ tried = <<>>
    /\ imageSize = <<1, 1>>

-----------------------------------------------------------------------------
Within(size) ==
    /\ size[1] <= MaxEdge /\ size[2] <= MaxEdge
    /\ size[1] * size[2] <= MaxPixels

(* A fault: the edge is looked at, the pixels are not.                     *)
Trimmed(size) == LET Cut(n) == IF n > MaxEdge THEN MaxEdge ELSE n IN <<Cut(size[1]), Cut(size[2])>>

(* _bounded_size: the longer side gives way, pixel by pixel.               *)
Bounded[s \in (Nat \ {0}) \X (Nat \ {0})] ==
    IF Within(s) THEN s
    ELSE IF s[1] >= s[2] /\ s[1] > 1 THEN Bounded[<<s[1] - 1, s[2]>>]
    ELSE IF s[2] > 1 THEN Bounded[<<s[1], s[2] - 1>>]
    ELSE s

(* The scale is a floating-point number: the size it gives may be a pixel  *)
(* too large.                                                              *)
Sizes == (1..(MaxEdge + 1)) \X (1..(MaxEdge + 1))

-----------------------------------------------------------------------------
Differs(a, b) == a - b > Change \/ b - a > Change

(* A fault: a frame that is passed over is what the next is compared with. *)
ReferenceAfterSkip(shown) == shown

KeptReference(shown) == reference

(* perceive_frame: not sampled, not new, or for the captioner.  A queue    *)
(* that has cancelled a job begins no other.                               *)
SeeFrame(shown) ==
    LET chosen == seen % SampleEvery = 0
        new == reference = -1 \/ Differs(shown, reference)
    IN
    /\ perceiver = "idle"
    /\ ~frameCancelled
    /\ seen < MaxFrames
    /\ seen' = seen + 1
    /\ sampled' = sampled + (IF chosen THEN 1 ELSE 0)
    /\ skipped' = skipped + (IF chosen /\ ~new THEN 1 ELSE 0)
    /\ perceiver' = IF chosen /\ new THEN "captioning" ELSE "idle"
    /\ scene' = IF chosen THEN shown ELSE scene
    /\ reference' = IF chosen /\ ~new THEN KeptReference(shown) ELSE reference
    /\ tried' = IF chosen /\ new THEN Append(tried, shown) ELSE tried
    /\ UNCHANGED <<backend, captioner, captioned, empty, videoFailed, threadVars, frameCancelled,
                   captions, imageSize>>

(* What becomes of it: the frame is the new reference in any case, and a   *)
(* caption is counted before it is appended: the store writes it, or       *)
(* refuses it with an error, or drops it without a word, for a job that is *)
(* cancelled.                                                              *)
Conclude(outcome, described) ==
    /\ perceiver' = "idle"
    /\ reference' = scene
    /\ captioned' = captioned + (IF outcome = "text" THEN 1 ELSE 0)
    /\ empty' = empty + (IF outcome = "nothing" THEN 1 ELSE 0)
    /\ videoFailed' = videoFailed + (IF outcome = "error" THEN 1 ELSE 0)
    /\ IF outcome # "text" THEN UNCHANGED captions
       ELSE \E fate \in IF frameCancelled THEN {"dropped"} ELSE {"written", "refused"} :
                captions' = Append(captions, [frame |-> seen, of |-> described, shows |-> scene,
                                              fate |-> fate])
    /\ UNCHANGED <<seen, sampled, skipped, scene, frameCancelled>>

(* The first frame builds the captioner, and a failure is kept.            *)
LoadCaptioner ==
    /\ perceiver = "captioning"
    /\ captioner = "none"
    /\ captioner' \in {"ready", "broken"}
    /\ UNCHANGED <<backend, statVars, threadVars, frameVars, captions, tried, imageSize>>

CaptionerIsBroken ==
    /\ perceiver = "captioning"
    /\ captioner = "broken"
    /\ Conclude("error", 0)
    /\ UNCHANGED <<backend, captioner, threadVars, tried, imageSize>>

(* The server: what it does not answer well is an empty caption; only what *)
(* is no failure of I/O, as an image without a size, is an error.          *)
AskServer(outcome) ==
    /\ perceiver = "captioning"
    /\ captioner = "ready"
    /\ backend = "llamacpp"
    /\ \E size \in Sizes : imageSize' = Bounded[size]
    /\ Conclude(outcome, seen)
    /\ UNCHANGED <<backend, captioner, threadVars, tried>>

(* The local model, when the inference before has released it ...          *)
BeginInference ==
    /\ perceiver = "captioning"
    /\ captioner = "ready"
    /\ backend = "qwen"
    /\ ~busy
    /\ busy' = TRUE
    /\ inference' = [inference EXCEPT ![seen] = "working"]
    /\ alive' = alive \cup {seen}
    /\ perceiver' = "joining"
    /\ \E size \in Sizes : imageSize' = Bounded[size]
    /\ UNCHANGED <<backend, captioner, statVars, scene, reference, frameCancelled, captions, tried>>

(* ... and when it has not.                                                *)
ModelIsBusy ==
    /\ perceiver = "captioning"
    /\ captioner = "ready"
    /\ backend = "qwen"
    /\ busy
    /\ Conclude("error", 0)
    /\ UNCHANGED <<backend, captioner, threadVars, tried, imageSize>>

(* The thread: its result is there before the lock is released.            *)
InferenceReturns(n, outcome) ==
    /\ inference[n] = "working"
    /\ inference' = [inference EXCEPT ![n] = outcome]
    /\ UNCHANGED <<backend, captioner, statVars, busy, alive, frameVars, captions, tried, imageSize>>

ReleaseModel(n) ==
    /\ n \in alive
    /\ inference[n] # "working"
    /\ busy' = FALSE
    /\ alive' = alive \ {n}
    /\ UNCHANGED <<backend, captioner, statVars, inference, frameVars, captions, tried, imageSize>>

(* A fault: results come in one queue for all calls.                       *)
FirstResult(n) == CHOOSE m \in 1..MaxFrames :
    /\ inference[m] \in {"text", "nothing", "error"}
    /\ \A i \in 1..Len(captions) : captions[i].of # m
    /\ \A k \in 1..(m - 1) : inference[k] \in {"none", "working"} \/ \E i \in 1..Len(captions) : captions[i].of = k

(* Each call has a queue of its own for its result.                        *)
ItsResult(n) == n

JoinEnds ==
    /\ perceiver = "joining"
    /\ seen \notin alive
    /\ LET m == ItsResult(seen) IN Conclude(inference[m], m)
    /\ UNCHANGED <<backend, captioner, threadVars, tried, imageSize>>

(* The time is up while the thread has not ended, with or without result.  *)
JoinTimesOut ==
    /\ perceiver = "joining"
    /\ seen \in alive
    /\ Conclude("error", 0)
    /\ UNCHANGED <<backend, captioner, threadVars, tried, imageSize>>

(* The queue is stopped, and cancels the job.                              *)
CancelFrame ==
    /\ perceiver # "idle"
    /\ ~frameCancelled
    /\ frameCancelled' = TRUE
    /\ UNCHANGED <<backend, captioner, statVars, threadVars, perceiver, scene, reference, captions,
                   tried, imageSize>>

VideoNext ==
    \/ \E shown \in Scenes : SeeFrame(shown)
    \/ LoadCaptioner \/ CaptionerIsBroken
    \/ \E outcome \in {"text", "nothing", "error"} :
        AskServer(outcome) \/ \E n \in 1..MaxFrames : InferenceReturns(n, outcome)
    \/ BeginInference \/ ModelIsBusy
    \/ \E n \in 1..MaxFrames : ReleaseModel(n)
    \/ JoinEnds \/ JoinTimesOut \/ CancelFrame

VideoSpec == VideoInit /\ [][VideoNext]_videoVars

-----------------------------------------------------------------------------
VideoTypeOK ==
    /\ captioner \in {"none", "ready", "broken"}
    /\ {sampled, skipped, captioned, empty, videoFailed} \subseteq 0..seen
    /\ reference \in Scenes \cup {-1}
    /\ perceiver \in {"idle", "captioning", "joining"}
    /\ scene \in Scenes
    /\ {busy, frameCancelled} \subseteq BOOLEAN
    /\ alive \subseteq 1..MaxFrames

(* The model is never asked twice at a time, is free when no inference has *)
(* it, and an inference that comes late describes no other frame; what it  *)
(* is asked about fits.                                                    *)
InferenceIsOwned ==
    /\ busy <=> alive # {}
    /\ \A m, n \in alive : m = n
    /\ \A n \in 1..MaxFrames : inference[n] = "working" => n \in alive
    /\ \A i \in 1..Len(captions) : captions[i].frame = captions[i].of
    /\ Within(imageSize) \/ imageSize = <<1, 1>>

(* The counters add up, a caption that the store did not take among them;  *)
(* only the last one can have been dropped without a word, and only if its *)
(* job was cancelled.  A still scene is not asked about again, whatever    *)
(* came of it, and a slow change adds up until it is.                      *)
FramesAreAccounted ==
    /\ sampled = skipped + captioned + empty + videoFailed + (IF perceiver = "idle" THEN 0 ELSE 1)
    /\ Len(captions) = captioned
    /\ \A i \in 1..Len(captions) : captions[i].fate = "dropped" =>
        frameCancelled /\ i = Len(captions) /\ captions[i].frame = seen
    /\ \A i \in 1..(Len(tried) - 1) : Differs(tried[i], tried[i + 1])
    /\ tried # <<>> => ~Differs(scene, tried[Len(tried)])

(* What is seen: each frame told apart from the ones before it, captioned  *)
(* by its own inference, and counted.                                      *)
FramesAreDescribed == InferenceIsOwned /\ FramesAreAccounted

(* A frame is only passed over for one that was described and is like it.  *)
SkippedWereDescribed ==
    [][skipped' > skipped =>
        captions # <<>> /\ ~Differs(scene', captions[Len(captions)].shows)]_videoVars
=============================================================================
