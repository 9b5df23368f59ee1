-------------------------- MODULE AudioPerception ---------------------------
(***************************************************************************)
(* Audio perception: the streaming voice detection of                      *)
(* src/src/minnarone/vad.py, the pipeline of audio.py (segments, their     *)
(* transcription, their speaker) and the online speaker clusters of        *)
(* speaker.py, with the operator's mark of speaker_commands.py.            *)
(*                                                                         *)
(* One chunk at a time is perceived, by the thread of its job, which goes  *)
(* on when the queue has cancelled its token.  The operator marks from the *)
(* thread of the TUI: what either reads or writes of the clusterer between *)
(* two looks at it is one step.                                            *)
(*                                                                         *)
(* Audio is counted in units, FrameUnits to a frame, and time in the units *)
(* that the device has captured.  The detector says of each frame whether  *)
(* it is speech; which cluster is the nearest, and whether it is near      *)
(* enough, may be anything.                                                *)
(***************************************************************************)
EXTENDS Integers, Sequences, FiniteSets, Functions

CONSTANTS
    FrameUnits,     \* frame_bytes
    Padding,        \* padding_frames
    Threshold,      \* threshold_frames
    MaxUtterance,   \* max_utterance_frames
    MinUpdate,      \* min_update_seconds, in frames
    Warmup,         \* warmup_seconds, in frames
    ChunkSizes,     \* bounds of the model: the units that a chunk may have,
    MaxHeard,       \* frames heard,
    MaxLost         \* and units that were captured and never will be

(* VadConfig: a maximum of at least the padding loses at most a frame when *)
(* it is rounded down and the padding up.                                  *)
ASSUME AudioAssumption ==
    /\ {FrameUnits, Padding, Threshold, MaxUtterance} \subseteq Nat \ {0}
    /\ {MinUpdate, Warmup, MaxHeard, MaxLost} \subseteq Nat
    /\ ChunkSizes \subseteq Nat \ {0}
    /\ Threshold <= Padding
    /\ MaxUtterance >= Padding - 1

VARIABLES
    captured,       \* units captured by the device
    waiting,        \* _pending of the splitter: when each of its units was captured
    nextFrameTs,    \* _next_frame_ts, or -1
    ring,           \* _ring: the last frames, and whether they were speech
    voiced,         \* _voiced: the frames of the utterance under way
    triggered,      \* _triggered
    toHear,         \* the frames of this chunk that are before the detector
    heard,          \* frames that the detector has heard
    step,           \* where perceive_chunk is
    todo,           \* the segments of this chunk that wait for their turn
    chunkCancelled, \* the token of the chunk's job is cancelled
    clusters,       \* _clusters: their talk times, the one of cluster_id n at n
    streamer,       \* _streamer_cluster_id, or 0
    pins,           \* _manual_streamer_ids
    lastCluster,    \* _last_cluster_id, or 0
    clustered, unknown, seconds,    \* the counters of the clusterer
    marking,        \* the operator's mark: "idle", or it has "pinned"
    marked,         \* a mark was accepted
    \* history
    uttered,        \* the segments of all chunks
    said,           \* the perceptions made: their segments and labels, and whether
                    \* store.append has "written", "refused" or "dropped" them
    passed          \* segments that gave none: without text, or lost with a chunk that failed

vadVars == <<captured, waiting, nextFrameTs, ring, voiced, triggered, toHear, heard, uttered>>
clusterVars == <<clusters, lastCluster, clustered, unknown, seconds>>
markVars == <<pins, marking, marked>>
chunkVars == <<step, todo, chunkCancelled, said, passed>>
audioVars == <<vadVars, chunkVars, clusterVars, streamer, markVars>>

Larger(a, b) == IF a > b THEN a ELSE b
Last(s) == s[Len(s)]

AudioInit ==
    /\ captured = 0
    /\ waiting = <<>>
    /\ nextFrameTs = -1
    /\ ring = <<>>
    /\ voiced = <<>>
    /\ triggered = FALSE
    /\ toHear = <<>>
    /\ heard = 0
    /\ step = "idle"
    /\ todo = <<>>
    /\ chunkCancelled = FALSE
    /\ clusters = <<>>
    /\ streamer = 0
    /\ pins = {}
    /\ lastCluster = 0
    /\ clustered = 0
    /\ unknown = 0
    /\ seconds = 0
    /\ marking = "idle"
    /\ marked = FALSE
    /\ uttered = <<>>
    /\ said = <<>>
    /\ passed = 0

-----------------------------------------------------------------------------
(* A chunk that the queue before the perceiver drops.                      *)
LoseChunk(units) ==
    /\ captured - (heard * FrameUnits + Len(waiting)) + units <= MaxLost
    /\ step = "idle"
    /\ captured' = captured + units
    /\ UNCHANGED <<waiting, nextFrameTs, ring, voiced, triggered, toHear, heard, uttered,
                   chunkVars, clusterVars, streamer, markVars>>

(* _timed_frames: the whole frames are timed one after the other, from the *)
(* first chunk on, and what is left waits for the next chunk.  A queue     *)
(* that has cancelled a job begins no other.                               *)
BeginChunk(units) ==
    LET data == waiting \o [i \in 1..units |-> captured + i - 1]
        frames == Len(data) \div FrameUnits
        first == IF nextFrameTs = -1 THEN captured ELSE nextFrameTs
    IN
    /\ step = "idle"
    /\ ~chunkCancelled
    /\ heard + frames <= MaxHeard
    /\ captured' = captured + units
    /\ waiting' = SubSeq(data, frames * FrameUnits + 1, Len(data))
    /\ toHear' = [i \in 1..frames |-> [frame |-> heard + i,
                                       ts |-> first + (i - 1) * FrameUnits,
                                       at |-> data[(i - 1) * FrameUnits + 1]]]
    /\ nextFrameTs' = first + frames * FrameUnits
    /\ step' = IF frames > 0 THEN "hearing" ELSE "idle"
    /\ UNCHANGED <<ring, voiced, triggered, heard, uttered, todo, chunkCancelled, said, passed,
                   clusterVars, streamer, markVars>>

Pushed(frame, speech) ==
    LET all == Append(ring, [frame |-> frame, speech |-> speech])
    IN IF Len(all) > Padding THEN Tail(all) ELSE all

RingIsReady(frames, speech) ==
    /\ Len(frames) = Padding
    /\ Cardinality({i \in 1..Padding : frames[i].speech = speech}) >= Threshold

(* A fault: an utterance that is cut at its length leaves the ring.        *)
KeptRingWhenFull(held, begins, full, ends) == IF begins \/ (ends /\ ~full) THEN <<>> ELSE held

KeptRing(held, begins, full, ends) == IF begins \/ ends THEN <<>> ELSE held

(* _accept_frame: enough speech begins an utterance with all that the ring *)
(* holds, enough silence or its length ends it.                            *)
HearFrame(speech) ==
    LET held == Pushed(Head(toHear), speech)
        begins == ~triggered /\ RingIsReady(held, TRUE)
        spoken == IF triggered THEN Append(voiced, Head(toHear))
                  ELSE IF begins THEN voiced \o [i \in 1..Padding |-> held[i].frame] ELSE voiced
        full == (triggered \/ begins) /\ Len(spoken) >= MaxUtterance
        ends == full \/ (triggered /\ RingIsReady(held, FALSE))
    IN
    /\ step = "hearing"
    /\ heard' = heard + 1
    /\ toHear' = Tail(toHear)
    /\ triggered' = ((triggered \/ begins) /\ ~ends)
    /\ voiced' = IF ends THEN <<>> ELSE spoken
    /\ ring' = KeptRing(held, begins, full, ends)
    /\ uttered' = IF ends THEN Append(uttered, spoken) ELSE uttered
    /\ todo' = IF ends THEN Append(todo, Len(uttered')) ELSE todo
    /\ step' = IF toHear' # <<>> THEN "hearing" ELSE IF todo' # <<>> THEN "transcribing" ELSE "idle"
    /\ UNCHANGED <<captured, waiting, nextFrameTs, chunkCancelled, said, passed, clusterVars, streamer,
                   markVars>>

(* The detector raises: with the frame and the ones after it go the        *)
(* segments that this chunk has given.                                     *)
DetectorFails ==
    /\ step = "hearing"
    /\ captured - (heard * FrameUnits + Len(waiting)) <= MaxLost
    /\ toHear' = <<>>
    /\ passed' = passed + Len(todo)
    /\ todo' = <<>>
    /\ step' = "idle"
    /\ UNCHANGED <<captured, waiting, nextFrameTs, ring, voiced, triggered, heard, uttered,
                   chunkCancelled, said, clusterVars, streamer, markVars>>

-----------------------------------------------------------------------------
NextSegment == step' = IF Len(todo) > 1 THEN "transcribing" ELSE "idle"

(* The transcription or the embedding raises: the chunk's other segments   *)
(* go with it.                                                             *)
ChunkFails ==
    /\ step = "transcribing"
    /\ step' = "idle"
    /\ passed' = passed + Len(todo)
    /\ todo' = <<>>
    /\ UNCHANGED <<vadVars, chunkCancelled, said, clusterVars, streamer, markVars>>

NothingSaid ==
    /\ step = "transcribing"
    /\ NextSegment
    /\ passed' = passed + 1
    /\ todo' = Tail(todo)
    /\ UNCHANGED <<vadVars, chunkCancelled, said, clusterVars, streamer, markVars>>

(* The perception is made, and appended: the store writes it, or refuses   *)
(* it with an error that ends the chunk, or drops it without a word, for a *)
(* job that is cancelled.                                                  *)
Say(label) ==
    \E fate \in IF chunkCancelled THEN {"dropped"} ELSE {"written", "refused"} :
        /\ said' = Append(said, [segment |-> Head(todo), label |-> label, fate |-> fate,
                                 cluster |-> IF label = "?" THEN 0 ELSE lastCluster])
        /\ IF fate = "refused"
           THEN step' = "idle" /\ passed' = passed + Len(todo) - 1 /\ todo' = <<>>
           ELSE NextSegment /\ todo' = Tail(todo) /\ UNCHANGED passed
        /\ UNCHANGED chunkCancelled

(* assign(): an utterance that is too short to tell, or whose embedding    *)
(* says nothing.                                                           *)
AssignNobody ==
    /\ step = "transcribing"
    /\ unknown' = unknown + 1
    /\ Say("?")
    /\ UNCHANGED <<vadVars, clusters, lastCluster, clustered, seconds, streamer, markVars>>

(* The nearest cluster, or a new one.                                      *)
Assign(cluster) ==
    LET duration == Len(uttered[Head(todo)]) IN
    /\ step = "transcribing"
    /\ duration >= MinUpdate
    /\ clusters' = IF cluster > Len(clusters) THEN Append(clusters, duration)
                   ELSE [clusters EXCEPT ![cluster] = @ + duration]
    /\ clustered' = clustered + 1
    /\ seconds' = seconds + duration
    /\ lastCluster' = cluster
    /\ step' = "freezing"
    /\ UNCHANGED <<vadVars, todo, chunkCancelled, said, passed, unknown, streamer, markVars>>

(* A fault: a streamer who was chosen already is chosen again.             *)
MayFreezeAgain == pins = {} /\ seconds >= Warmup

MayFreeze == pins = {} /\ streamer = 0 /\ seconds >= Warmup

(* _freeze_streamer_if_ready: what it asks before it chooses ...           *)
CheckFreeze ==
    /\ step = "freezing"
    /\ step' = IF MayFreeze THEN "choosing" ELSE "labelling"
    /\ UNCHANGED <<vadVars, todo, chunkCancelled, said, passed, clusterVars, streamer, markVars>>

(* ... and its choice: the first of those that have talked most.           *)
ChooseStreamer ==
    /\ step = "choosing"
    /\ streamer' = CHOOSE c \in 1..Len(clusters) :
                    \A d \in 1..Len(clusters) :
                        clusters[d] < clusters[c] \/ (clusters[d] = clusters[c] /\ c <= d)
    /\ step' = "labelling"
    /\ UNCHANGED <<vadVars, todo, chunkCancelled, said, passed, clusterVars, markVars>>

(* _label_for looks at the pins, and then at the streamer.                 *)
LookAtPins ==
    /\ step = "labelling"
    /\ IF lastCluster \in pins THEN Say("streamer")
       ELSE step' = "comparing" /\ UNCHANGED <<todo, chunkCancelled, said, passed>>
    /\ UNCHANGED <<vadVars, clusterVars, streamer, markVars>>

LookAtStreamer ==
    /\ step = "comparing"
    /\ Say(IF lastCluster = streamer THEN "streamer" ELSE "altro")
    /\ UNCHANGED <<vadVars, clusterVars, streamer, markVars>>

(* The queue is stopped, and cancels the job.                              *)
CancelChunk ==
    /\ step # "idle"
    /\ ~chunkCancelled
    /\ chunkCancelled' = TRUE
    /\ UNCHANGED <<vadVars, step, todo, said, passed, clusterVars, streamer, markVars>>

(* The operator marks the cluster of the last utterance ...                *)
Mark ==
    /\ marking = "idle"
    /\ lastCluster # 0
    /\ pins' = pins \cup {lastCluster}
    /\ marking' = "pinned"
    /\ UNCHANGED <<vadVars, chunkVars, clusterVars, streamer, marked>>

(* ... and revokes the automatic choice.                                   *)
MarkReturns ==
    /\ marking = "pinned"
    /\ streamer' = 0
    /\ marking' = "idle"
    /\ marked' = TRUE
    /\ UNCHANGED <<vadVars, chunkVars, clusterVars, pins>>

AudioNext ==
    \/ \E units \in ChunkSizes : LoseChunk(units) \/ BeginChunk(units)
    \/ \E speech \in BOOLEAN : HearFrame(speech)
    \/ DetectorFails \/ ChunkFails \/ NothingSaid \/ AssignNobody
    \/ \E cluster \in 1..(Len(clusters) + 1) : Assign(cluster)
    \/ CheckFreeze \/ ChooseStreamer \/ LookAtPins \/ LookAtStreamer
    \/ CancelChunk \/ Mark \/ MarkReturns

AudioSpec == AudioInit /\ [][AudioNext]_audioVars

-----------------------------------------------------------------------------
AudioTypeOK ==
    /\ {captured, heard, lastCluster, streamer, clustered, unknown, seconds, passed} \subseteq Nat
    /\ nextFrameTs \in Nat \cup {-1}
    /\ Len(ring) <= Padding
    /\ Len(waiting) < FrameUnits
    /\ {triggered, marked, chunkCancelled} \subseteq BOOLEAN
    /\ step \in {"idle", "hearing", "transcribing", "freezing", "choosing", "labelling", "comparing"}
    /\ pins \subseteq 1..Len(clusters)
    /\ marking \in {"idle", "pinned"}

(* An utterance is a run of frames as they were heard, no longer than the  *)
(* limit or what begins it; no frame is in two; and what a silent detector *)
(* has passed over since the last one was never enough speech to begin.    *)
Numbers(u) == [i \in 1..Len(u) |-> u[i].frame]
UtterancesAreWhole ==
    LET end == IF uttered = <<>> THEN 0 ELSE Last(Last(uttered)).frame IN
    /\ \A k \in 1..Len(uttered) :
        LET u == uttered[k] IN
        /\ Len(u) \in Padding..Larger(Padding, MaxUtterance)
        /\ \A i \in 1..(Len(u) - 1) : u[i + 1].frame = u[i].frame + 1
        /\ k > 1 => u[1].frame > Last(uttered[k - 1]).frame
    /\ triggered => Last(voiced).frame = heard
    /\ ~triggered => /\ Len(ring) = IF heard - end < Padding THEN heard - end ELSE Padding
                     /\ ~RingIsReady(ring, TRUE)

(* Every segment ends up as a perception or is known to have given none,   *)
(* in order; without a word a perception is only dropped from the moment   *)
(* on at which the job was cancelled.  The clusterer has counted whatever  *)
(* was made, also what the store did not take, and agrees with its         *)
(* clusters; and without a mark no two of them were ever called the        *)
(* streamer.                                                               *)
VoicesAreAccounted ==
    /\ Len(said) + passed + Len(todo) = Len(uttered)
    /\ \A k \in 1..(Len(said) - 1) : said[k].segment < said[k + 1].segment
    /\ \A k \in 1..Len(said) : said[k].fate = "dropped" =>
        chunkCancelled /\ \A j \in k..Len(said) : said[j].fate = "dropped"
    /\ clustered + unknown =
        Len(said) + (IF step \in {"freezing", "choosing", "labelling", "comparing"} THEN 1 ELSE 0)
    /\ SumFunction(clusters) = seconds
    /\ LET called == {said[k].cluster : k \in {k \in 1..Len(said) : said[k].label = "streamer"}}
       IN pins = {} => called \subseteq {streamer}

(* What is heard: whole utterances, and a perception or a reason for each. *)
SpeechIsAccounted == UtterancesAreWhole /\ VoicesAreAccounted

(* Once the operator's first mark has returned, only who was marked is the *)
(* streamer, whatever the automatic choice was about to do.                *)
OperatorsChoiceWins == marked /\ marking = "idle" => streamer \in pins \cup {0}

(* A segment carries the time at which its first frame was captured.       *)
SegmentsKeepTheirTime == \A k \in 1..Len(uttered) : uttered[k][1].ts = uttered[k][1].at
=============================================================================
