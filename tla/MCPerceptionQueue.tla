-------------------------- MODULE MCPerceptionQueue --------------------------
(* Small instances of the perception queue and of the two perceivers that *)
(* its jobs run.  To the perceivers the queue is what may drop a chunk or  *)
(* a frame and gives them one job at a time, so that a behaviour is of one *)
(* of the three.                                                           *)
(*                                                                         *)
(* Both channels have room for one event, so that audio overflows and      *)
(* frames are replaced.                                                    *)
EXTENDS PerceptionQueue, AudioPerception, VideoPerception

CONSTANT Subjects

VARIABLE subject

(* A part that is not the subject has one way to begin.                    *)
MCInit ==
    /\ subject \in Subjects
    /\ Init /\ AudioInit /\ VideoInit
    /\ subject # "video" => backend = "qwen"

OfQueue == subject = "queue" /\ Next /\ UNCHANGED <<subject, audioVars, videoVars>>
OfAudio == subject = "audio" /\ AudioNext /\ UNCHANGED <<subject, vars, videoVars>>
OfVideo == subject = "video" /\ VideoNext /\ UNCHANGED <<subject, vars, audioVars>>

(* Nothing that is fair is enabled in a queue that was not started.        *)
MCSpec ==
    /\ MCInit
    /\ [][OfQueue \/ OfAudio \/ OfVideo]_<<subject, vars, audioVars, videoVars>>
    /\ LoopFairness
=============================================================================
