-------------------------- MODULE MCPerceptionStore --------------------------
(* What a run leaves on disk: small instances of PerceptionStore, of       *)
(* RunArtifacts and of ModelCalls.  Each behaviour is of one of them, and  *)
(* the others stay as they were made.                                      *)
(*                                                                         *)
(* Caches of two entries under four appends of two kinds, one write error, *)
(* two crashes and two Sensers.  Three runs of which two are to be kept.   *)
(* Three calls of two loops of which two captures are kept, with prompts   *)
(* that fit, that fit when they are cut, and that do not fit at all.       *)
EXTENDS PerceptionStore, RunArtifacts, ModelCalls

CONSTANTS Subjects, reactor, summarizer

MCCallers == {reactor, summarizer}
MCPrompts == {<< <<1, 2>> >>,
              << <<1, 1>>, <<2, 3>>, <<4, 5>>, <<5, 6>>, <<7, 8>>, <<9, 10>>, <<10, 11>> >>}

VARIABLE subject

MCInit == subject \in Subjects /\ Init /\ ArtifactsInit /\ CallsInit

OfStore == subject = "store" /\ Next /\ UNCHANGED <<subject, artifactVars, callVars>>
OfArtifacts == subject = "artifacts" /\ ArtifactsNext /\ UNCHANGED <<subject, vars, callVars>>
OfCalls == subject = "calls" /\ CallsNext /\ UNCHANGED <<subject, vars, artifactVars>>

MCSpec ==
    MCInit /\ [][OfStore \/ OfArtifacts \/ OfCalls]_<<subject, vars, artifactVars, callVars>>
=============================================================================
