--------------------------- MODULE MCMergingSource ---------------------------
(* Small instances of MergingSource and of YouTubeChatReader, in one run:  *)
(* each behaviour is of one of them, and the other stays as it was made.   *)
(*                                                                         *)
(* A chat that is kept and a video that gives way, a buffer for two, and   *)
(* enough chat to overflow it alone.  A live whose chat may be replaced.   *)
EXTENDS MergingSource, YouTubeChatReader, TLC

CONSTANTS chat, video

MCChannels == {chat, video}
MCPriority == {chat}
MCEvents == chat :> 3 @@ video :> 1

VARIABLE subject

MCInit == subject \in {"merge", "youtube"} /\ Init /\ ReaderInit

OfMerge == subject = "merge" /\ Next /\ UNCHANGED <<subject, readerVars>>
OfReader == subject = "youtube" /\ ReaderNext /\ UNCHANGED <<subject, vars>>

(* Nothing is enabled in a part that was not begun: its fairness is idle.  *)
MCSpec ==
    /\ MCInit
    /\ [][OfMerge \/ OfReader]_<<subject, vars, readerVars>>
    /\ LoopFairness /\ ReaderFairness
=============================================================================
