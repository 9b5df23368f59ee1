--------------------------- MODULE MCConversation ---------------------------
(* Small instance of Conversation: one viewer, the streamer, a guest and   *)
(* the bot's echo; windows that outlive the idle interval as by default.   *)
EXTENDS Conversation

MCSpec == TalkSpec /\ TalkFairness
=============================================================================
