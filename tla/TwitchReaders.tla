--------------------------- MODULE TwitchReaders ----------------------------
(* The readers of Twitch together: the chat reader, the media pipeline and *)
(* the video decoder.  They share no state; a run that reads a stream has  *)
(* all of them.                                                            *)
EXTENDS TwitchChatReader, MediaPipeline, VideoDecoder

ReadersSpec == ChatSpec /\ PipelineSpec /\ DecoderSpec

(* Of the readers of Twitch: no connection, process or failure is left by  *)
(* one, and frames are handed over in their order.                         *)
ReadersLeaveNothing == ChatIsRead /\ PipelineIsCleared /\ VideoIsHandedOver

(* Of the readers of Twitch: the events of the decoder end with its        *)
(* stream, a stop ends its thread, and one of the pipeline ends.           *)
ReadersEnd == DecoderEnds /\ PipelineEnds
=============================================================================
