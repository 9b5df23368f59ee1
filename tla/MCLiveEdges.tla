---------------------------- MODULE MCLiveEdges -----------------------------
(* Small instances of what a live run meets the platforms with: the Twitch *)
(* sender, chat reader, media pipeline and video decoder, and the guard of *)
(* either platform.  They share nothing here, so that a behaviour is of    *)
(* one of them, and the others stay as they were made.                     *)
(*                                                                         *)
(* The sender has three streams (the current one, the one before and the   *)
(* one being opened), the guard's stop and the run's, and two sends.       *)
EXTENDS TwitchChatSender, TwitchTokenGuard, TwitchReaders, YouTubeCapability

VARIABLE subject

Subjects == {"sender", "guard", "youtube", "chat", "pipeline", "decoder"}

(* A part that is not the subject has one way to be made.                  *)
Long == CHOOSE l \in Lives : \A m \in Lives : m <= l

MCInit ==
    /\ subject \in Subjects
    /\ Init /\ GuardInit /\ CapabilityInit /\ ChatInit /\ PipelineInit /\ DecoderInit
    /\ subject # "guard" => \A t \in Tokens : expiry[t] = Long
    /\ subject # "pipeline" => refused = {}

Only(part) == subject = part /\ UNCHANGED subject

OfSender == /\ Only("sender") /\ Next
            /\ UNCHANGED <<guardVars, capabilityVars, chatVars, mediaVars, decoderVars>>
OfGuard == /\ Only("guard") /\ GuardNext
           /\ UNCHANGED <<vars, capabilityVars, chatVars, mediaVars, decoderVars>>
OfYouTube == /\ Only("youtube") /\ CapabilityNext
             /\ UNCHANGED <<vars, guardVars, chatVars, mediaVars, decoderVars>>
OfChat == /\ Only("chat") /\ ChatNext
          /\ UNCHANGED <<vars, guardVars, capabilityVars, mediaVars, decoderVars>>
OfPipeline == /\ Only("pipeline") /\ PipelineNext
              /\ UNCHANGED <<vars, guardVars, capabilityVars, chatVars, decoderVars>>
OfDecoder == /\ Only("decoder") /\ DecoderNext
             /\ UNCHANGED <<vars, guardVars, capabilityVars, chatVars, mediaVars>>

(* Nothing that is fair is enabled in a part that was not begun.           *)
MCSpec ==
    /\ MCInit
    /\ [][OfSender \/ OfGuard \/ OfYouTube \/ OfChat \/ OfPipeline \/ OfDecoder]_
            <<subject, vars, guardVars, capabilityVars, chatVars, mediaVars, decoderVars>>
    /\ Fairness /\ PipelineFairness /\ DecoderFairness

(* The types of all parts.                                                 *)
MCTypeOK ==
    /\ TypeOK /\ GuardTypeOK /\ CapabilityTypeOK
    /\ ChatTypeOK /\ PipelineTypeOK /\ DecoderTypeOK
=============================================================================
