------------------------------ MODULE Startup -------------------------------
(***************************************************************************)
(* From the command line to an agent that is ready to run: main() of       *)
(* src/src/minnarone/cli.py, the conditions of Config in config.py, and    *)
(* build_agent() of app.py with the helpers it calls.                      *)
(*                                                                         *)
(* A configuration is what these decide by: the mode, the adapter, its     *)
(* sections and the commentator's profiles.  Of an allow-list it is known  *)
(* whether it holds the channel or the video of its section.  One value of *)
(* the file may be odd, or the file bad.                                   *)
(***************************************************************************)
EXTENDS ConfigFile, FiniteSets

CONSTANT MaxMissing     \* bound of the model: credentials that are not there

Styles == {"operator", "original_chat", "meeting_synthesizer", "suggester"}
Profiles == {{}, {"original_chat"}, {"operator", "suggester"}, {"original_chat", "meeting_synthesizer"}}
SendModes == {"off", "shadow", "live"}

Absent == [given |-> FALSE]
TwitchSections == [given: {TRUE}, chat: BOOLEAN, audio: BOOLEAN, video: BOOLEAN,
                   send: SendModes, allowed: BOOLEAN]
YouTubeSections == [given: {TRUE}, send: SendModes, allowed: BOOLEAN, approved: BOOLEAN]
CaptureSections == [given: {TRUE}, audio: BOOLEAN, video: BOOLEAN]

(* The sections of an adapter in any form, those of others as they come    *)
(* without a word on how to send.                                          *)
PlainTwitch == [given |-> TRUE, chat |-> TRUE, audio |-> FALSE, video |-> FALSE,
                send |-> "off", allowed |-> FALSE]
PlainYouTube == [given |-> TRUE, send |-> "shadow", allowed |-> FALSE, approved |-> FALSE]
TwitchOf(adapter) == {Absent} \cup (IF adapter = "twitch" THEN TwitchSections ELSE {PlainTwitch})
YouTubeOf(adapter) == {Absent} \cup (IF adapter = "youtube" THEN YouTubeSections ELSE {PlainYouTube})
CaptureOf(adapter) == {Absent} \cup (IF adapter \in {"youtube", "os_capture"} THEN CaptureSections ELSE {})

Adapters == {"twitch", "youtube", "os_capture", "other"}
Configs == UNION {[mode: {"public", "private"}, adapter: {adapter}, profiles: Profiles,
                   provider: {"cloud", "llamacpp", "unknown"}, backend: {"qwen", "llamacpp"},
                   twitch: TwitchOf(adapter), youtube: YouTubeOf(adapter),
                   capture: CaptureOf(adapter)] : adapter \in Adapters}
PlainConfig == [mode |-> "public", adapter |-> "twitch", profiles |-> {}, provider |-> "cloud",
                backend |-> "qwen", twitch |-> PlainTwitch, youtube |-> PlainYouTube,
                capture |-> [given |-> TRUE, audio |-> TRUE, video |-> TRUE]]

Credentials == {"TWITCH_BOT_USERNAME", "TWITCH_OAUTH_TOKEN", "TWITCH_SEND_OAUTH_TOKEN",
                "YOUTUBE_API_KEY", "YOUTUBE_OAUTH"}
WriteCredentials == {"YOUTUBE_OAUTH"}

VARIABLES
    invocation,     \* "check" | "plain" | "tui"
    conf,           \* the configuration
    oddity,         \* the odd value of its file, or a way in which the file is bad
    shell, dotenv,  \* credentials of the process, and of the .env files
    stage,          \* where main() is
    environ,        \* os.environ
    session,        \* the run's directory: "none" | "active" | "completed"
    sender, guard, identity,    \* of build_agent()
    router,         \* its router: [kind, inner, echo]
    policy,         \* "none" | "closed" | "capable": live_capability
    reactors,       \* per reactor its style and trigger
    perceivers, queued,     \* channels with a perceiver, and with a queue before it
    delivered,      \* channels that the adapter delivers
    exit            \* "none" | "0" | "1" | "2" | "traceback"

buildVars == <<sender, guard, identity, router, policy, reactors, perceivers, queued, delivered>>
inputVars == <<invocation, conf, oddity, shell, dotenv>>
startupVars == <<inputVars, stage, environ, session, buildVars, exit>>

NoRouter == [kind |-> "none", inner |-> "none", echo |-> FALSE]
Media == {"audio", "video"}

(* Where nothing of the file is odd, it may say anything and credentials   *)
(* may miss.                                                               *)
StartupInit ==
    /\ invocation \in {"check", "plain", "tui"}
    /\ \/ conf \in Configs /\ oddity = NoOddity
       \/ conf = PlainConfig /\ oddity \in Oddities
       \/ conf = PlainConfig /\ oddity \in {<<"file", bad, "none">> : bad \in DOMAIN BadFiles}
    /\ shell = {}
    /\ dotenv = {}
    /\ stage = "reading"
    /\ environ = {}
    /\ session = "none"
    /\ sender = "none"
    /\ guard = "none"
    /\ identity = "none"
    /\ router = NoRouter
    /\ policy = "none"
    /\ reactors = {}
    /\ perceivers = {}
    /\ queued = {}
    /\ delivered = {}
    /\ exit = "none"

-----------------------------------------------------------------------------
(* Sections by themselves.                                                 *)
TwitchHolds(t) == (t.chat \/ t.audio \/ t.video) /\ (t.send = "live" => t.allowed)
YouTubeHolds(y) == y.send = "live" => y.approved /\ y.allowed
CaptureHolds(c) == c.audio \/ c.video

(* validate_for_mode: of sections that are there, whatever the adapter.    *)
MaySend(c) ==
    /\ c.twitch.given /\ c.twitch.send # "off" => c.mode = "public"
    /\ c.youtube.given /\ c.youtube.send # "off" => c.mode = "public"

(* A fault: a style for the operator's eyes is allowed in public.          *)
StylesFitLoosely(c) == TRUE

StylesFit(c) == c.mode # "private" => c.profiles \cap {"meeting_synthesizer", "suggester"} = {}

PublicPersona(c) ==
    c.adapter \in {"twitch", "youtube"} /\ c.mode = "public" => c.profiles \subseteq {"original_chat"}

(* Config.__post_init__                                                    *)
Holds(c) ==
    /\ c.twitch.given => TwitchHolds(c.twitch)
    /\ c.youtube.given => YouTubeHolds(c.youtube)
    /\ c.capture.given => CaptureHolds(c.capture)
    /\ StylesFit(c) /\ PublicPersona(c) /\ MaySend(c)
    /\ c.adapter = "twitch" => c.twitch.given
    /\ c.adapter = "os_capture" => c.capture.given
    /\ c.adapter = "youtube" => c.youtube.given /\ ~c.twitch.given

ReadingOf ==
    CASE oddity = NoOddity -> IF Holds(conf) THEN "accepted" ELSE "refused"
      [] oddity[1] = "file" -> BadFiles[oddity[2]]
      [] OTHER -> ReadField(oddity[1], oddity[2], oddity[3])

Ends(code) == stage' = "ended" /\ exit' = code
Goes(next) == stage' = next /\ UNCHANGED exit

(* Config.load().  main() looks for a ConfigError only.                    *)
ReadConfig ==
    /\ stage = "reading"
    /\ CASE ReadingOf = "accepted" -> Goes("environment")
         [] ReadingOf = "refused" -> Ends("2")
         [] ReadingOf = "crashed" -> Ends("traceback")
    /\ UNCHANGED <<inputVars, environ, session, buildVars>>

YouTubeLive == conf.adapter = "youtube" /\ conf.youtube.given /\ conf.youtube.send = "live"
TwitchLive == conf.adapter = "twitch" /\ conf.twitch.given /\ conf.twitch.send = "live"

(* A fault: the dry run loads what a run would.                            *)
ExcludedUnlessLive == IF YouTubeLive THEN {} ELSE WriteCredentials

Excluded == IF invocation # "check" /\ YouTubeLive THEN {} ELSE WriteCredentials

(* load_env_files(): what is set already stays.                            *)
LoadEnvironment ==
    /\ stage = "environment"
    /\ \E missing \in SUBSET Credentials, kept \in {{}, Credentials} :
        /\ Cardinality(missing) <= (IF oddity = NoOddity THEN MaxMissing ELSE 0)
        /\ shell' = kept \ missing
        /\ dotenv' = (Credentials \ kept) \ missing
        /\ environ' = shell' \cup (dotenv' \ Excluded)
    /\ Goes(IF invocation = "tui" THEN "session" ELSE "credentials")
    /\ UNCHANGED <<invocation, conf, oddity, session, buildVars>>

(* The TUI needs Textual, and a directory for its run.                     *)
BeginSession(textual) ==
    /\ stage = "session"
    /\ IF textual THEN Goes("credentials") ELSE Ends("1")
    /\ session' = IF textual THEN "active" ELSE session
    /\ UNCHANGED <<inputVars, environ, buildVars>>

-----------------------------------------------------------------------------
(* A fault: the session is left to the run that never comes.               *)
RaisesAndLeaves(code) ==
    /\ Ends(code)
    /\ UNCHANGED <<inputVars, environ, session, buildVars>>

(* What build_agent() raises closes the session and leaves main().         *)
Raises(code) ==
    /\ Ends(code)
    /\ session' = IF session = "active" THEN "completed" ELSE session
    /\ UNCHANGED <<inputVars, environ, buildVars>>

ChatCredentials == {"TWITCH_BOT_USERNAME", "TWITCH_OAUTH_TOKEN"} \subseteq environ

(* The gate of a live Twitch run.                                          *)
CheckCredentials ==
    /\ stage = "credentials"
    /\ IF TwitchLive /\ ~(ChatCredentials /\ "TWITCH_SEND_OAUTH_TOKEN" \in environ)
       THEN Raises("2")
       ELSE Goes("texts") /\ UNCHANGED <<inputVars, environ, session, buildVars>>

(* The prompts may not be valid, or the provider not be known; memory that *)
(* cannot be read is empty.  Neither error is a ConfigError.               *)
LoadTexts(valid) ==
    /\ stage = "texts"
    /\ IF ~valid \/ conf.provider = "unknown"
       THEN Raises("traceback")
       ELSE Goes("sender") /\ UNCHANGED <<inputVars, environ, session, buildVars>>

BuildSender ==
    /\ stage = "sender"
    /\ identity' = IF conf.adapter = "twitch" /\ conf.twitch.send # "off" /\ "TWITCH_BOT_USERNAME" \in environ
                   THEN "account" ELSE IF YouTubeLive THEN "channel" ELSE "none"
    /\ sender' = IF TwitchLive THEN "twitch" ELSE IF YouTubeLive THEN "youtube" ELSE "none"
    /\ guard' = sender'
    /\ Goes("routers")
    /\ UNCHANGED <<inputVars, environ, session, router, policy, reactors, perceivers, queued, delivered>>

-----------------------------------------------------------------------------
(* The styles, and for a public chat without any the one it needs.         *)
StylesToBuild ==
    IF conf.profiles = {} /\ conf.adapter \in {"twitch", "youtube"} /\ conf.mode = "public"
    THEN {"original_chat"}
    ELSE conf.profiles

(* A fault: a policy without a word on who may open it.                    *)
CapableWithSender == sender # "none"

Capable == sender # "none" /\ guard # "youtube"

(* _build_router: what the send section of the adapter asks for.           *)
RouterKind ==
    LET sendMode == IF conf.adapter = "twitch" THEN conf.twitch.send
                    ELSE IF conf.adapter = "youtube" THEN conf.youtube.send ELSE "none"
    IN
    IF conf.mode = "public"
    THEN IF conf.adapter = "youtube" \/ sendMode \notin {"none", "off"} THEN "policy" ELSE "console"
    ELSE IF StylesToBuild # {} THEN "console" ELSE "notImplemented"

(* Under the TUI every reactor has a panel, around a router without echo.  *)
ChooseRouters ==
    /\ stage = "routers"
    /\ router' = IF invocation = "tui" /\ StylesToBuild # {}
                 THEN [kind |-> "panel", inner |-> RouterKind, echo |-> RouterKind = "console"]
                 ELSE [kind |-> RouterKind, inner |-> "none", echo |-> TRUE]
    /\ policy' = IF RouterKind # "policy" THEN "none" ELSE IF Capable THEN "capable" ELSE "closed"
    /\ Goes("reactors")
    /\ UNCHANGED <<inputVars, environ, session, sender, guard, identity, reactors, perceivers,
                   queued, delivered>>

TriggerOf(style) ==
    CASE style = "meeting_synthesizer" -> "periodic"
      [] style = "suggester" -> "on_perception"
      [] OTHER -> "reactive"

BuildReactors ==
    /\ stage = "reactors"
    /\ reactors' = {[style |-> style, trigger |-> TriggerOf(style)] : style \in StylesToBuild}
    /\ Goes("perceivers")
    /\ UNCHANGED <<inputVars, environ, session, sender, guard, identity, router, policy,
                   perceivers, queued, delivered>>

EnabledMedia ==
    LET section == CASE conf.adapter = "twitch" -> conf.twitch
                     [] conf.adapter \in {"os_capture", "youtube"} -> conf.capture
                     [] OTHER -> Absent
    IN IF section.given THEN {channel \in Media : section[channel]} ELSE {}

(* The models of hearing are loaded here, but for YouTube, and may fail;   *)
(* those of seeing wait for a frame.                                       *)
LoadsAtStart == "audio" \in EnabledMedia /\ conf.adapter # "youtube"

BuildPerceivers(loads) ==
    /\ stage = "perceivers"
    /\ IF LoadsAtStart /\ ~loads
       THEN Raises("2")
       ELSE /\ perceivers' = {"chat"} \cup EnabledMedia
            /\ queued' = perceivers' \cap Media
            /\ Goes("adapter")
            /\ UNCHANGED <<inputVars, environ, session, sender, guard, identity, router, policy,
                           reactors, delivered>>

(* _require_media_perceiver, and the credentials of the chat.              *)
AdapterHolds ==
    /\ EnabledMedia \subseteq perceivers
    /\ conf.adapter = "twitch" /\ conf.twitch.chat => ChatCredentials
    /\ conf.adapter = "youtube" => "YOUTUBE_API_KEY" \in environ

ChatIsDelivered == conf.adapter = "youtube" \/ (conf.adapter = "twitch" /\ conf.twitch.chat)

BuildAdapter ==
    /\ stage = "adapter"
    /\ IF ~AdapterHolds
       THEN Raises("2")
       ELSE /\ delivered' = EnabledMedia \cup (IF ChatIsDelivered THEN {"chat"} ELSE {})
            /\ Goes("built")
            /\ UNCHANGED <<inputVars, environ, session, sender, guard, identity, router, policy,
                           reactors, perceivers, queued>>

-----------------------------------------------------------------------------
CheckIsDone ==
    /\ stage = "built"
    /\ invocation = "check"
    /\ Ends("0")
    /\ UNCHANGED <<inputVars, environ, session, buildVars>>

(* ensure_llamacpp_ready(), of what uses it.                               *)
ProbeServer(ready) ==
    /\ stage = "built"
    /\ invocation # "check"
    /\ IF (conf.provider = "llamacpp" \/ conf.backend = "llamacpp") /\ ~ready
       THEN Raises("1")
       ELSE Goes("live") /\ UNCHANGED <<inputVars, environ, session, buildVars>>

StartupNext ==
    \/ ReadConfig \/ LoadEnvironment \/ CheckCredentials \/ BuildSender \/ ChooseRouters
    \/ BuildReactors \/ BuildAdapter \/ CheckIsDone
    \/ \E well \in BOOLEAN :
        BeginSession(well) \/ LoadTexts(well) \/ BuildPerceivers(well) \/ ProbeServer(well)

StartupSpec == StartupInit /\ [][StartupNext]_startupVars

-----------------------------------------------------------------------------
StartupTypeOK ==
    /\ stage \in {"reading", "environment", "session", "credentials", "texts", "sender",
                  "routers", "reactors", "perceivers", "adapter", "built", "live", "ended"}
    /\ environ \subseteq Credentials
    /\ session \in {"none", "active", "completed"}
    /\ {sender, guard} \subseteq {"none", "twitch", "youtube"}
    /\ identity \in {"none", "account", "channel"}
    /\ policy \in {"none", "closed", "capable"}
    /\ perceivers \cup delivered \subseteq {"chat"} \cup Media
    /\ queued \subseteq Media
    /\ exit \in {"none", "0", "1", "2", "traceback"}

Ready == stage \in {"built", "live"}

(* An agent that can write in public is one that says so: a public run of  *)
(* a live section whose target is allowed, with a guard that can disarm    *)
(* it, an identity to know its own messages by, what it needs to log in,   *)
(* and a policy that YouTube has to open first.                            *)
SenderIsGuarded == Ready /\ sender # "none" =>
    LET section == IF sender = "twitch" THEN conf.twitch ELSE conf.youtube IN
    /\ conf.adapter = sender /\ conf.mode = "public"
    /\ section.send = "live" /\ section.allowed
    /\ guard = sender /\ identity # "none"
    /\ policy = IF sender = "twitch" THEN "capable" ELSE "closed"
    /\ sender = "twitch" => {"TWITCH_BOT_USERNAME", "TWITCH_SEND_OAUTH_TOKEN"} \subseteq environ

(* Where a policy decides there is one voice, that of the chat; a style    *)
(* for the operator is never heard in public, nor where output is not      *)
(* implemented.                                                            *)
OneVoiceInPublic == Ready =>
    LET styles == {r.style : r \in reactors} IN
    /\ policy # "none" => styles = {"original_chat"}
    /\ conf.mode = "public" => styles \cap {"meeting_synthesizer", "suggester"} = {}
    /\ router.kind = "notImplemented" => styles = {}
    /\ sender # "none" => policy # "none"

(* Whatever the adapter delivers is perceived, through the queue if that   *)
(* may be slow, and no model waits for what never comes.                   *)
ChannelsArePerceived == Ready =>
    /\ delivered \subseteq perceivers
    /\ delivered \cap Media = queued
    /\ perceivers \ {"chat"} \subseteq delivered

AgentsAreWhole == SenderIsGuarded /\ OneVoiceInPublic /\ ChannelsArePerceived

(* No startup that ends leaves its directory active, a dry run neither has *)
(* one nor the credentials for writing, and only a live YouTube run does.  *)
StartupLeavesNothing ==
    /\ stage = "ended" => session # "active"
    /\ invocation = "check" => session = "none"
    /\ environ \cap WriteCredentials \subseteq shell \cup (IF YouTubeLive THEN dotenv ELSE {})
    /\ invocation = "check" => environ \cap WriteCredentials \subseteq shell
    /\ stage = "live" /\ invocation = "tui" => session = "active"

(* What --check is content with is all that a run needs of the file and    *)
(* the environment, as one can tell without building anything.             *)
Needed == (IF conf.adapter = "youtube" THEN {"YOUTUBE_API_KEY"} ELSE {})
    \cup (IF conf.adapter = "twitch" /\ conf.twitch.given /\ (conf.twitch.chat \/ TwitchLive)
          THEN {"TWITCH_BOT_USERNAME", "TWITCH_OAUTH_TOKEN"} ELSE {})
    \cup (IF TwitchLive THEN {"TWITCH_SEND_OAUTH_TOKEN"} ELSE {})
CheckTellsTheTruth ==
    /\ exit = "0" => invocation = "check" /\ ReadingOf = "accepted" /\ Needed \subseteq environ
    /\ Ready => ReadingOf = "accepted" /\ Needed \subseteq environ /\ conf.provider # "unknown"
    /\ exit = "2" => \/ ReadingOf = "refused" \/ ~(Needed \subseteq environ)
                     \/ LoadsAtStart
    /\ ReadingOf # "accepted" => environ = {} /\ session = "none" /\ sender = "none"

StartupIsSound == AgentsAreWhole /\ StartupLeavesNothing /\ CheckTellsTheTruth

(* Of a file that is missing or not valid main() says so, and ends with    *)
(* the code 2.                                                             *)
BadFilesAreTold == stage = "ended" /\ ReadingOf # "accepted" => exit = "2"

(* Nothing is printed while the TUI has the screen.                        *)
NothingPrintedUnderTheTUI ==
    Ready /\ invocation = "tui" /\ reactors # {} /\ conf.mode = "public" => ~router.echo

(* The numbers that loops sleep for are greater than zero.                 *)
IntervalsArePositive ==
    stage = "live" => ~(oddity[1] = "root" /\ oddity[3] = "nan" /\ RootFields[oddity[2]] = "interval")
=============================================================================
