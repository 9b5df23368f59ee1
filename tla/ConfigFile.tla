----------------------------- MODULE ConfigFile -----------------------------
(***************************************************************************)
(* What src/src/minnarone/config.py takes from a YAML file: the fields of  *)
(* each section, the values each of them accepts, and the conditions that  *)
(* relate sections to each other.                                          *)
(*                                                                         *)
(* A value is the kind of value that YAML gives.  "known" is a value that  *)
(* the field names (a member of its enumeration, a well-formed identifier, *)
(* a number of its range), "numeral" a text that reads as a number.        *)
(***************************************************************************)
EXTENDS Naturals, Sequences

Texts == {"empty", "blank", "word", "numeral", "known"}
Numbers == {"negative", "zero", "fraction", "positive", "huge", "inf", "nan"}
Kinds == Texts \cup Numbers \cup {"null", "true", "false", "list", "mapping"}

(* float(): what a number written in another way stands for.               *)
AsFloat(kind) ==
    CASE kind = "true" -> "positive"
      [] kind = "false" -> "zero"
      [] kind = "numeral" -> "positive"
      [] kind \in Numbers -> kind
      [] OTHER -> "none"

(* "<= 0" is an error: NaN is not.                                         *)
Exceeds0 == {kind \in Kinds : AsFloat(kind) \notin {"none", "negative", "zero"}}
Booleans == {"true", "false"}
Finite == {"fraction", "positive", "huge", "numeral"}

(* Booleans are integers of Python, and refused.                          *)
NaturalKinds == {"positive", "huge"}

(* What each way of reading a value accepts.                               *)
Accepts == [
    text         |-> Texts \ {"empty"},
    optionalText |-> (Texts \ {"empty"}) \cup {"null"},
    name         |-> Texts \ {"empty", "blank"},
    optionalName |-> (Texts \ {"empty", "blank"}) \cup {"null"},
    spelled      |-> Kinds \ {"empty"},
    known        |-> {"known"},
    optionalKnown |-> {"known", "null"},
    sendMode     |-> {"known", "false"},
    flag         |-> Booleans,
    truth        |-> Kinds,
    natural      |-> NaturalKinds,
    count        |-> NaturalKinds \cup {"zero"},
    size         |-> NaturalKinds \cup {"numeral"},
    window       |-> NaturalKinds \cup {"numeral", "true"},
    interval     |-> Exceeds0,
    seconds      |-> Exceeds0 \ Booleans,
    optionalSeconds |-> (Exceeds0 \ Booleans) \cup {"null"},
    finite       |-> Finite,
    utterance    |-> {"fraction", "positive", "huge", "true"},
    rate         |-> Finite \ {"huge"},
    share        |-> {"zero", "fraction"},
    delay        |-> Finite \cup {"zero"},
    pairs        |-> {"mapping", "empty"},
    list         |-> {"list"},
    section      |-> {"mapping"},
    optional     |-> {"mapping", "null"}]

(* What they refuse is a ConfigError, but for int() of an infinity, and a  *)
(* VAD limit that is no number.                                            *)
Crashes == [
    window    |-> {"inf"},
    utterance |-> Texts \cup {"null", "list", "mapping"}]

CrashesOf(reader) == IF reader \in DOMAIN Crashes THEN Crashes[reader] ELSE {}

-----------------------------------------------------------------------------
RootFields == [
    mode |-> "known", soul_path |-> "text", facts_dir |-> "text", adapter |-> "text",
    llm_provider |-> "text", agent_name |-> "spelled", prompts_dir |-> "optionalText",
    llm_params |-> "pairs", senser_interval |-> "interval", idle_interval |-> "interval",
    summarizer_interval |-> "interval", recent_chat_window |-> "window",
    perception_queue_size |-> "size", perception_shutdown_timeout |-> "seconds",
    auto_memory |-> "truth", twitch |-> "optional", os_capture |-> "optional",
    youtube |-> "optional", disclosure |-> "section", retention |-> "section",
    vad |-> "section", asr |-> "section", speaker_embedding |-> "section",
    speaker_clustering |-> "section", video |-> "section", vlm |-> "section",
    commentator |-> "section", llamacpp |-> "section"]

TwitchFields == [
    channel |-> "known", quality |-> "name", chat |-> "flag", audio |-> "flag",
    video |-> "flag", audio_chunk_seconds |-> "rate", video_fps |-> "rate",
    send |-> "optional"]

TwitchSendFields == [
    mode |-> "sendMode", allowed_channels |-> "list", max_per_minute |-> "natural",
    max_per_hour |-> "natural", failure_threshold |-> "natural"]

YouTubeFields == [
    video_id |-> "known", max_results |-> "known", max_retries |-> "count",
    retry_base_seconds |-> "finite", retry_max_seconds |-> "finite",
    dedup_capacity |-> "natural", request_timeout_seconds |-> "finite",
    send |-> "optional"]

YouTubeSendFields == [
    mode |-> "sendMode", allowed_video_ids |-> "list", approved_channel_id |-> "optionalKnown",
    max_per_minute |-> "natural", max_per_hour |-> "natural", failure_threshold |-> "natural"]

CaptureFields == [
    audio |-> "flag", video |-> "flag", audio_chunk_seconds |-> "rate", video_fps |-> "rate",
    monitor |-> "natural"]

VadFields == [
    mode |-> "known", frame_ms |-> "known", padding_ms |-> "known",
    max_utterance_seconds |-> "utterance"]

AsrFields == [
    model |-> "name", device |-> "name", compute_type |-> "name",
    language |-> "optionalName", beam_size |-> "natural", condition_on_previous_text |-> "flag"]

EmbeddingFields == [
    model_path |-> "optionalName", provider |-> "name", num_threads |-> "natural",
    dimension |-> "natural"]

ClusteringFields == [
    threshold |-> "share", warmup_seconds |-> "delay", min_update_seconds |-> "delay"]

VideoFields == [sample_every |-> "natural", dedup_change_threshold |-> "share"]

VlmFields == [
    backend |-> "known", model |-> "optionalName", device |-> "name",
    device_map |-> "optionalName", torch_dtype |-> "optionalName",
    attn_implementation |-> "optionalName", quantization |-> "optionalKnown",
    max_new_tokens |-> "natural", timeout_seconds |-> "finite", language |-> "name",
    prompt |-> "name", max_caption_chars |-> "natural", max_image_edge |-> "natural",
    max_image_pixels |-> "natural"]

CommentatorFields == [language |-> "name", profiles |-> "optional"]
OperatorFields == [idle_interval |-> "optionalSeconds"]
OriginalChatFields == [idle_interval |-> "optionalSeconds"]
MeetingFields == [interval_s |-> "seconds"]
LlamaCppFields == [base_url |-> "known"]
DisclosureFields == [announce_ai |-> "truth"]
RetentionFields == [perceptions_days |-> "truth"]

Sections == [
    root |-> RootFields, twitch |-> TwitchFields, twitchSend |-> TwitchSendFields,
    youtube |-> YouTubeFields, youtubeSend |-> YouTubeSendFields,
    os_capture |-> CaptureFields, vad |-> VadFields, asr |-> AsrFields,
    speaker_embedding |-> EmbeddingFields, speaker_clustering |-> ClusteringFields,
    video |-> VideoFields, vlm |-> VlmFields, commentator |-> CommentatorFields,
    operator |-> OperatorFields, original_chat |-> OriginalChatFields,
    meeting_synthesizer |-> MeetingFields, suggester |-> <<>>, llamacpp |-> LlamaCppFields,
    disclosure |-> DisclosureFields, retention |-> RetentionFields]

(* A key that a section does not have; three of them do not look.          *)
UnknownKeyIn == {"root", "disclosure", "retention"}

Required == {<<"root", "mode">>, <<"root", "soul_path">>, <<"root", "facts_dir">>,
             <<"root", "adapter">>, <<"root", "llm_provider">>, <<"twitch", "channel">>,
             <<"youtube", "video_id">>}

(* What becomes of one value: the rest of the file is as it should be.     *)
ReadField(section, field, kind) ==
    LET fields == Sections[section] IN
    IF field \notin DOMAIN fields
    THEN IF section \in UnknownKeyIn THEN "accepted" ELSE "refused"
    ELSE IF kind = "absent"
    THEN IF <<section, field>> \in Required THEN "refused" ELSE "accepted"
    ELSE IF kind \in CrashesOf(fields[field]) THEN "crashed"
    ELSE IF kind \in Accepts[fields[field]] THEN "accepted"
    ELSE "refused"

NoOddity == <<"none", "none", "none">>
OdditiesOf(section) ==
    {<<section, field, kind>> : field \in DOMAIN Sections[section], kind \in Kinds \cup {"absent"}}
        \cup {<<section, "unknown", "word">>}
Oddities == UNION {OdditiesOf(section) : section \in DOMAIN Sections}

(* Files of which nothing is read, and what is said of them.               *)
BadFiles == [missing |-> "refused", undecodable |-> "crashed", malformed |-> "crashed",
             empty |-> "refused", notAMapping |-> "refused"]
=============================================================================
