--------------------------- MODULE PromptContract ---------------------------
(***************************************************************************)
(* The tunable texts of the prompts: what a set of files must hold to be   *)
(* accepted (src/src/minnarone/prompt_source.py), and what the prompts ask *)
(* of it (prompt.py, summarizer.py and the window of reactor.py).          *)
(*                                                                         *)
(* Of a text it is known which placeholders it uses, which control tokens  *)
(* it holds, and whether it is blank.  A prompt is a sequence of blocks:   *)
(* of the code, of a file, of the memory, or of what was observed.         *)
(***************************************************************************)
EXTENDS Ordering, Sequences, ConfigFile

CONSTANTS
    Window,         \* recent_window
    MaxSeen         \* bound of the model: perceptions in the store

ASSUME PromptAssumption ==
    /\ Window \in Nat \ {0}
    /\ MaxSeen \in Nat

HeaderRefs == {"header_memoria", "header_tuoi_ultimi_messaggi", "header_conversazione_recente"}
Placeholders == {"channel", "language", "user", "mention", "reason", "typo"} \cup HeaderRefs
Tokens == {"RE:", "MSG:", "#end_conv", "#nothing"}

(* The packaged set.                                                       *)
Body(uses, tokens) == [uses |-> uses, tokens |-> tokens, blank |-> FALSE]
Nothing == [uses |-> {}, tokens |-> {}, blank |-> TRUE]
Prose(uses, tokens) == [readable |-> TRUE, lead |-> Body(uses, tokens), sections |-> <<>>]
Keyed(sections) == [readable |-> TRUE, lead |-> Nothing,
                    sections |-> [key \in DOMAIN sections |-> <<sections[key]>>]]

HeaderKeys == {"regole", "memoria_permanente", "memoria_permanente_uso", "chi_sei",
    "formato_risposta", "memoria", "memoria_suffix", "tuoi_ultimi_messaggi",
    "conversazione_recente", "situazione", "chat_recente", "parlato_recente", "schermo_recente",
    "riassunto_std", "conversazione_recente_std", "situazione_std"}
SummaryKeys == {"instruction", "empty_placeholder", "label_streamer", "label_schermo",
    "label_chat", "current_summary_header", "recent_events_header", "update_instruction"}

Situations ==
    LET end == {"#end_conv"} IN
    [key \in {"idle", "chat-mention", "chat-continuation", "streamer-mention",
              "streamer-continuation", "generic"} |->
        CASE key = "idle" -> Body({}, end)
          [] key = "chat-mention" -> Body({"user", "mention"}, end)
          [] key = "chat-continuation" ->
                Body({"user", "mention", "header_conversazione_recente"}, end)
          [] key = "streamer-mention" -> Body({"header_tuoi_ultimi_messaggi", "header_memoria"}, {})
          [] key = "streamer-continuation" -> Body({"header_tuoi_ultimi_messaggi"}, end)
          [] key = "generic" -> Body({"reason"}, {})]

Headers == [key \in HeaderKeys \cup {"cosa_sai"} |->
                Body(IF key = "cosa_sai" THEN {"channel"} ELSE {}, {})]

Packaged == [
    format |-> Prose({}, {"RE:", "MSG:", "#end_conv"}),
    rules |-> Prose({"channel"}, {}),
    intro |-> Prose({"channel"}, {}),
    situations |-> Keyed(Situations),
    headers |-> Keyed(Headers),
    operator |-> Prose({"language"}, {}),
    meeting_synthesizer |-> Prose({"language"}, {}),
    suggester |-> Prose({"language"}, {"#nothing"}),
    summarizer |-> Keyed([key \in SummaryKeys |-> Body({}, {})])]

Files == DOMAIN Packaged

-----------------------------------------------------------------------------
(* The contract: of each file, and of each section that has one.  What is  *)
(* required is allowed.                                                    *)
Contract(allowed, required, tokens) ==
    [allowed |-> allowed \cup required, required |-> required, tokens |-> tokens]

(* A fault: what one situation may use every other one may.                *)
SituationSpecsAsOne == [key \in DOMAIN Situations |->
    Contract({"user", "mention", "reason"} \cup HeaderRefs, {}, {})]

SituationSpecs == [key \in DOMAIN Situations |->
    CASE key \in {"chat-mention", "chat-continuation"} ->
            Contract({"user", "mention"} \cup HeaderRefs, {}, {"#end_conv"})
      [] key \in {"idle", "streamer-continuation"} -> Contract(HeaderRefs, {}, {"#end_conv"})
      [] key = "streamer-mention" -> Contract(HeaderRefs, {}, {})
      [] key = "generic" -> Contract({"reason"} \cup HeaderRefs, {}, {})]

HeaderSpecs == [key \in HeaderKeys \cup {"cosa_sai"} |->
                    Contract({}, IF key = "cosa_sai" THEN {"channel"} ELSE {}, {})]
SummarySpecs == [key \in SummaryKeys |-> Contract({}, {}, {})]

FileSpec(file) ==
    CASE file = "format" -> Contract({}, {}, {"RE:", "MSG:", "#end_conv"})
      [] file \in {"rules", "intro"} -> Contract({"channel"}, {"channel"}, {})
      [] file \in {"operator", "meeting_synthesizer"} -> Contract({"language"}, {"language"}, {})
      [] file = "suggester" -> Contract({"language"}, {"language"}, {"#nothing"})
      [] OTHER -> Contract({}, {}, {})

SectionSpecs(file) ==
    CASE file = "situations" -> SituationSpecs
      [] file = "headers" -> HeaderSpecs
      [] file = "summarizer" -> SummarySpecs
      [] OTHER -> <<>>

RequiredKeys(file) ==
    DOMAIN SectionSpecs(file) \cup (IF file = "situations" THEN DOMAIN Situations ELSE {})

(* _split_sections: of two sections of one name the later one.             *)
Section(text, key) == text.sections[key][Len(text.sections[key])]

Bodies(text) ==
    {text.lead} \cup UNION {{text.sections[key][i] : i \in 1..Len(text.sections[key])} :
                            key \in DOMAIN text.sections}
Used(text) == UNION {body.uses : body \in Bodies(text)}
Held(text) == UNION {body.tokens : body \in Bodies(text)}

Meets(body, spec) == body.uses \subseteq spec.allowed /\ spec.required \subseteq body.uses
                        /\ spec.tokens \subseteq body.tokens

(* _validate: the sections first, then the file as a whole.                *)
Valid(file, text) ==
    LET specs == SectionSpecs(file)
        allowed == FileSpec(file).allowed \cup UNION {specs[key].allowed : key \in DOMAIN specs}
    IN
    /\ text.readable
    /\ ~(text.lead.blank /\ text.sections = <<>>)
    /\ RequiredKeys(file) \subseteq DOMAIN text.sections
    /\ \A key \in DOMAIN text.sections : ~Section(text, key).blank
    /\ \A key \in DOMAIN specs : Meets(Section(text, key), specs[key])
    /\ Used(text) \subseteq allowed
    /\ FileSpec(file).required \subseteq Used(text)
    /\ FileSpec(file).tokens \subseteq Held(text)

-----------------------------------------------------------------------------
(* An override directory holds one file, the packaged one with one change. *)
Changed(body, change) ==
    CASE change[1] = "use" -> [body EXCEPT !.uses = @ \cup {change[2]}, !.blank = FALSE]
      [] change[1] = "lose" -> [body EXCEPT !.uses = @ \ {change[2]}]
      [] change[1] = "drop" -> [body EXCEPT !.tokens = @ \ {change[2]}]
      [] change[1] = "empty" -> Nothing

(* A change of the whole file, of the text before the sections, of one of  *)
(* them, or of which there are.                                            *)
Edited(file, edit) ==
    LET text == Packaged[file]
        key == edit.at
    IN
    CASE edit.change[1] = "unreadable" -> [text EXCEPT !.readable = FALSE]
      [] edit.change[1] = "remove" ->
            [text EXCEPT !.sections = [k \in DOMAIN @ \ {key} |-> @[k]]]
      [] edit.change[1] = "repeat" -> [text EXCEPT !.sections[key] = Append(@, Body({}, {}))]
      [] edit.change[1] = "insert" ->
            [text EXCEPT !.sections = [k \in DOMAIN @ \cup {key} |->
                IF k = key THEN <<Body({edit.change[2]}, {})>> ELSE @[k]]]
      [] key = "lead" -> [text EXCEPT !.lead = Changed(@, edit.change)]
      [] OTHER -> [text EXCEPT !.sections[key] = <<Changed(@[1], edit.change)>>]

ChangesOf(body) == {<<"use", p>> : p \in Placeholders \ body.uses}
    \cup {<<"lose", p>> : p \in body.uses} \cup {<<"drop", t>> : t \in body.tokens}
    \cup {<<"empty", "">>}

Edit(file, at, changes) == {[file |-> file, at |-> at, change |-> c] : c \in changes}
EditsOf(file) ==
    LET text == Packaged[file] IN
    Edit(file, "lead", ChangesOf(text.lead)) \cup Edit(file, "whole", {<<"unreadable", "">>})
        \cup (UNION {Edit(file, key, ChangesOf(text.sections[key][1])
                            \cup {<<"remove", "">>, <<"repeat", "">>}) : key \in DOMAIN text.sections})
        \cup (IF text.sections = <<>> THEN {}
              ELSE Edit(file, "another", {<<"insert", p>> : p \in Placeholders}))

Untouched == [file |-> "none", at |-> "lead", change |-> <<"none", "">>]
Edits == {Untouched} \cup UNION {EditsOf(file) : file \in Files}

(* prompts_dir, as the configuration gives it.                             *)
DirKinds == {"word", "absent", "null", "empty", "positive", "list"}

-----------------------------------------------------------------------------
(* What a Reactor may react to.                                            *)
Bot == "bot"
Lines == [source : {"chat"}, who : {"viewer", Bot}, at : {0, 1}]
    \cup [source : {"audio"}, who : {"streamer"}, at : {0, 1}]
    \cup [source : {"audio"}, who : {"someone odd"}, at : {0}]
    \cup [source : {"video"}, who : {"nobody"}, at : {0}]

CommentStyles == {"operator", "original_chat", "meeting_synthesizer", "suggester"}
NoTrigger == [kind |-> "idle_comment", line |-> <<>>]
TriggersFor(style, seen) ==
    LET of(kinds, sources) == {[kind |-> kind, line |-> <<p>>] : kind \in kinds,
            p \in {q \in {seen[i] : i \in DOMAIN seen} : q.source \in sources /\ q.who # Bot}}
    IN
    CASE style = "meeting_synthesizer" -> {[NoTrigger EXCEPT !.kind = "synthesis_tick"]}
      [] style = "suggester" -> of({"suggestion_eval"}, {"audio"})
      [] OTHER -> {NoTrigger} \cup of({"mention", "continuation"}, {"chat", "audio"})

VARIABLES
    dirKind,        \* what the configuration says of prompts_dir
    edit,           \* what the operator's copy changed
    toolExit,        \* "none" | "0" | "1" | "2": of validate-prompts
    loading,        \* "none" | "loaded" | "refused": of the agent's start
    request,        \* what is rendered: style, trigger, what was seen and said
    prompt,         \* the blocks of it
    rendering       \* "none" | "done" | "raised"

promptVars == <<dirKind, edit, toolExit, loading, request, prompt, rendering>>

NoRequest == [style |-> "none", trigger |-> NoTrigger, seen |-> <<>>, summary |-> FALSE, said |-> FALSE]

PromptInit ==
    /\ dirKind \in DirKinds
    /\ edit \in IF dirKind = "word" THEN Edits ELSE {Untouched}
    /\ toolExit = "none"
    /\ loading = "none"
    /\ request = NoRequest
    /\ prompt = <<>>
    /\ rendering = "none"

(* _read_source: the operator's file before the packaged one.              *)
TextOf(file) == IF edit.file = file THEN Edited(file, edit) ELSE Packaged[file]
Broken == {file \in Files : ~Valid(file, TextOf(file))}

(* A fault: the tool reads the directory from whatever it is given.        *)
DirIsReadAnyway == dirKind # "list"

DirIsRead == dirKind \in {"word", "absent", "null"}

(* minnarone validate-prompts --config: prompts_dir alone is read.         *)
ValidatePrompts ==
    /\ toolExit = "none"
    /\ toolExit' = IF ~DirIsRead THEN "2" ELSE IF Broken # {} THEN "1" ELSE "0"
    /\ UNCHANGED <<dirKind, edit, loading, request, prompt, rendering>>

(* load_prompt_set() and load_summarizer_prompt_set(), of a configuration  *)
(* that Config.from_dict() has accepted.                                   *)
LoadPromptSets ==
    /\ loading = "none"
    /\ loading' = IF ReadField("root", "prompts_dir", dirKind) = "accepted" /\ Broken = {}
                  THEN "loaded" ELSE "refused"
    /\ UNCHANGED <<dirKind, edit, toolExit, request, prompt, rendering>>

-----------------------------------------------------------------------------
(* Blocks.                                                                 *)
Code(what) == <<[by |-> "code", what |-> what]>>
Memory(what) == <<[by |-> "memory", what |-> what]>>
Observed(lines) == <<[by |-> "observed", what |-> lines]>>
Quoted(what) == <<[by |-> "quoted", what |-> what]>>
OfFile(file, key, given) == <<[by |-> "file", what |-> <<file, key>>, given |-> given]>>
Text(file, given) == OfFile(file, "lead", given)
Header(key) == OfFile("headers", key, {})

Fails(block) ==
    LET text == TextOf(block.what[1])
        key == block.what[2]
        body == IF key = "lead" THEN text.lead ELSE Section(text, key)
    IN (key # "lead" /\ key \notin DOMAIN text.sections) \/ ~(body.uses \subseteq block.given)

(* stable_prefix()                                                         *)
StablePrefix(style) ==
    IF style = "original_chat"
    THEN Header("regole") \o Code("robustness") \o Text("rules", {"channel"}) \o Code("disclosure")
         \o Header("memoria_permanente") \o Header("memoria_permanente_uso") \o Header("chi_sei")
         \o Memory("soul") \o OfFile("headers", "cosa_sai", {"channel"}) \o Memory("facts")
         \o Header("formato_risposta") \o Text("format", {})
    ELSE Code("robustness") \o Text(style, {"language"}) \o Code("disclosure")
         \o Memory("soul") \o Memory("facts")

(* _recent_for_prompt(): the last of each source, by time, or the last of  *)
(* all; the bot's own lines are left out of them then.                     *)
Last(seen) == SubSeq(seen, IF Len(seen) > Window THEN Len(seen) - Window + 1 ELSE 1, Len(seen))
From(seen, source) == Picked(seen, {i \in DOMAIN seen : seen[i].source = source})
ByTime(seen) ==
    LET At(t) == Picked(seen, {i \in DOMAIN seen : seen[i].at = t}) IN At(0) \o At(1)

(* A fault: one window for all sources.                                    *)
WindowOfAll(style, seen) == Last(seen)

RecentOf(style, seen) ==
    IF style = "original_chat"
    THEN ByTime(Last(From(seen, "chat")) \o Last(From(seen, "audio")) \o Last(From(seen, "video")))
    ELSE Last(seen)

(* A fault: the trigger is another object than the one in the store.       *)
HistoryById(style, seen, line) ==
    LET recent == RecentOf(style, seen) IN Picked(recent, {i \in DOMAIN recent : recent[i].who # Bot})

(* Without the line that is reacted to, by its value.                      *)
History(style, seen, line) ==
    LET recent == RecentOf(style, seen) IN
    Picked(recent, {i \in DOMAIN recent : recent[i].who # Bot /\ <<recent[i]>> # line})

RecentBlock(style, seen, line) ==
    LET history == History(style, seen, line) IN
    IF style = "original_chat"
    THEN Header("conversazione_recente")
         \o Header("chat_recente") \o Observed(From(history, "chat"))
         \o Header("parlato_recente") \o Observed(From(history, "audio"))
         \o Header("schermo_recente") \o Observed(From(history, "video"))
    ELSE Header("conversazione_recente_std") \o Observed(history)

SummaryBlock(style, summary) ==
    IF ~summary THEN <<>>
    ELSE (IF style = "original_chat" THEN Header("memoria") \o Header("memoria_suffix")
          ELSE Header("riassunto_std")) \o Quoted("summary")

SaidBlock(style, said) ==
    IF ~said \/ style # "original_chat" THEN <<>>
    ELSE Header("tuoi_ultimi_messaggi") \o Quoted("own messages")

(* The names of the headers that a situation may refer to are rendered for *)
(* each.                                                                   *)
OriginalChatSituation(trigger) ==
    LET Situation(key, given) == OfFile("situations", key, given \cup HeaderRefs)
        continues == trigger.kind = "continuation"
    IN
    IF trigger.line = <<>> THEN Situation("idle", {})
    ELSE (CASE trigger.line[1].source = "chat" ->
                Situation(IF continues THEN "chat-continuation" ELSE "chat-mention", {"user", "mention"})
            [] trigger.line[1].source = "audio" ->
                Situation(IF continues THEN "streamer-continuation" ELSE "streamer-mention", {})
            [] OTHER -> Situation("generic", {"reason"}))
         \o Observed(trigger.line)

(* A suggestion comes with what is known of who spoke, if the name can be  *)
(* shown.                                                                  *)
SituationBlock(style, trigger) ==
    IF style = "original_chat" THEN Header("situazione") \o OriginalChatSituation(trigger)
    ELSE Header("situazione_std") \o Code("situation")
         \o (IF trigger.line = <<>> THEN <<>> ELSE Observed(trigger.line))
         \o (IF style = "suggester" /\ trigger.line[1].who = "streamer" THEN Memory("facts of streamer")
             ELSE <<>>)

PromptOf(r) ==
    StablePrefix(r.style)
        \o (IF r.style = "original_chat" THEN Text("intro", {"channel"}) ELSE <<>>)
        \o SummaryBlock(r.style, r.summary) \o SaidBlock(r.style, r.said)
        \o RecentBlock(r.style, r.seen, r.trigger.line) \o SituationBlock(r.style, r.trigger)

(* Headers are rendered, whether or not their block is there.              *)
RenderedFor(r) == PromptOf([r EXCEPT !.summary = TRUE, !.said = TRUE])

FileBlocks(blocks) == {blocks[i] : i \in {j \in DOMAIN blocks : blocks[j].by = "file"}}

(* PromptBuilder.build(), of a Reactor's turn.                             *)
BuildPrompt ==
    /\ loading = "loaded" /\ rendering = "none"
    /\ \E style \in CommentStyles, summary, said \in BOOLEAN :
        \E n \in 0 .. IF edit = Untouched THEN MaxSeen ELSE 1 : \E seen \in [1..n -> Lines] :
        \E trigger \in TriggersFor(style, seen) :
            request' = [style |-> style, trigger |-> trigger, seen |-> seen,
                        summary |-> summary, said |-> said]
    /\ IF \E b \in FileBlocks(RenderedFor(request')) : Fails(b)
       THEN rendering' = "raised" /\ UNCHANGED prompt
       ELSE rendering' = "done" /\ prompt' = PromptOf(request')
    /\ UNCHANGED <<dirKind, edit, toolExit, loading>>

(* Summarizer._build_prompt(), of a window that is not empty.              *)
SourceLabels == <<<<"audio", "label_streamer">>, <<"video", "label_schermo">>, <<"chat", "label_chat">>>>
SummaryPrompt(seen, summary) ==
    LET Part(key) == OfFile("summarizer", key, {})
        Group(k) == LET lines == From(seen, SourceLabels[k][1]) IN
                    IF lines = <<>> THEN <<>> ELSE Part(SourceLabels[k][2]) \o Observed(lines)
    IN  Part("instruction") \o Part("current_summary_header")
        \o (IF summary THEN Quoted("summary") ELSE Part("empty_placeholder"))
        \o Part("recent_events_header") \o Group(1) \o Group(2) \o Group(3)
        \o Part("update_instruction")

BuildSummaryPrompt ==
    /\ loading = "loaded" /\ rendering = "none"
    /\ \E n \in 1..MaxSeen : \E seen \in [1..n -> {p \in Lines : p.at = 0}] : \E summary \in BOOLEAN :
        LET others == Picked(seen, {i \in DOMAIN seen : seen[i].who # Bot})
            blocks == SummaryPrompt(others, summary)
        IN
        /\ others # <<>>
        /\ request' = [NoRequest EXCEPT !.style = "summarizer", !.seen = seen, !.summary = summary]
        /\ IF \E b \in FileBlocks(blocks) : Fails(b)
           THEN rendering' = "raised" /\ UNCHANGED prompt
           ELSE rendering' = "done" /\ prompt' = blocks
    /\ UNCHANGED <<dirKind, edit, toolExit, loading>>

PromptNext == ValidatePrompts \/ LoadPromptSets \/ BuildPrompt \/ BuildSummaryPrompt

PromptSpec == PromptInit /\ [][PromptNext]_promptVars

-----------------------------------------------------------------------------
(* Every variable stays in its range.                                      *)
PromptTypeOK ==
    /\ toolExit \in {"none", "0", "1", "2"}
    /\ loading \in {"none", "loaded", "refused"}
    /\ rendering \in {"none", "done", "raised"}
    /\ request.style \in CommentStyles \cup {"summarizer", "none"}

(* A set of files that was accepted when the agent started never fails in  *)
(* the middle of a run, whatever the turn renders of it; nothing would     *)
(* catch it there.  What it renders tells the model of the tokens that the *)
(* answer is read by.                                                      *)
TokensIn(blocks) == UNION {
    LET text == TextOf(b.what[1]) IN
    IF b.what[2] = "lead" THEN text.lead.tokens ELSE Section(text, b.what[2]).tokens :
    b \in FileBlocks(blocks)}
AcceptedSetsRender ==
    /\ rendering # "raised"
    /\ rendering = "done" /\ request.style = "original_chat" =>
        {"RE:", "MSG:", "#end_conv"} \subseteq TokensIn(prompt)
    /\ rendering = "done" /\ request.style = "suggester" => "#nothing" \in TokensIn(prompt)

(* What validate-prompts says of a configuration is what becomes of the    *)
(* agent's start.                                                          *)
ToolTellsTheTruth ==
    toolExit # "none" /\ loading # "none" => (toolExit = "0" <=> loading = "loaded")

(* The prompt shows a line once, where it is reacted to or in the history, *)
(* never the agent's own as somebody's, and the last thing said in voice   *)
(* and the last thing in chat however much of the other came after.        *)
ObservedLines == UNION {{<<i, k>> : k \in DOMAIN prompt[i].what} :
    i \in {j \in DOMAIN prompt : prompt[j].by = "observed"}}
LineAt(place) == prompt[place[1]].what[place[2]]
LastFrom(source) == {i \in DOMAIN request.seen : request.seen[i].source = source
    /\ \A k \in i + 1 .. Len(request.seen) : request.seen[k].source # source}
SceneIsShown == rendering = "done" /\ request.style # "summarizer" =>
    /\ \A place \in ObservedLines : LineAt(place).who # Bot
    /\ request.trigger.line # <<>> =>
        Cardinality({place \in ObservedLines : <<LineAt(place)>> = request.trigger.line}) = 1
    /\ request.style = "original_chat" => \A source \in {"chat", "audio", "video"} :
        \A i \in LastFrom(source) : request.seen[i].who # Bot =>
            \E place \in ObservedLines : LineAt(place) = request.seen[i]

PromptsAreSound == AcceptedSetsRender /\ ToolTellsTheTruth /\ SceneIsShown
=============================================================================
