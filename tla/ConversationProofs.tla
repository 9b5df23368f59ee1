-------------------------- MODULE ConversationProofs --------------------------
(***************************************************************************)
(* Theorems about Conversation, for any people, texts, time limits, length *)
(* of the log and size of the memory.                                      *)
(*                                                                         *)
(* Whom the agent answers rests on the windows: one that is open stands    *)
(* for a mention that the agent has read since it last took leave.  When   *)
(* it speaks unasked rests on the converse, which time limits: a mention   *)
(* read since has its window open, no older than itself, or is older than  *)
(* a window lives.  That it does not repeat itself rests on one turn being *)
(* under way at a time: the memory a draft was compared with is then still *)
(* the memory when the draft is routed.                                    *)
(***************************************************************************)
EXTENDS Conversation, OrderingProofs, SequenceTheorems

Speakers == Interlocutors \cup {Guest, Bot}
Kinds == {"mention", "continuation", "suggestion_eval", "synthesis_tick", "idle_comment"}
Prompts == [kind : Kinds, at : Nat, to : Speakers \cup {NoOne}]
Busy == {"asking", "sending"}

(* A turn that waits for its next tick has answered everything, and after  *)
(* the run no turn waits.                                                  *)
PromptsKept ==
    /\ pending \in [Turns -> Seq(Prompts)]
    /\ \A t \in Turns : pc[t] = "idle" => pending[t] = <<>>
    /\ phase = "ended" => \A t \in Turns : pc[t] = "gone"

(* As long as turns do not overlap, what is on its way is not yet in the   *)
(* memory.                                                                 *)
OneAtATime ==
    style = "human" /\ ~overlapped =>
        \A t \in Turns :
            /\ pc[t] \in Busy => \A u \in Turns \ {t} : pc[u] \notin Busy
            /\ pc[t] = "sending" =>
                draft[t] # NoText /\ \A k \in 1..Len(selfMessages) : selfMessages[k] # draft[t]

(* Whoever has a window was invited to it by its own mention.              *)
Invited == \A p \in Interlocutors : windows[p] # Closed => NamedSinceTheEnd(p, cursor)

(* And whoever named the agent has a window, for as long as one lives.     *)
Attended ==
    triggerMode = "reactive" =>
        \A p \in Interlocutors :
            /\ namedAt[p] <= lastTriggerAt
            /\ NamedSinceTheEnd(p, cursor) =>
                \/ clock - namedAt[p] > WindowTTL
                \/ windows[p] # Closed /\ namedAt[p] <= windows[p]

TalkInv == TalkTypeOK /\ PromptsKept /\ OneAtATime /\ Invited /\ Attended

-----------------------------------------------------------------------------
(* Only an interlocutor can be answered.                                   *)
LEMMA WhoIsAnswered ==
    ASSUME NEW p \in Utterances
    PROVE  p.who \in Speakers /\ (HasInterlocutor(p) => p.who \in Interlocutors)
  BY DEF Utterances, HasInterlocutor, IsSelf, Interlocutors, Speakers

(* The perceptions a tick reads.                                           *)
LEMMA WhatIsNew ==
    ASSUME TalkTypeOK
    PROVE  /\ Len(log) \in Nat /\ cursor \in Nat /\ cursor <= Len(log)
           /\ IsFiniteSet(NewOnes)
           /\ \A i \in NewOnes : i \in Nat \ {0} /\ i > cursor /\ i <= Len(log) /\ log[i] \in Utterances
<1>1. Len(log) \in Nat /\ cursor \in Nat /\ cursor <= Len(log)
  BY DEF TalkTypeOK
<1>2. IsFiniteSet(NewOnes)
  BY <1>1, FS_Interval DEF NewOnes
<1>3. \A i \in NewOnes : i \in Nat \ {0} /\ i > cursor /\ i <= Len(log) /\ log[i] \in Utterances
  BY <1>1 DEF NewOnes, TalkTypeOK
<1> QED
  BY <1>1, <1>2, <1>3

(* A list of some of them is a list of prompts, one for each.              *)
LEMMA OnePromptEach ==
    ASSUME TalkTypeOK, NEW S \in SUBSET NewOnes, NEW prompt \in [S -> Prompts], NEW list,
           list = [k \in DOMAIN Upwards(S) |-> prompt[Upwards(S)[k]]]
    PROVE  /\ list \in Seq(Prompts)
           /\ \A k \in 1..Len(list) : \E i \in S : list[k] = prompt[i]
           /\ \A i \in S : \E k \in 1..Len(list) : list[k] = prompt[i]
<1> DEFINE n == Cardinality(S)
<1>1. S \in SUBSET Int /\ IsFiniteSet(S)
  BY WhatIsNew, FS_Subset
<1>2. /\ n \in Nat /\ Upwards(S) \in [1..n -> S]
      /\ \A i \in S : \E k \in 1..n : Upwards(S)[k] = i
  BY <1>1, OrderIsUp
<1> HIDE DEF n
<1>3. list = [k \in 1..n |-> prompt[Upwards(S)[k]]]
  BY <1>2
<1>4. \A k \in 1..n : list[k] = prompt[Upwards(S)[k]] /\ Upwards(S)[k] \in S
  BY <1>2, <1>3
<1>5. list \in [1..n -> Prompts]
  BY <1>3, <1>4
<1>6. list \in Seq(Prompts) /\ Len(list) = n
  BY <1>2, <1>5
<1> QED
  BY <1>2, <1>4, <1>6

(* An unprompted trigger is a single one, nobody's.                        *)
LEMMA OneUnprompted ==
    ASSUME NEW kind \in Kinds
    PROVE  /\ Unprompted(kind) \in Seq(Prompts)
           /\ Len(Unprompted(kind)) = 1
           /\ Unprompted(kind)[1].kind = kind /\ Unprompted(kind)[1].at = 0
           /\ Unprompted(kind)[1].to = NoOne
<1>1. [kind |-> kind, at |-> 0, to |-> NoOne] \in Prompts
  BY DEF Prompts
<1> QED
  BY <1>1 DEF Unprompted

Answered == {i \in NewOnes : Classified(i)}

(* The reactive tick answers each perception that calls for it, and only   *)
(* those; when there is none it makes an idle comment, if one is due.      *)
LEMMA ReactiveTick ==
    ASSUME TalkTypeOK
    PROVE  /\ ReactiveTriggers \in Seq(Prompts)
           /\ Answered # {} =>
               /\ ReactiveTriggers # <<>>
               /\ \A k \in 1..Len(ReactiveTriggers) :
                   \E i \in Answered : ReactiveTriggers[k] = TriggerOf(i)
               /\ \A i \in Answered :
                   \E k \in 1..Len(ReactiveTriggers) : ReactiveTriggers[k] = TriggerOf(i)
           /\ Answered = {} =>
               ReactiveTriggers = IF IdleIsDue THEN Unprompted("idle_comment") ELSE <<>>
<1>1. CASE Answered = {}
  <2>1. ReactiveTriggers = IF IdleIsDue THEN Unprompted("idle_comment") ELSE <<>>
    BY <1>1 DEF ReactiveTriggers, Answered
  <2>2. "idle_comment" \in Kinds /\ <<>> \in Seq(Prompts)
    BY DEF Kinds
  <2> QED
    BY <1>1, <2>1, <2>2, OneUnprompted
<1>2. CASE Answered # {}
  <2> DEFINE prompt == [i \in Answered |-> TriggerOf(i)]
             list == ReactiveTriggers
  <2>1. \A i \in Answered : TriggerOf(i) \in Prompts
    <3>1. ASSUME NEW i \in Answered PROVE TriggerOf(i) \in Prompts
      <4>1. i \in Nat /\ log[i].who \in Speakers
        BY WhatIsNew, WhoIsAnswered DEF Answered
      <4> QED
        BY <4>1 DEF TriggerOf, Prompts, Kinds
    <3> QED
      BY <3>1
  <2>2. prompt \in [Answered -> Prompts]
    BY <2>1
  <2>3. ReactiveTriggers = [k \in DOMAIN Upwards(Answered) |-> TriggerOf(Upwards(Answered)[k])]
    BY <1>2 DEF ReactiveTriggers, Answered
  <2>4. Answered \in SUBSET NewOnes
    BY DEF Answered
  <2>5. \A k \in DOMAIN Upwards(Answered) : Upwards(Answered)[k] \in Answered
    <3>1. Answered \in SUBSET Int /\ IsFiniteSet(Answered)
      BY <2>4, WhatIsNew, FS_Subset
    <3> QED
      BY <3>1, OrderIsUp
  <2>6. list = [k \in DOMAIN Upwards(Answered) |-> prompt[Upwards(Answered)[k]]]
    BY <2>3, <2>5
  <2> HIDE DEF prompt, list
  <2>7. /\ list \in Seq(Prompts)
        /\ \A k \in 1..Len(list) : \E i \in Answered : list[k] = prompt[i]
        /\ \A i \in Answered : \E k \in 1..Len(list) : list[k] = prompt[i]
    BY <2>2, <2>4, <2>6, OnePromptEach
  <2>8. \A i \in Answered : prompt[i] = TriggerOf(i)
    BY DEF prompt
  <2>9. list # <<>>
    BY <1>2, <2>7
  <2> QED
    BY <1>2, <2>7, <2>8, <2>9 DEF list
<1> QED
  BY <1>1, <1>2

LEMMA SpeechTick ==
    ASSUME TalkTypeOK
    PROVE  /\ SpeechTriggers \in Seq(Prompts)
           /\ \A k \in 1..Len(SpeechTriggers) : SpeechTriggers[k].kind = "suggestion_eval"
<1> DEFINE spoken == {i \in NewOnes : log[i].source = "audio"}
           prompt == [i \in spoken |-> [kind |-> "suggestion_eval", at |-> i, to |-> log[i].who]]
<1>1. \A i \in spoken : prompt[i] \in Prompts /\ prompt[i].kind = "suggestion_eval"
  <2>1. ASSUME NEW i \in spoken PROVE prompt[i] \in Prompts /\ prompt[i].kind = "suggestion_eval"
    <3>1. i \in Nat /\ log[i].who \in Speakers
      BY WhatIsNew, WhoIsAnswered
    <3> QED
      BY <3>1 DEF Prompts, Kinds
  <2> QED
    BY <2>1
<1>2. prompt \in [spoken -> Prompts]
  BY <1>1
<1>3. spoken \in SUBSET Int /\ IsFiniteSet(spoken)
  BY WhatIsNew, FS_Subset
<1>4. \A k \in DOMAIN Upwards(spoken) : Upwards(spoken)[k] \in spoken
  <2> HIDE DEF spoken
  <2> QED
    BY <1>3, OrderIsUp
<1>5. SpeechTriggers = [k \in DOMAIN Upwards(spoken) |-> prompt[Upwards(spoken)[k]]]
  BY <1>4 DEF SpeechTriggers
<1>6. spoken \in SUBSET NewOnes
  OBVIOUS
<1> HIDE DEF spoken, prompt
<1>7. /\ SpeechTriggers \in Seq(Prompts)
      /\ \A k \in 1..Len(SpeechTriggers) : \E i \in spoken : SpeechTriggers[k] = prompt[i]
  BY <1>2, <1>5, <1>6, OnePromptEach
<1> QED
  BY <1>1, <1>7

(* What any tick emits.                                                    *)
LEMMA TickTriggers ==
    ASSUME TalkTypeOK
    PROVE  /\ Triggers \in Seq(Prompts)
           /\ triggerMode = "reactive" => Triggers = ReactiveTriggers
           /\ Triggers = Unprompted("idle_comment") =>
               triggerMode = "reactive" /\ Answered = {} /\ IdleIsDue
<1>1. triggerMode \in {"reactive", "periodic", "on_perception"}
  BY DEF TalkTypeOK
<1>2. /\ Len(Unprompted("idle_comment")) = 1
      /\ Unprompted("idle_comment")[1].kind = "idle_comment"
      /\ Unprompted("idle_comment") # <<>>
  BY OneUnprompted DEF Kinds
<1>3. CASE triggerMode = "reactive"
  <2>1. Triggers = ReactiveTriggers
    BY <1>3 DEF Triggers
  <2>2. Answered # {} => ReactiveTriggers # Unprompted("idle_comment")
    <3>1. ASSUME Answered # {}, ReactiveTriggers = Unprompted("idle_comment") PROVE FALSE
      <4>1. PICK i \in Answered : ReactiveTriggers[1] = TriggerOf(i)
        BY <1>2, <3>1, ReactiveTick
      <4>2. TriggerOf(i).kind # "idle_comment"
        BY DEF TriggerOf
      <4> QED
        BY <1>2, <3>1, <4>1, <4>2
    <3> QED
      BY <3>1
  <2>3. Answered = {} /\ ReactiveTriggers = Unprompted("idle_comment") => IdleIsDue
    BY <1>2, ReactiveTick
  <2> QED
    BY <1>3, <2>1, <2>2, <2>3, ReactiveTick
<1>4. CASE triggerMode = "on_perception"
  <2>1. Triggers = SpeechTriggers
    BY <1>4 DEF Triggers
  <2>2. SpeechTriggers # Unprompted("idle_comment")
    <3>1. SpeechTriggers = Unprompted("idle_comment") => SpeechTriggers[1].kind = "suggestion_eval"
      BY <1>2, SpeechTick
    <3> QED
      BY <1>2, <3>1
  <2> QED
    BY <1>4, <2>1, <2>2, SpeechTick
<1>5. CASE triggerMode = "periodic"
  <2>1. Triggers = PeriodicTriggers
    BY <1>5 DEF Triggers
  <2>2. /\ Unprompted("synthesis_tick") \in Seq(Prompts)
        /\ Unprompted("synthesis_tick")[1].kind = "synthesis_tick"
    BY OneUnprompted DEF Kinds
  <2>3. PeriodicTriggers \in Seq(Prompts) /\ PeriodicTriggers # Unprompted("idle_comment")
    BY <1>2, <2>2 DEF PeriodicTriggers
  <2> QED
    BY <1>5, <2>1, <2>3
<1> QED
  BY <1>1, <1>3, <1>4, <1>5

-----------------------------------------------------------------------------
(* A turn goes on with some triggers, the other is left alone.             *)
LEMMA GoesOn ==
    ASSUME TalkTypeOK, PromptsKept, NEW t \in Turns, NEW triggers \in Seq(Prompts),
           GoOnWith(t, triggers)
    PROVE  /\ pc' \in [Turns -> {"idle", "asking", "sending", "gone", "dead"}]
           /\ pending' \in [Turns -> Seq(Prompts)]
           /\ pending'[t] = triggers
           /\ pc'[t] # "sending" /\ (pc'[t] = "asking" <=> triggers # <<>>)
           /\ \A u \in Turns \ {t} : pc'[u] = pc[u] /\ pending'[u] = pending[u]
  BY DEF TalkTypeOK, PromptsKept, GoOnWith

(* Between two questions a turn has at least the trigger it is about.      *)
LEMMA StillPending ==
    ASSUME TalkTypeOK, PromptsKept, NEW t \in Turns, pc[t] \in Busy
    PROVE  pending[t] # <<>> /\ Tail(pending[t]) \in Seq(Prompts) /\ phase # "ended"
<1>1. phase # "ended"
  BY DEF PromptsKept, Busy
<1>2. pending[t] # <<>>
  BY <1>1 DEF TalkTypeOK, Busy
<1>3. pending[t] \in Seq(Prompts)
  BY DEF PromptsKept
<1> QED
  BY <1>1, <1>2, <1>3

(* What every GoOnWith keeps of the types.                                 *)
Underway ==
    /\ pc \in [Turns -> {"idle", "asking", "sending", "gone", "dead"}]
    /\ \A t \in Turns : phase # "ended" => (pending[t] # <<>> <=> pc[t] \in Busy)

LEMMA StaysUnderway ==
    ASSUME TalkTypeOK, PromptsKept, NEW t \in Turns, NEW triggers \in Seq(Prompts),
           GoOnWith(t, triggers), phase # "ended", phase' = phase
    PROVE  Underway' /\ PromptsKept'
<1>1. /\ pc' \in [Turns -> {"idle", "asking", "sending", "gone", "dead"}]
      /\ pending' \in [Turns -> Seq(Prompts)]
      /\ pending'[t] = triggers
      /\ pc'[t] # "sending" /\ (pc'[t] = "asking" <=> triggers # <<>>)
      /\ \A u \in Turns \ {t} : pc'[u] = pc[u] /\ pending'[u] = pending[u]
  BY GoesOn
<1>2. Underway'
  BY <1>1 DEF Underway, TalkTypeOK, Busy
<1>3. PromptsKept'
  BY <1>1 DEF PromptsKept
<1> QED
  BY <1>2, <1>3

(* The tick of a turn leaves the Senser in its ranges.                     *)
LEMMA TickTypes ==
    ASSUME TalkTypeOK, SenserTick, clock' = clock, log' = log, endedAt' = endedAt
    PROVE  /\ cursor' \in 0..Len(log) /\ cursor <= cursor'
           /\ windows' \in [Interlocutors -> 0..clock \cup {Closed}]
           /\ lastTriggerAt' \in 0..clock
           /\ namedAt' \in [Interlocutors -> 0..clock \cup {Never}]
           /\ endedAt' \in [Interlocutors -> 0..cursor']
<1>1. /\ clock \in Nat /\ clock \in 0..clock /\ Len(log) \in Nat /\ cursor \in 0..Len(log)
      /\ windows \in [Interlocutors -> 0..clock \cup {Closed}]
      /\ lastTriggerAt \in 0..clock
      /\ namedAt \in [Interlocutors -> 0..clock \cup {Never}]
      /\ endedAt \in [Interlocutors -> 0..cursor]
  BY ConversationAssumption DEF TalkTypeOK
<1>2. cursor' \in 0..Len(log) /\ cursor <= cursor'
  BY <1>1 DEF SenserTick
<1>3. windows' \in [Interlocutors -> 0..clock \cup {Closed}]
  BY <1>1 DEF SenserTick
<1>4. lastTriggerAt' \in 0..clock
  BY <1>1 DEF SenserTick
<1>5. namedAt' \in [Interlocutors -> 0..clock \cup {Never}]
  BY <1>1 DEF SenserTick
<1>6. 0..cursor \in SUBSET (0..cursor')
  BY <1>1, <1>2
<1>7. endedAt' \in [Interlocutors -> 0..cursor']
  BY <1>1, <1>6
<1> QED
  BY <1>2, <1>3, <1>4, <1>5, <1>7

LEMMA RunOnceTypes ==
    ASSUME TalkTypeOK, PromptsKept, NEW t \in Turns, RunOnce(t)
    PROVE  TalkTypeOK' /\ PromptsKept'
<1>1. Triggers \in Seq(Prompts)
  BY TickTriggers
<1>2. phase # "ended"
  BY DEF RunOnce, MayRun
<1>3. Underway' /\ PromptsKept'
  BY <1>1, <1>2, StaysUnderway DEF RunOnce
<1>4. /\ cursor' \in 0..Len(log)
      /\ windows' \in [Interlocutors -> 0..clock \cup {Closed}]
      /\ lastTriggerAt' \in 0..clock
      /\ namedAt' \in [Interlocutors -> 0..clock \cup {Never}]
      /\ endedAt' \in [Interlocutors -> 0..cursor']
  BY TickTypes DEF RunOnce
<1>5. UNCHANGED <<style, triggerMode, clock, log, lastAgentMessageAt, draft, selfMessages, phase>>
  BY DEF RunOnce
<1>6. overlapped' \in BOOLEAN
  BY DEF RunOnce, TalkTypeOK
<1> QED
  BY <1>3, <1>4, <1>5, <1>6 DEF TalkTypeOK, Underway, Busy

LEMMA SkipTypes ==
    ASSUME TalkTypeOK, PromptsKept, NEW t \in Turns, Skip(t)
    PROVE  TalkTypeOK' /\ PromptsKept'
<1>1. Tail(pending[t]) \in Seq(Prompts) /\ phase # "ended"
  BY StillPending DEF Skip, Busy
<1>2. Underway' /\ PromptsKept'
  BY <1>1, StaysUnderway DEF Skip
<1> QED
  BY <1>2 DEF TalkTypeOK, Underway, Busy, Skip, senserVars

(* An answer either lets the turn go on or is on its way.                  *)
LEMMA ReactTypes ==
    ASSUME TalkTypeOK, PromptsKept, NEW t \in Turns, React(t)
    PROVE  TalkTypeOK' /\ PromptsKept'
<1>1. /\ pending[t] # <<>> /\ Tail(pending[t]) \in Seq(Prompts) /\ phase # "ended"
      /\ phase' = phase /\ pc[t] = "asking"
  BY StillPending DEF React, Busy
<1>2. PICK text \in Texts \cup {NoText}, end \in BOOLEAN :
        CloseIfEnded(t, end) /\ (AnswerHuman(t, text, end) \/ AnswerOriginal(t, text, end))
  BY DEF React
<1>3. Underway' /\ PromptsKept' /\ draft' \in [Turns -> Texts \cup {NoText}]
  <2>1. CASE GoOnWith(t, Tail(pending[t])) /\ draft' = draft
    BY <1>1, <2>1, StaysUnderway DEF TalkTypeOK
  <2>2. CASE /\ pc' = [pc EXCEPT ![t] = "sending"] /\ pending' = pending
             /\ \E said \in Texts \cup {NoText} : draft' = [draft EXCEPT ![t] = said]
    BY <1>1, <2>2 DEF TalkTypeOK, PromptsKept, Underway, Busy
  <2> QED
    BY <1>2, <2>1, <2>2 DEF AnswerHuman, AnswerOriginal
<1>4. /\ windows' \in [Interlocutors -> 0..clock \cup {Closed}]
      /\ endedAt' \in [Interlocutors -> 0..cursor]
  BY <1>2 DEF CloseIfEnded, TalkTypeOK
<1>5. UNCHANGED <<style, triggerMode, clock, log, cursor, lastTriggerAt, lastAgentMessageAt,
                  selfMessages, phase, namedAt, overlapped>>
  BY DEF React
<1> QED
  BY <1>3, <1>4, <1>5 DEF TalkTypeOK, Underway, Busy

LEMMA LastOfKeeps ==
    ASSUME NEW messages \in Seq(Texts)
    PROVE  LastOf(messages) \in Seq(Texts) /\ Len(LastOf(messages)) <= SelfHistory
<1>1. SelfHistory \in Nat \ {0} /\ Len(messages) \in Nat
  BY ConversationAssumption
<1>2. CASE Len(messages) <= SelfHistory
  BY <1>2 DEF LastOf
<1>3. CASE ~(Len(messages) <= SelfHistory)
  <2> DEFINE from == Len(messages) - SelfHistory + 1
  <2>1. from \in 1..Len(messages) /\ Len(messages) - from + 1 = SelfHistory
    BY <1>1, <1>3
  <2>2. LastOf(messages) = SubSeq(messages, from, Len(messages))
    BY <1>3 DEF LastOf
  <2> HIDE DEF from
  <2>3. /\ SubSeq(messages, from, Len(messages)) \in Seq(Texts)
        /\ Len(SubSeq(messages, from, Len(messages))) = Len(messages) - from + 1
    BY <1>1, <2>1, SubSeqProperties
  <2> QED
    BY <1>1, <2>1, <2>2, <2>3
<1> QED
  BY <1>2, <1>3

LEMMA RouteTypes ==
    ASSUME TalkTypeOK, PromptsKept, NEW t \in Turns, Route(t)
    PROVE  TalkTypeOK' /\ PromptsKept'
<1>1. Tail(pending[t]) \in Seq(Prompts) /\ phase # "ended"
  BY StillPending DEF Route, Busy
<1>2. Underway' /\ PromptsKept'
  BY <1>1, StaysUnderway DEF Route
<1>3. /\ selfMessages' \in Seq(Texts) /\ Len(selfMessages') <= SelfHistory
      /\ lastAgentMessageAt' \in 0..clock \cup {Never}
  <2>1. CASE draft[t] = NoText
    BY <2>1 DEF Route, TalkTypeOK
  <2>2. CASE draft[t] # NoText
    <3>1. Append(selfMessages, draft[t]) \in Seq(Texts) /\ clock \in 0..clock
      BY <2>2 DEF TalkTypeOK
    <3> QED
      BY <2>2, <3>1, LastOfKeeps DEF Route
  <2> QED
    BY <2>1, <2>2
<1>4. draft' \in [Turns -> Texts \cup {NoText}]
  BY DEF Route, TalkTypeOK
<1>5. UNCHANGED <<style, triggerMode, clock, log, senserVars, phase, namedAt, endedAt, overlapped>>
  BY DEF Route
<1> QED
  BY <1>2, <1>3, <1>4, <1>5 DEF TalkTypeOK, Underway, Busy, senserVars

(* A turn that dies has nothing left to do.                                *)
LEMMA FailTypes ==
    ASSUME TalkTypeOK, PromptsKept, NEW t \in Turns, TurnFails(t)
    PROVE  TalkTypeOK' /\ PromptsKept'
<1>1. phase # "ended" /\ <<>> \in Seq(Prompts)
  BY DEF TurnFails, PromptsKept
<1>2. /\ pc' = [pc EXCEPT ![t] = "dead"] /\ pending' = [pending EXCEPT ![t] = <<>>]
      /\ draft' = [draft EXCEPT ![t] = NoText]
      /\ UNCHANGED <<style, triggerMode, clock, log, cursor, windows, lastTriggerAt, lastAgentMessageAt,
                     selfMessages, phase, namedAt, endedAt, overlapped>>
  BY DEF TurnFails, senserVars
<1>3. Underway' /\ draft' \in [Turns -> Texts \cup {NoText}]
  BY <1>2 DEF TalkTypeOK, PromptsKept, Underway, Busy
<1>4. PromptsKept'
  BY <1>1, <1>2 DEF TalkTypeOK, PromptsKept
<1> QED
  BY <1>2, <1>3, <1>4 DEF TalkTypeOK, Underway, Busy

LEMMA AroundTypes ==
    ASSUME TalkTypeOK, PromptsKept,
           Perceive \/ TimePasses \/ Drain \/ EndTalk \/ UNCHANGED talkVars
    PROVE  TalkTypeOK' /\ PromptsKept'
<1>1. CASE Perceive
  <2>1. PICK p \in Utterances : log' = Append(log, p)
    BY <1>1 DEF Perceive
  <2>2. log' \in Seq(Utterances) /\ Len(log') = Len(log) + 1 /\ Len(log) \in Nat
    BY <2>1 DEF TalkTypeOK
  <2>3. cursor \in 0..Len(log')
    BY <2>2 DEF TalkTypeOK
  <2> QED
    BY <1>1, <2>2, <2>3 DEF Perceive, TalkTypeOK, PromptsKept, senserVars, turnVars
<1>2. CASE TimePasses
  <2>1. clock' = clock + 1 /\ clock' \in 0..MaxTalk /\ clock \in Nat /\ MaxTalk \in Nat
    BY <1>2, ConversationAssumption DEF TimePasses, TalkTypeOK
  <2>2. 0..clock \in SUBSET (0..clock')
    BY <2>1
  <2>3. /\ windows \in [Interlocutors -> 0..clock' \cup {Closed}]
        /\ namedAt \in [Interlocutors -> 0..clock' \cup {Never}]
        /\ lastTriggerAt \in 0..clock' /\ lastAgentMessageAt \in 0..clock' \cup {Never}
    BY <2>2 DEF TalkTypeOK
  <2> QED
    BY <1>2, <2>1, <2>3 DEF TimePasses, TalkTypeOK, PromptsKept, senserVars, turnVars
<1>3. CASE Drain
  BY <1>3 DEF Drain, TalkTypeOK, PromptsKept, senserVars, turnVars
<1>4. CASE EndTalk
  BY <1>4 DEF EndTalk, TalkTypeOK, PromptsKept, senserVars
<1>5. CASE UNCHANGED talkVars
  BY <1>5 DEF TalkTypeOK, PromptsKept, talkVars, senserVars, turnVars
<1> QED
  BY <1>1, <1>2, <1>3, <1>4, <1>5

-----------------------------------------------------------------------------
(* One turn at a time.                                                     *)

(* A turn that goes on sends nothing yet.                                  *)
LEMMA GoingOnIsAlone ==
    ASSUME TalkTypeOK, PromptsKept, OneAtATime, NEW t \in Turns, NEW triggers \in Seq(Prompts),
           GoOnWith(t, triggers), style' = style,
           ~overlapped' => ~overlapped /\ \A u \in Turns \ {t} : pc[u] \notin Busy
    PROVE  OneAtATime'
<1>1. /\ pc'[t] # "sending"
      /\ \A u \in Turns \ {t} : pc'[u] = pc[u]
  BY GoesOn
<1>2. ASSUME style' = "human", ~overlapped' PROVE \A u \in Turns \ {t} : pc'[u] \notin Busy
  BY <1>1, <1>2
<1>3. ASSUME style' = "human", ~overlapped' PROVE \A u \in Turns : pc'[u] # "sending"
  BY <1>1, <1>2, <1>3 DEF Busy
<1> QED
  BY <1>2, <1>3 DEF OneAtATime

LEMMA AloneWhenBusy ==
    ASSUME OneAtATime, style = "human", NEW t \in Turns, pc[t] \in Busy, ~overlapped
    PROVE  \A u \in Turns \ {t} : pc[u] \notin Busy
  BY DEF OneAtATime

LEMMA OneAtATimeStep ==
    ASSUME TalkTypeOK, PromptsKept, OneAtATime, [TalkNext]_talkVars
    PROVE  OneAtATime'
<1>0. ASSUME style # "human", style' = style PROVE OneAtATime'
  BY <1>0 DEF OneAtATime
<1>1. ASSUME NEW t \in Turns, RunOnce(t) PROVE OneAtATime'
  <2>1. Triggers \in Seq(Prompts)
    BY TickTriggers
  <2>2. GoOnWith(t, Triggers) /\ style' = style
    BY <1>1 DEF RunOnce
  <2>3. ~overlapped' => ~overlapped /\ \A u \in Turns \ {t} : pc[u] \notin Busy
    BY <1>1 DEF RunOnce, Busy
  <2> QED
    BY <2>1, <2>2, <2>3, GoingOnIsAlone
<1>2. ASSUME NEW t \in Turns, Skip(t) PROVE OneAtATime'
  <2>1. Tail(pending[t]) \in Seq(Prompts)
    BY <1>2, StillPending DEF Skip, Busy
  <2>2. GoOnWith(t, Tail(pending[t])) /\ style' = style /\ overlapped' = overlapped
    BY <1>2 DEF Skip
  <2>3. style = "human" /\ ~overlapped => \A u \in Turns \ {t} : pc[u] \notin Busy
    BY <1>2, AloneWhenBusy DEF Skip, Busy
  <2> QED
    BY <1>0, <2>1, <2>2, <2>3, GoingOnIsAlone DEF OneAtATime, TalkTypeOK
<1>3. ASSUME NEW t \in Turns, React(t) PROVE OneAtATime'
  <2>1. /\ style' = style /\ overlapped' = overlapped /\ selfMessages' = selfMessages
        /\ pc[t] = "asking"
    BY <1>3 DEF React
  <2>2. SUFFICES ASSUME style = "human", ~overlapped PROVE OneAtATime'
    BY <2>1 DEF OneAtATime
  <2>3. \A u \in Turns \ {t} : pc[u] \notin Busy
    BY <2>1, <2>2, AloneWhenBusy DEF Busy
  <2>4. PICK text \in Texts \cup {NoText}, end \in BOOLEAN : AnswerHuman(t, text, end)
    BY <1>3, <2>2 DEF React, AnswerOriginal
  <2>5. CASE text = NoText \/ Repeats(text)
    <3>1. GoOnWith(t, Tail(pending[t]))
      BY <2>4, <2>5 DEF AnswerHuman
    <3>2. Tail(pending[t]) \in Seq(Prompts)
      BY <2>1, StillPending DEF Busy
    <3> QED
      BY <2>1, <2>2, <2>3, <3>1, <3>2, GoingOnIsAlone
  <2>6. CASE ~(text = NoText \/ Repeats(text))
    <3>1. pc' = [pc EXCEPT ![t] = "sending"] /\ draft' = [draft EXCEPT ![t] = text]
      BY <2>4, <2>6 DEF AnswerHuman
    <3>2. \A k \in 1..Len(selfMessages) : selfMessages[k] # text
      BY <2>6 DEF Repeats
    <3>3. /\ pc'[t] = "sending" /\ draft'[t] = text
          /\ \A u \in Turns \ {t} : pc'[u] = pc[u]
      BY <3>1 DEF TalkTypeOK
    <3>4. \A u \in Turns \ {t} : pc'[u] \notin Busy
      BY <2>3, <3>3
    <3> QED
      BY <2>1, <2>6, <3>2, <3>3, <3>4 DEF OneAtATime, Busy
  <2> QED
    BY <2>5, <2>6
<1>4. ASSUME NEW t \in Turns, Route(t) PROVE OneAtATime'
  <2>1. Tail(pending[t]) \in Seq(Prompts)
    BY <1>4, StillPending DEF Route, Busy
  <2>2. GoOnWith(t, Tail(pending[t])) /\ style' = style /\ overlapped' = overlapped
    BY <1>4 DEF Route
  <2>3. style = "human" /\ ~overlapped => \A u \in Turns \ {t} : pc[u] \notin Busy
    BY <1>4, AloneWhenBusy DEF Route, Busy
  <2> QED
    BY <1>0, <2>1, <2>2, <2>3, GoingOnIsAlone DEF OneAtATime, TalkTypeOK
<1>5. ASSUME NEW t \in Turns, TurnFails(t) PROVE OneAtATime'
  <2>1. UNCHANGED <<style, selfMessages, overlapped>>
    BY <1>5 DEF TurnFails
  <2>2. pc'[t] = "dead" /\ \A u \in Turns \ {t} : pc'[u] = pc[u] /\ draft'[u] = draft[u]
    BY <1>5 DEF TurnFails, TalkTypeOK
  <2> QED
    BY <2>1, <2>2 DEF OneAtATime, Busy
<1>6. CASE EndTalk
  BY <1>6 DEF EndTalk, OneAtATime, Busy
<1>7. CASE Perceive \/ TimePasses \/ Drain \/ UNCHANGED talkVars
  <2>1. UNCHANGED <<style, pc, draft, selfMessages, overlapped>>
    BY <1>7 DEF Perceive, TimePasses, Drain, talkVars, turnVars
  <2> QED
    BY <2>1 DEF OneAtATime
<1> QED
  BY <1>1, <1>2, <1>3, <1>4, <1>5, <1>6, <1>7 DEF TalkNext, TurnStep

-----------------------------------------------------------------------------
(* The windows.                                                            *)

(* Whoever is answered has named the agent by then, since the agent took   *)
(* leave of it.                                                            *)
LEMMA AnsweredWasInvited ==
    ASSUME TalkTypeOK, Invited, NEW i \in Answered
    PROVE  log[i].who \in Interlocutors /\ NamedSinceTheEnd(log[i].who, i)
<1> DEFINE who == log[i].who
<1>1. /\ i \in NewOnes /\ i \in Nat /\ cursor \in Nat /\ cursor < i /\ log[i] \in Utterances
      /\ HasInterlocutor(log[i]) /\ (log[i].mention \/ Continues(i))
  BY WhatIsNew DEF Answered, Classified
<1>2. who \in Interlocutors
  BY <1>1, WhoIsAnswered
<1>3. endedAt[who] \in Nat /\ endedAt[who] <= cursor
  BY <1>1, <1>2 DEF TalkTypeOK
<1>4. CASE log[i].mention
  <2>1. Names(who, i)
    BY <1>1, <1>4 DEF Names
  <2>2. i \in endedAt[who] + 1 .. i
    BY <1>1, <1>3
  <2> QED
    BY <1>2, <2>1, <2>2 DEF NamedSinceTheEnd
<1>5. CASE who \in OpenWindows
  <2>1. NamedSinceTheEnd(who, cursor)
    BY <1>2, <1>5 DEF OpenWindows, Invited
  <2>2. PICK j \in endedAt[who] + 1 .. cursor : Names(who, j)
    BY <2>1 DEF NamedSinceTheEnd
  <2>3. j \in endedAt[who] + 1 .. i
    BY <1>1, <1>3
  <2> QED
    BY <1>2, <2>2, <2>3 DEF NamedSinceTheEnd
<1>6. CASE \E j \in NewOnes : j < i /\ Names(who, j)
  <2>1. PICK j \in NewOnes : j < i /\ Names(who, j)
    BY <1>6
  <2>2. j \in Nat /\ cursor < j
    BY WhatIsNew
  <2>3. j \in endedAt[who] + 1 .. i
    BY <1>1, <1>3, <2>1, <2>2
  <2> QED
    BY <1>2, <2>1, <2>3 DEF NamedSinceTheEnd
<1> QED
  BY <1>1, <1>4, <1>5, <1>6 DEF Continues, InWindow

(* What a reactive tick does to the windows and to the timer.              *)
LEMMA TickWindows ==
    ASSUME TalkTypeOK, triggerMode = "reactive", SenserTick
    PROVE  /\ \A p \in Interlocutors :
               IF \E i \in Answered : log[i].who = p
               THEN windows'[p] = clock
               ELSE windows'[p] = IF p \in OpenWindows THEN windows[p] ELSE Closed
           /\ Answered # {} => lastTriggerAt' = clock
           /\ lastTriggerAt' \in {lastTriggerAt, clock}
           /\ cursor' = Len(log)
<1> DEFINE touched == {Triggers[k].to : k \in 1..Len(Triggers)}
<1>1. Triggers = ReactiveTriggers
  BY TickTriggers
<1>2. \A p \in Interlocutors : p \in touched <=> \E i \in Answered : log[i].who = p
  <2>1. CASE Answered = {}
    <3>1. Triggers = IF IdleIsDue THEN Unprompted("idle_comment") ELSE <<>>
      BY <1>1, <2>1, ReactiveTick
    <3>2. /\ Len(Unprompted("idle_comment")) = 1
          /\ Unprompted("idle_comment")[1].to = NoOne
      BY OneUnprompted DEF Kinds
    <3>3. touched \in SUBSET {NoOne}
      BY <3>1, <3>2
    <3> QED
      BY <2>1, <3>3, NobodySpeaks
  <2>2. CASE Answered # {}
    <3>1. /\ \A k \in 1..Len(Triggers) : \E i \in Answered : Triggers[k] = TriggerOf(i)
          /\ \A i \in Answered : \E k \in 1..Len(Triggers) : Triggers[k] = TriggerOf(i)
      BY <1>1, <2>2, ReactiveTick
    <3>2. \A i \in Answered : TriggerOf(i).to = log[i].who
      BY DEF TriggerOf
    <3>3. ASSUME NEW p \in touched PROVE \E i \in Answered : log[i].who = p
      BY <3>1, <3>2
    <3>4. ASSUME NEW i \in Answered PROVE log[i].who \in touched
      <4>1. PICK k \in 1..Len(Triggers) : Triggers[k] = TriggerOf(i)
        BY <3>1
      <4> QED
        BY <3>2, <4>1
    <3> QED
      BY <3>3, <3>4
  <2> QED
    BY <2>1, <2>2
<1>3. windows' = [p \in Interlocutors |->
                    IF p \in touched THEN clock
                    ELSE IF p \in OpenWindows THEN windows[p] ELSE Closed]
  BY DEF SenserTick
<1> HIDE DEF touched
<1>4. /\ lastTriggerAt' = IF Triggers = <<>> THEN lastTriggerAt ELSE clock
      /\ cursor' = Len(log)
  BY DEF SenserTick
<1>5. Answered # {} => Triggers # <<>>
  BY <1>1, ReactiveTick
<1> QED
  BY <1>2, <1>3, <1>4, <1>5

LEMMA InvitedByTick ==
    ASSUME TalkTypeOK, Invited, NEW t \in Turns, RunOnce(t)
    PROVE  Invited'
<1>1. SenserTick /\ UNCHANGED <<triggerMode, log, endedAt>>
  BY DEF RunOnce
<1>2. cursor \in Nat /\ cursor' \in Nat /\ cursor <= cursor' /\ Len(log) \in Nat
  BY <1>1, WhatIsNew DEF SenserTick
<1>3. ASSUME NEW p \in Interlocutors, NEW i \in Nat, i <= cursor', NamedSinceTheEnd(p, i)
      PROVE  NamedSinceTheEnd(p, cursor)'
  <2>1. PICK j \in endedAt[p] + 1 .. i : Names(p, j)
    BY <1>3 DEF NamedSinceTheEnd
  <2>2. endedAt[p] \in Nat
    BY <1>2 DEF TalkTypeOK
  <2>3. j \in endedAt[p] + 1 .. cursor'
    BY <1>2, <1>3, <2>2
  <2>4. Names(p, j)'
    BY <1>1, <2>1 DEF Names
  <2> QED
    BY <1>1, <2>3, <2>4 DEF NamedSinceTheEnd
<1>4. ASSUME NEW p \in Interlocutors, windows[p] # Closed PROVE NamedSinceTheEnd(p, cursor)'
  BY <1>2, <1>3, <1>4 DEF Invited
<1>5. ASSUME NEW p \in Interlocutors, windows'[p] # Closed PROVE NamedSinceTheEnd(p, cursor)'
  <2>1. CASE triggerMode # "reactive"
    <3>1. windows' = windows
      BY <1>1, <2>1 DEF SenserTick
    <3> QED
      BY <1>4, <1>5, <3>1
  <2>2. CASE triggerMode = "reactive" /\ \E i \in Answered : log[i].who = p
    <3>1. PICK i \in Answered : log[i].who = p
      BY <2>2
    <3>2. NamedSinceTheEnd(p, i)
      BY <3>1, AnsweredWasInvited
    <3>3. i \in Nat /\ i <= cursor'
      BY <1>1, <2>2, WhatIsNew, TickWindows DEF Answered
    <3> QED
      BY <1>3, <3>2, <3>3
  <2>3. CASE triggerMode = "reactive" /\ ~\E i \in Answered : log[i].who = p
    <3>1. windows[p] # Closed
      BY <1>1, <1>5, <2>3, TickWindows DEF OpenWindows
    <3> QED
      BY <1>4, <3>1
  <2> QED
    BY <2>1, <2>2, <2>3
<1> QED
  BY <1>5 DEF Invited

LEMMA AttendedByTick ==
    ASSUME TalkTypeOK, Attended, NEW t \in Turns, RunOnce(t)
    PROVE  Attended'
<1>1. SenserTick /\ UNCHANGED <<triggerMode, clock, log, endedAt>>
  BY DEF RunOnce
<1>2. SUFFICES ASSUME triggerMode = "reactive", NEW p \in Interlocutors
               PROVE  /\ namedAt'[p] <= lastTriggerAt'
                      /\ NamedSinceTheEnd(p, cursor)' =>
                          \/ clock - namedAt'[p] > WindowTTL
                          \/ windows'[p] # Closed /\ namedAt'[p] <= windows'[p]
  BY <1>1 DEF Attended
<1>3. /\ clock \in Nat /\ lastTriggerAt \in 0..clock /\ WindowTTL \in Nat
      /\ namedAt[p] \in 0..clock \cup {Never} /\ windows[p] \in 0..clock \cup {Closed}
      /\ endedAt[p] \in Nat
  BY ConversationAssumption, WhatIsNew DEF TalkTypeOK
<1>4. /\ lastTriggerAt' \in {lastTriggerAt, clock} /\ cursor' = Len(log)
      /\ Answered # {} => lastTriggerAt' = clock
  BY <1>1, <1>2, TickWindows
<1>5. CASE \E i \in NewOnes : Names(p, i)
  <2>1. PICK i \in Answered : log[i].who = p
    BY <1>5 DEF Names, Answered, Classified
  <2>2. windows'[p] = clock
    BY <1>1, <1>2, <2>1, TickWindows
  <2>3. namedAt'[p] = clock
    BY <1>1, <1>2, <1>5 DEF SenserTick
  <2> QED
    BY <1>3, <1>4, <2>1, <2>2, <2>3 DEF Closed
<1>6. CASE ~\E i \in NewOnes : Names(p, i)
  <2>1. namedAt'[p] = namedAt[p]
    BY <1>1, <1>6 DEF SenserTick
  <2>2. namedAt[p] <= lastTriggerAt
    BY <1>2 DEF Attended
  <2>3. namedAt'[p] <= lastTriggerAt'
    BY <1>3, <1>4, <2>1, <2>2 DEF Never
  <2>4. ASSUME NamedSinceTheEnd(p, cursor)'
        PROVE  \/ clock - namedAt'[p] > WindowTTL
               \/ windows'[p] # Closed /\ namedAt'[p] <= windows'[p]
    <3>1. PICK j \in endedAt[p] + 1 .. Len(log) : Names(p, j)
      BY <1>1, <1>4, <2>4 DEF NamedSinceTheEnd, Names
    <3>2. Len(log) \in Nat /\ cursor \in Nat /\ j \notin NewOnes
      BY <1>6, <3>1, WhatIsNew
    <3>3. j \in endedAt[p] + 1 .. cursor
      BY <1>3, <3>2 DEF NewOnes
    <3>4. \/ clock - namedAt[p] > WindowTTL
          \/ windows[p] # Closed /\ namedAt[p] <= windows[p]
      BY <1>2, <3>1, <3>3 DEF NamedSinceTheEnd, Attended
    <3>5. CASE clock - namedAt[p] > WindowTTL
      BY <2>1, <3>5
    <3>6. CASE ~(clock - namedAt[p] > WindowTTL)
      <4>1. windows[p] # Closed /\ namedAt[p] <= windows[p]
        BY <3>4, <3>6
      <4>2. clock - windows[p] <= WindowTTL
        BY <1>3, <3>6, <4>1 DEF Never, Closed
      <4>3. p \in OpenWindows
        BY <4>1, <4>2 DEF OpenWindows
      <4>4. windows'[p] \in {clock, windows[p]}
        BY <1>1, <1>2, <4>3, TickWindows
      <4> QED
        BY <1>3, <2>1, <4>1, <4>4 DEF Never, Closed
    <3> QED
      BY <3>5, <3>6
  <2> QED
    BY <2>3, <2>4
<1> QED
  BY <1>5, <1>6

(* When the agent takes leave of somebody, it has read what they said.     *)
LEMMA LeaveTaking ==
    ASSUME TalkTypeOK, Invited, Attended, NEW t \in Turns, React(t)
    PROVE  Invited' /\ Attended'
<1>1. PICK end \in BOOLEAN : CloseIfEnded(t, end)
  BY DEF React
<1>2. UNCHANGED <<triggerMode, clock, log, cursor, lastTriggerAt, namedAt>>
  BY DEF React
<1>3. ASSUME NEW p \in Interlocutors
      PROVE  \/ windows'[p] = Closed /\ ~NamedSinceTheEnd(p, cursor)'
             \/ windows'[p] = windows[p] /\ NamedSinceTheEnd(p, cursor)' = NamedSinceTheEnd(p, cursor)
  <2>1. CASE end /\ p = Head(pending[t]).to
    <3>1. windows'[p] = Closed /\ endedAt'[p] = cursor /\ cursor \in Nat
      BY <1>1, <2>1, WhatIsNew DEF CloseIfEnded
    <3>2. endedAt'[p] + 1 .. cursor' = {}
      BY <1>2, <3>1
    <3> QED
      BY <3>1, <3>2 DEF NamedSinceTheEnd
  <2>2. CASE ~(end /\ p = Head(pending[t]).to)
    <3>1. windows'[p] = windows[p] /\ endedAt'[p] = endedAt[p]
      BY <1>1, <2>2 DEF CloseIfEnded, TalkTypeOK
    <3> QED
      BY <1>2, <3>1 DEF NamedSinceTheEnd, Names
  <2> QED
    BY <2>1, <2>2
<1>4. Invited'
  BY <1>3 DEF Invited
<1>5. Attended'
  BY <1>2, <1>3 DEF Attended
<1> QED
  BY <1>4, <1>5

(* What is appended is not read yet, and time only closes windows.         *)
LEMMA WindowsStay ==
    ASSUME TalkTypeOK, Invited, Attended,
           UNCHANGED <<triggerMode, cursor, windows, lastTriggerAt, namedAt, endedAt>>,
           log' = log \/ \E p \in Utterances : log' = Append(log, p),
           clock' \in Int, clock <= clock'
    PROVE  Invited' /\ Attended'
<1>1. cursor \in Nat /\ Len(log) \in Nat /\ cursor <= Len(log)
  BY WhatIsNew
<1>2. \A j \in 1..cursor : log'[j] = log[j]
  <2>1. log \in Seq(Utterances)
    BY DEF TalkTypeOK
  <2>2. \A j \in 1..cursor : j \in 1..Len(log)
    BY <1>1
  <2>3. ASSUME NEW p \in Utterances, log' = Append(log, p)
        PROVE  \A j \in 1..Len(log) : log'[j] = log[j]
    BY <2>1, <2>3
  <2> QED
    BY <2>2, <2>3
<1>3. ASSUME NEW p \in Interlocutors
      PROVE  NamedSinceTheEnd(p, cursor)' = NamedSinceTheEnd(p, cursor)
  <2>1. endedAt[p] \in Nat
    BY <1>1 DEF TalkTypeOK
  <2>2. \A j \in endedAt[p] + 1 .. cursor : j \in 1..cursor
    BY <1>1, <2>1
  <2>3. \A j \in endedAt[p] + 1 .. cursor : log'[j] = log[j]
    BY <1>2, <2>2
  <2> QED
    BY <2>3 DEF NamedSinceTheEnd, Names
<1>4. \A p \in Interlocutors : clock - namedAt[p] > WindowTTL => clock' - namedAt[p] > WindowTTL
  <2>1. clock \in Int /\ WindowTTL \in Nat /\ \A p \in Interlocutors : namedAt[p] \in Int
    BY ConversationAssumption DEF TalkTypeOK, Never
  <2> QED
    BY <2>1
<1>5. Invited'
  BY <1>3 DEF Invited
<1>6. Attended'
  BY <1>3, <1>4 DEF Attended
<1> QED
  BY <1>5, <1>6

LEMMA WindowsStep ==
    ASSUME TalkTypeOK, Invited, Attended, [TalkNext]_talkVars
    PROVE  Invited' /\ Attended'
<1>1. ASSUME NEW t \in Turns, RunOnce(t) PROVE Invited' /\ Attended'
  BY <1>1, InvitedByTick, AttendedByTick
<1>2. ASSUME NEW t \in Turns, React(t) PROVE Invited' /\ Attended'
  BY <1>2, LeaveTaking
<1>3. ASSUME (\E t \in Turns : Skip(t) \/ Route(t) \/ TurnFails(t))
             \/ Perceive \/ TimePasses \/ Drain \/ EndTalk \/ UNCHANGED talkVars
      PROVE  Invited' /\ Attended'
  <2>1. UNCHANGED <<triggerMode, cursor, windows, lastTriggerAt, namedAt, endedAt>>
    BY <1>3 DEF Skip, Route, TurnFails, Perceive, TimePasses, Drain, EndTalk, talkVars, senserVars
  <2>2. log' = log \/ \E p \in Utterances : log' = Append(log, p)
    BY <1>3 DEF Skip, Route, TurnFails, Perceive, TimePasses, Drain, EndTalk, talkVars
  <2>3. clock' \in Int /\ clock <= clock'
    <3>1. clock \in Int /\ clock' \in {clock, clock + 1}
      BY <1>3 DEF Skip, Route, TurnFails, Perceive, TimePasses, Drain, EndTalk, talkVars, TalkTypeOK
    <3> QED
      BY <3>1
  <2> QED
    BY <2>1, <2>2, <2>3, WindowsStay
<1> QED
  BY <1>1, <1>2, <1>3 DEF TalkNext, TurnStep

-----------------------------------------------------------------------------
LEMMA TalkInitially == TalkInit => TalkInv
<1> SUFFICES ASSUME TalkInit PROVE TalkInv
  OBVIOUS
<1>1. TalkTypeOK
  <2>1. MaxTalk \in Nat /\ SelfHistory \in Nat /\ Len(log) = 0 /\ 0 \in 0..MaxTalk
    BY ConversationAssumption DEF TalkInit
  <2>2. log \in Seq(Utterances) /\ selfMessages \in Seq(Texts) /\ Len(selfMessages) = 0
    BY DEF TalkInit
  <2>3. /\ windows \in [Interlocutors -> 0..clock \cup {Closed}]
        /\ namedAt \in [Interlocutors -> 0..clock \cup {Never}]
        /\ endedAt \in [Interlocutors -> 0..cursor]
    BY DEF TalkInit
  <2>4. /\ pc \in [Turns -> {"idle", "asking", "sending", "gone", "dead"}]
        /\ \A t \in Turns : pending[t] = <<>> /\ pc[t] = "idle"
        /\ draft \in [Turns -> Texts \cup {NoText}]
    BY DEF TalkInit
  <2>5. /\ style \in {"human", "original"} /\ overlapped \in BOOLEAN
        /\ triggerMode \in {"reactive", "periodic", "on_perception"}
        /\ phase \in {"running", "draining", "ended"}
    BY DEF TalkInit
  <2>6. /\ clock \in 0..MaxTalk /\ cursor \in 0..Len(log) /\ lastTriggerAt \in 0..clock
        /\ lastAgentMessageAt \in 0..clock \cup {Never}
    BY <2>1 DEF TalkInit
  <2> QED
    BY <2>1, <2>2, <2>3, <2>4, <2>5, <2>6 DEF TalkTypeOK
<1>2. PromptsKept
  <2>1. <<>> \in Seq(Prompts)
    OBVIOUS
  <2> QED
    BY <2>1 DEF TalkInit, PromptsKept
<1>3. OneAtATime
  BY DEF TalkInit, OneAtATime, Busy
<1>4. Invited
  BY DEF TalkInit, Invited
<1>5. Attended
  <2>1. ASSUME NEW p \in Interlocutors PROVE namedAt[p] <= lastTriggerAt /\ ~NamedSinceTheEnd(p, cursor)
    <3>1. namedAt[p] = -1 /\ lastTriggerAt = 0 /\ endedAt[p] = 0 /\ cursor = 0
      BY DEF TalkInit, Never
    <3>2. endedAt[p] + 1 .. cursor = {}
      BY <3>1
    <3> QED
      BY <3>1, <3>2 DEF NamedSinceTheEnd
  <2> QED
    BY <2>1 DEF Attended
<1> QED
  BY <1>1, <1>2, <1>3, <1>4, <1>5 DEF TalkInv

LEMMA TalkStepwise == TalkInv /\ [TalkNext]_talkVars => TalkInv'
<1> SUFFICES ASSUME TalkInv, [TalkNext]_talkVars PROVE TalkInv'
  OBVIOUS
<1>1. TalkTypeOK /\ PromptsKept /\ OneAtATime /\ Invited /\ Attended
  BY DEF TalkInv
<1>2. TalkTypeOK' /\ PromptsKept'
  BY <1>1, RunOnceTypes, SkipTypes, ReactTypes, RouteTypes, FailTypes, AroundTypes
     DEF TalkNext, TurnStep
<1>3. OneAtATime'
  BY <1>1, OneAtATimeStep
<1>4. Invited' /\ Attended'
  BY <1>1, WindowsStep
<1> QED
  BY <1>2, <1>3, <1>4 DEF TalkInv

THEOREM TalkInductive == TalkSpec => []TalkInv
  BY TalkInitially, TalkStepwise, PTL DEF TalkSpec

(* Every variable of the Senser and of the Reactor stays in its range.     *)
THEOREM TalkTypes == TalkSpec => []TalkTypeOK
<1>1. TalkInv => TalkTypeOK
  BY DEF TalkInv
<1> QED
  BY <1>1, TalkInductive, PTL

(* As long as turns do not overlap, no message is sent that the agent      *)
(* remembers to have sent.                                                 *)
THEOREM NothingRepeated == TalkSpec => NoRepetition
<1>1. ASSUME TalkInv, NEW t \in Turns, style = "human", ~overlapped, Route(t)
      PROVE  \A k \in 1..Len(selfMessages) : selfMessages[k] # draft[t]
  BY <1>1 DEF TalkInv, OneAtATime, Route
<1>2. TalkInv /\ [TalkNext]_talkVars =>
        [\A t \in Turns : style = "human" /\ ~overlapped /\ Route(t) =>
            \A k \in 1..Len(selfMessages) : selfMessages[k] # draft[t]]_talkVars
  BY <1>1
<1> QED
  BY <1>2, TalkInductive, PTL DEF TalkSpec, NoRepetition

-----------------------------------------------------------------------------
(* A step gives a waiting turn triggers only if it is its tick.            *)
LEMMA OnlyATickPrompts ==
    ASSUME TalkTypeOK, PromptsKept, [TalkNext]_talkVars, NEW t \in Turns, pc[t] = "idle",
           pending'[t] # <<>>
    PROVE  RunOnce(t) /\ pending'[t] = Triggers
<1>1. pending[t] = <<>>
  BY DEF PromptsKept
<1>2. ASSUME NEW u \in Turns, Skip(u) \/ React(u) \/ Route(u) PROVE FALSE
  <2>1. pc[u] \in Busy /\ u # t
    BY <1>2 DEF Skip, React, Route, Busy
  <2>2. Tail(pending[u]) \in Seq(Prompts)
    BY <2>1, StillPending
  <2>3. GoOnWith(u, Tail(pending[u])) \/ pending' = pending
    BY <1>2 DEF Skip, React, Route, AnswerHuman, AnswerOriginal
  <2>4. pending'[t] = pending[t]
    BY <2>1, <2>2, <2>3, GoesOn
  <2> QED
    BY <1>1, <2>4
<1>3. ASSUME NEW u \in Turns, TurnFails(u) PROVE FALSE
  BY <1>1, <1>3 DEF TurnFails, PromptsKept
<1>4. ASSUME Perceive \/ TimePasses \/ Drain \/ EndTalk \/ UNCHANGED talkVars PROVE FALSE
  BY <1>1, <1>4 DEF Perceive, TimePasses, Drain, EndTalk, talkVars, turnVars
<1>5. PICK u \in Turns : RunOnce(u)
  BY <1>2, <1>3, <1>4 DEF TalkNext, TurnStep
<1>6. Triggers \in Seq(Prompts) /\ GoOnWith(u, Triggers)
  BY <1>5, TickTriggers DEF RunOnce
<1>7. u = t
  BY <1>1, <1>6, GoesOn
<1> QED
  BY <1>5, <1>6, <1>7, GoesOn

LEMMA AnswersTheInvited ==
    ASSUME TalkInv, [TalkNext]_talkVars, NEW t \in Turns, pc[t] = "idle", triggerMode = "reactive",
           NEW k \in 1..Len(pending'[t]), pending'[t][k].at # 0
    PROVE  /\ pending'[t][k].to \in Interlocutors
           /\ NamedSinceTheEnd(pending'[t][k].to, pending'[t][k].at)
<1>1. TalkTypeOK /\ PromptsKept /\ Invited
  BY DEF TalkInv
<1>2. pending'[t] # <<>>
  OBVIOUS
<1>3. pending'[t] = ReactiveTriggers
  BY <1>1, <1>2, OnlyATickPrompts, TickTriggers
<1>4. Answered # {}
  <2>1. /\ Len(Unprompted("idle_comment")) = 1
        /\ Unprompted("idle_comment")[1].at = 0
    BY OneUnprompted DEF Kinds
  <2>2. SUFFICES ASSUME Answered = {} PROVE FALSE
    OBVIOUS
  <2>3. pending'[t] = Unprompted("idle_comment")
    BY <1>1, <1>2, <1>3, <2>2, ReactiveTick
  <2>4. k = 1
    BY <2>1, <2>3
  <2> QED
    BY <2>1, <2>3, <2>4
<1>5. PICK i \in Answered : pending'[t][k] = TriggerOf(i)
  BY <1>1, <1>3, <1>4, ReactiveTick
<1>6. pending'[t][k].at = i /\ pending'[t][k].to = log[i].who
  BY <1>5 DEF TriggerOf
<1> QED
  BY <1>1, <1>6, AnsweredWasInvited

(* No idle tick finds anybody waiting.                                     *)
LEMMA IdleInSilence ==
    ASSUME TalkInv, [TalkNext]_talkVars, NEW t \in Turns, pc[t] = "idle",
           pending'[t] = Unprompted("idle_comment"),
           NEW p \in Interlocutors, namedAt[p] # Never
    PROVE  /\ clock - namedAt[p] >= IdleInterval
           /\ clock - namedAt[p] > WindowTTL \/ ~NamedSinceTheEnd(p, cursor)
<1>1. TalkTypeOK /\ PromptsKept /\ Attended
  BY DEF TalkInv
<1>2. pending'[t] # <<>>
  <2>1. Unprompted("idle_comment") \in Seq(Prompts) /\ Len(Unprompted("idle_comment")) = 1
    BY OneUnprompted DEF Kinds
  <2> QED
    BY <2>1
<1>3. triggerMode = "reactive" /\ IdleIsDue
  BY <1>1, <1>2, OnlyATickPrompts, TickTriggers
<1>4. /\ clock \in Nat /\ lastTriggerAt \in 0..clock /\ IdleInterval \in Nat /\ WindowTTL \in Nat
      /\ namedAt[p] \in 0..clock \cup {Never} /\ windows[p] \in 0..clock \cup {Closed}
  BY <1>1, ConversationAssumption DEF TalkTypeOK
<1>5. namedAt[p] <= lastTriggerAt
  BY <1>1, <1>3 DEF Attended
<1>6. clock - namedAt[p] >= IdleInterval
  BY <1>3, <1>4, <1>5 DEF IdleIsDue, Never
<1>7. ASSUME NamedSinceTheEnd(p, cursor) PROVE clock - namedAt[p] > WindowTTL
  <2>1. \/ clock - namedAt[p] > WindowTTL
        \/ windows[p] # Closed /\ namedAt[p] <= windows[p]
    BY <1>1, <1>3, <1>7 DEF Attended
  <2>2. windows[p] = Closed \/ ~(clock - windows[p] <= WindowTTL)
    BY <1>3 DEF IdleIsDue, OpenWindows
  <2> QED
    BY <1>4, <2>1, <2>2 DEF Never, Closed
<1> QED
  BY <1>6, <1>7

(* Nobody is answered who did not name the agent since it last took leave  *)
(* of them, and the agent speaks unasked only into a silence.              *)
THEOREM SpeaksWhenSpokenTo == TalkSpec => SpeaksOnCue
<1>1. TalkInv /\ [TalkNext]_talkVars =>
        [\A t \in Turns : pc[t] = "idle" /\ triggerMode = "reactive" =>
            \A k \in 1..Len(pending'[t]) :
                LET trigger == pending'[t][k] IN
                trigger.at # 0 =>
                    trigger.to \in Interlocutors /\ NamedSinceTheEnd(trigger.to, trigger.at)]_talkVars
  BY AnswersTheInvited
<1>2. TalkInv /\ [TalkNext]_talkVars =>
        [\A t \in Turns : pc[t] = "idle" /\ pending'[t] = Unprompted("idle_comment") =>
            \A p \in Interlocutors : namedAt[p] # Never =>
                /\ clock - namedAt[p] >= IdleInterval
                /\ clock - namedAt[p] > WindowTTL \/ ~NamedSinceTheEnd(p, cursor)]_talkVars
  BY IdleInSilence
<1>3. TalkSpec => AnswersOnlyTheInvited
  BY <1>1, TalkInductive, PTL DEF TalkSpec, AnswersOnlyTheInvited
<1>4. TalkSpec => IdleOnlyInSilence
  BY <1>2, TalkInductive, PTL DEF TalkSpec, IdleOnlyInSilence
<1> QED
  BY <1>3, <1>4 DEF SpeaksOnCue
==============================================================================
