---------------------------- MODULE Conversation ----------------------------
(***************************************************************************)
(* src/src/minnarone/senser.py and reactor.py: what makes the agent speak, *)
(* and to whom.  The Senser reads the store from its cursor, keeps a       *)
(* window per interlocutor and emits triggers; the Reactor asks the model  *)
(* about each one, passes the answer through HumanLikeness (human.py) or   *)
(* the original-chat normalizer, and tells the Senser that it spoke.  The  *)
(* Reactor's loop and the last tick of Agent.run can overlap.              *)
(*                                                                         *)
(* Public messages are in PublicOutput: here the output is private, and    *)
(* what matters is who is answered, when, and with what memory.            *)
(***************************************************************************)
EXTENDS Ordering, Integers, Sequences, FiniteSets

CONSTANTS
    Viewers, Streamer,      \* the possible interlocutors
    Guest,                  \* an audio speaker that is not the streamer
    Bot,                    \* _bot_identity, as its own chat echo
    Texts, NoText,          \* what the model may say; the empty message
    IdleInterval, WindowTTL, ContinuationWindow, Period,
    SelfHistory,            \* maxlen of _self_messages
    MaxTalk, MaxLog        \* bounds of the model

ASSUME ConversationAssumption ==
    /\ {IdleInterval, WindowTTL, ContinuationWindow, Period, MaxTalk, MaxLog} \subseteq Nat
    /\ SelfHistory \in Nat \ {0}
    /\ NoText \notin Texts

VARIABLES
    style,          \* "human" | "original": how the Reactor treats an answer
    triggerMode,    \* trigger_mode
    clock,
    log,            \* the store
    \* the Senser
    cursor, windows, lastTriggerAt, lastAgentMessageAt,
    \* the Reactor
    pc,             \* per turn: "idle" | "asking" | "sending" | "gone", or "dead" of an error
    pending,        \* per turn, the triggers it still has to answer
    draft,          \* per turn, the message being typed or routed
    selfMessages,   \* _self_messages
    phase,          \* "running" | "draining" | "ended"
    \* history
    namedAt,        \* per interlocutor, when its last mention was read
    endedAt,        \* per interlocutor, the cursor when #end_conv last came
    overlapped      \* two turns were under way at once

senserVars == <<cursor, windows, lastTriggerAt>>
turnVars == <<pc, pending, draft>>
talkVars == <<style, triggerMode, clock, log, senserVars, lastAgentMessageAt, turnVars,
          selfMessages, phase, namedAt, endedAt, overlapped>>

Interlocutors == Viewers \cup {Streamer}
Turns == {"loop", "final"}
Closed == -1
Never == -1
NoOne == "nobody"

ASSUME NobodySpeaks == NoOne \notin Interlocutors

(* Chat lines and speech.  Only what a person says may or may not name the *)
(* agent, for the others the harder case is kept; captions and events are  *)
(* nobody's, as the guest's speech is, and are left out.                   *)
Utterances ==
    [source : {"chat"}, who : Viewers, mention : BOOLEAN]
    \cup [source : {"audio"}, who : {Streamer}, mention : BOOLEAN]
    \cup [source : {"chat"}, who : {Bot}, mention : {TRUE}]
    \cup [source : {"audio"}, who : {Guest}, mention : {TRUE}]

TalkInit ==
    /\ style \in {"human", "original"}
    /\ triggerMode \in {"reactive", "periodic", "on_perception"}
    /\ clock = 0
    /\ log = <<>>
    /\ cursor = 0
    /\ windows = [p \in Interlocutors |-> Closed]
    /\ lastTriggerAt = 0
    /\ lastAgentMessageAt = Never
    /\ pc = [t \in Turns |-> "idle"]
    /\ pending = [t \in Turns |-> <<>>]
    /\ draft = [t \in Turns |-> NoText]
    /\ selfMessages = <<>>
    /\ phase = "running"
    /\ namedAt = [p \in Interlocutors |-> Never]
    /\ endedAt = [p \in Interlocutors |-> 0]
    /\ overlapped = FALSE

-----------------------------------------------------------------------------
(* The Senser                                                              *)

IsSelf(p) == p.source = "chat" /\ p.who = Bot

(* Whom a perception may come from, in the sense of _classify.             *)
HasInterlocutor(p) ==
    /\ ~IsSelf(p)
    /\ \/ p.source = "chat"
       \/ p.source = "audio" /\ p.who = Streamer

(* The windows _expire_windows leaves.                                     *)
OpenWindows == {p \in Interlocutors : windows[p] # Closed /\ clock - windows[p] <= WindowTTL}

AgentSpokeLately ==
    lastAgentMessageAt # Never /\ clock - lastAgentMessageAt <= ContinuationWindow

(* At i, somebody who can be answered names the agent.                     *)
Names(who, i) == HasInterlocutor(log[i]) /\ log[i].mention /\ log[i].who = who

NewOnes == cursor + 1 .. Len(log)

(* Perception i reaches a window that is open, or that an earlier mention  *)
(* of the same tick opened.                                                *)
InWindow(i) ==
    \/ log[i].who \in OpenWindows
    \/ \E j \in NewOnes : j < i /\ Names(log[i].who, j)

Continues(i) == InWindow(i) /\ AgentSpokeLately

Classified(i) == HasInterlocutor(log[i]) /\ (log[i].mention \/ Continues(i))

TriggerOf(i) == [kind |-> IF log[i].mention THEN "mention" ELSE "continuation",
                 at |-> i, to |-> log[i].who]
Unprompted(kind) == <<[kind |-> kind, at |-> 0, to |-> NoOne]>>

(* A fault: the idle timer does not look at the windows.                   *)
IdleIsDueAnyway == clock - lastTriggerAt >= IdleInterval

IdleIsDue == clock - lastTriggerAt >= IdleInterval /\ OpenWindows = {}

(* _tick_reactive: those who speak to the agent, else an idle comment.     *)
ReactiveTriggers ==
    LET answered == {i \in NewOnes : Classified(i)}
        order == Upwards(answered)
    IN
    IF answered # {} THEN [k \in DOMAIN order |-> TriggerOf(order[k])]
    ELSE IF IdleIsDue THEN Unprompted("idle_comment") ELSE <<>>

(* _tick_on_perception: every speech is a trigger.                         *)
SpeechTriggers ==
    LET order == Upwards({i \in NewOnes : log[i].source = "audio"})
    IN [k \in DOMAIN order |->
            [kind |-> "suggestion_eval", at |-> order[k], to |-> log[order[k]].who]]

(* _tick_periodic                                                          *)
PeriodicTriggers ==
    IF clock - lastTriggerAt >= Period THEN Unprompted("synthesis_tick") ELSE <<>>

Triggers == CASE triggerMode = "reactive" -> ReactiveTriggers
              [] triggerMode = "on_perception" -> SpeechTriggers
              [] triggerMode = "periodic" -> PeriodicTriggers

(* What a tick leaves in the Senser.  The periodic one does not read the   *)
(* store, the speech one has no timer.                                     *)
SenserTick ==
    LET touched == {Triggers[k].to : k \in 1..Len(Triggers)} IN
    /\ windows' = IF triggerMode # "reactive" THEN windows
                  ELSE [p \in Interlocutors |->
                            IF p \in touched THEN clock
                            ELSE IF p \in OpenWindows THEN windows[p] ELSE Closed]
    /\ cursor' = IF triggerMode = "periodic" THEN cursor ELSE Len(log)
    /\ lastTriggerAt' = IF triggerMode = "on_perception" \/ Triggers = <<>>
                        THEN lastTriggerAt ELSE clock
    /\ namedAt' = [p \in Interlocutors |->
                    IF triggerMode = "reactive" /\ \E i \in NewOnes : Names(p, i)
                    THEN clock ELSE namedAt[p]]

-----------------------------------------------------------------------------
(* The Reactor                                                             *)

MayRun(t) == phase = "draining" \/ (phase = "running" /\ t = "loop")

(* The turn goes on with these triggers; the last tick has no other.       *)
GoOnWith(t, triggers) ==
    /\ pending' = [pending EXCEPT ![t] = triggers]
    /\ pc' = [pc EXCEPT ![t] = IF triggers # <<>> THEN "asking"
                               ELSE IF t = "final" THEN "gone" ELSE "idle"]

(* run_once, up to the first question to the model.                        *)
RunOnce(t) ==
    /\ MayRun(t)
    /\ pc[t] = "idle"
    /\ SenserTick
    /\ GoOnWith(t, Triggers)
    /\ overlapped' = (overlapped \/ \E u \in Turns \ {t} : pc[u] \in {"asking", "sending"})
    /\ UNCHANGED <<style, triggerMode, clock, log, lastAgentMessageAt, draft, selfMessages, phase,
                   endedAt>>

(* A fault: an error of the model ends the whole turn.                     *)
SkipTurn(t) ==
    /\ pc[t] = "asking"
    /\ GoOnWith(t, <<>>)
    /\ UNCHANGED <<style, triggerMode, clock, log, senserVars, lastAgentMessageAt, draft,
                   selfMessages, phase, namedAt, endedAt, overlapped>>

(* An LLMError or #nothing: on to the next trigger.  An error of another   *)
(* kind is TurnFails.                                                      *)
Skip(t) ==
    /\ pc[t] = "asking"
    /\ GoOnWith(t, Tail(pending[t]))
    /\ UNCHANGED <<style, triggerMode, clock, log, senserVars, lastAgentMessageAt, draft,
                   selfMessages, phase, namedAt, endedAt, overlapped>>

(* A fault: the model's wish to end a conversation is not heard.           *)
CloseNothing(t, end) ==
    LET closes(p) == end /\ p = Head(pending[t]).to IN
    /\ UNCHANGED windows
    /\ endedAt' = [p \in Interlocutors |-> IF closes(p) THEN cursor ELSE endedAt[p]]

(* close_window, when the answer has #end_conv and somebody to take leave  *)
(* of.                                                                     *)
CloseIfEnded(t, end) ==
    LET closes(p) == end /\ p = Head(pending[t]).to IN
    /\ windows' = [p \in Interlocutors |-> IF closes(p) THEN Closed ELSE windows[p]]
    /\ endedAt' = [p \in Interlocutors |-> IF closes(p) THEN cursor ELSE endedAt[p]]

(* A fault: only the last message is compared.                             *)
RepeatsLast(text) == selfMessages # <<>> /\ text = selfMessages[Len(selfMessages)]

(* _is_near_duplicate                                                      *)
Repeats(text) == \E k \in 1..Len(selfMessages) : text = selfMessages[k]

(* The answer, with HumanLikeness: an empty or repeated message is dropped,*)
(* another is typed and routed.                                            *)
AnswerHuman(t, text, end) ==
    /\ style = "human"
    /\ IF text = NoText \/ Repeats(text)
       THEN GoOnWith(t, Tail(pending[t])) /\ UNCHANGED draft
       ELSE /\ pc' = [pc EXCEPT ![t] = "sending"]
            /\ draft' = [draft EXCEPT ![t] = text]
            /\ UNCHANGED pending

(* With the original-chat contract everything is displayed, but a message  *)
(* that ends the conversation is not remembered as said.                   *)
AnswerOriginal(t, text, end) ==
    /\ style = "original"
    /\ pc' = [pc EXCEPT ![t] = "sending"]
    /\ draft' = [draft EXCEPT ![t] = IF end THEN NoText ELSE text]
    /\ UNCHANGED pending

(* _react                                                                  *)
React(t) ==
    /\ pc[t] = "asking"
    /\ \E text \in Texts \cup {NoText}, end \in BOOLEAN :
        /\ CloseIfEnded(t, end)
        /\ AnswerHuman(t, text, end) \/ AnswerOriginal(t, text, end)
    /\ UNCHANGED <<style, triggerMode, clock, log, cursor, lastTriggerAt, lastAgentMessageAt,
                   selfMessages, phase, namedAt, overlapped>>

LastOf(messages) ==
    IF Len(messages) <= SelfHistory THEN messages
    ELSE SubSeq(messages, Len(messages) - SelfHistory + 1, Len(messages))

(* The message was routed: _note_self_message, then the next trigger.      *)
Route(t) ==
    /\ pc[t] = "sending"
    /\ IF draft[t] = NoText
       THEN UNCHANGED <<selfMessages, lastAgentMessageAt>>
       ELSE /\ selfMessages' = LastOf(Append(selfMessages, draft[t]))
            /\ lastAgentMessageAt' = clock
    /\ draft' = [draft EXCEPT ![t] = NoText]
    /\ GoOnWith(t, Tail(pending[t]))
    /\ UNCHANGED <<style, triggerMode, clock, log, senserVars, phase, namedAt, endedAt, overlapped>>

(* Any other error, of the store, the prompt, the model or the router,     *)
(* ends the task that called run_once, and the triggers it still had go    *)
(* with it.  Agent.run goes on: it looks at the loop's task when it ends.  *)
TurnFails(t) ==
    /\ pc[t] \in {"asking", "sending"} \/ (pc[t] = "idle" /\ MayRun(t))
    /\ pc' = [pc EXCEPT ![t] = "dead"]
    /\ pending' = [pending EXCEPT ![t] = <<>>]
    /\ draft' = [draft EXCEPT ![t] = NoText]
    /\ UNCHANGED <<style, triggerMode, clock, log, senserVars, lastAgentMessageAt, selfMessages,
                   phase, namedAt, endedAt, overlapped>>

-----------------------------------------------------------------------------
(* A perception is appended.                                               *)
Perceive ==
    /\ phase = "running"
    /\ Len(log) < MaxLog
    /\ \E p \in Utterances : log' = Append(log, p)
    /\ UNCHANGED <<style, triggerMode, clock, senserVars, lastAgentMessageAt, turnVars, selfMessages,
                   phase, namedAt, endedAt, overlapped>>

TimePasses ==
    /\ clock < MaxTalk
    /\ phase # "ended"
    /\ clock' = clock + 1
    /\ UNCHANGED <<style, triggerMode, log, senserVars, lastAgentMessageAt, turnVars, selfMessages,
                   phase, namedAt, endedAt, overlapped>>

(* The source ended: Agent.run makes a last tick of its own.               *)
Drain ==
    /\ phase = "running"
    /\ phase' = "draining"
    /\ UNCHANGED <<style, triggerMode, clock, log, senserVars, lastAgentMessageAt, turnVars,
                   selfMessages, namedAt, endedAt, overlapped>>

(* The run is over or cancelled: no turn goes further.                     *)
EndTalk ==
    /\ phase # "ended"
    /\ phase' = "ended"
    /\ pc' = [t \in Turns |-> "gone"]
    /\ UNCHANGED <<style, triggerMode, clock, log, senserVars, lastAgentMessageAt, pending, draft,
                   selfMessages, namedAt, endedAt, overlapped>>

TurnStep(t) == RunOnce(t) \/ Skip(t) \/ React(t) \/ Route(t)

TalkNext ==
    \/ \E t \in Turns : TurnStep(t) \/ TurnFails(t)
    \/ Perceive
    \/ TimePasses
    \/ Drain
    \/ EndTalk

TalkSpec == TalkInit /\ [][TalkNext]_talkVars

(* Both tasks are scheduled again and again, and every call of the model   *)
(* returns: it has a timeout.  Nothing ever has to fail.                   *)
TalkFairness == \A t \in Turns : WF_talkVars(TurnStep(t))

-----------------------------------------------------------------------------
(* Every variable stays in its range, and a turn is under way exactly      *)
(* while it has triggers to answer.                                        *)
TalkTypeOK ==
    /\ style \in {"human", "original"}
    /\ triggerMode \in {"reactive", "periodic", "on_perception"}
    /\ phase \in {"running", "draining", "ended"}
    /\ overlapped \in BOOLEAN
    /\ clock \in 0..MaxTalk
    /\ log \in Seq(Utterances)
    /\ cursor \in 0..Len(log)
    /\ windows \in [Interlocutors -> 0..clock \cup {Closed}]
    /\ lastTriggerAt \in 0..clock
    /\ lastAgentMessageAt \in 0..clock \cup {Never}
    /\ pc \in [Turns -> {"idle", "asking", "sending", "gone", "dead"}]
    /\ \A t \in Turns : phase # "ended" => (pending[t] # <<>> <=> pc[t] \in {"asking", "sending"})
    /\ draft \in [Turns -> Texts \cup {NoText}]
    /\ selfMessages \in Seq(Texts)
    /\ Len(selfMessages) <= SelfHistory
    /\ namedAt \in [Interlocutors -> 0..clock \cup {Never}]
    /\ endedAt \in [Interlocutors -> 0..cursor]

(* A person the agent answers has named it, at that moment or earlier in a *)
(* conversation that the agent has not ended since.  NoOne else is        *)
(* answered: not a guest, not the agent's own echo.                        *)
NamedSinceTheEnd(who, i) == \E j \in endedAt[who] + 1 .. i : Names(who, j)

AnswersOnlyTheInvited ==
    [][\A t \in Turns : pc[t] = "idle" /\ triggerMode = "reactive" =>
        \A k \in 1..Len(pending'[t]) :
            LET trigger == pending'[t][k] IN
            trigger.at # 0 =>
                trigger.to \in Interlocutors /\ NamedSinceTheEnd(trigger.to, trigger.at)]_talkVars

(* An idle comment comes only into a silence: nobody named the agent       *)
(* within the idle interval, and whoever did within the window's life was  *)
(* taken leave of since.                                                   *)
IdleOnlyInSilence ==
    [][\A t \in Turns : pc[t] = "idle" /\ pending'[t] = Unprompted("idle_comment") =>
        \A p \in Interlocutors : namedAt[p] # Never =>
            /\ clock - namedAt[p] >= IdleInterval
            /\ clock - namedAt[p] > WindowTTL \/ ~NamedSinceTheEnd(p, cursor)]_talkVars

(* To whom the agent speaks, and when it speaks unasked.                   *)
SpeaksOnCue == AnswersOnlyTheInvited /\ IdleOnlyInSilence

(* The agent does not send again one of the messages it remembers, as long *)
(* as only one turn is under way at a time: the comparison is made before  *)
(* the message is typed and routed, the memory is written after.           *)
NoRepetition ==
    [][\A t \in Turns : style = "human" /\ ~overlapped /\ Route(t) =>
        \A k \in 1..Len(selfMessages) : selfMessages[k] # draft[t]]_talkVars

(* Everyone who names the agent is considered, though the model failed or  *)
(* had nothing to say to the triggers before theirs, unless the run ends   *)
(* first or a Reactor has died of an error that it does not survive.       *)
EveryMentionIsConsidered ==
    \A i \in 1..MaxLog :
        /\ triggerMode = "reactive"
        /\ cursor < i /\ i <= Len(log)
        /\ HasInterlocutor(log[i]) /\ log[i].mention
        ~> \/ phase = "ended"
           \/ \E t \in Turns :
                pc[t] = "dead" \/ (pending[t] # <<>> /\ Head(pending[t]).at = i)
=============================================================================
