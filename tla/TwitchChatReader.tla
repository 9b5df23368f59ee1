-------------------------- MODULE TwitchChatReader --------------------------
(***************************************************************************)
(* TwitchChatReader (src/src/minnarone/twitch_chat.py) in the hands of its *)
(* worker in merge.py: start() with its handshake, the lines that events() *)
(* reads, and stop(), with a cancellation at any await.                    *)
(*                                                                         *)
(* A line is what the two parsers make of it: a message with its speaker,  *)
(* a PING, a notice that is fatal, or anything else.                       *)
(***************************************************************************)
EXTENDS Integers, Sequences

CONSTANT MaxLines       \* bound of the model

ASSUME LinesAssumption == MaxLines \in Nat

VARIABLES
    chatWorker,     \* where the worker is
    chatLink,       \* "none" | "open" | "lost" | "closed"
    chatStream,     \* _stream is set
    chatRunning,    \* _running
    handshake,      \* lines of the handshake written
    chatLines,      \* lines read, as the server sent them
    chatEvents,     \* events yielded: the positions of their lines
    pongs,          \* the positions of the PINGs that were answered
    chatStop        \* stop(): "idle" | "closing" | "done" | "timedOut"

lineVars == <<chatLines, chatEvents, pongs>>
chatVars == <<chatWorker, chatLink, chatStream, chatRunning, handshake, lineVars, chatStop>>

LineKinds == {"message", "ping", "fatal", "other"}

ChatInit ==
    /\ chatWorker = "connecting"
    /\ chatLink = "none"
    /\ chatStream = FALSE
    /\ chatRunning = FALSE
    /\ handshake = 0
    /\ chatLines = <<>>
    /\ chatEvents = <<>>
    /\ pongs = <<>>
    /\ chatStop = "idle"

-----------------------------------------------------------------------------
ConnectChat ==
    /\ chatWorker = "connecting"
    /\ \/ chatLink' = "open" /\ chatWorker' = "joining"
       \/ chatWorker' = "raised" /\ UNCHANGED chatLink
    /\ UNCHANGED <<chatStream, chatRunning, handshake, lineVars, chatStop>>

(* CAP, PASS, NICK and JOIN, one await each; the stream is the reader's    *)
(* when the last is written.                                               *)
WriteHandshake ==
    /\ chatWorker = "joining"
    /\ chatLink = "open"
    /\ handshake' = handshake + 1
    /\ chatStream' = (handshake' = 4)
    /\ chatRunning' = (handshake' = 4)
    /\ chatWorker' = IF handshake' = 4 THEN "reading" ELSE "joining"
    /\ UNCHANGED <<chatLink, lineVars, chatStop>>

(* A fault: the handshake cleans up after errors only.                     *)
LeaveJoiningOnError ==
    /\ chatWorker = "joining"
    /\ \/ chatLink = "lost" /\ chatWorker' = "raised" /\ chatLink' = "closed"
       \/ chatWorker' = "cancelled" /\ UNCHANGED chatLink
    /\ UNCHANGED <<chatStream, chatRunning, handshake, lineVars, chatStop>>

(* It fails or is cancelled in between: start() closes what it opened.     *)
LeaveJoining ==
    /\ chatWorker = "joining"
    /\ chatWorker' \in {"cancelled"} \cup (IF chatLink = "lost" THEN {"raised"} ELSE {})
    /\ chatLink' = "closed"
    /\ UNCHANGED <<chatStream, chatRunning, handshake, lineVars, chatStop>>

LoseChatLink ==
    /\ chatLink = "open"
    /\ chatLink' = "lost"
    /\ UNCHANGED <<chatWorker, chatStream, chatRunning, handshake, lineVars, chatStop>>

(* events(): a line, and what becomes of it.                               *)
ReadLine(kind) ==
    /\ chatWorker = "reading"
    /\ chatRunning
    /\ chatLink = "open"
    /\ Len(chatLines) < MaxLines
    /\ chatLines' = Append(chatLines, kind)
    /\ chatEvents' = IF kind = "message" THEN Append(chatEvents, Len(chatLines')) ELSE chatEvents
    /\ chatWorker' = CASE kind = "ping" -> "ponging"
                       [] kind = "fatal" -> "raised"
                       [] OTHER -> "reading"
    /\ UNCHANGED <<chatLink, chatStream, chatRunning, handshake, pongs, chatStop>>

Pong ==
    /\ chatWorker = "ponging"
    /\ \/ /\ chatLink = "open"
          /\ pongs' = Append(pongs, Len(chatLines))
          /\ chatWorker' = "reading"
       \/ chatLink = "lost" /\ chatWorker' = "raised" /\ UNCHANGED pongs
    /\ UNCHANGED <<chatLink, chatStream, chatRunning, handshake, chatLines, chatEvents, chatStop>>

(* readline() gives nothing at the end of the connection, or raises.       *)
ReadEnd ==
    /\ chatWorker = "reading"
    /\ chatLink # "open"
    /\ chatWorker' \in {"returned", "raised"}
    /\ UNCHANGED <<chatLink, chatStream, chatRunning, handshake, lineVars, chatStop>>

CancelChat ==
    /\ chatWorker \in {"connecting", "reading", "ponging"}
    /\ chatWorker' = "cancelled"
    /\ UNCHANGED <<chatLink, chatStream, chatRunning, handshake, lineVars, chatStop>>

(* stop() forgets the stream before it waits for it to close.              *)
StopChat ==
    /\ chatWorker \in {"returned", "raised", "cancelled"}
    /\ chatStop = "idle"
    /\ chatRunning' = FALSE
    /\ chatStream' = FALSE
    /\ chatLink' = IF chatStream THEN "closed" ELSE chatLink
    /\ chatStop' = IF chatStream THEN "closing" ELSE "done"
    /\ UNCHANGED <<chatWorker, handshake, lineVars>>

EndChatStop ==
    /\ chatStop = "closing"
    /\ chatStop' \in {"done", "timedOut"}
    /\ UNCHANGED <<chatWorker, chatLink, chatStream, chatRunning, handshake, lineVars>>

ChatNext ==
    \/ ConnectChat \/ WriteHandshake \/ LeaveJoining \/ LoseChatLink
    \/ \E kind \in LineKinds : ReadLine(kind)
    \/ Pong \/ ReadEnd \/ CancelChat \/ StopChat \/ EndChatStop

ChatSpec == ChatInit /\ [][ChatNext]_chatVars

-----------------------------------------------------------------------------
ChatTypeOK ==
    /\ chatWorker \in {"connecting", "joining", "reading", "ponging", "returned", "raised", "cancelled"}
    /\ chatLink \in {"none", "open", "lost", "closed"}
    /\ {chatStream, chatRunning} \subseteq BOOLEAN
    /\ handshake \in 0..4
    /\ chatLines \in Seq(LineKinds)
    /\ chatStop \in {"idle", "closing", "done", "timedOut"}

(* However the worker ends, its connection does not outlive stop(), also   *)
(* when start() was cut short and the reader does not know it.             *)
ConnectionEndsWithReader ==
    /\ chatStop # "idle" => chatLink \in {"none", "lost", "closed"} /\ ~chatStream /\ ~chatRunning
    /\ chatLink = "open" => chatStream \/ chatWorker = "joining"

(* Each PING is answered before the next line is read, and the messages    *)
(* are those that came between, in their order.                            *)
LinesAreServed ==
    LET n == Len(chatLines) IN
    /\ \A i \in 1..n : chatLines[i] = "ping" =>
        \/ \E k \in 1..Len(pongs) : pongs[k] = i
        \/ i = n /\ chatWorker # "reading"
    /\ \A i \in 1..(Len(chatEvents) - 1) : chatEvents[i] < chatEvents[i + 1]
    /\ \A i \in 1..n : chatLines[i] = "message" <=> \E k \in 1..Len(chatEvents) : chatEvents[k] = i
    /\ \A i \in 1..n : chatLines[i] = "fatal" => i = n /\ chatWorker = "raised"

ChatIsRead == ConnectionEndsWithReader /\ LinesAreServed
=============================================================================
