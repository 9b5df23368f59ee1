-------------------------- MODULE TwitchChatSender --------------------------
(***************************************************************************)
(* src/src/minnarone/twitch_chat_sender.py: the one writer of the public   *)
(* chat.  A sender is started once, by Agent.run; it may then be stopped   *)
(* by the token guard, by the end of the run, or by both at once.  Its own *)
(* tasks are the ping loop of the current stream and the reconnect loop.   *)
(*                                                                         *)
(* Every action is the code between two awaits of one task.  The streams   *)
(* are asyncio's: who waits on a broken or closed one is woken at once,    *)
(* long before the backoff of a second or more runs out.                   *)
(***************************************************************************)
EXTENDS Integers, FiniteSets

CONSTANTS
    Streams,        \* identities of IRC streams, reused once nothing refers to them
    NoStream,       \* None
    Stoppers,       \* who may call stop()
    Sends           \* sends that may be in flight at once

ASSUME StreamAssumption == NoStream \notin Streams

VARIABLES
    connected,      \* _connected
    stopped,        \* _stopped
    reconnecting,   \* _reconnecting
    stream,         \* _stream
    pingTask,       \* _ping_task, by the stream its loop reads
    connect,        \* per task that runs _do_connect, where it is
    joining,        \* per task that runs _do_connect, the stream of its handshake
    loopCancelled,  \* cancel() was called on the reconnect loop
    ping,           \* per stream, where its ping loop is
    pingCancelled,  \* the ping loops cancel() was called on
    sending,        \* per send, the stream it awaits
    stopPc,         \* per stop(), what it awaits
    closing,        \* per stop(), the stream it closes
    link            \* per stream, the connection behind it

loopVars == <<reconnecting, connect, joining, loopCancelled>>
pingVars == <<pingTask, ping, pingCancelled>>
stopVars == <<stopPc, closing>>
vars == <<connected, stopped, stream, loopVars, pingVars, sending, stopVars, link>>

Connectors == {"start", "loop"}
LoopAlive == connect["loop"] \in {"created", "sleeping", "connecting", "joining"}
Started == connect["start"] = "done"

Init ==
    /\ connected = FALSE
    /\ stopped = TRUE
    /\ reconnecting = FALSE
    /\ stream = NoStream
    /\ pingTask = NoStream
    /\ connect = [c \in Connectors |-> "none"]
    /\ joining = [c \in Connectors |-> NoStream]
    /\ loopCancelled = FALSE
    /\ ping = [s \in Streams |-> "none"]
    /\ pingCancelled = {}
    /\ sending = [x \in Sends |-> NoStream]
    /\ stopPc = [t \in Stoppers |-> "idle"]
    /\ closing = [t \in Stoppers |-> NoStream]
    /\ link = [s \in Streams |-> "none"]

-----------------------------------------------------------------------------
(* _schedule_reconnect                                                     *)
Schedule ==
    IF stopped \/ reconnecting
    THEN UNCHANGED <<reconnecting, connect>>
    ELSE reconnecting' = TRUE /\ connect' = [connect EXCEPT !["loop"] = "created"]

(* What a task does that finds the connection lost: nothing once stop()    *)
(* was called.                                                             *)
LoseConnection ==
    /\ connected' = (connected /\ stopped)
    /\ Schedule

(* Agent.run starts the sender before anything may stop it.                *)
StartSender ==
    /\ connect["start"] = "none"
    /\ \A t \in Stoppers : stopPc[t] = "idle"
    /\ stopped' = FALSE
    /\ connect' = [connect EXCEPT !["start"] = "connecting"]
    /\ UNCHANGED <<connected, reconnecting, stream, joining, loopCancelled, pingVars, sending,
                   stopVars, link>>

(* A stream nothing in the sender refers to any more.                      *)
Unused(s) ==
    /\ s # stream
    /\ link[s] # "open"
    /\ ping[s] = "none"
    /\ \A c \in Connectors : joining[c] # s
    /\ \A x \in Sends : sending[x] # s
    /\ \A t \in Stoppers : closing[t] # s

Cancelled(c) == c = "loop" /\ loopCancelled

Connects(c) ==
    /\ connect[c] = "connecting"
    /\ ~Cancelled(c)
    /\ \E s \in Streams :
        /\ Unused(s)
        /\ link' = [link EXCEPT ![s] = "open"]
        /\ joining' = [joining EXCEPT ![c] = s]
    /\ connect' = [connect EXCEPT ![c] = "joining"]
    /\ UNCHANGED <<connected, stopped, reconnecting, stream, loopCancelled, pingVars, sending,
                   stopVars>>

(* A fault: the flag of the reconnect loop is left set.                    *)
JoinedForgetful(c) ==
    /\ connect[c] = "joining"
    /\ ~Cancelled(c)
    /\ stream' = joining[c]
    /\ pingTask' = joining[c]
    /\ ping' = [ping EXCEPT ![joining[c]] = "reading"]
    /\ joining' = [joining EXCEPT ![c] = NoStream]
    /\ connected' = TRUE
    /\ connect' = [connect EXCEPT ![c] = "done"]
    /\ UNCHANGED <<stopped, reconnecting, loopCancelled, pingCancelled, sending, stopVars, link>>

(* PASS, NICK and JOIN were written: the new stream takes over.            *)
Joined(c) ==
    /\ connect[c] = "joining"
    /\ ~Cancelled(c)
    /\ stream' = joining[c]
    /\ pingTask' = joining[c]
    /\ ping' = [ping EXCEPT ![joining[c]] = "reading"]
    /\ joining' = [joining EXCEPT ![c] = NoStream]
    /\ connected' = TRUE
    /\ connect' = [connect EXCEPT ![c] = "done"]
    /\ reconnecting' = (reconnecting /\ c # "loop")
    /\ UNCHANGED <<stopped, loopCancelled, pingCancelled, sending, stopVars, link>>

(* A fault: the first failure ends the reconnect loop.                     *)
AttemptFailsForGood(c) ==
    connect' = [connect EXCEPT ![c] = "failed"] /\ reconnecting' = FALSE

(* What follows an OSError in _do_connect: start() raises, the reconnect   *)
(* loop waits for its next attempt or sees that it was stopped.            *)
AttemptFails(c) ==
    IF c = "loop" /\ ~stopped
    THEN connect' = [connect EXCEPT ![c] = "sleeping"] /\ UNCHANGED reconnecting
    ELSE connect' = [connect EXCEPT ![c] = "failed"] /\ reconnecting' = FALSE

(* open_connection fails, or the handshake does and its stream is closed.  *)
ConnectFails(c) ==
    /\ ~Cancelled(c)
    /\ \/ connect[c] = "connecting" /\ UNCHANGED <<joining, link>>
       \/ /\ connect[c] = "joining"
          /\ link[joining[c]] = "broken"
          /\ link' = [link EXCEPT ![joining[c]] = "closed"]
          /\ joining' = [joining EXCEPT ![c] = NoStream]
    /\ AttemptFails(c)
    /\ UNCHANGED <<connected, stopped, stream, loopCancelled, pingVars, sending, stopVars>>

(* Nobody waits on a stream that is gone.                                  *)
Prompt ==
    \A s \in Streams : link[s] \in {"broken", "closed"} =>
        ping[s] = "none" /\ \A x \in Sends : sending[x] # s

(* The first step of the reconnect loop.                                   *)
LoopBegins ==
    /\ connect["loop"] = "created"
    /\ ~loopCancelled
    /\ connect' = [connect EXCEPT !["loop"] = IF stopped THEN "failed" ELSE "sleeping"]
    /\ reconnecting' = (reconnecting /\ ~stopped)
    /\ UNCHANGED <<connected, stopped, stream, joining, loopCancelled, pingVars, sending,
                   stopVars, link>>

(* The backoff has elapsed.                                                *)
LoopWakes ==
    /\ connect["loop"] = "sleeping"
    /\ ~loopCancelled
    /\ Prompt
    /\ connect' = [connect EXCEPT !["loop"] = IF stopped THEN "failed" ELSE "connecting"]
    /\ reconnecting' = (reconnecting /\ ~stopped)
    /\ UNCHANGED <<connected, stopped, stream, joining, loopCancelled, pingVars, sending,
                   stopVars, link>>

(* A fault: a cancelled handshake leaves its stream open.                  *)
LoopIsCancelledOpen ==
    /\ loopCancelled
    /\ LoopAlive
    /\ joining' = [joining EXCEPT !["loop"] = NoStream]
    /\ connect' = [connect EXCEPT !["loop"] = "failed"]
    /\ reconnecting' = (reconnecting /\ connect["loop"] = "created")
    /\ UNCHANGED <<connected, stopped, stream, loopCancelled, pingVars, sending, stopVars, link>>

(* CancelledError in the reconnect loop; _do_connect closes the stream of  *)
(* an unfinished handshake.  A task cancelled before its first step runs   *)
(* none of its code: not even the finally that clears the flag.            *)
LoopIsCancelled ==
    /\ loopCancelled
    /\ LoopAlive
    /\ link' = [s \in Streams |-> IF s = joining["loop"] THEN "closed" ELSE link[s]]
    /\ joining' = [joining EXCEPT !["loop"] = NoStream]
    /\ connect' = [connect EXCEPT !["loop"] = "failed"]
    /\ reconnecting' = (reconnecting /\ connect["loop"] = "created")
    /\ UNCHANGED <<connected, stopped, stream, loopCancelled, pingVars, sending, stopVars>>

-----------------------------------------------------------------------------
(* The ping loop goes on while connected and not stopped.                  *)
PingGoesOn == connected /\ ~stopped

(* A line arrives: a PING to answer or anything else.                      *)
PingReads(s) ==
    /\ ping[s] = "reading"
    /\ s \notin pingCancelled
    /\ link[s] = "open"
    /\ \/ ping' = [ping EXCEPT ![s] = "ponging"]
       \/ ping' = [ping EXCEPT ![s] = IF PingGoesOn THEN "reading" ELSE "none"]
    /\ UNCHANGED <<connected, stopped, stream, loopVars, pingTask, pingCancelled, sending,
                   stopVars, link>>

(* The PONG was written.                                                   *)
PingAnswers(s) ==
    /\ ping[s] = "ponging"
    /\ s \notin pingCancelled
    /\ link[s] # "closed"
    /\ ping' = [ping EXCEPT ![s] = IF PingGoesOn THEN "reading" ELSE "none"]
    /\ UNCHANGED <<connected, stopped, stream, loopVars, pingTask, pingCancelled, sending,
                   stopVars, link>>

(* End of file or an OSError, in the read or in the PONG.                  *)
PingLoses(s) ==
    /\ ping[s] # "none"
    /\ s \notin pingCancelled
    /\ link[s] \in {"broken", "closed"}
    /\ ping' = [ping EXCEPT ![s] = "none"]
    /\ LoseConnection
    /\ UNCHANGED <<stopped, stream, joining, loopCancelled, pingTask, pingCancelled, sending,
                   stopVars, link>>

PingIsCancelled(s) ==
    /\ ping[s] # "none"
    /\ s \in pingCancelled
    /\ ping' = [ping EXCEPT ![s] = "none"]
    /\ pingCancelled' = pingCancelled \ {s}
    /\ UNCHANGED <<connected, stopped, stream, loopVars, pingTask, sending, stopVars, link>>

-----------------------------------------------------------------------------
(* send(): refused unless connected, else the write is awaited.  A message *)
(* that breaks the protocol is refused before anything is touched.         *)
BeginSend(x) ==
    /\ sending[x] = NoStream
    /\ connected
    /\ stream # NoStream
    /\ sending' = [sending EXCEPT ![x] = stream]
    /\ UNCHANGED <<connected, stopped, stream, loopVars, pingVars, stopVars, link>>

(* The write returns; a link that broke meanwhile swallows it.             *)
SendReturns(x) ==
    /\ sending[x] # NoStream
    /\ link[sending[x]] # "closed"
    /\ sending' = [sending EXCEPT ![x] = NoStream]
    /\ UNCHANGED <<connected, stopped, stream, loopVars, pingVars, stopVars, link>>

(* A fault: any failed send, a refused message too, counts as a lost       *)
(* connection.                                                             *)
SendFailsAnyhow(x) ==
    /\ sending[x] # NoStream
    /\ sending' = [sending EXCEPT ![x] = NoStream]
    /\ connected' = FALSE
    /\ Schedule
    /\ UNCHANGED <<stopped, stream, joining, loopCancelled, pingVars, stopVars, link>>

(* The write raises OSError.                                               *)
SendFails(x) ==
    /\ sending[x] # NoStream
    /\ link[sending[x]] \in {"broken", "closed"}
    /\ sending' = [sending EXCEPT ![x] = NoStream]
    /\ connected' = FALSE
    /\ Schedule
    /\ UNCHANGED <<stopped, stream, joining, loopCancelled, pingVars, stopVars, link>>

-----------------------------------------------------------------------------
(* The third part of stop(): close the current stream, if there is one.    *)
CloseStream(t) ==
    /\ stream' = NoStream
    /\ pingTask' = NoStream
    /\ closing' = [closing EXCEPT ![t] = stream]
    /\ stopPc' = [stopPc EXCEPT ![t] = IF stream = NoStream THEN "done" ELSE "closing"]

(* A fault: the ping loop is awaited without being cancelled.              *)
EndPingPolitely(t) ==
    IF pingTask # NoStream /\ ping[pingTask] # "none"
    THEN /\ stopPc' = [stopPc EXCEPT ![t] = "ping"]
         /\ UNCHANGED <<pingCancelled, stream, pingTask, closing>>
    ELSE CloseStream(t) /\ UNCHANGED pingCancelled

(* The second part: the ping loop, awaited only while it runs.             *)
EndPing(t) ==
    IF pingTask # NoStream /\ ping[pingTask] # "none"
    THEN /\ pingCancelled' = pingCancelled \cup {pingTask}
         /\ stopPc' = [stopPc EXCEPT ![t] = "ping"]
         /\ UNCHANGED <<stream, pingTask, closing>>
    ELSE CloseStream(t) /\ UNCHANGED pingCancelled

(* stop(), its first part: the reconnect loop, awaited only while it runs. *)
StopBegins(t) ==
    /\ connect["start"] \in {"none", "done"}
    /\ stopPc[t] = "idle"
    /\ stopped' = TRUE
    /\ connected' = FALSE
    /\ IF LoopAlive
       THEN /\ loopCancelled' = TRUE
            /\ stopPc' = [stopPc EXCEPT ![t] = "loop"]
            /\ UNCHANGED <<pingCancelled, stream, pingTask, closing>>
       ELSE EndPing(t) /\ UNCHANGED loopCancelled
    /\ UNCHANGED <<reconnecting, connect, joining, ping, sending, link>>

StopAfterLoop(t) ==
    /\ stopPc[t] = "loop"
    /\ ~LoopAlive
    /\ EndPing(t)
    /\ UNCHANGED <<connected, stopped, loopVars, ping, sending, link>>

StopAfterPing(t) ==
    /\ stopPc[t] = "ping"
    /\ pingTask # NoStream => ping[pingTask] = "none"
    /\ CloseStream(t)
    /\ UNCHANGED <<connected, stopped, loopVars, ping, pingCancelled, sending, link>>

StopCloses(t) ==
    /\ stopPc[t] = "closing"
    /\ link' = [link EXCEPT ![closing[t]] = "closed"]
    /\ closing' = [closing EXCEPT ![t] = NoStream]
    /\ stopPc' = [stopPc EXCEPT ![t] = "done"]
    /\ UNCHANGED <<connected, stopped, stream, loopVars, pingVars, sending>>

(* External: the connection is lost.                                       *)
Break(s) ==
    /\ link[s] = "open"
    /\ link' = [link EXCEPT ![s] = "broken"]
    /\ UNCHANGED <<connected, stopped, stream, loopVars, pingVars, sending, stopVars>>

LoopStep == LoopBegins \/ LoopWakes \/ LoopIsCancelled
PingStep(s) == PingReads(s) \/ PingAnswers(s) \/ PingLoses(s) \/ PingIsCancelled(s)
SendStep(x) == SendReturns(x) \/ SendFails(x)
StopStep(t) == StopAfterLoop(t) \/ StopAfterPing(t) \/ StopCloses(t)

Next ==
    \/ StartSender
    \/ \E c \in Connectors : Connects(c) \/ Joined(c) \/ ConnectFails(c)
    \/ LoopStep
    \/ \E s \in Streams : PingStep(s) \/ Break(s)
    \/ \E x \in Sends : BeginSend(x) \/ SendStep(x)
    \/ \E t \in Stoppers : StopBegins(t) \/ StopStep(t)

Spec == Init /\ [][Next]_vars

(* The event loop runs every task that can go on, and the network does not *)
(* refuse or break every attempt for ever.                                 *)
Fairness ==
    /\ WF_vars(LoopStep)
    /\ \A s \in Streams : WF_vars(PingLoses(s) \/ PingAnswers(s)) /\ WF_vars(PingIsCancelled(s))
    /\ \A x \in Sends : WF_vars(SendStep(x))
    /\ \A t \in Stoppers : WF_vars(StopStep(t))
    /\ SF_vars(Connects("loop"))
    /\ SF_vars(Joined("loop"))

FairSpec == Spec /\ Fairness

-----------------------------------------------------------------------------
(* Every variable stays in its range, and a connected sender has a stream. *)
TypeOK ==
    /\ connected \in BOOLEAN
    /\ stopped \in BOOLEAN
    /\ reconnecting \in BOOLEAN
    /\ stream \in Streams \cup {NoStream}
    /\ connected => stream # NoStream
    /\ pingTask \in Streams \cup {NoStream}
    /\ connect \in [Connectors -> {"none", "created", "sleeping", "connecting", "joining", "done", "failed"}]
    /\ joining \in [Connectors -> Streams \cup {NoStream}]
    /\ loopCancelled \in BOOLEAN
    /\ ping \in [Streams -> {"none", "reading", "ponging"}]
    /\ pingCancelled \subseteq Streams
    /\ sending \in [Sends -> Streams \cup {NoStream}]
    /\ stopPc \in [Stoppers -> {"idle", "loop", "ping", "closing", "done"}]
    /\ closing \in [Stoppers -> Streams \cup {NoStream}]
    /\ link \in [Streams -> {"none", "open", "broken", "closed"}]

(* A sender that lost its connection always has a reconnect loop at work,  *)
(* whoever noticed the loss, and the flag that keeps a second one out is   *)
(* set exactly while there is one.  A connected one has a loop that        *)
(* answers the server's PINGs on the stream it writes to.                  *)
NeverStranded ==
    /\ Started /\ ~stopped => (LoopAlive <=> ~connected) /\ (reconnecting <=> LoopAlive)
    /\ connected => pingTask = stream /\ ping[stream] # "none"

(* The channel is never joined twice at once: a new stream is opened only  *)
(* when the old one is gone.                                               *)
OneConnection == Cardinality({s \in Streams : link[s] = "open"}) <= 1

(* Once every stop() that was called has returned, nothing of the sender   *)
(* is left: no task, no open stream, from whatever state it was stopped.   *)
StoppedIsQuiet ==
    /\ Started
    /\ \E t \in Stoppers : stopPc[t] = "done"
    /\ \A t \in Stoppers : stopPc[t] \in {"idle", "done"}
    =>
    /\ ~LoopAlive
    /\ \A s \in Streams : ping[s] = "none" /\ link[s] # "open"

(* No stream is left open beside the one in use, nor after a stop().       *)
NoConnectionLeaks == OneConnection /\ StoppedIsQuiet

(* A lost connection comes back, unless the sender is stopped.             *)
Recovers == Started /\ ~connected ~> connected \/ stopped

(* stop() returns, however many callers there are.                         *)
StopReturns == \A t \in Stoppers : stopPc[t] # "idle" ~> stopPc[t] = "done"

(* The sender is never stuck: a lost connection comes back or is stopped,  *)
(* and a stop() under way returns.                                         *)
MovesOn == Recovers /\ StopReturns
=============================================================================
