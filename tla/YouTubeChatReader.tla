-------------------------- MODULE YouTubeChatReader --------------------------
(***************************************************************************)
(* src/src/minnarone/youtube_chat.py: the reader that resolves the live    *)
(* chat of one video, polls its pages no faster than the server allows,    *)
(* retries, and tells the sender which chat is the live one.               *)
(*                                                                         *)
(* The server is external.  It keeps the messages of a chat in order; the  *)
(* history that it sends without a token is the last Replay messages, and  *)
(* a page may repeat as many before its token.  Time passes where the      *)
(* reader waits, which is the least that can pass.                         *)
(***************************************************************************)
EXTENDS Integers, Sequences, FiniteSets

CONSTANTS
    Chats,          \* the live chats that the video may have
    ChatLength,     \* bound of the model: messages posted to each
    Replay,         \* how far back a page may go
    DedupCapacity,  \* _dedup_capacity
    MaxRetries,     \* _max_retries
    PollIntervals,  \* what pollingIntervalMillis may say
    RetryBase, RetryMax

(* The configuration asks only for a capacity of one.  Delivering once     *)
(* rests on its covering what the server repeats.  There is a longest wait *)
(* that the server asks for.                                               *)
ASSUME ReaderAssumption ==
    /\ "none" \notin Chats
    /\ ChatLength \in Nat /\ Replay \in Nat /\ MaxRetries \in Nat
    /\ DedupCapacity \in Nat \ {0} /\ Replay <= DedupCapacity
    /\ PollIntervals \subseteq Nat
    /\ RetryBase \in Nat \ {0} /\ RetryMax \in Nat /\ RetryBase <= RetryMax
    /\ \E wait \in PollIntervals \cup {RetryMax} :
        \A other \in PollIntervals \cup {RetryMax} : other <= wait

NoChat == "none"
NoToken == -1

VARIABLES
    place,          \* where events() is
    purpose,        \* why it resolves the chat: "start" | "again" | "terminal"
    armed,          \* _running
    ending,         \* "none" | "returned" | "raised" | "closed", by its consumer
    liveChat,       \* live_chat_id of events()
    token,          \* page_token: how many messages the server counts as served
    nextWait,       \* next_wait
    pause,          \* what is left of the wait under way
    retries,        \* of the request under way
    notFound, rediscoveries,
    page,           \* the items of the page still to be looked at
    seen,           \* _seen, oldest first
    published,      \* what YouTubeLiveChatIdState holds
    \* external
    posted,         \* messages posted to each chat
    since,          \* time since the server last sent a page or asked to slow down
    \* history
    advertised,     \* the last pollingIntervalMillis
    served,         \* what pages contained
    delivered       \* what events() yielded, in order

counters == <<notFound, rediscoveries>>
cursor == <<liveChat, token, nextWait, advertised>>
items == <<page, seen, served, delivered>>
readerVars == <<place, purpose, armed, ending, pause, retries, counters, cursor, items, published,
                posted, since>>

Least(a, b) == IF a <= b THEN a ELSE b
Greatest(a, b) == IF a >= b THEN a ELSE b

(* Beyond it, time does not matter.                                        *)
LongestWait ==
    LET waits == PollIntervals \cup {RetryMax}
    IN  CHOOSE d \in waits : \A e \in waits : e <= d

ReaderInit ==
    /\ place = "idle"
    /\ purpose = "start"
    /\ armed = FALSE
    /\ ending = "none"
    /\ liveChat = NoChat
    /\ token = NoToken
    /\ nextWait = 0
    /\ pause = 0
    /\ retries = 0
    /\ notFound = 0
    /\ rediscoveries = 0
    /\ page = <<>>
    /\ seen = <<>>
    /\ published = NoChat
    /\ posted = [c \in Chats |-> 0]
    /\ since = LongestWait
    /\ advertised = 0
    /\ served = {}
    /\ delivered = <<>>

-----------------------------------------------------------------------------
(* A fault: a reader that is over leaves its chat to the sender.           *)
EndQuietly(how) ==
    /\ place' = "over"
    /\ ending' = how
    /\ armed' = FALSE
    /\ pause' = 0
    /\ UNCHANGED published

(* The end of events(), with its finally clause.                           *)
End(how) ==
    /\ place' = "over"
    /\ ending' = how
    /\ armed' = FALSE
    /\ pause' = 0
    /\ published' = NoChat

(* Resolving the chat begins: there is no await before the request.  A     *)
(* reader that was stopped makes no request.                               *)
Resolve(why) ==
    \/ /\ armed \/ why = "start"
       /\ place' = "resolving"
       /\ purpose' = why
       /\ retries' = 0
       /\ armed' = TRUE
       /\ UNCHANGED <<ending, pause, published>>
    \/ /\ ~armed /\ why # "start"
       /\ End(IF why = "terminal" THEN "returned" ELSE "raised")
       /\ UNCHANGED <<purpose, retries>>

(* The top of the loop of events().                                        *)
Turn(wait) ==
    /\ place' = IF wait = 0 THEN "listing" ELSE "pacing"
    /\ pause' = wait
    /\ retries' = 0

(* events() is asked for its first event.                                  *)
BeginEvents ==
    /\ place = "idle"
    /\ Resolve("start")
    /\ UNCHANGED <<counters, cursor, items, posted, since>>

(* A fault: backing off forgets what the server asked for.                 *)
DelaysUnpaced(floor) ==
    LET step == Least(RetryBase * 2 ^ retries, RetryMax)
    IN  {Least(step + j, RetryMax) : j \in 0..(step \div 4)}

(* _request_with_retry: the delays that jitter allows.                     *)
Delays(floor) ==
    LET step == Least(RetryBase * 2 ^ retries, RetryMax)
    IN  {Greatest(Least(step + j, RetryMax), floor) : j \in 0..(step \div 4)}

(* A request was refused for its rate or did not get through.  Before it   *)
(* is repeated the reader waits, unless it has been stopped.               *)
BackOff ==
    /\ retries < MaxRetries
    /\ retries' = retries + 1
    /\ \/ /\ place = "resolving"
          /\ pause' \in Delays(0)
          /\ place' = "resolveLater"
          /\ UNCHANGED since
       \/ /\ place = "listing"
          /\ pause' \in Delays(nextWait)
          /\ place' = "listLater"
          /\ since' = 0
    /\ UNCHANGED <<purpose, armed, ending, counters, cursor, items, published, posted>>

(* A request that failed for good, or once too often, ends events() with   *)
(* an error; the look at the end of a live only falls back.                *)
GiveUp ==
    /\ place \in {"resolving", "listing"}
    /\ End(IF place = "resolving" /\ purpose = "terminal" THEN "returned" ELSE "raised")
    /\ UNCHANGED <<purpose, retries, counters, cursor, items, posted, since>>

(* _discover_chat found a live chat, which is published; one that was      *)
(* replaced does not come back.  A reader that was stopped meanwhile, or   *)
(* that has seen the end, is over.                                         *)
Resolved(c) ==
    /\ place = "resolving"
    /\ c = liveChat \/ \A m \in served : m[1] # c
    /\ \/ /\ armed /\ purpose # "terminal"
          /\ published' = c
          /\ liveChat' = c
          /\ token' = NoToken
          /\ nextWait' = 0
          /\ Turn(0)
          /\ UNCHANGED <<armed, ending>>
       \/ /\ ~armed \/ purpose = "terminal"
          /\ End("returned")
          /\ UNCHANGED <<liveChat, token, nextWait, retries>>
    /\ UNCHANGED <<purpose, counters, items, posted, since, advertised>>

(* There is no video, no live, or no chat.                                 *)
NothingToRead ==
    /\ place = "resolving"
    /\ End("returned")
    /\ UNCHANGED <<purpose, retries, counters, cursor, items, posted, since>>

(* A wait is over: pacing before a page, or backing off.  A stop ends it   *)
(* at once, and the reader with it.                                        *)
EndWait ==
    /\ place \in {"pacing", "listLater", "resolveLater"}
    /\ \/ /\ armed /\ pause = 0
          /\ place' = IF place = "resolveLater" THEN "resolving" ELSE "listing"
          /\ UNCHANGED <<ending, armed, pause, published>>
       \/ /\ ~armed
          /\ End(IF place = "pacing" \/ (place = "resolveLater" /\ purpose = "terminal")
                 THEN "returned" ELSE "raised")
    /\ UNCHANGED <<purpose, retries, counters, cursor, items, posted, since>>

(* A fault: resolving the chat again is not counted.                       *)
RefuseTokenUncounted ==
    /\ place = "listing"
    /\ UNCHANGED rediscoveries
    /\ Resolve("again")
    /\ UNCHANGED <<notFound, cursor, items, posted, since>>

(* The page token is invalid or has expired.                               *)
RefuseToken ==
    /\ place = "listing"
    /\ \/ /\ rediscoveries < MaxRetries
          /\ rediscoveries' = rediscoveries + 1
          /\ Resolve("again")
       \/ /\ rediscoveries = MaxRetries
          /\ End("raised")
          /\ UNCHANGED <<rediscoveries, purpose, retries>>
    /\ UNCHANGED <<notFound, cursor, items, posted, since>>

(* The chat is not found.                                                  *)
LoseChat ==
    /\ place = "listing"
    /\ \/ /\ notFound < MaxRetries
          /\ notFound' = notFound + 1
          /\ Resolve("again")
       \/ /\ notFound = MaxRetries
          /\ End("raised")
          /\ UNCHANGED <<notFound, purpose, retries>>
    /\ UNCHANGED <<rediscoveries, cursor, items, posted, since>>

(* The chat was disabled, or has ended, which is looked at once more.      *)
CloseChat ==
    /\ place = "listing"
    /\ \/ End("returned") /\ UNCHANGED <<purpose, retries>>
       \/ Resolve("terminal")
    /\ UNCHANGED <<counters, cursor, items, posted, since>>

(* A page: without a token the recent history, with one some messages that *)
(* may begin before it.  Without its interval it is an error.              *)
Page ==
    /\ place = "listing"
    /\ notFound' = 0
    /\ \E first \in 1..(ChatLength + 1), last \in 0..ChatLength :
        LET end == posted[liveChat]
        IN  /\ first <= last + 1 /\ last <= end
            /\ IF token = NoToken
               THEN first = Greatest(end - Replay, 0) + 1 /\ last = end
               ELSE first \in (token - Replay + 1)..(token + 1) /\ last >= token
            /\ \/ /\ token' \in {last, NoToken}
                  /\ nextWait' \in PollIntervals
                  /\ advertised' = nextWait'
                  /\ page' = [i \in 1..(last - first + 1) |-> <<liveChat, first + i - 1>>]
                  /\ served' = served \cup {<<liveChat, m>> : m \in first..last}
                  /\ place' = "yielding"
                  /\ since' = 0
                  /\ UNCHANGED <<armed, ending, pause, published>>
               \/ /\ End("raised")
                  /\ UNCHANGED <<token, nextWait, advertised, page, served, since>>
    /\ UNCHANGED <<purpose, retries, rediscoveries, liveChat, seen, delivered, posted>>

(* A fault: a full memory drops what it was just given.                    *)
RememberFirst(item) == IF Len(seen) < DedupCapacity THEN Append(seen, item) ELSE seen

(* What _seen holds after one more message.                                *)
Remember(item) ==
    LET longer == Append(seen, item)
    IN  IF Len(longer) > DedupCapacity THEN Tail(longer) ELSE longer

(* _normalize_message of the next item: one that is remembered is passed   *)
(* over, any other is yielded.                                             *)
Yield ==
    /\ place = "yielding"
    /\ page # <<>>
    /\ page' = Tail(page)
    /\ \/ /\ \E i \in DOMAIN seen : seen[i] = Head(page)
          /\ UNCHANGED <<seen, delivered>>
       \/ /\ \A i \in DOMAIN seen : seen[i] # Head(page)
          /\ seen' = Remember(Head(page))
          /\ delivered' = Append(delivered, Head(page))
    /\ UNCHANGED <<place, purpose, armed, ending, pause, retries, counters, cursor, served, published,
                   posted, since>>

(* A page without a token to go on with is an error.                       *)
EndPage ==
    /\ place = "yielding"
    /\ page = <<>>
    /\ \/ token = NoToken /\ End("raised") /\ UNCHANGED retries
       \/ token # NoToken /\ ~armed /\ End("returned") /\ UNCHANGED retries
       \/ token # NoToken /\ armed /\ Turn(nextWait) /\ UNCHANGED <<armed, ending, published>>
    /\ UNCHANGED <<purpose, counters, cursor, items, posted, since>>

-----------------------------------------------------------------------------
(* stop(), which may come at any await.                                    *)
StopReader ==
    /\ armed
    /\ armed' = FALSE
    /\ published' = NoChat
    /\ UNCHANGED <<place, purpose, ending, pause, retries, counters, cursor, items, posted, since>>

(* The consumer is cancelled, or closes the generator.                     *)
CloseEvents ==
    /\ place \notin {"idle", "over"}
    /\ End("closed")
    /\ UNCHANGED <<purpose, retries, counters, cursor, items, posted, since>>

Post(c) ==
    /\ posted[c] < ChatLength
    /\ posted' = [posted EXCEPT ![c] = @ + 1]
    /\ UNCHANGED <<place, purpose, armed, ending, pause, retries, counters, cursor, items, published,
                   since>>

TimePasses ==
    /\ pause > 0
    /\ pause' = pause - 1
    /\ since' = Least(since + 1, LongestWait)
    /\ UNCHANGED <<place, purpose, armed, ending, retries, counters, cursor, items, published, posted>>

Answered == BackOff \/ GiveUp \/ RefuseToken \/ LoseChat \/ CloseChat \/ Page \/ NothingToRead
                \/ \E c \in Chats : Resolved(c)

ReaderStep == Answered \/ EndWait \/ Yield \/ EndPage \/ TimePasses

ReaderNext ==
    \/ BeginEvents
    \/ ReaderStep
    \/ StopReader
    \/ CloseEvents
    \/ \E c \in Chats : Post(c)

ReaderSpec == ReaderInit /\ [][ReaderNext]_readerVars

(* A request has a time limit, timers fire, and the pump asks for the next *)
(* event.  Nobody need post, stop or close.                                *)
ReaderFairness == WF_readerVars(ReaderStep)

FairReaderSpec == ReaderSpec /\ ReaderFairness

-----------------------------------------------------------------------------
ReaderPlaces == {"idle", "resolving", "resolveLater", "pacing", "listing", "listLater", "yielding", "over"}

ReaderTypeOK ==
    /\ place \in ReaderPlaces
    /\ purpose \in {"start", "again", "terminal"}
    /\ armed \in BOOLEAN
    /\ ending \in {"none", "returned", "raised", "closed"}
    /\ liveChat \in Chats \cup {NoChat}
    /\ token \in {NoToken} \cup 0..ChatLength
    /\ nextWait \in {0} \cup PollIntervals
    /\ pause \in 0..LongestWait
    /\ retries \in 0..MaxRetries
    /\ notFound \in 0..MaxRetries
    /\ rediscoveries \in 0..MaxRetries
    /\ page \in Seq(Chats \X (1..ChatLength))
    /\ seen \in Seq(Chats \X (1..ChatLength)) /\ Len(seen) <= DedupCapacity
    /\ published \in Chats \cup {NoChat}
    /\ posted \in [Chats -> 0..ChatLength]
    /\ since \in 0..LongestWait
    /\ advertised \in {0} \cup PollIntervals
    /\ served \subseteq Chats \X (1..ChatLength)
    /\ delivered \in Seq(Chats \X (1..ChatLength))

(* Whatever the server repeats, and however often the chat is resolved     *)
(* again: messages of a chat are delivered in order and once, and nothing  *)
(* that a page contained is left out.                                      *)
EachMessageOnce ==
    /\ \A i, j \in DOMAIN delivered :
        i < j /\ delivered[i][1] = delivered[j][1] => delivered[i][2] < delivered[j][2]
    /\ place # "over" =>
        \A m \in served : \/ \E i \in DOMAIN delivered : delivered[i] = m
                          \/ \E i \in DOMAIN page : page[i] = m

(* The sender is given a chat only while the reader reads that chat or     *)
(* resolves the next one.                                                  *)
TargetIsRead == published # NoChat => armed /\ place # "over" /\ published = liveChat

(* A request that goes on from a page follows the server's last word after *)
(* the interval that it asked for, also when it is a repetition.           *)
NeverPollsEarly ==
    [][place' = "listing" /\ place # "listing" /\ token # NoToken => since >= advertised]_readerVars

(* The next request never occurs before the interval that the server asked *)
(* for, whatever went wrong in between.                                    *)
BackoffRespectsPacing ==
    [][place' = "listing" /\ place # "listing" => since >= advertised]_readerVars

(* A reader that gets no page any more comes to its end.                   *)
GivesUp == armed ~> place = "over" \/ place = "yielding"

(* Pages are asked for in time, and not for ever when none comes.          *)
PollsPolitely == NeverPollsEarly /\ GivesUp

=============================================================================
