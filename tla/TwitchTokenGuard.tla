-------------------------- MODULE TwitchTokenGuard --------------------------
(***************************************************************************)
(* The guard of src/src/minnarone/twitch_auth.py over a live run: it       *)
(* validates the read and the send token before the run starts and again   *)
(* at each deadline.  A read token that fails ends the run, a send token   *)
(* that fails disarms the policy for good and stops the sender.            *)
(*                                                                         *)
(* Twitch is external: a token has an expiry, may be revoked before it,    *)
(* and a validation answers within HttpTimeout.  The event loop is prompt: *)
(* the clock does not move while the guard has something to do at once.    *)
(***************************************************************************)
EXTENDS TokenLife

CONSTANT HttpTimeout    \* bound of one validation, _VALIDATE_TIMEOUT_SECONDS

ASSUME TimeoutAssumption == HttpTimeout \in Nat \ {0}

VARIABLES
    now,            \* _clock()
    expiry,         \* per token, when it expires
    revoked,        \* the tokens revoked before that
    guard,          \* where validate_startup() and then monitor() are
    asked,          \* when the validation under way began
    answer,         \* its answer: NoAnswer, Refused or expires_in
    woke,           \* monitor()'s now
    deadline,       \* _read_deadline, _send_deadline
    sendDisabled,   \* _send_disabled
    capability,     \* what the policy was told: "pending" | "ready" | "disabled"
    \* history
    vouched,        \* per token, when Twitch last found it valid
    begun           \* when monitor() started

guardVars == <<now, expiry, revoked, guard, asked, answer, woke, deadline, sendDisabled,
          capability, vouched, begun>>

Tokens == {"read", "send"}
NoAnswer == -1
Refused == 0

(* "raised" is a monitor() that failed, which Agent.run has yet to see.    *)
Validating == {"startupRead", "startupSend", "readDue", "sendDue"}
Places == Validating \cup {"connecting", "asleep", "stopping", "raised", "ended"}

Asking == IF guard \in {"startupRead", "readDue"} THEN "read" ELSE "send"

-----------------------------------------------------------------------------
GuardInit ==
    /\ now = 0
    /\ expiry \in [Tokens -> Lives]
    /\ revoked = {}
    /\ guard = "startupRead"
    /\ asked = 0
    /\ answer = NoAnswer
    /\ woke = 0
    /\ deadline = [t \in Tokens |-> 0]
    /\ sendDisabled = FALSE
    /\ capability = "pending"
    /\ vouched = [t \in Tokens |-> 0]
    /\ begun = 0

Accepted == answer # Refused /\ OutsideMargin(answer)

(* A fault: the delay counts from the answer.                              *)
NextDeadlineFromNow(anchor) == now + Delay(answer)

NextDeadline(anchor) == anchor + Delay(answer)

(* A fault: the sleep is for the read token alone.                         *)
WakeForRead == deadline["read"]

(* monitor()'s next_deadline.                                              *)
Wake ==
    IF sendDisabled THEN deadline["read"] ELSE Least(deadline["read"], deadline["send"])

Ask == asked' = now /\ answer' = NoAnswer

-----------------------------------------------------------------------------
(* Twitch answers: with the life that is left, or with any of the errors   *)
(* of validate_twitch_token.                                               *)
Answer ==
    /\ guard \in Validating
    /\ answer = NoAnswer
    /\ \/ /\ answer' = Refused
          /\ UNCHANGED vouched
       \/ /\ Asking \notin revoked
          /\ now < expiry[Asking]
          /\ answer' = expiry[Asking] - now
          /\ vouched' = [vouched EXCEPT ![Asking] = now]
    /\ UNCHANGED <<now, expiry, revoked, guard, asked, woke, deadline, sendDisabled,
                   capability, begun>>

Revoke(t) ==
    /\ revoked' = revoked \cup {t}
    /\ UNCHANGED <<now, expiry, guard, asked, answer, woke, deadline, sendDisabled,
                   capability, vouched, begun>>

-----------------------------------------------------------------------------
(* validate_startup() gets the answer for the read token; one that is not  *)
(* accepted leaves Agent.run before it has started anything.               *)
StartupRead ==
    /\ guard = "startupRead"
    /\ answer # NoAnswer
    /\ IF Accepted
       THEN /\ deadline' = [deadline EXCEPT !["read"] = NextDeadline(asked)]
            /\ guard' = "startupSend"
            /\ Ask
       ELSE /\ guard' = "ended"
            /\ UNCHANGED <<deadline, asked, answer>>
    /\ UNCHANGED <<now, expiry, revoked, woke, sendDisabled, capability, vouched, begun>>

(* ... and for the send token.  Agent.run tells the policy, and starts the *)
(* sender unless it is disarmed.                                           *)
StartupSend ==
    /\ guard = "startupSend"
    /\ answer # NoAnswer
    /\ IF Accepted
       THEN /\ deadline' = [deadline EXCEPT !["send"] = NextDeadline(asked)]
            /\ capability' = "ready"
            /\ guard' = "connecting"
            /\ UNCHANGED <<sendDisabled, begun>>
       ELSE /\ sendDisabled' = TRUE
            /\ capability' = "disabled"
            /\ guard' = "asleep"
            /\ begun' = now
            /\ UNCHANGED deadline
    /\ UNCHANGED <<now, expiry, revoked, asked, answer, woke, vouched>>

(* sender.start() returns and the tasks of the run begin, or it fails.     *)
Connect ==
    /\ guard = "connecting"
    /\ \/ guard' = "asleep" /\ begun' = now
       \/ guard' = "ended" /\ UNCHANGED begun
    /\ UNCHANGED <<now, expiry, revoked, asked, answer, woke, deadline, sendDisabled,
                   capability, vouched>>

-----------------------------------------------------------------------------
SendIsDue(at) == ~sendDisabled /\ deadline["send"] <= at

(* The sleep is over; now is read once for both tokens.                    *)
WakeUp ==
    /\ guard = "asleep"
    /\ Wake <= now
    /\ woke' = now
    /\ guard' = IF deadline["read"] <= now THEN "readDue" ELSE "sendDue"
    /\ Ask
    /\ UNCHANGED <<now, expiry, revoked, deadline, sendDisabled, capability, vouched, begun>>

ReadAnswered ==
    /\ guard = "readDue"
    /\ answer # NoAnswer
    /\ IF Accepted
       THEN /\ deadline' = [deadline EXCEPT !["read"] = NextDeadline(deadline["read"])]
            /\ IF SendIsDue(woke)
               THEN guard' = "sendDue" /\ Ask
               ELSE guard' = "asleep" /\ UNCHANGED <<asked, answer>>
       ELSE /\ guard' = "raised"
            /\ UNCHANGED <<deadline, asked, answer>>
    /\ UNCHANGED <<now, expiry, revoked, woke, sendDisabled, capability, vouched, begun>>

(* A refused send token is out of use at once, then on_send_invalid()      *)
(* disables live and waits for the sender to stop.                         *)
SendAnswered ==
    /\ guard = "sendDue"
    /\ answer # NoAnswer
    /\ IF Accepted
       THEN /\ deadline' = [deadline EXCEPT !["send"] = NextDeadline(deadline["send"])]
            /\ guard' = "asleep"
            /\ UNCHANGED <<sendDisabled, capability>>
       ELSE /\ sendDisabled' = TRUE
            /\ capability' = "disabled"
            /\ guard' = "stopping"
            /\ UNCHANGED deadline
    /\ UNCHANGED <<now, expiry, revoked, asked, answer, woke, vouched, begun>>

SenderStopped ==
    /\ guard = "stopping"
    /\ guard' \in {"asleep", "raised"}
    /\ UNCHANGED <<now, expiry, revoked, asked, answer, woke, deadline, sendDisabled,
                   capability, vouched, begun>>

(* Agent.run finds the guard's task done.                                  *)
GuardEndsRun ==
    /\ guard = "raised"
    /\ guard' = "ended"
    /\ capability' = "disabled"
    /\ UNCHANGED <<now, expiry, revoked, asked, answer, woke, deadline, sendDisabled,
                   vouched, begun>>

(* The run ends otherwise, and cancels the guard wherever it is.           *)
RunEnds ==
    /\ guard \in Places \ {"startupRead", "startupSend", "connecting", "ended"}
    /\ guard' = "ended"
    /\ UNCHANGED <<now, expiry, revoked, asked, answer, woke, deadline, sendDisabled,
                   capability, vouched, begun>>

(* Only Twitch, the connection of the sender and its closing take time.    *)
MayWait ==
    \/ guard \in Validating /\ now < asked + HttpTimeout
    \/ guard = "asleep" /\ now < Wake
    \/ guard \in {"connecting", "stopping"}

Tick ==
    /\ MayWait
    /\ now < MaxClock
    /\ now' = now + 1
    /\ UNCHANGED <<expiry, revoked, guard, asked, answer, woke, deadline, sendDisabled,
                   capability, vouched, begun>>

GuardNext ==
    \/ Answer
    \/ \E t \in Tokens : Revoke(t)
    \/ StartupRead
    \/ StartupSend
    \/ Connect
    \/ WakeUp
    \/ ReadAnswered
    \/ SendAnswered
    \/ SenderStopped
    \/ GuardEndsRun
    \/ RunEnds
    \/ Tick

GuardSpec == GuardInit /\ [][GuardNext]_guardVars

-----------------------------------------------------------------------------
GuardTypeOK ==
    /\ now \in Nat
    /\ expiry \in [Tokens -> Nat]
    /\ revoked \subseteq Tokens
    /\ guard \in Places
    /\ asked \in Nat
    /\ answer \in Int
    /\ NoAnswer <= answer
    /\ woke \in Nat
    /\ deadline \in [Tokens -> Int]
    /\ sendDisabled \in BOOLEAN
    /\ capability \in {"pending", "ready", "disabled"}
    /\ vouched \in [Tokens -> Nat]
    /\ begun \in Nat

(* The monitor relies on these tokens.                                     *)
Monitored(t) ==
    /\ guard \in Places \ {"startupRead", "startupSend", "connecting", "ended"}
    /\ t = "send" => ~sendDisabled

(* However long the answers took, a token is due again within Interval of  *)
(* the last time Twitch vouched for it, and before the margin that it      *)
(* keeps from its expiry.                                                  *)
DeadlinesAreSafe ==
    \A t \in Tokens : Monitored(t) =>
        /\ deadline[t] <= vouched[t] + Interval
        /\ deadline[t] + MinMargin <= expiry[t]

(* The policy is armed only with a send token that the guard watches, and  *)
(* not for longer than three validations into the token's margin (or into  *)
(* a monitoring that began late): the one the monitor was in when the      *)
(* token fell due, that of a read token due once more, and its own.        *)
ExposureIsBounded ==
    /\ capability = "ready" => ~sendDisabled
    /\ capability = "ready" /\ Monitored("send") =>
            now < Greatest(begun, expiry["send"] - MinMargin) + 3 * HttpTimeout
=============================================================================
