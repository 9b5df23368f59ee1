------------------------- MODULE YouTubeCapability --------------------------
(***************************************************************************)
(* The write capability of a YouTube run: the guard of                     *)
(* src/src/minnarone/youtube_oauth.py, the single-attempt sender of        *)
(* youtube_chat_sender.py that takes its access token from the guard, and  *)
(* what the policy is told by either.                                      *)
(*                                                                         *)
(* Google and the credential store are external: each call may answer,     *)
(* refuse or fail, at any time.  The clock moves between any two steps,    *)
(* and between two readings of it that the code does in one go.            *)
(***************************************************************************)
EXTENDS TokenLife

CONSTANT Inserts    \* the turns of the run that may be sending

VARIABLES
    ytNow,          \* _clock()
    monitor,        \* where validate_startup() and then monitor() are
    anchor,         \* anchor of the validation under way
    fresh,          \* the token it got: expires_in, and when the token really expires
    disabled,       \* _disabled
    validated,      \* _validated
    holding,        \* _access_token is not None
    expiresAt,      \* _expires_at
    ytDeadline,     \* _deadline
    ytCapability,   \* what the policy was told: "pending" | "ready" | "disabled"
    inserting,      \* the sends whose insert is under way
    \* history
    ytExpiry        \* when the token that is held really expires

guardState == <<disabled, validated, holding, expiresAt, ytDeadline>>
capabilityVars == <<ytNow, monitor, anchor, fresh, guardState, ytCapability, inserting, ytExpiry>>

(* "top" is the condition of the loop of monitor(), "second" its second    *)
(* look at the guard after the sleep.                                      *)
MonitorPlaces == {"loading", "refreshing", "issued", "identifying", "top", "asleep", "second",
           "done", "over"}

(* send_enabled.                                                           *)
SendEnabled == validated /\ ~disabled /\ holding /\ ytNow < expiresAt

-----------------------------------------------------------------------------
(* validate_startup() has begun to load the credentials.                   *)
CapabilityInit ==
    /\ ytNow = 0
    /\ monitor = "loading"
    /\ anchor = 0
    /\ fresh = [life |-> 0, expiry |-> 0]
    /\ disabled = FALSE
    /\ validated = FALSE
    /\ holding = FALSE
    /\ expiresAt = 0
    /\ ytDeadline = 0
    /\ ytCapability = "pending"
    /\ inserting = {}
    /\ ytExpiry = 0

(* disarm(), whose None are zeros here.                                    *)
Disarm ==
    /\ disabled' = TRUE
    /\ validated' = FALSE
    /\ holding' = FALSE
    /\ expiresAt' = 0
    /\ ytDeadline' = 0

(* A fault: the validation is given up for now.                            *)
FailSoftly ==
    /\ monitor' = "done"
    /\ UNCHANGED <<ytNow, anchor, fresh, guardState, ytCapability, inserting, ytExpiry>>

(* An error of the validation.  If the sender disarmed the guard meanwhile *)
(* it has told the policy too; otherwise the guard disarms, and Agent.run  *)
(* or on_send_invalid() tells the policy.                                  *)
Fail ==
    /\ monitor' = "done"
    /\ IF disabled
       THEN UNCHANGED <<guardState, ytCapability>>
       ELSE Disarm /\ ytCapability' = "disabled"
    /\ UNCHANGED <<ytNow, anchor, fresh, inserting, ytExpiry>>

(* The validation looks at _disabled whenever an await returns.            *)
Abandon ==
    /\ disabled
    /\ monitor' = "done"
    /\ UNCHANGED <<ytNow, anchor, fresh, guardState, ytCapability, inserting, ytExpiry>>

Proceed(place) ==
    /\ ~disabled
    /\ monitor' = place
    /\ UNCHANGED <<ytNow, anchor, fresh, guardState, ytCapability, inserting, ytExpiry>>

-----------------------------------------------------------------------------
(* The credentials are loaded in a thread.                                 *)
Load ==
    /\ monitor = "loading"
    /\ Abandon \/ Proceed("refreshing") \/ Fail

(* Google issues an access token; its answer is on the way.                *)
Issue(life) ==
    /\ monitor = "refreshing"
    /\ monitor' = "issued"
    /\ fresh' = [life |-> life, expiry |-> ytNow + life]
    /\ UNCHANGED <<ytNow, anchor, guardState, ytCapability, inserting, ytExpiry>>

RefreshFails == monitor = "refreshing" /\ Fail

(* The answer arrives: malformed, without the scope, with too little life, *)
(* or good enough to ask whose channel it is.                              *)
Refreshed ==
    /\ monitor = "issued"
    /\ \/ Abandon
       \/ Fail
       \/ OutsideMargin(fresh.life) /\ Proceed("identifying")

(* A fault: the life counts from the answer.                               *)
AdoptFromNow ==
    /\ ytNow < ytNow + fresh.life
    /\ holding' = TRUE
    /\ validated' = TRUE
    /\ ytExpiry' = fresh.expiry
    /\ expiresAt' = ytNow + fresh.life
    /\ ytDeadline' = ytNow + Delay(fresh.life)

(* The end of _refresh_and_validate.                                       *)
Adopt ==
    /\ ytNow < anchor + fresh.life
    /\ holding' = TRUE
    /\ validated' = TRUE
    /\ ytExpiry' = fresh.expiry
    /\ expiresAt' = anchor + fresh.life
    /\ ytDeadline' = anchor + Delay(fresh.life)

(* A fault: the last look at _disabled is missing.                         *)
IdentifiedBlindly ==
    /\ monitor = "identifying"
    /\ Adopt
    /\ monitor' = "top"
    /\ ytCapability' = IF ytCapability = "pending" THEN "ready" ELSE ytCapability
    /\ UNCHANGED <<ytNow, anchor, fresh, disabled, inserting>>

(* Whose channel it is cannot be known, or it is another one, or it is too *)
(* late.                                                                   *)
IdentityFails == monitor = "identifying" /\ Fail

(* It is the approved one.  At startup Agent.run then enables the          *)
(* capability and makes the task of monitor().                             *)
Identified ==
    /\ monitor = "identifying"
    /\ \/ Abandon
       \/ /\ ~disabled
          /\ Adopt
          /\ monitor' = "top"
          /\ ytCapability' = IF ytCapability = "pending" THEN "ready" ELSE ytCapability
          /\ UNCHANGED <<ytNow, anchor, fresh, disabled, inserting>>

-----------------------------------------------------------------------------
(* monitor() sleeps while the guard can send.  Its first look raises an    *)
(* error otherwise, which nobody sees before the run is over.              *)
Sleep ==
    /\ monitor = "top"
    /\ monitor' = IF SendEnabled THEN "asleep" ELSE "done"
    /\ UNCHANGED <<ytNow, anchor, fresh, guardState, ytCapability, inserting, ytExpiry>>

(* The sleep is over.  A token that expired during it disarms.             *)
MonitorWakes ==
    /\ monitor = "asleep"
    /\ ytDeadline <= ytNow
    /\ IF ~disabled /\ expiresAt <= ytNow
       THEN Fail
       ELSE /\ monitor' = "second"
            /\ UNCHANGED <<ytNow, anchor, fresh, guardState, ytCapability, inserting, ytExpiry>>

(* ... then it must still be usable, or monitor() returns.                 *)
Revalidate ==
    /\ monitor = "second"
    /\ IF SendEnabled
       THEN monitor' = "loading" /\ anchor' = ytDeadline
       ELSE monitor' = "done" /\ UNCHANGED anchor
    /\ UNCHANGED <<ytNow, fresh, guardState, ytCapability, inserting, ytExpiry>>

-----------------------------------------------------------------------------
Running == ytCapability # "pending" /\ monitor # "over"

(* A turn that the policy lets send: access_token() is the last thing that *)
(* send() does before its only request.                                    *)
BeginInsert(s) ==
    /\ Running
    /\ ytCapability = "ready"
    /\ s \notin inserting
    /\ SendEnabled
    /\ inserting' = inserting \cup {s}
    /\ UNCHANGED <<ytNow, monitor, anchor, fresh, guardState, ytCapability, ytExpiry>>

(* access_token() disarms an expired guard and refuses; the sender passes  *)
(* that on, and the router disables live.                                  *)
RefuseToken ==
    /\ Running
    /\ ytCapability = "ready"
    /\ ~SendEnabled
    /\ Disarm
    /\ ytCapability' = "disabled"
    /\ UNCHANGED <<ytNow, monitor, anchor, fresh, inserting, ytExpiry>>

(* The request is answered: inserted, or an error that changes nothing     *)
(* here, or one that disarms.                                              *)
EndInsert(s) ==
    /\ s \in inserting
    /\ inserting' = inserting \ {s}
    /\ \/ UNCHANGED <<guardState, ytCapability>>
       \/ Disarm /\ ytCapability' = "disabled"
    /\ UNCHANGED <<ytNow, monitor, anchor, fresh, ytExpiry>>

MonitoringEnds ==
    /\ Running
    /\ monitor' = "over"
    /\ inserting' = {}
    /\ UNCHANGED <<ytNow, anchor, fresh, guardState, ytCapability, ytExpiry>>

MonitorTick ==
    /\ ytNow < MaxClock
    /\ ytNow' = ytNow + 1
    /\ UNCHANGED <<monitor, anchor, fresh, guardState, ytCapability, inserting, ytExpiry>>

CapabilityNext ==
    \/ Load
    \/ \E life \in Lives : Issue(life)
    \/ RefreshFails
    \/ Refreshed
    \/ IdentityFails
    \/ Identified
    \/ Sleep
    \/ MonitorWakes
    \/ Revalidate
    \/ \E s \in Inserts : BeginInsert(s) \/ EndInsert(s)
    \/ RefuseToken
    \/ MonitoringEnds
    \/ MonitorTick

CapabilitySpec == CapabilityInit /\ [][CapabilityNext]_capabilityVars

-----------------------------------------------------------------------------
CapabilityTypeOK ==
    /\ ytNow \in Nat
    /\ monitor \in MonitorPlaces
    /\ anchor \in Int
    /\ fresh \in [life : Int, expiry : Int]
    /\ disabled \in BOOLEAN
    /\ validated \in BOOLEAN
    /\ holding \in BOOLEAN
    /\ expiresAt \in Int
    /\ ytDeadline \in Int
    /\ ytCapability \in {"pending", "ready", "disabled"}
    /\ inserting \subseteq Inserts
    /\ ytExpiry \in Int

(* A validation that was under way when the sender disarmed the guard does *)
(* not bring it back: a disarmed guard holds no token, and the policy is   *)
(* disarmed exactly when the guard is.                                     *)
DisarmedForGood ==
    /\ disabled => ~validated /\ ~holding
    /\ disabled <=> ytCapability = "disabled"

(* A token that the guard would hand out has not expired, however long the *)
(* answers took that brought it.                                           *)
HandedOutIsValid == SendEnabled => ytNow < ytExpiry

(* A monitor() that returned and told nobody leaves nothing to send with:  *)
(* the next send finds the token expired, and disarms.                     *)
SilentReturnIsHarmless ==
    monitor = "done" /\ ytCapability = "ready" => ~SendEnabled

(* What was disarmed stays so, no expired token is handed out, and a       *)
(* monitor that ended in silence left none to use.                         *)
CapabilityIsHonest == DisarmedForGood /\ HandedOutIsValid /\ SilentReturnIsHarmless
=============================================================================
