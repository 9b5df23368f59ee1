--------------------------- MODULE LiveEdgesProofs ---------------------------
(***************************************************************************)
(* Theorems about what a run has to do with the platforms.  With Twitch:   *)
(* TwitchTokenGuard, for every interval, margin and time limit of a        *)
(* validation, TwitchChatSender, for any streams, sends and callers of     *)
(* stop(), and TwitchReaders, for any lines, frames, size of the queue and *)
(* sample interval.  With YouTube: YouTubeCapability, for every interval,  *)
(* margin, life of a token and set of turns.                               *)
(***************************************************************************)
EXTENDS TwitchTokenGuard, TwitchChatSender, TwitchReaders, YouTubeCapability,
        FiniteSetTheorems, TLAPS

-----------------------------------------------------------------------------
(* A token has a deadline.                                                 *)
Watched(t) ==
    /\ guard \in Places \ {"startupRead", "ended"}
    /\ t = "send" => guard # "startupSend" /\ ~sendDisabled

(* An answer is the life that was left when Twitch gave it, after it was   *)
(* asked for; and it is asked for no earlier than it is due.               *)
Answers ==
    /\ \A t \in Tokens : vouched[t] <= now
    /\ guard \in Validating =>
        /\ asked <= now
        /\ now <= asked + HttpTimeout
        /\ answer > 0 =>
            /\ asked <= vouched[Asking]
            /\ answer = expiry[Asking] - vouched[Asking]
    /\ guard = "readDue" => deadline["read"] <= asked /\ asked = woke
    /\ guard = "sendDue" => deadline["send"] <= asked

Deadlines ==
    \A t \in Tokens : Watched(t) =>
        /\ deadline[t] <= vouched[t] + Interval
        /\ deadline[t] + MinMargin <= expiry[t]

Disarming ==
    /\ capability = "ready" => ~sendDisabled
    /\ guard = "stopping" => capability # "ready"
    /\ guard \in {"startupRead", "startupSend"} => ~sendDisabled

(* How late the monitor can be, while the policy is armed: a step at a     *)
(* time.                                                                   *)
Limit == Greatest(begun, expiry["send"] - MinMargin)

Punctual ==
    capability = "ready" =>
        /\ guard = "asleep" => now < Limit + HttpTimeout
        /\ guard = "readDue" => asked < Limit + HttpTimeout
        /\ guard = "sendDue" => asked < Limit + 2 * HttpTimeout
        /\ guard = "raised" => now < Limit + 2 * HttpTimeout

GuardInv == GuardTypeOK /\ Answers /\ Deadlines /\ Disarming /\ Punctual
-----------------------------------------------------------------------------
LEMMA MarginBounds ==
    ASSUME NEW life \in Int
    PROVE  Margin(life) \in Int /\ MinMargin <= Margin(life)
<1>1. life \div MarginDivisor \in Int
  BY LifeAssumption
<1> QED
  BY <1>1, LifeAssumption DEF Margin, Least, Greatest

LEMMA DelayBounds ==
    ASSUME NEW life \in Int
    PROVE  /\ Delay(life) \in Int
           /\ Delay(life) <= Interval
           /\ Delay(life) + MinMargin <= life
  BY MarginBounds, LifeAssumption DEF Delay, Least

(* An accepted answer was given before the margin.                         *)
LEMMA AcceptedLife ==
    ASSUME answer \in Int, Accepted, NoAnswer <= answer, answer # NoAnswer
    PROVE  answer > 0 /\ MinMargin < answer
  BY MarginBounds, LifeAssumption DEF Accepted, OutsideMargin, Refused, NoAnswer

(* What NextDeadline keeps, because its anchor is not later than the       *)
(* question.                                                               *)
LEMMA NewDeadline ==
    ASSUME NEW from \in Int, NEW given \in Int, NEW end \in Int, answer \in Int,
           from <= given, answer = end - given
    PROVE  /\ NextDeadline(from) \in Int
           /\ NextDeadline(from) <= given + Interval
           /\ NextDeadline(from) + MinMargin <= end
<1>1. /\ Delay(answer) \in Int
      /\ Delay(answer) <= Interval
      /\ Delay(answer) + MinMargin <= answer
  BY DelayBounds
<1> QED
  BY <1>1, LifeAssumption DEF NextDeadline

LEMMA LimitType == ASSUME GuardTypeOK PROVE Limit \in Int
  BY LifeAssumption DEF GuardTypeOK, Tokens, Limit, Greatest

-----------------------------------------------------------------------------
LEMMA GuardInitially == GuardInit => GuardInv
<1> SUFFICES ASSUME GuardInit PROVE GuardInv
  OBVIOUS
<1>1. expiry \in [Tokens -> Nat]
  BY LifeAssumption DEF GuardInit
<1>2. GuardTypeOK
  <2>1. deadline \in [Tokens -> Int] /\ vouched \in [Tokens -> Nat]
    BY DEF GuardInit
  <2>2. now \in Nat /\ asked \in Nat /\ woke \in Nat /\ begun \in Nat
    BY DEF GuardInit
  <2>3. answer \in Int /\ NoAnswer <= answer
    BY DEF GuardInit, NoAnswer
  <2>4. guard \in Places /\ capability \in {"pending", "ready", "disabled"}
    BY DEF GuardInit, Places, Validating
  <2>5. revoked \subseteq Tokens /\ sendDisabled \in BOOLEAN
    BY DEF GuardInit
  <2> QED
    BY <1>1, <2>1, <2>2, <2>3, <2>4, <2>5 DEF GuardTypeOK
<1>3. Answers
  BY TimeoutAssumption DEF GuardInit, Answers, Asking, NoAnswer, Tokens
<1>4. Deadlines /\ Disarming /\ Punctual
  BY DEF GuardInit, Deadlines, Watched, Tokens, Disarming, Punctual
<1> QED
  BY <1>2, <1>3, <1>4 DEF GuardInv

(* The types.  A step that accepts an answer sets one deadline.            *)
LEMMA TypeStep == GuardInv /\ [GuardNext]_guardVars => GuardTypeOK'
<1> SUFFICES ASSUME GuardInv, [GuardNext]_guardVars PROVE GuardTypeOK'
  OBVIOUS
<1> USE DEF GuardInv, GuardTypeOK
<1>1. CASE Answer
  <2>1. Asking \in Tokens
    BY DEF Asking, Tokens
  <2>2. CASE answer' = Refused /\ UNCHANGED vouched
    BY <1>1, <2>2 DEF Answer, Refused, NoAnswer
  <2>3. CASE /\ now < expiry[Asking]
             /\ answer' = expiry[Asking] - now
             /\ vouched' = [vouched EXCEPT ![Asking] = now]
    <3>1. answer' \in Int /\ NoAnswer <= answer'
      BY <2>1, <2>3 DEF NoAnswer
    <3>2. vouched' \in [Tokens -> Nat]
      BY <2>1, <2>3
    <3> QED
      BY <1>1, <3>1, <3>2 DEF Answer
  <2> QED
    BY <1>1, <2>2, <2>3 DEF Answer
<1>2. ASSUME NEW t \in Tokens, Revoke(t) PROVE GuardTypeOK'
  BY <1>2 DEF Revoke
<1>3. ASSUME NEW t \in Tokens, NEW from \in Int,
             deadline' = [deadline EXCEPT ![t] = NextDeadline(from)]
      PROVE  deadline' \in [Tokens -> Int]
  <2>1. NextDeadline(from) \in Int
    BY DelayBounds DEF NextDeadline
  <2> QED
    BY <1>3, <2>1
<1>4. "read" \in Tokens /\ "send" \in Tokens
  BY DEF Tokens
<1>5. deadline["read"] \in Int /\ deadline["send"] \in Int /\ asked \in Int
  BY <1>4
<1>6. CASE StartupRead
  <2>1. deadline' \in [Tokens -> Int]
    BY <1>3, <1>4, <1>5, <1>6 DEF StartupRead
  <2> QED
    BY <1>6, <2>1 DEF StartupRead, Ask, NoAnswer, Places, Validating
<1>7. CASE StartupSend
  <2>1. deadline' \in [Tokens -> Int]
    BY <1>3, <1>4, <1>5, <1>7 DEF StartupSend
  <2>2. sendDisabled' \in BOOLEAN /\ capability' \in {"pending", "ready", "disabled"}
    BY <1>7 DEF StartupSend
  <2> QED
    BY <1>7, <2>1, <2>2 DEF StartupSend, Places, Validating
<1>8. CASE Connect
  BY <1>8 DEF Connect, Places, Validating
<1>9. CASE WakeUp
  BY <1>9 DEF WakeUp, Ask, NoAnswer, Places, Validating
<1>10. CASE ReadAnswered
  <2>1. deadline' \in [Tokens -> Int]
    BY <1>3, <1>4, <1>5, <1>10 DEF ReadAnswered
  <2> QED
    BY <1>10, <2>1 DEF ReadAnswered, Ask, NoAnswer, Places, Validating
<1>11. CASE SendAnswered
  <2>1. deadline' \in [Tokens -> Int]
    BY <1>3, <1>4, <1>5, <1>11 DEF SendAnswered
  <2>2. sendDisabled' \in BOOLEAN /\ capability' \in {"pending", "ready", "disabled"}
    BY <1>11 DEF SendAnswered
  <2> QED
    BY <1>11, <2>1, <2>2 DEF SendAnswered, Places, Validating
<1>12. CASE SenderStopped \/ GuardEndsRun \/ RunEnds
  BY <1>12 DEF SenderStopped, GuardEndsRun, RunEnds, Places, Validating
<1>13. CASE Tick
  BY <1>13 DEF Tick
<1>14. CASE UNCHANGED guardVars
  BY <1>14 DEF guardVars
<1> QED
  BY <1>1, <1>2, <1>6, <1>7, <1>8, <1>9, <1>10, <1>11, <1>12, <1>13, <1>14 DEF GuardNext

-----------------------------------------------------------------------------
(* A question that has just been asked.                                    *)
LEMMA JustAsked ==
    ASSUME GuardInv, GuardTypeOK', Ask, now' = now, vouched' = vouched,
           guard' = "readDue" => deadline'["read"] <= now /\ woke' = now,
           guard' = "sendDue" => deadline'["send"] <= now
    PROVE  Answers'
<1>1. now \in Nat /\ now' = now /\ asked' = now /\ answer' = NoAnswer
  BY DEF GuardInv, GuardTypeOK, Ask
<1>2. \A t \in Tokens : vouched'[t] <= now'
  BY DEF GuardInv, Answers
<1>3. now' <= asked' + HttpTimeout
  BY <1>1, TimeoutAssumption
<1> QED
  BY <1>1, <1>2, <1>3 DEF Answers, NoAnswer

(* A step that leaves no question open.                                    *)
LEMMA NothingAsked ==
    ASSUME GuardInv, now' = now, vouched' = vouched, guard' \notin Validating
    PROVE  Answers'
  BY DEF GuardInv, Answers, Validating

LEMMA AnswersStep == GuardInv /\ GuardTypeOK' /\ [GuardNext]_guardVars => Answers'
<1> SUFFICES ASSUME GuardInv, GuardTypeOK', [GuardNext]_guardVars PROVE Answers'
  OBVIOUS
<1>1. CASE Answer
  <2>1. Asking \in Tokens /\ Asking' = Asking
    BY <1>1 DEF Answer, Asking, Tokens
  <2>2. now \in Nat /\ asked <= now /\ now <= asked + HttpTimeout
    BY <1>1 DEF Answer, GuardInv, GuardTypeOK, Answers
  <2>3. \A t \in Tokens : vouched[t] <= now
    BY DEF GuardInv, Answers
  <2>4. CASE answer' = Refused /\ UNCHANGED vouched
    BY <1>1, <2>2, <2>3, <2>4 DEF Answer, Refused, GuardInv, Answers
  <2>5. CASE /\ answer' = expiry[Asking] - now
             /\ vouched' = [vouched EXCEPT ![Asking] = now]
    <3>1. vouched \in [Tokens -> Nat]
      BY DEF GuardInv, GuardTypeOK
    <3>2. vouched'[Asking] = now
      BY <2>1, <2>5, <3>1
    <3>3. \A t \in Tokens : vouched'[t] <= now
      BY <2>1, <2>2, <2>3, <2>5, <3>1
    <3>4. answer' = expiry'[Asking'] - vouched'[Asking']
      BY <1>1, <2>1, <2>5, <3>2 DEF Answer
    <3>5. asked' <= vouched'[Asking']
      BY <1>1, <2>1, <2>2, <3>2 DEF Answer
    <3>6. now' = now /\ asked' = asked /\ guard' = guard /\ woke' = woke /\ deadline' = deadline
      BY <1>1 DEF Answer
    <3>7. /\ guard = "readDue" => deadline["read"] <= asked /\ asked = woke
          /\ guard = "sendDue" => deadline["send"] <= asked
      BY DEF GuardInv, Answers
    <3> QED
      BY <2>2, <3>3, <3>4, <3>5, <3>6, <3>7 DEF Answers
  <2> QED
    BY <1>1, <2>4, <2>5 DEF Answer
<1>2. ASSUME NEW t \in Tokens, Revoke(t) PROVE Answers'
  BY <1>2 DEF Revoke, GuardInv, Answers, Asking
<1>3. CASE StartupRead
  <2>1. CASE Accepted
    BY <1>3, <2>1, JustAsked DEF StartupRead
  <2>2. CASE ~Accepted
    BY <1>3, <2>2, NothingAsked DEF StartupRead, Validating
  <2> QED
    BY <2>1, <2>2
<1>4. CASE StartupSend
  BY <1>4, NothingAsked DEF StartupSend, Validating
<1>5. CASE Connect
  BY <1>5, NothingAsked DEF Connect, Validating
<1>6. CASE WakeUp
  <2>1. deadline["read"] \in Int /\ deadline["send"] \in Int /\ now \in Int
    BY DEF GuardInv, GuardTypeOK, Tokens
  <2>2. deadline["read"] <= now \/ deadline["send"] <= now
    BY <1>6, <2>1 DEF WakeUp, Wake, Least
  <2>3. guard' = "readDue" => deadline["read"] <= now
    BY <1>6 DEF WakeUp
  <2>4. guard' = "sendDue" => deadline["send"] <= now
    BY <1>6, <2>2 DEF WakeUp
  <2>5. now' = now /\ vouched' = vouched /\ woke' = now /\ deadline' = deadline /\ Ask
    BY <1>6 DEF WakeUp
  <2> QED
    BY <2>3, <2>4, <2>5, JustAsked
<1>7. CASE ReadAnswered
  <2>1. CASE Accepted /\ SendIsDue(woke)
    <3>1. guard' = "sendDue" /\ Ask /\ now' = now /\ vouched' = vouched
      BY <1>7, <2>1 DEF ReadAnswered
    <3>2. "send" \in Tokens /\ "read" \in Tokens /\ "send" # "read"
      BY DEF Tokens
    <3>3. deadline \in [Tokens -> Int] /\ woke \in Nat /\ asked \in Nat /\ now \in Nat
      BY DEF GuardInv, GuardTypeOK
    <3>4. deadline'["send"] = deadline["send"]
      BY <1>7, <2>1, <3>2, <3>3 DEF ReadAnswered
    <3>5. deadline["send"] <= woke /\ woke = asked /\ asked <= now
      BY <1>7, <2>1 DEF ReadAnswered, SendIsDue, GuardInv, Answers, Validating
    <3>6. deadline["send"] <= now
      BY <3>2, <3>3, <3>5
    <3> QED
      BY <3>1, <3>4, <3>6, JustAsked
  <2>2. CASE ~(Accepted /\ SendIsDue(woke))
    BY <1>7, <2>2, NothingAsked DEF ReadAnswered, Validating
  <2> QED
    BY <2>1, <2>2
<1>8. CASE SendAnswered
  BY <1>8, NothingAsked DEF SendAnswered, Validating
<1>9. CASE SenderStopped \/ GuardEndsRun \/ RunEnds
  BY <1>9, NothingAsked DEF SenderStopped, GuardEndsRun, RunEnds, Validating
<1>10. CASE Tick
  <2>1. now \in Nat /\ asked \in Nat /\ now' = now + 1
    BY <1>10 DEF Tick, GuardInv, GuardTypeOK
  <2>2. guard \in Validating => now' <= asked + HttpTimeout
    BY <1>10, <2>1, TimeoutAssumption DEF Tick, MayWait, Validating
  <2>3. \A t \in Tokens : vouched[t] <= now'
    BY <2>1 DEF GuardInv, GuardTypeOK, Answers
  <2>4. guard \in Validating => asked <= now'
    BY <2>1 DEF GuardInv, Answers
  <2>5. /\ guard' = guard /\ asked' = asked /\ answer' = answer /\ vouched' = vouched
        /\ deadline' = deadline /\ woke' = woke /\ expiry' = expiry /\ Asking' = Asking
    BY <1>10 DEF Tick, Asking
  <2> QED
    BY <2>2, <2>3, <2>4, <2>5 DEF GuardInv, Answers
<1>11. CASE UNCHANGED guardVars
  BY <1>11 DEF guardVars, GuardInv, Answers, Asking
<1> QED
  BY <1>1, <1>2, <1>3, <1>4, <1>5, <1>6, <1>7, <1>8, <1>9, <1>10, <1>11 DEF GuardNext

-----------------------------------------------------------------------------
(* An accepted answer gives its token a safe deadline.                     *)
LEMMA SafeDeadline ==
    ASSUME GuardInv, guard \in Validating, answer # NoAnswer, Accepted,
           NEW from \in Int, from <= asked
    PROVE  /\ NextDeadline(from) \in Int
           /\ NextDeadline(from) <= vouched[Asking] + Interval
           /\ NextDeadline(from) + MinMargin <= expiry[Asking]
<1>1. Asking \in Tokens
  BY DEF Asking, Tokens
<1>2. answer \in Int /\ NoAnswer <= answer /\ asked \in Int
  BY DEF GuardInv, GuardTypeOK
<1>3. answer > 0
  BY <1>2, AcceptedLife
<1>4. vouched[Asking] \in Int /\ expiry[Asking] \in Int
  BY <1>1 DEF GuardInv, GuardTypeOK
<1>5. asked <= vouched[Asking] /\ answer = expiry[Asking] - vouched[Asking]
  BY <1>3 DEF GuardInv, Answers
<1>6. from <= vouched[Asking]
  BY <1>2, <1>4, <1>5
<1> QED
  BY <1>2, <1>4, <1>5, <1>6, NewDeadline

(* A step that sets no deadline.                                           *)
LEMMA DeadlinesKept ==
    ASSUME GuardInv, deadline' = deadline, vouched' = vouched, expiry' = expiry,
           \A t \in Tokens : Watched(t)' => Watched(t)
    PROVE  Deadlines'
  BY DEF GuardInv, Deadlines

LEMMA DeadlinesStep == GuardInv /\ [GuardNext]_guardVars => Deadlines'
<1> SUFFICES ASSUME GuardInv, [GuardNext]_guardVars PROVE Deadlines'
  OBVIOUS
<1>1. CASE Answer
  <2>1. Asking \in Tokens /\ now \in Nat /\ vouched \in [Tokens -> Nat]
    BY DEF Asking, Tokens, GuardInv, GuardTypeOK
  <2>2. \A t \in Tokens : vouched'[t] \in Nat /\ vouched[t] <= vouched'[t]
    BY <1>1, <2>1 DEF Answer, GuardInv, Answers
  <2>3. /\ deadline' = deadline /\ expiry' = expiry
        /\ \A t \in Tokens : Watched(t)' <=> Watched(t)
    BY <1>1 DEF Answer, Watched
  <2>4. SUFFICES ASSUME NEW t \in Tokens, Watched(t)
                 PROVE  /\ deadline[t] <= vouched'[t] + Interval
                        /\ deadline[t] + MinMargin <= expiry[t]
    BY <2>3 DEF Deadlines
  <2>5. deadline[t] <= vouched[t] + Interval /\ deadline[t] + MinMargin <= expiry[t]
    BY <2>4 DEF GuardInv, Deadlines
  <2>6. deadline[t] \in Int /\ vouched[t] \in Int /\ vouched'[t] \in Int
    BY <2>1, <2>2 DEF GuardInv, GuardTypeOK
  <2>7. vouched[t] <= vouched'[t]
    BY <2>2
  <2> QED
    BY <2>5, <2>6, <2>7, LifeAssumption
<1>2. ASSUME NEW t \in Tokens, Revoke(t) PROVE Deadlines'
  BY <1>2, DeadlinesKept DEF Revoke, Watched
<1>3. /\ "read" \in Tokens /\ "send" \in Tokens
      /\ deadline \in [Tokens -> Int] /\ asked \in Int
      /\ deadline["read"] \in Int /\ deadline["send"] \in Int
  BY DEF Tokens, GuardInv, GuardTypeOK
<1>4. ASSUME NEW from \in Int, from <= asked, guard \in Validating, answer # NoAnswer,
             Accepted, deadline' = [deadline EXCEPT ![Asking] = NextDeadline(from)],
             vouched' = vouched, expiry' = expiry,
             \A t \in Tokens : Watched(t)' => t = Asking \/ Watched(t)
      PROVE  Deadlines'
  <2>1. /\ NextDeadline(from) <= vouched[Asking] + Interval
        /\ NextDeadline(from) + MinMargin <= expiry[Asking]
    BY <1>4, SafeDeadline
  <2>2. Asking \in Tokens
    BY DEF Asking, Tokens
  <2>3. deadline'[Asking] = NextDeadline(from)
    BY <1>3, <1>4, <2>2
  <2>4. \A t \in Tokens : t # Asking => deadline'[t] = deadline[t]
    BY <1>3, <1>4
  <2> QED
    BY <1>4, <2>1, <2>3, <2>4 DEF GuardInv, Deadlines
<1>5. CASE StartupRead
  <2>1. CASE Accepted
    <3>1. Asking = "read" /\ guard \in Validating /\ asked <= asked
      BY <1>3, <1>5 DEF StartupRead, Asking, Validating
    <3>2. \A t \in Tokens : Watched(t)' => t = Asking
      BY <1>5, <2>1, <3>1 DEF StartupRead, Watched, Tokens
    <3> QED
      BY <1>3, <1>4, <1>5, <2>1, <3>1, <3>2 DEF StartupRead
  <2>2. CASE ~Accepted
    BY <1>5, <2>2, DeadlinesKept DEF StartupRead, Watched
  <2> QED
    BY <2>1, <2>2
<1>6. CASE StartupSend
  <2>1. CASE Accepted
    <3>1. Asking = "send" /\ guard \in Validating /\ asked <= asked
      BY <1>3, <1>6 DEF StartupSend, Asking, Validating
    <3>2. \A t \in Tokens : Watched(t)' => t = Asking \/ Watched(t)
      BY <1>6, <2>1, <3>1 DEF StartupSend, Watched, Tokens, Places, Validating
    <3> QED
      BY <1>3, <1>4, <1>6, <2>1, <3>1, <3>2 DEF StartupSend
  <2>2. CASE ~Accepted
    BY <1>6, <2>2, DeadlinesKept DEF StartupSend, Watched, Places, Validating
  <2> QED
    BY <2>1, <2>2
<1>7. CASE Connect
  BY <1>7, DeadlinesKept DEF Connect, Watched, Places, Validating
<1>8. CASE WakeUp
  BY <1>8, DeadlinesKept DEF WakeUp, Watched, Places, Validating
<1>9. CASE ReadAnswered
  <2>1. CASE Accepted
    <3>1. Asking = "read" /\ guard \in Validating
      BY <1>9 DEF ReadAnswered, Asking, Validating
    <3>2. deadline["read"] <= asked
      BY <1>9 DEF ReadAnswered, GuardInv, Answers
    <3>3. \A t \in Tokens : Watched(t)' => Watched(t)
      BY <1>9 DEF ReadAnswered, Watched, Places, Validating
    <3> QED
      BY <1>3, <1>4, <1>9, <2>1, <3>1, <3>2, <3>3 DEF ReadAnswered
  <2>2. CASE ~Accepted
    BY <1>9, <2>2, DeadlinesKept DEF ReadAnswered, Watched, Places, Validating
  <2> QED
    BY <2>1, <2>2
<1>10. CASE SendAnswered
  <2>1. CASE Accepted
    <3>1. Asking = "send" /\ guard \in Validating
      BY <1>10 DEF SendAnswered, Asking, Validating
    <3>2. deadline["send"] <= asked
      BY <1>10 DEF SendAnswered, GuardInv, Answers
    <3>3. \A t \in Tokens : Watched(t)' => Watched(t)
      BY <1>10, <2>1 DEF SendAnswered, Watched, Places, Validating
    <3> QED
      BY <1>3, <1>4, <1>10, <2>1, <3>1, <3>2, <3>3 DEF SendAnswered
  <2>2. CASE ~Accepted
    BY <1>10, <2>2, DeadlinesKept DEF SendAnswered, Watched, Places, Validating
  <2> QED
    BY <2>1, <2>2
<1>11. CASE SenderStopped \/ GuardEndsRun \/ RunEnds
  BY <1>11, DeadlinesKept DEF SenderStopped, GuardEndsRun, RunEnds, Watched, Places, Validating
<1>12. CASE Tick
  BY <1>12, DeadlinesKept DEF Tick, Watched
<1>13. CASE UNCHANGED guardVars
  BY <1>13, DeadlinesKept DEF guardVars, Watched
<1> QED
  BY <1>1, <1>2, <1>5, <1>6, <1>7, <1>8, <1>9, <1>10, <1>11, <1>12, <1>13 DEF GuardNext

LEMMA DisarmingStep == GuardInv /\ [GuardNext]_guardVars => Disarming'
<1> SUFFICES ASSUME GuardInv, [GuardNext]_guardVars PROVE Disarming'
  OBVIOUS
<1> USE DEF GuardInv, Disarming
<1>1. CASE StartupRead
  BY <1>1 DEF StartupRead
<1>2. CASE StartupSend
  BY <1>2 DEF StartupSend
<1>3. CASE SendAnswered
  BY <1>3 DEF SendAnswered
<1>4. CASE ReadAnswered
  BY <1>4 DEF ReadAnswered
<1>5. CASE WakeUp \/ Connect \/ Answer \/ Tick
  BY <1>5 DEF WakeUp, Connect, Answer, Tick
<1>6. ASSUME NEW t \in Tokens, Revoke(t) PROVE Disarming'
  BY <1>6 DEF Revoke
<1>7. CASE SenderStopped \/ GuardEndsRun \/ RunEnds
  BY <1>7 DEF SenderStopped, GuardEndsRun, RunEnds
<1>8. CASE UNCHANGED guardVars
  BY <1>8 DEF guardVars
<1> QED
  BY <1>1, <1>2, <1>3, <1>4, <1>5, <1>6, <1>7, <1>8 DEF GuardNext

-----------------------------------------------------------------------------
(* A step in which no time passes and the guard does not move.             *)
LEMMA PunctualKept ==
    ASSUME GuardInv, now' = now, guard' = guard, asked' = asked, begun' = begun,
           expiry' = expiry, capability' = capability
    PROVE  Punctual'
  BY DEF GuardInv, Punctual, Limit

(* The deadline of a watched send token, below the limit.                  *)
LEMMA BelowLimit ==
    ASSUME GuardInv, Watched("send")
    PROVE  deadline["send"] \in Int /\ deadline["send"] <= Limit
<1>1. /\ deadline["send"] \in Int /\ expiry["send"] \in Int /\ begun \in Int
  BY DEF GuardInv, GuardTypeOK, Tokens
<1>2. deadline["send"] + MinMargin <= expiry["send"]
  BY DEF GuardInv, Deadlines, Tokens
<1>3. deadline["send"] <= expiry["send"] - MinMargin
  BY <1>1, <1>2, LifeAssumption
<1> QED
  BY <1>1, <1>3, LifeAssumption DEF Limit, Greatest

LEMMA PunctualStep == GuardInv /\ [GuardNext]_guardVars => Punctual'
<1> SUFFICES ASSUME GuardInv, [GuardNext]_guardVars PROVE Punctual'
  OBVIOUS
<1>1. /\ now \in Int /\ asked \in Int /\ woke \in Int /\ Limit \in Int
      /\ HttpTimeout \in Int /\ 1 <= HttpTimeout
  BY LimitType, TimeoutAssumption DEF GuardInv, GuardTypeOK
<1>2. CASE Answer
  BY <1>2, PunctualKept DEF Answer
<1>3. ASSUME NEW t \in Tokens, Revoke(t) PROVE Punctual'
  BY <1>3, PunctualKept DEF Revoke
<1>4. CASE StartupRead
  BY <1>4 DEF StartupRead, Punctual
<1>5. CASE StartupSend
  BY <1>5 DEF StartupSend, Punctual
<1>6. CASE Connect
  <2>1. CASE guard' = "ended"
    BY <2>1 DEF Punctual
  <2>2. CASE guard' = "asleep" /\ begun' = now
    <3>1. now' = now /\ expiry' = expiry
      BY <1>6 DEF Connect
    <3>2. expiry["send"] - MinMargin \in Int
      BY LifeAssumption DEF GuardInv, GuardTypeOK, Tokens
    <3>3. now <= Limit'
      BY <1>1, <2>2, <3>1, <3>2 DEF Limit, Greatest
    <3>4. Limit' \in Int
      BY <1>1, <2>2, <3>1, <3>2 DEF Limit, Greatest
    <3>5. now < Limit' + HttpTimeout
      <4>1. \A a, b, c \in Int : a <= b /\ 1 <= c => a < b + c
        OBVIOUS
      <4> QED
        BY <1>1, <3>3, <3>4, <4>1
    <3>6. now' < Limit' + HttpTimeout
      BY <3>1, <3>5
    <3> QED
      BY <2>2, <3>6 DEF Punctual
  <2> QED
    BY <1>6, <2>1, <2>2 DEF Connect
<1>7. CASE WakeUp
  <2>1. /\ asked' = now /\ now' = now /\ guard' \in {"readDue", "sendDue"}
        /\ capability' = capability /\ Limit' = Limit
    BY <1>7 DEF WakeUp, Ask, Limit
  <2>2. capability = "ready" => now < Limit + HttpTimeout
    BY <1>7 DEF WakeUp, GuardInv, Punctual
  <2>3. now < Limit + HttpTimeout => now < Limit + 2 * HttpTimeout
    BY <1>1
  <2> QED
    BY <2>1, <2>2, <2>3 DEF Punctual
<1>8. CASE ReadAnswered
  <2>1. /\ now' = now /\ capability' = capability /\ Limit' = Limit
        /\ guard' \in {"sendDue", "asleep", "raised"}
        /\ guard' = "sendDue" => asked' = now
    BY <1>8 DEF ReadAnswered, Ask, Limit
  <2>2. now <= asked + HttpTimeout /\ woke = asked
    BY <1>8 DEF ReadAnswered, GuardInv, Answers, Validating
  <2>3. capability = "ready" => asked < Limit + HttpTimeout
    BY <1>8 DEF ReadAnswered, GuardInv, Punctual
  <2>4. capability = "ready" => now < Limit + 2 * HttpTimeout
    BY <1>1, <2>2, <2>3
  <2>5. ASSUME guard' = "asleep", capability = "ready" PROVE now < Limit + HttpTimeout
    <3>1. ~SendIsDue(woke)
      BY <1>8, <2>5 DEF ReadAnswered
    <3>2. Watched("send") /\ ~sendDisabled
      BY <1>8, <2>5 DEF ReadAnswered, Watched, GuardInv, Disarming, Places, Validating
    <3>3. deadline["send"] \in Int /\ deadline["send"] <= Limit
      BY <3>2, BelowLimit
    <3>4. woke < deadline["send"]
      BY <1>1, <3>1, <3>2, <3>3 DEF SendIsDue
    <3> QED
      BY <1>1, <2>2, <3>3, <3>4
  <2> QED
    BY <2>1, <2>4, <2>5 DEF Punctual
<1>9. CASE SendAnswered
  <2>1. CASE ~Accepted
    BY <1>9, <2>1 DEF SendAnswered, Punctual
  <2>2. CASE Accepted
    <3>1. now' = now /\ guard' = "asleep" /\ Limit' = Limit
      BY <1>9, <2>2 DEF SendAnswered, Limit
    <3>2. Asking = "send" /\ guard \in Validating /\ answer # NoAnswer
      BY <1>9 DEF SendAnswered, Asking, Validating
    <3>3. answer \in Int /\ vouched["send"] \in Int /\ expiry["send"] \in Int /\ begun \in Int
      BY DEF GuardInv, GuardTypeOK, Tokens
    <3>4. answer > 0 /\ MinMargin < answer
      BY <2>2, <3>2, AcceptedLife DEF GuardInv, GuardTypeOK
    <3>5. asked <= vouched["send"] /\ answer = expiry["send"] - vouched["send"]
      BY <3>2, <3>4 DEF GuardInv, Answers
    <3>6. now <= asked + HttpTimeout
      BY <3>2 DEF GuardInv, Answers
    <3>7. vouched["send"] < expiry["send"] - MinMargin
      BY <3>3, <3>4, <3>5, LifeAssumption
    <3>8. expiry["send"] - MinMargin <= Limit
      BY <3>3, LifeAssumption DEF Limit, Greatest
    <3>9. expiry["send"] - MinMargin \in Int
      BY <3>3, LifeAssumption
    <3>10. vouched["send"] < Limit
      BY <1>1, <3>3, <3>7, <3>8, <3>9
    <3>11. now < Limit + HttpTimeout
      BY <1>1, <3>3, <3>5, <3>6, <3>10
    <3> QED
      BY <3>1, <3>11 DEF Punctual
  <2> QED
    BY <2>1, <2>2
<1>10. CASE SenderStopped
  BY <1>10 DEF SenderStopped, Punctual, GuardInv, Disarming
<1>11. CASE GuardEndsRun \/ RunEnds
  BY <1>11 DEF GuardEndsRun, RunEnds, Punctual
<1>12. CASE Tick
  <2>1. /\ now' = now + 1 /\ guard' = guard /\ asked' = asked /\ capability' = capability
        /\ Limit' = Limit /\ guard # "raised"
    BY <1>12 DEF Tick, MayWait, Limit, Validating
  <2>2. ASSUME guard = "asleep", capability = "ready" PROVE now' < Limit' + HttpTimeout
    <3>1. now < Wake
      BY <1>12, <2>2 DEF Tick, MayWait, Validating
    <3>2. Watched("send") /\ ~sendDisabled
      BY <2>2 DEF Watched, GuardInv, Disarming, Places
    <3>3. deadline["send"] \in Int /\ deadline["send"] <= Limit
      BY <3>2, BelowLimit
    <3>4. deadline["read"] \in Int
      BY DEF GuardInv, GuardTypeOK, Tokens
    <3>5. now < deadline["send"]
      BY <1>1, <3>1, <3>2, <3>3, <3>4 DEF Wake, Least
    <3>6. now + 1 <= Limit
      BY <1>1, <3>3, <3>5
    <3>7. now + 1 < Limit + HttpTimeout
      BY <1>1, <3>6
    <3> QED
      BY <2>1, <3>7
  <2> QED
    BY <2>1, <2>2 DEF GuardInv, Punctual
<1>13. CASE UNCHANGED guardVars
  BY <1>13, PunctualKept DEF guardVars
<1> QED
  BY <1>2, <1>3, <1>4, <1>5, <1>6, <1>7, <1>8, <1>9, <1>10, <1>11, <1>12, <1>13 DEF GuardNext

LEMMA GuardAlways == GuardSpec => []GuardInv
<1>1. GuardInv /\ [GuardNext]_guardVars => GuardInv'
  BY TypeStep, AnswersStep, DeadlinesStep, DisarmingStep, PunctualStep DEF GuardInv
<1> QED
  BY GuardInitially, <1>1, PTL DEF GuardSpec

(* A token is due again within Interval of the last time Twitch vouched    *)
(* for it, and before the margin that it keeps from its expiry.            *)
THEOREM SafeDeadlines == GuardSpec => []DeadlinesAreSafe
<1>1. GuardInv => DeadlinesAreSafe
  BY DEF GuardInv, Deadlines, Watched, DeadlinesAreSafe, Monitored, Places, Validating
<1> QED
  BY <1>1, GuardAlways, PTL

(* Three validations is all that an armed policy can outlive its token's   *)
(* margin by.                                                              *)
THEOREM BoundedExposure == GuardSpec => []ExposureIsBounded
<1>1. ASSUME GuardInv PROVE ExposureIsBounded
  <2>1. /\ now \in Int /\ asked \in Int /\ Limit \in Int
        /\ HttpTimeout \in Int /\ 1 <= HttpTimeout
    BY <1>1, LimitType, TimeoutAssumption DEF GuardInv, GuardTypeOK
  <2>2. capability = "ready" => ~sendDisabled
    BY <1>1 DEF GuardInv, Disarming
  <2>3. ASSUME capability = "ready", Monitored("send") PROVE now < Limit + 3 * HttpTimeout
    <3>1. guard \in {"asleep", "readDue", "sendDue", "raised"}
      BY <1>1, <2>3 DEF GuardInv, Disarming, Monitored, Places, Validating
    <3>2. CASE guard = "asleep"
      BY <1>1, <2>1, <2>3, <3>2 DEF GuardInv, Punctual
    <3>3. CASE guard = "raised"
      BY <1>1, <2>1, <2>3, <3>3 DEF GuardInv, Punctual
    <3>4. CASE guard \in {"readDue", "sendDue"}
      <4>1. now <= asked + HttpTimeout
        BY <1>1, <3>4 DEF GuardInv, Answers, Validating
      <4>2. asked < Limit + 2 * HttpTimeout
        BY <1>1, <2>1, <2>3, <3>4 DEF GuardInv, Punctual
      <4> QED
        BY <2>1, <4>1, <4>2
    <3> QED
      BY <3>1, <3>2, <3>3, <3>4
  <2> QED
    BY <2>2, <2>3 DEF ExposureIsBounded, Limit
<1>2. GuardInv => ExposureIsBounded
  BY <1>1
<1> QED
  BY <1>2, GuardAlways, PTL

-----------------------------------------------------------------------------
(* Until start() has joined, the sender has nothing but the stream it is   *)
(* opening, and nobody stops it while it is at it.                         *)
BeforeStart ==
    /\ ~Started =>
        /\ connect["loop"] = "none" /\ ~connected /\ stream = NoStream
        /\ ~reconnecting /\ ~loopCancelled /\ pingCancelled = {}
        /\ \A x \in Sends : sending[x] = NoStream
    /\ connect["start"] \in {"connecting", "joining"} => ~stopped

(* A stop() is for good: it cancels the reconnect loop it finds, and none  *)
(* of its work has begun while the sender is not stopped.                  *)
StopsInv ==
    /\ ~stopped => pingCancelled = {} /\ ~loopCancelled /\ \A t \in Stoppers : stopPc[t] = "idle"
    /\ stopped => ~connected
    /\ stopped /\ LoopAlive => loopCancelled
    /\ \A t \in Stoppers : stopPc[t] \in {"ping", "closing", "done"} => ~LoopAlive
    /\ \A t \in Stoppers : stopPc[t] \in {"closing", "done"} => stream = NoStream
    /\ \A t \in Stoppers : stopPc[t] = "closing" <=> closing[t] # NoStream
    /\ \A t, u \in Stoppers : closing[t] # NoStream /\ closing[u] # NoStream => t = u

(* Only the stream in use is read and written, and each open one is in the *)
(* hands of a task.                                                        *)
StreamsInv ==
    /\ pingTask = stream
    /\ \A s \in Streams : ping[s] # "none" => s = stream
    /\ ~stopped => \A x \in Sends : sending[x] # NoStream => sending[x] = stream
    /\ \A c \in Connectors : joining[c] # NoStream <=> connect[c] = "joining"
    /\ \A s \in Streams : link[s] = "open" =>
        \/ s = stream
        \/ \E c \in Connectors : joining[c] = s
        \/ \E t \in Stoppers : closing[t] = s
    /\ stream # NoStream => link[stream] # "none"
    /\ \A c \in Connectors : joining[c] # NoStream => link[joining[c]] # "none"

(* A connected sender answers PINGs; one that is not has lost its stream   *)
(* and is on its way to the next; and when it opens that, nothing waits on *)
(* the old one.                                                            *)
ConnectionInv ==
    /\ connected => ping[stream] # "none"
    /\ ~stopped => (reconnecting <=> LoopAlive)
    /\ Started /\ ~stopped => (LoopAlive <=> ~connected)
    /\ ~stopped /\ ~connected /\ stream # NoStream => link[stream] # "open"
    /\ connect["loop"] \in {"connecting", "joining"} =>
        /\ stream # NoStream => link[stream] # "open"
        /\ \A s \in Streams : ping[s] = "none"
        /\ ~stopped => \A x \in Sends : sending[x] = NoStream

SenderInv == TypeOK /\ BeforeStart /\ StopsInv /\ StreamsInv /\ ConnectionInv

LEMMA SenderInitially == Init => SenderInv
<1> SUFFICES ASSUME Init PROVE SenderInv
    OBVIOUS
<1>1. TypeOK
    BY DEF Init, TypeOK
<1>2. ~LoopAlive /\ ~Started
    BY DEF Init, LoopAlive, Started, Connectors
<1>3. BeforeStart /\ StopsInv
    BY <1>2 DEF Init, BeforeStart, StopsInv, Connectors
<1>4. StreamsInv /\ ConnectionInv
    BY <1>2 DEF Init, StreamsInv, ConnectionInv, Connectors
<1>5. QED BY <1>1, <1>3, <1>4 DEF SenderInv

LEMMA StartSenderKeeps ==
    ASSUME SenderInv, StartSender
    PROVE  SenderInv'
<1>1. TypeOK /\ BeforeStart /\ StopsInv /\ StreamsInv /\ ConnectionInv
    BY DEF SenderInv
<1>2. TypeOK'
    BY <1>1, StreamAssumption DEF StartSender, pingVars, stopVars, TypeOK
<1>3. BeforeStart'
    BY <1>1, StreamAssumption DEF StartSender, pingVars, BeforeStart, Started
<1>4. StopsInv'
  <2>1. connect["start"] = "none" /\ connect["loop"] = "none"
      BY <1>1 DEF StartSender, BeforeStart, Started
  <2>2. connect' = [connect EXCEPT !["start"] = "connecting"] /\ ~stopped'
      BY DEF StartSender
  <2>3. connect'["loop"] = "none"
      BY <1>1, <2>1, <2>2 DEF Connectors, TypeOK
  <2>4. /\ pingCancelled = {} /\ ~loopCancelled
        /\ \A t \in Stoppers : stopPc[t] = "idle"
      BY <1>1, <2>1 DEF StartSender, BeforeStart, Started
  <2>5. QED BY <1>1, <2>2, <2>3, <2>4 DEF StartSender, pingVars, stopVars, StopsInv
<1>5. StreamsInv'
  <2>1. \A c \in Connectors : connect'[c] = "joining" <=> connect[c] = "joining"
      BY <1>1 DEF StartSender, TypeOK
  <2>2. \A x \in Sends : sending[x] # NoStream => sending[x] = stream
      BY <1>1 DEF StartSender, BeforeStart, Started
  <2>3. QED BY <1>1, <2>1, <2>2 DEF StartSender, pingVars, stopVars, StreamsInv
<1>6. ConnectionInv'
    BY <1>1, StreamAssumption DEF StartSender, BeforeStart, ConnectionInv, LoopAlive, Started
<1>7. QED BY <1>2, <1>3, <1>4, <1>5, <1>6 DEF SenderInv

LEMMA ConnectsKeeps ==
    ASSUME SenderInv, NEW c \in Connectors, Connects(c)
    PROVE  SenderInv'
<1>1. TypeOK /\ BeforeStart /\ StopsInv /\ StreamsInv /\ ConnectionInv
    BY DEF SenderInv
<1>2. TypeOK'
    BY <1>1, StreamAssumption DEF Connects, pingVars, stopVars, TypeOK
<1>3. BeforeStart'
    BY <1>1, StreamAssumption DEF Connects, pingVars, BeforeStart, Started
<1>4. StopsInv'
    BY <1>1, StreamAssumption DEF Connects, pingVars, stopVars, StopsInv, LoopAlive
<1>5. StreamsInv'
    BY <1>1, StreamAssumption DEF Connects, pingVars, TypeOK, BeforeStart, StopsInv, StreamsInv,
        Connectors, LoopAlive
<1>6. ConnectionInv'
    BY <1>1, StreamAssumption DEF Connects, Unused, pingVars, ConnectionInv, LoopAlive, Started
<1>7. QED BY <1>2, <1>3, <1>4, <1>5, <1>6 DEF SenderInv

LEMMA JoinedKeeps ==
    ASSUME SenderInv, NEW c \in Connectors, Joined(c)
    PROVE  SenderInv'
<1>1. TypeOK /\ BeforeStart /\ StopsInv /\ StreamsInv /\ ConnectionInv
    BY DEF SenderInv
<1>2. TypeOK'
    BY <1>1, StreamAssumption DEF Joined, stopVars, TypeOK, StreamsInv
<1>3. BeforeStart'
    BY <1>1, StreamAssumption DEF Joined, TypeOK, BeforeStart, Connectors, Started
<1>4. StopsInv'
    BY <1>1, StreamAssumption DEF Joined, Cancelled, stopVars, BeforeStart, StopsInv, Connectors,
        LoopAlive
<1>5. StreamsInv'
    BY <1>1, StreamAssumption DEF Joined, TypeOK, BeforeStart, StopsInv, StreamsInv, ConnectionInv,
        Connectors, LoopAlive, Started
<1>6. ConnectionInv'
    BY <1>1, StreamAssumption DEF Joined, TypeOK, BeforeStart, StreamsInv, ConnectionInv,
        Connectors, LoopAlive, Started
<1>7. QED BY <1>2, <1>3, <1>4, <1>5, <1>6 DEF SenderInv

LEMMA ConnectFailsKeeps ==
    ASSUME SenderInv, NEW c \in Connectors, ConnectFails(c)
    PROVE  SenderInv'
<1>1. TypeOK /\ BeforeStart /\ StopsInv /\ StreamsInv /\ ConnectionInv
    BY DEF SenderInv
<1>2. TypeOK'
  <2>1. joining' \in [Connectors -> Streams \cup {NoStream}]
      BY <1>1 DEF ConnectFails, TypeOK
  <2>2. link' \in [Streams -> {"none", "open", "broken", "closed"}]
      BY <1>1 DEF ConnectFails, TypeOK
  <2>3. /\ connect' \in [Connectors -> {"none", "created", "sleeping", "connecting", "joining", "done", "failed"}]
        /\ reconnecting' \in BOOLEAN
      BY <1>1 DEF ConnectFails, AttemptFails, TypeOK
  <2>4. QED BY <1>1, <2>1, <2>2, <2>3 DEF ConnectFails, pingVars, stopVars, TypeOK
<1>3. BeforeStart'
    BY <1>1, StreamAssumption DEF ConnectFails, AttemptFails, pingVars, TypeOK, BeforeStart,
        Connectors, Started
<1>4. StopsInv'
    BY <1>1, StreamAssumption DEF ConnectFails, pingVars, stopVars, BeforeStart, StopsInv,
        Connectors, LoopAlive
<1>5. StreamsInv'
    BY <1>1, StreamAssumption DEF ConnectFails, AttemptFails, pingVars, TypeOK, BeforeStart,
        StopsInv, StreamsInv, Connectors, LoopAlive
<1>6. ConnectionInv'
    BY <1>1, StreamAssumption DEF ConnectFails, AttemptFails, TypeOK, BeforeStart, ConnectionInv,
        Connectors, LoopAlive, Started
<1>7. QED BY <1>2, <1>3, <1>4, <1>5, <1>6 DEF SenderInv

LEMMA LoopBeginsKeeps ==
    ASSUME SenderInv, LoopBegins
    PROVE  SenderInv'
<1>1. TypeOK /\ BeforeStart /\ StopsInv /\ StreamsInv /\ ConnectionInv
    BY DEF SenderInv
<1>2. TypeOK'
    BY <1>1, StreamAssumption DEF LoopBegins, pingVars, stopVars, TypeOK
<1>3. BeforeStart'
    BY <1>1, StreamAssumption DEF LoopBegins, BeforeStart, Started
<1>4. StopsInv'
    BY <1>1, StreamAssumption DEF LoopBegins, pingVars, stopVars, StopsInv, LoopAlive
<1>5. StreamsInv'
    BY <1>1, StreamAssumption DEF LoopBegins, pingVars, StopsInv, StreamsInv, LoopAlive
<1>6. ConnectionInv'
    BY <1>1, StreamAssumption DEF LoopBegins, TypeOK, BeforeStart, StopsInv, ConnectionInv,
        LoopAlive
<1>7. QED BY <1>2, <1>3, <1>4, <1>5, <1>6 DEF SenderInv

LEMMA LoopWakesKeeps ==
    ASSUME SenderInv, LoopWakes
    PROVE  SenderInv'
<1>1. TypeOK /\ BeforeStart /\ StopsInv /\ StreamsInv /\ ConnectionInv
    BY DEF SenderInv
<1>2. TypeOK'
    BY <1>1, StreamAssumption DEF LoopWakes, pingVars, stopVars, TypeOK
<1>3. BeforeStart'
    BY <1>1, StreamAssumption DEF LoopWakes, BeforeStart, Started
<1>4. StopsInv'
    BY <1>1, StreamAssumption DEF LoopWakes, pingVars, stopVars, StopsInv, LoopAlive
<1>5. StreamsInv'
    BY <1>1, StreamAssumption DEF LoopWakes, pingVars, StopsInv, StreamsInv, LoopAlive
<1>6. ConnectionInv'
    BY <1>1, StreamAssumption DEF LoopWakes, Prompt, pingVars, TypeOK, BeforeStart, StreamsInv,
        ConnectionInv, LoopAlive
<1>7. QED BY <1>2, <1>3, <1>4, <1>5, <1>6 DEF SenderInv

LEMMA LoopIsCancelledKeeps ==
    ASSUME SenderInv, LoopIsCancelled
    PROVE  SenderInv'
<1>1. TypeOK /\ BeforeStart /\ StopsInv /\ StreamsInv /\ ConnectionInv
    BY DEF SenderInv
<1>2. TypeOK'
    BY <1>1, StreamAssumption DEF LoopIsCancelled, pingVars, stopVars, TypeOK
<1>3. BeforeStart'
    BY <1>1, StreamAssumption DEF LoopIsCancelled, BeforeStart, Started
<1>4. StopsInv'
    BY <1>1, StreamAssumption DEF LoopIsCancelled, stopVars, StopsInv
<1>5. StreamsInv'
    BY <1>1, StreamAssumption DEF LoopIsCancelled, pingVars, TypeOK, StopsInv, StreamsInv
<1>6. ConnectionInv'
    BY <1>1, StreamAssumption DEF LoopIsCancelled, TypeOK, StopsInv, ConnectionInv, Connectors
<1>7. QED BY <1>2, <1>3, <1>4, <1>5, <1>6 DEF SenderInv

LEMMA PingReadsKeeps ==
    ASSUME SenderInv, NEW s \in Streams, PingReads(s)
    PROVE  SenderInv'
<1>1. TypeOK /\ BeforeStart /\ StopsInv /\ StreamsInv /\ ConnectionInv
    BY DEF SenderInv
<1>2. TypeOK'
    BY <1>1, StreamAssumption DEF PingReads, loopVars, stopVars, TypeOK
<1>3. BeforeStart'
    BY <1>1, StreamAssumption DEF PingReads, loopVars, BeforeStart, Started
<1>4. StopsInv'
    BY <1>1, StreamAssumption DEF PingReads, loopVars, stopVars, StopsInv, LoopAlive
<1>5. StreamsInv'
    BY <1>1, StreamAssumption DEF PingReads, loopVars, TypeOK, StopsInv, StreamsInv
<1>6. ConnectionInv'
    BY <1>1, StreamAssumption DEF PingReads, PingGoesOn, loopVars, TypeOK, StopsInv, ConnectionInv,
        LoopAlive, Started
<1>7. QED BY <1>2, <1>3, <1>4, <1>5, <1>6 DEF SenderInv

LEMMA PingAnswersKeeps ==
    ASSUME SenderInv, NEW s \in Streams, PingAnswers(s)
    PROVE  SenderInv'
<1>1. TypeOK /\ BeforeStart /\ StopsInv /\ StreamsInv /\ ConnectionInv
    BY DEF SenderInv
<1>2. TypeOK'
    BY <1>1, StreamAssumption DEF PingAnswers, loopVars, stopVars, TypeOK
<1>3. BeforeStart'
    BY <1>1, StreamAssumption DEF PingAnswers, loopVars, BeforeStart, Started
<1>4. StopsInv'
    BY <1>1, StreamAssumption DEF PingAnswers, loopVars, stopVars, StopsInv, LoopAlive
<1>5. StreamsInv'
    BY <1>1, StreamAssumption DEF PingAnswers, loopVars, StopsInv, StreamsInv
<1>6. ConnectionInv'
    BY <1>1, StreamAssumption DEF PingAnswers, PingGoesOn, loopVars, StopsInv, ConnectionInv,
        LoopAlive, Started
<1>7. QED BY <1>2, <1>3, <1>4, <1>5, <1>6 DEF SenderInv

LEMMA PingLosesKeeps ==
    ASSUME SenderInv, NEW s \in Streams, PingLoses(s)
    PROVE  SenderInv'
<1>1. TypeOK /\ BeforeStart /\ StopsInv /\ StreamsInv /\ ConnectionInv
    BY DEF SenderInv
<1>2. TypeOK'
  <2>1. /\ connect' \in [Connectors -> {"none", "created", "sleeping", "connecting", "joining", "done", "failed"}]
        /\ reconnecting' \in BOOLEAN
      BY <1>1 DEF PingLoses, LoseConnection, Schedule, TypeOK
  <2>2. /\ connected' \in BOOLEAN /\ connected' => connected
        /\ ping' \in [Streams -> {"none", "reading", "ponging"}]
        /\ sending' \in [Sends -> Streams \cup {NoStream}]
      BY <1>1 DEF PingLoses, LoseConnection, pingVars, TypeOK
  <2>3. QED BY <1>1, <2>1, <2>2 DEF PingLoses, LoseConnection, stopVars, TypeOK
<1>3. BeforeStart'
    BY <1>1, StreamAssumption DEF PingLoses, LoseConnection, Schedule, TypeOK, BeforeStart,
        StreamsInv, Connectors, Started
<1>4. StopsInv'
    BY <1>1, StreamAssumption DEF PingLoses, LoseConnection, Schedule, stopVars, StopsInv, LoopAlive
<1>5. StreamsInv'
    BY <1>1, StreamAssumption DEF PingLoses, LoseConnection, Schedule, TypeOK, StopsInv, StreamsInv,
        ConnectionInv
<1>6. ConnectionInv'
    BY <1>1, StreamAssumption DEF PingLoses, LoseConnection, Schedule, TypeOK, StopsInv, StreamsInv,
        ConnectionInv, Connectors, LoopAlive
<1>7. QED BY <1>2, <1>3, <1>4, <1>5, <1>6 DEF SenderInv

LEMMA PingIsCancelledKeeps ==
    ASSUME SenderInv, NEW s \in Streams, PingIsCancelled(s)
    PROVE  SenderInv'
<1>1. TypeOK /\ BeforeStart /\ StopsInv /\ StreamsInv /\ ConnectionInv
    BY DEF SenderInv
<1>2. TypeOK'
    BY <1>1, StreamAssumption DEF PingIsCancelled, loopVars, stopVars, TypeOK
<1>3. BeforeStart'
    BY <1>1, StreamAssumption DEF PingIsCancelled, loopVars, BeforeStart, Started
<1>4. StopsInv'
    BY <1>1, StreamAssumption DEF PingIsCancelled, loopVars, stopVars, StopsInv, LoopAlive
<1>5. StreamsInv'
    BY <1>1, StreamAssumption DEF PingIsCancelled, loopVars, StopsInv, StreamsInv
<1>6. ConnectionInv'
    BY <1>1, StreamAssumption DEF PingIsCancelled, loopVars, StopsInv, ConnectionInv
<1>7. QED BY <1>2, <1>3, <1>4, <1>5, <1>6 DEF SenderInv

LEMMA BreakKeeps ==
    ASSUME SenderInv, NEW s \in Streams, Break(s)
    PROVE  SenderInv'
<1>1. TypeOK /\ BeforeStart /\ StopsInv /\ StreamsInv /\ ConnectionInv
    BY DEF SenderInv
<1>2. TypeOK'
    BY <1>1, StreamAssumption DEF Break, loopVars, pingVars, stopVars, TypeOK
<1>3. BeforeStart'
    BY <1>1, StreamAssumption DEF Break, loopVars, pingVars, BeforeStart, Started
<1>4. StopsInv'
    BY <1>1, StreamAssumption DEF Break, loopVars, pingVars, stopVars, StopsInv, LoopAlive
<1>5. StreamsInv'
    BY <1>1, StreamAssumption DEF Break, loopVars, pingVars, TypeOK, BeforeStart, StopsInv,
        StreamsInv, Connectors, LoopAlive
<1>6. ConnectionInv'
    BY <1>1, StreamAssumption DEF Break, loopVars, pingVars, ConnectionInv, LoopAlive, Started
<1>7. QED BY <1>2, <1>3, <1>4, <1>5, <1>6 DEF SenderInv

LEMMA BeginSendKeeps ==
    ASSUME SenderInv, NEW x \in Sends, BeginSend(x)
    PROVE  SenderInv'
<1>1. TypeOK /\ BeforeStart /\ StopsInv /\ StreamsInv /\ ConnectionInv
    BY DEF SenderInv
<1>2. TypeOK'
    BY <1>1, StreamAssumption DEF BeginSend, loopVars, pingVars, stopVars, TypeOK
<1>3. BeforeStart'
    BY <1>1, StreamAssumption DEF BeginSend, loopVars, BeforeStart, Started
<1>4. StopsInv'
    BY <1>1, StreamAssumption DEF BeginSend, loopVars, pingVars, stopVars, StopsInv
<1>5. StreamsInv'
    BY <1>1, StreamAssumption DEF BeginSend, loopVars, pingVars, StopsInv, StreamsInv
<1>6. ConnectionInv'
    BY <1>1, StreamAssumption DEF BeginSend, loopVars, pingVars, BeforeStart, ConnectionInv,
        LoopAlive
<1>7. QED BY <1>2, <1>3, <1>4, <1>5, <1>6 DEF SenderInv

LEMMA SendReturnsKeeps ==
    ASSUME SenderInv, NEW x \in Sends, SendReturns(x)
    PROVE  SenderInv'
<1>1. TypeOK /\ BeforeStart /\ StopsInv /\ StreamsInv /\ ConnectionInv
    BY DEF SenderInv
<1>2. TypeOK'
    BY <1>1, StreamAssumption DEF SendReturns, loopVars, pingVars, stopVars, TypeOK
<1>3. BeforeStart'
    BY <1>1, StreamAssumption DEF SendReturns, loopVars, BeforeStart, Started
<1>4. StopsInv'
    BY <1>1, StreamAssumption DEF SendReturns, loopVars, pingVars, stopVars, StopsInv, LoopAlive
<1>5. StreamsInv'
    BY <1>1, StreamAssumption DEF SendReturns, loopVars, pingVars, stopVars, StreamsInv
<1>6. ConnectionInv'
    BY <1>1, StreamAssumption DEF SendReturns, loopVars, pingVars, ConnectionInv, LoopAlive, Started
<1>7. QED BY <1>2, <1>3, <1>4, <1>5, <1>6 DEF SenderInv

LEMMA SendFailsKeeps ==
    ASSUME SenderInv, NEW x \in Sends, SendFails(x)
    PROVE  SenderInv'
<1>1. TypeOK /\ BeforeStart /\ StopsInv /\ StreamsInv /\ ConnectionInv
    BY DEF SenderInv
<1>2. TypeOK'
  <2>1. /\ connect' \in [Connectors -> {"none", "created", "sleeping", "connecting", "joining", "done", "failed"}]
        /\ reconnecting' \in BOOLEAN
      BY <1>1 DEF SendFails, Schedule, TypeOK
  <2>2. /\ connected' \in BOOLEAN /\ connected' => connected
        /\ ping' \in [Streams -> {"none", "reading", "ponging"}]
        /\ sending' \in [Sends -> Streams \cup {NoStream}]
      BY <1>1 DEF SendFails, pingVars, TypeOK
  <2>3. QED BY <1>1, <2>1, <2>2 DEF SendFails, pingVars, stopVars, TypeOK
<1>3. BeforeStart'
    BY <1>1, StreamAssumption DEF SendFails, Schedule, TypeOK, BeforeStart, Connectors, Started
<1>4. StopsInv'
    BY <1>1, StreamAssumption DEF SendFails, Schedule, pingVars, stopVars, StopsInv, LoopAlive
<1>5. StreamsInv'
    BY <1>1, StreamAssumption DEF SendFails, Schedule, pingVars, stopVars, TypeOK, StreamsInv,
        ConnectionInv
<1>6. ConnectionInv'
    BY <1>1, StreamAssumption DEF SendFails, Schedule, pingVars, TypeOK, StreamsInv, ConnectionInv,
        Connectors, LoopAlive
<1>7. QED BY <1>2, <1>3, <1>4, <1>5, <1>6 DEF SenderInv

LEMMA StopBeginsKeeps ==
    ASSUME SenderInv, NEW t \in Stoppers, StopBegins(t)
    PROVE  SenderInv'
<1>1. TypeOK /\ BeforeStart /\ StopsInv /\ StreamsInv /\ ConnectionInv
    BY DEF SenderInv
<1>2. TypeOK'
  <2>1. /\ stopPc' \in [Stoppers -> {"idle", "loop", "ping", "closing", "done"}]
        /\ closing' \in [Stoppers -> Streams \cup {NoStream}]
      BY <1>1 DEF StopBegins, EndPing, CloseStream, TypeOK
  <2>2. /\ pingCancelled' \subseteq Streams /\ stream' \in Streams \cup {NoStream}
        /\ pingTask' \in Streams \cup {NoStream} /\ loopCancelled' \in BOOLEAN
      BY <1>1 DEF StopBegins, EndPing, CloseStream, TypeOK
  <2>3. QED BY <1>1, <2>1, <2>2 DEF StopBegins, TypeOK
<1>3. BeforeStart'
    BY <1>1, StreamAssumption DEF StopBegins, EndPing, CloseStream, BeforeStart, StreamsInv,
        LoopAlive, Started
<1>4. StopsInv'
    BY <1>1, StreamAssumption DEF StopBegins, EndPing, CloseStream, TypeOK, StopsInv, LoopAlive
<1>5. StreamsInv'
    BY <1>1, StreamAssumption DEF StopBegins, EndPing, CloseStream, TypeOK, StopsInv, StreamsInv
<1>6. ConnectionInv'
    BY <1>1, StreamAssumption DEF StopBegins, ConnectionInv, LoopAlive
<1>7. QED BY <1>2, <1>3, <1>4, <1>5, <1>6 DEF SenderInv

LEMMA StopAfterLoopKeeps ==
    ASSUME SenderInv, NEW t \in Stoppers, StopAfterLoop(t)
    PROVE  SenderInv'
<1>1. TypeOK /\ BeforeStart /\ StopsInv /\ StreamsInv /\ ConnectionInv
    BY DEF SenderInv
<1>2. TypeOK'
    BY <1>1, StreamAssumption DEF StopAfterLoop, EndPing, CloseStream, loopVars, TypeOK, StreamsInv,
        ConnectionInv
<1>3. BeforeStart'
    BY <1>1, StreamAssumption DEF StopAfterLoop, EndPing, CloseStream, loopVars, BeforeStart,
        StreamsInv, Started
<1>4. StopsInv'
    BY <1>1, StreamAssumption DEF StopAfterLoop, EndPing, CloseStream, loopVars, TypeOK, StopsInv,
        LoopAlive
<1>5. StreamsInv'
    BY <1>1, StreamAssumption DEF StopAfterLoop, EndPing, CloseStream, loopVars, TypeOK, StopsInv,
        StreamsInv
<1>6. ConnectionInv'
    BY <1>1, StreamAssumption DEF StopAfterLoop, loopVars, StopsInv, ConnectionInv, LoopAlive
<1>7. QED BY <1>2, <1>3, <1>4, <1>5, <1>6 DEF SenderInv

LEMMA StopAfterPingKeeps ==
    ASSUME SenderInv, NEW t \in Stoppers, StopAfterPing(t)
    PROVE  SenderInv'
<1>1. TypeOK /\ BeforeStart /\ StopsInv /\ StreamsInv /\ ConnectionInv
    BY DEF SenderInv
<1>2. TypeOK'
    BY <1>1, StreamAssumption DEF StopAfterPing, CloseStream, loopVars, TypeOK, StreamsInv,
        ConnectionInv
<1>3. BeforeStart'
    BY <1>1, StreamAssumption DEF StopAfterPing, CloseStream, loopVars, BeforeStart, Started
<1>4. StopsInv'
    BY <1>1, StreamAssumption DEF StopAfterPing, CloseStream, loopVars, TypeOK, StopsInv, LoopAlive
<1>5. StreamsInv'
    BY <1>1, StreamAssumption DEF StopAfterPing, CloseStream, loopVars, TypeOK, StopsInv, StreamsInv
<1>6. ConnectionInv'
    BY <1>1, StreamAssumption DEF StopAfterPing, loopVars, StopsInv, ConnectionInv, LoopAlive
<1>7. QED BY <1>2, <1>3, <1>4, <1>5, <1>6 DEF SenderInv

LEMMA StopClosesKeeps ==
    ASSUME SenderInv, NEW t \in Stoppers, StopCloses(t)
    PROVE  SenderInv'
<1>1. TypeOK /\ BeforeStart /\ StopsInv /\ StreamsInv /\ ConnectionInv
    BY DEF SenderInv
<1>2. TypeOK'
    BY <1>1, StreamAssumption DEF StopCloses, loopVars, pingVars, TypeOK
<1>3. BeforeStart'
    BY <1>1, StreamAssumption DEF StopCloses, loopVars, pingVars, BeforeStart, Started
<1>4. StopsInv'
    BY <1>1, StreamAssumption DEF StopCloses, loopVars, TypeOK, StopsInv, LoopAlive
<1>5. StreamsInv'
    BY <1>1, StreamAssumption DEF StopCloses, loopVars, pingVars, TypeOK, StreamsInv
<1>6. ConnectionInv'
    BY <1>1, StreamAssumption DEF StopCloses, pingVars, StopsInv, StreamsInv, ConnectionInv
<1>7. QED BY <1>2, <1>3, <1>4, <1>5, <1>6 DEF SenderInv

-----------------------------------------------------------------------------
LEMMA SenderStepwise == SenderInv /\ [Next]_vars => SenderInv'
<1> SUFFICES ASSUME SenderInv, [Next]_vars PROVE SenderInv'
    OBVIOUS
<1>1. CASE StartSender \/ LoopStep
    BY <1>1, StartSenderKeeps, LoopBeginsKeeps, LoopWakesKeeps, LoopIsCancelledKeeps DEF LoopStep
<1>2. ASSUME NEW c \in Connectors, Connects(c) \/ Joined(c) \/ ConnectFails(c) PROVE SenderInv'
    BY <1>2, ConnectsKeeps, JoinedKeeps, ConnectFailsKeeps
<1>3. ASSUME NEW s \in Streams, PingStep(s) \/ Break(s) PROVE SenderInv'
    BY <1>3, PingReadsKeeps, PingAnswersKeeps, PingLosesKeeps, PingIsCancelledKeeps, BreakKeeps DEF
        PingStep
<1>4. ASSUME NEW x \in Sends, BeginSend(x) \/ SendStep(x) PROVE SenderInv'
    BY <1>4, BeginSendKeeps, SendReturnsKeeps, SendFailsKeeps DEF SendStep
<1>5. ASSUME NEW t \in Stoppers, StopBegins(t) \/ StopStep(t) PROVE SenderInv'
    BY <1>5, StopBeginsKeeps, StopAfterLoopKeeps, StopAfterPingKeeps, StopClosesKeeps DEF StopStep
<1>6. CASE UNCHANGED vars
    BY <1>6 DEF SenderInv, TypeOK, BeforeStart, StopsInv, StreamsInv, ConnectionInv, LoopAlive,
        Started, vars, loopVars, pingVars, stopVars
<1>7. QED BY <1>1, <1>2, <1>3, <1>4, <1>5, <1>6 DEF Next

LEMMA SenderAlways == Spec => []SenderInv
<1> QED BY SenderInitially, SenderStepwise, PTL DEF Spec

(* Whoever notices the loss, a sender that is not stopped has a reconnect  *)
(* loop exactly while it is not connected, and one that is connected       *)
(* answers the PINGs of the stream it writes to.                           *)
THEOREM SenderIsNeverStranded == Spec => []NeverStranded
<1>1. SenderInv => NeverStranded
    BY DEF SenderInv, StreamsInv, ConnectionInv, NeverStranded
<1> QED BY SenderAlways, <1>1, PTL

(* Two streams are never open at once.                                     *)
LEMMA AtMostOneOpen ==
    ASSUME SenderInv, NEW s \in Streams, NEW r \in Streams, link[s] = "open", link[r] = "open"
    PROVE  s = r
<1>1. TypeOK /\ BeforeStart /\ StopsInv /\ StreamsInv /\ ConnectionInv
    BY DEF SenderInv
<1>2. \A c, d \in Connectors : joining[c] # NoStream /\ joining[d] # NoStream => c = d
    BY <1>1 DEF BeforeStart, StreamsInv, Connectors, Started
<1>3. (\E c \in Connectors : joining[c] # NoStream) =>
            /\ stream # NoStream => link[stream] # "open"
            /\ \A t \in Stoppers : closing[t] = NoStream
    BY <1>1 DEF BeforeStart, StopsInv, StreamsInv, ConnectionInv, Connectors, Started, LoopAlive
<1>4. (\E t \in Stoppers : closing[t] # NoStream) => stream = NoStream
    BY <1>1 DEF StopsInv
<1>5. QED BY <1>1, <1>2, <1>3, <1>4, StreamAssumption DEF StreamsInv, StopsInv

(* stop() closes what start() and the reconnect loop open, and they open   *)
(* one stream at a time.                                                   *)
THEOREM SenderLeaksNothing == Spec => []NoConnectionLeaks
<1>1. SenderInv => OneConnection
  <2> SUFFICES ASSUME SenderInv PROVE OneConnection
      OBVIOUS
  <2> DEFINE Open == {s \in Streams : link[s] = "open"}
  <2>1. CASE Open = {}
      BY <2>1, FS_EmptySet DEF OneConnection
  <2>2. CASE Open # {}
    <3>1. PICK s \in Streams : link[s] = "open"
        BY <2>2
    <3>2. Open = {s}
        BY <3>1, AtMostOneOpen
    <3>3. QED BY <3>2, FS_Singleton DEF OneConnection
  <2>3. QED BY <2>1, <2>2
<1>2. SenderInv => StoppedIsQuiet
  <2> SUFFICES ASSUME SenderInv, Started, \E t \in Stoppers : stopPc[t] = "done",
                      \A t \in Stoppers : stopPc[t] \in {"idle", "done"}
               PROVE  ~LoopAlive /\ \A s \in Streams : ping[s] = "none" /\ link[s] # "open"
      BY DEF StoppedIsQuiet
  <2>1. stream = NoStream /\ ~LoopAlive /\ \A t \in Stoppers : closing[t] = NoStream
      BY DEF SenderInv, StopsInv
  <2>2. \A c \in Connectors : joining[c] = NoStream
      BY <2>1 DEF SenderInv, StreamsInv, Connectors, Started, LoopAlive
  <2>3. QED BY <2>1, <2>2, StreamAssumption DEF SenderInv, StreamsInv
<1>3. SenderInv => NoConnectionLeaks
    BY <1>1, <1>2 DEF NoConnectionLeaks
<1> QED BY SenderAlways, <1>3, PTL

-----------------------------------------------------------------------------
(* TwitchChatReader.  The reader knows of its connection from the end of   *)
(* the handshake on; before it start() closes what it opened.              *)
ChatEnded == {"returned", "raised", "cancelled"}

ChatLinkInv ==
    /\ chatStream \in BOOLEAN
    /\ chatLink \in {"none", "open", "lost", "closed"}
    /\ chatWorker = "connecting" => chatLink = "none"
    /\ chatWorker \in {"reading", "ponging"} => chatStream
    /\ chatStop # "idle" => chatWorker \in ChatEnded
    /\ ConnectionEndsWithReader

(* Nothing is read before the handshake has ended.                         *)
ChatLinesInv ==
    /\ chatLines \in Seq(LineKinds)
    /\ chatEvents \in Seq(Nat)
    /\ pongs \in Seq(Nat)
    /\ chatWorker \in {"connecting", "joining"} => chatLines = <<>>
    /\ \A k \in 1..Len(chatEvents) : chatEvents[k] \in 1..Len(chatLines)
    /\ LinesAreServed

LEMMA ChatLinkKept ==
    ASSUME ChatLinkInv, [ChatNext]_chatVars
    PROVE  ChatLinkInv'
<1> USE DEF ChatLinkInv, ConnectionEndsWithReader, ChatEnded
<1>1. CASE ConnectChat \/ WriteHandshake \/ LeaveJoining
    BY <1>1 DEF ConnectChat, WriteHandshake, LeaveJoining
<1>2. CASE LoseChatLink \/ Pong \/ ReadEnd \/ CancelChat
    BY <1>2 DEF LoseChatLink, Pong, ReadEnd, CancelChat, lineVars
<1>3. ASSUME NEW kind \in LineKinds, ReadLine(kind) PROVE ChatLinkInv'
  <2>1. chatWorker' \in {"reading", "ponging", "raised"}
      BY <1>3 DEF ReadLine, LineKinds
  <2>2. QED BY <1>3, <2>1 DEF ReadLine
<1>4. CASE StopChat
  <2>1. /\ chatWorker \in ChatEnded /\ chatWorker' = chatWorker
        /\ chatStream' = FALSE /\ chatRunning' = FALSE
      BY <1>4 DEF StopChat
  <2>2. chatLink' \in {"none", "lost", "closed"}
      BY <1>4 DEF StopChat
  <2>3. QED BY <2>1, <2>2
<1>5. CASE EndChatStop
    BY <1>5 DEF EndChatStop
<1>6. CASE UNCHANGED chatVars
    BY <1>6 DEF chatVars
<1>7. QED BY <1>1, <1>2, <1>3, <1>4, <1>5, <1>6 DEF ChatNext

(* A worker that does not read: the lines, what was made of them and what  *)
(* is owed are the same.                                                   *)
LEMMA LinesAreLeft ==
    ASSUME ChatLinesInv, UNCHANGED lineVars,
           chatWorker' = "reading" => chatWorker = "reading" \/ chatLines = <<>>,
           chatWorker = "raised" => chatWorker' = "raised",
           chatWorker' \in {"connecting", "joining"} => chatWorker \in {"connecting", "joining"}
    PROVE  ChatLinesInv'
<1>1. UNCHANGED <<chatLines, chatEvents, pongs>>
    BY DEF lineVars
<1>2. \A i \in 1..Len(chatLines) : chatLines[i] = "ping" =>
        (\E k \in 1..Len(pongs) : pongs[k] = i) \/ (i = Len(chatLines) /\ chatWorker' # "reading")
    BY DEF ChatLinesInv, LinesAreServed
<1>3. \A i \in 1..Len(chatLines) : chatLines[i] = "fatal" =>
        i = Len(chatLines) /\ chatWorker' = "raised"
    BY DEF ChatLinesInv, LinesAreServed
<1>4. LinesAreServed'
    BY <1>1, <1>2, <1>3 DEF ChatLinesInv, LinesAreServed
<1>5. QED BY <1>1, <1>4 DEF ChatLinesInv

(* The worker reads when it owes nothing, and the new line is the last.    *)
LEMMA LineIsServed ==
    ASSUME ChatLinesInv, NEW kind \in LineKinds, ReadLine(kind)
    PROVE  ChatLinesInv'
<1> DEFINE n == Len(chatLines)
<1>1. /\ chatLines' = Append(chatLines, kind)
      /\ chatEvents' = IF kind = "message" THEN Append(chatEvents, Len(chatLines')) ELSE chatEvents
      /\ pongs' = pongs /\ chatWorker = "reading"
    BY DEF ReadLine
<1>2. /\ n \in Nat /\ Len(chatLines') = n + 1 /\ chatLines' \in Seq(LineKinds)
      /\ chatLines'[n + 1] = kind
      /\ \A i \in 1..n : chatLines'[i] = chatLines[i]
    BY <1>1 DEF ChatLinesInv
<1>3. /\ kind = "ping" => chatWorker' = "ponging"
      /\ kind = "fatal" => chatWorker' = "raised"
      /\ chatWorker' \in {"reading", "ponging", "raised"}
    BY DEF ReadLine, LineKinds
<1>4. /\ \A i \in 1..n : chatLines[i] # "fatal"
      /\ \A i \in 1..n : chatLines[i] = "ping" => \E k \in 1..Len(pongs) : pongs[k] = i
    BY <1>1 DEF ChatLinesInv, LinesAreServed
<1>5. \A i \in 1..(n + 1) : chatLines'[i] = "ping" =>
        (\E k \in 1..Len(pongs) : pongs[k] = i) \/ (i = n + 1 /\ chatWorker' # "reading")
    BY <1>2, <1>3, <1>4
<1>6. \A i \in 1..(n + 1) : chatLines'[i] = "fatal" => i = n + 1 /\ chatWorker' = "raised"
    BY <1>2, <1>3, <1>4
<1>7. /\ chatEvents' \in Seq(Nat)
      /\ \A k \in 1..Len(chatEvents') : chatEvents'[k] \in 1..(n + 1)
      /\ \A i \in 1..(Len(chatEvents') - 1) : chatEvents'[i] < chatEvents'[i + 1]
      /\ \A i \in 1..(n + 1) :
            chatLines'[i] = "message" <=> \E k \in 1..Len(chatEvents') : chatEvents'[k] = i
  <2>1. CASE kind = "message"
    <3>1. /\ chatEvents' = Append(chatEvents, n + 1) /\ chatEvents' \in Seq(Nat)
          /\ Len(chatEvents') = Len(chatEvents) + 1 /\ Len(chatEvents) \in Nat
          /\ chatEvents'[Len(chatEvents) + 1] = n + 1
          /\ \A k \in 1..Len(chatEvents) : chatEvents'[k] = chatEvents[k]
        BY <1>1, <1>2, <2>1 DEF ChatLinesInv
    <3>2. \A k \in 1..Len(chatEvents') : chatEvents'[k] \in 1..(n + 1)
        BY <1>2, <3>1 DEF ChatLinesInv
    <3>3. \A i \in 1..(Len(chatEvents') - 1) : chatEvents'[i] < chatEvents'[i + 1]
        BY <1>2, <3>1 DEF ChatLinesInv, LinesAreServed
    <3>4. ASSUME NEW i \in 1..(n + 1)
          PROVE  chatLines'[i] = "message" <=> \E k \in 1..Len(chatEvents') : chatEvents'[k] = i
      <4>1. CASE i = n + 1
          BY <1>2, <2>1, <3>1, <4>1
      <4>2. CASE i \in 1..n
        <5>1. chatLines'[i] = "message" <=> \E k \in 1..Len(chatEvents) : chatEvents[k] = i
            BY <1>2, <4>2 DEF ChatLinesInv, LinesAreServed
        <5>2. (\E k \in 1..Len(chatEvents) : chatEvents[k] = i)
                <=> \E k \in 1..Len(chatEvents') : chatEvents'[k] = i
            BY <1>2, <3>1, <4>2
        <5>3. QED BY <5>1, <5>2
      <4>3. QED BY <1>2, <4>1, <4>2
    <3>5. QED BY <3>1, <3>2, <3>3, <3>4
  <2>2. CASE kind # "message"
    <3>1. chatEvents' = chatEvents
        BY <1>1, <2>2
    <3>2. \A k \in 1..Len(chatEvents) : chatEvents[k] \in 1..n
        BY DEF ChatLinesInv
    <3>3. ASSUME NEW i \in 1..(n + 1)
          PROVE  chatLines'[i] = "message" <=> \E k \in 1..Len(chatEvents) : chatEvents[k] = i
      <4>1. CASE i = n + 1
          BY <1>2, <2>2, <3>2, <4>1
      <4>2. CASE i \in 1..n
          BY <1>2, <4>2 DEF ChatLinesInv, LinesAreServed
      <4>3. QED BY <1>2, <4>1, <4>2
    <3>4. QED BY <1>2, <3>1, <3>2, <3>3 DEF ChatLinesInv, LinesAreServed
  <2>3. QED BY <2>1, <2>2
<1>8. LinesAreServed'
    BY <1>1, <1>2, <1>5, <1>6, <1>7 DEF LinesAreServed
<1>9. QED BY <1>1, <1>2, <1>3, <1>7, <1>8 DEF ChatLinesInv

(* The PING that is answered is the last line.                             *)
LEMMA PongIsLast ==
    ASSUME ChatLinesInv, Pong
    PROVE  ChatLinesInv'
<1>1. UNCHANGED <<chatLines, chatEvents>> /\ chatWorker = "ponging"
    BY DEF Pong
<1>2. CASE chatWorker' = "reading" /\ pongs' = Append(pongs, Len(chatLines))
  <2>1. /\ pongs' \in Seq(Nat) /\ Len(pongs') = Len(pongs) + 1 /\ Len(pongs) \in Nat
        /\ pongs'[Len(pongs) + 1] = Len(chatLines)
        /\ \A k \in 1..Len(pongs) : pongs'[k] = pongs[k]
      BY <1>2 DEF ChatLinesInv
  <2>2. ASSUME NEW i \in 1..Len(chatLines), chatLines[i] = "ping"
        PROVE  \E k \in 1..Len(pongs') : pongs'[k] = i
    <3>1. CASE \E k \in 1..Len(pongs) : pongs[k] = i
      <4>1. PICK k \in 1..Len(pongs) : pongs[k] = i
          BY <3>1
      <4>2. k \in 1..Len(pongs') /\ pongs'[k] = i
          BY <2>1, <4>1
      <4>3. QED BY <4>2
    <3>2. CASE i = Len(chatLines)
        BY <2>1, <3>2
    <3>3. QED BY <2>2, <3>1, <3>2 DEF ChatLinesInv, LinesAreServed
  <2>3. LinesAreServed'
      BY <1>1, <2>2 DEF ChatLinesInv, LinesAreServed
  <2>4. QED BY <1>1, <1>2, <2>1, <2>3 DEF ChatLinesInv
<1>3. CASE chatWorker' = "raised" /\ UNCHANGED pongs
    BY <1>1, <1>3, LinesAreLeft DEF lineVars
<1>4. QED BY <1>2, <1>3 DEF Pong

LEMMA ChatLinesKept ==
    ASSUME ChatLinesInv, [ChatNext]_chatVars
    PROVE  ChatLinesInv'
<1>1. CASE ConnectChat \/ WriteHandshake \/ LeaveJoining
  <2>1. /\ UNCHANGED lineVars
        /\ chatWorker \in {"connecting", "joining"}
      BY <1>1 DEF ConnectChat, WriteHandshake, LeaveJoining
  <2>2. chatLines = <<>>
      BY <2>1 DEF ChatLinesInv
  <2>3. QED BY <2>1, <2>2, LinesAreLeft
<1>2. CASE LoseChatLink \/ StopChat \/ EndChatStop \/ UNCHANGED chatVars
    BY <1>2, LinesAreLeft DEF LoseChatLink, StopChat, EndChatStop, chatVars
<1>3. CASE ReadEnd \/ CancelChat
    BY <1>3, LinesAreLeft DEF ReadEnd, CancelChat
<1>4. QED BY <1>1, <1>2, <1>3, LineIsServed, PongIsLast DEF ChatNext

(* However the worker ends its connection does not outlive stop(), and     *)
(* every PING is answered before the next line is read.                    *)
THEOREM ChatIsServed == ChatSpec => []ChatIsRead
<1>1. ChatInit => ChatLinkInv
    BY DEF ChatInit, ChatLinkInv, ConnectionEndsWithReader
<1>2. ChatInit => ChatLinesInv
    BY DEF ChatInit, ChatLinesInv, LinesAreServed
<1>3. ChatLinkInv /\ ChatLinesInv => ChatIsRead
    BY DEF ChatLinkInv, ChatLinesInv, ChatIsRead
<1>4. QED BY <1>1, <1>2, <1>3, ChatLinkKept, ChatLinesKept, PTL DEF ChatSpec

-----------------------------------------------------------------------------
(* MediaPipeline.  How far start() has come says what there is of the two  *)
(* programs, and how far stop() has come which of them must have ended.    *)
MediaEnded == {"returned", "raised", "cancelled"}
PumpEnded == {"done", "failed", "cancelled"}

LaunchInv ==
    /\ process \in [Programs -> {"none", "running", "told", "ok", "bad"}]
    /\ startAt \in {"launching", "second", "undoing", "started", "failed", "abandoned"}
    /\ startAt \in {"second", "undoing", "abandoned"} => process["streamlink"] # "none"
    /\ startAt \in {"undoing", "abandoned"} => process["streamlink"] # "running"
    /\ startAt # "started" => process["ffmpeg"] = "none" /\ media = "none" /\ pump = "none"
    /\ startAt = "launching" => process["streamlink"] = "none"
    /\ startAt = "failed" => process["streamlink"] \in {"none", "ok", "bad"}
    /\ startAt = "started" => /\ \A p \in Programs : process[p] # "none"
                              /\ media # "none" /\ pump # "none"

StopInv ==
    /\ pump \in {"none", "pumping", "closing", "done", "failed", "cancelled"}
    /\ reported \in BOOLEAN
    /\ stopStep # "idle" => media \in MediaEnded
    /\ stopStep \notin {"idle", "awaitPump"} => pump \in PumpEnded /\ process["ffmpeg"] # "running"
    /\ stopStep \in {"awaitStreamlink", "returned", "raised"} => Exited("ffmpeg")
    /\ stopStep \notin {"idle", "awaitPump", "awaitFfmpeg"} => process["streamlink"] # "running"
    /\ stopStep \in {"returned", "raised"} =>
        Exited("streamlink") /\ (PumpHasFailed /\ ~stopCancelled => reported)
    /\ stopStep = "cancelled" => Exited("streamlink") \/ Exited("ffmpeg")
    /\ stopStep \in {"leaving", "cancelled"} => stopCancelled
    /\ reported => PumpHasFailed
    /\ media = "raised" => reported \/ process["ffmpeg"] = "bad"
    /\ stopStep = "raised" => reported /\ (media # "raised" \/ process["ffmpeg"] = "bad")

PipelineInv == LaunchInv /\ StopInv

LEMMA ProgramEndsKeeps ==
    ASSUME PipelineInv, NEW p \in Programs, NEW status \in {"ok", "bad"}, ProgramEnds(p, status)
    PROVE  PipelineInv'
<1>1. /\ process[p] \in {"running", "told"} /\ process' = [process EXCEPT ![p] = status]
      /\ UNCHANGED <<startAt, pump, pumpTimedOut, reported, media, stopStep, stopCancelled>>
    BY DEF ProgramEnds, Becomes, pumpVars, stoppingVars
<1>2. process' \in [Programs -> {"none", "running", "told", "ok", "bad"}]
    BY <1>1 DEF PipelineInv, LaunchInv
<1>3. \A q \in Programs : process'[q] = IF q = p THEN status ELSE process[q]
    BY <1>1 DEF PipelineInv, LaunchInv
<1>4. LaunchInv'
    BY <1>1, <1>2, <1>3 DEF PipelineInv, LaunchInv, Programs
<1>5. StopInv'
    BY <1>1, <1>3 DEF PipelineInv, StopInv, Programs, Exited, PumpHasFailed
<1>6. QED BY <1>4, <1>5 DEF PipelineInv

LEMMA LaunchKeeps ==
    ASSUME PipelineInv, LaunchStreamlink \/ LaunchFfmpeg \/ UndoLaunch \/ UndoIsCancelled
    PROVE  PipelineInv'
<1>1. /\ UNCHANGED <<reported, stopStep, stopCancelled>>
      /\ stopStep = "idle" /\ ~reported /\ media # "raised" /\ pump = "none"
  <2>1. startAt # "started" /\ UNCHANGED <<reported, stopStep, stopCancelled>>
      BY DEF LaunchStreamlink, LaunchFfmpeg, UndoLaunch, UndoIsCancelled, stoppingVars
  <2>2. media = "none" /\ pump = "none"
      BY <2>1 DEF PipelineInv, LaunchInv
  <2>3. QED BY <2>1, <2>2 DEF PipelineInv, StopInv, MediaEnded, PumpHasFailed
<1>2. CASE LaunchStreamlink
    BY <1>1, <1>2 DEF LaunchStreamlink, Becomes, PipelineInv, LaunchInv, StopInv, Programs, pumpVars
<1>3. CASE LaunchFfmpeg
  <2>1. CASE Becomes("ffmpeg", "running") /\ startAt' = "started"
      BY <1>1, <1>3, <2>1 DEF LaunchFfmpeg, Becomes, PipelineInv, LaunchInv, StopInv, Programs
  <2>2. CASE startAt' = "undoing"
    <3>1. process' = Told("streamlink") /\ UNCHANGED <<pump, media>>
        BY <1>3, <2>2 DEF LaunchFfmpeg
    <3>2. QED BY <1>1, <1>3, <2>2, <3>1 DEF LaunchFfmpeg, Told, PipelineInv, LaunchInv, StopInv, Programs
  <2>3. QED BY <1>3, <2>1, <2>2 DEF LaunchFfmpeg
<1>4. CASE UndoLaunch
  <2>1. process' \in [Programs -> {"none", "running", "told", "ok", "bad"}]
      BY <1>4 DEF UndoLaunch, Killed, PipelineInv, LaunchInv
  <2>2. process'["streamlink"] \in {"none", "ok", "bad"} /\ process'["ffmpeg"] = process["ffmpeg"]
      BY <1>4 DEF UndoLaunch, Killed, Exited, PipelineInv, LaunchInv, Programs
  <2>3. QED BY <1>1, <1>4, <2>1, <2>2
         DEF UndoLaunch, PipelineInv, LaunchInv, StopInv, Programs, pumpVars
<1>5. CASE UndoIsCancelled
    BY <1>1, <1>5 DEF UndoIsCancelled, PipelineInv, LaunchInv, StopInv, processVars, pumpVars
<1>6. QED BY <1>2, <1>3, <1>4, <1>5

LEMMA PumpKeeps ==
    ASSUME PipelineInv, PumpMeetsEnd \/ PumpFails \/ PumpIsCancelled \/ PumpEnds \/ PumpTimesOut
    PROVE  PipelineInv'
<1>1. /\ UNCHANGED <<process, startAt, reported, media, stopStep, stopCancelled>>
      /\ pump \in {"pumping", "closing"}
      /\ pump' \in {"pumping", "closing", "done", "failed", "cancelled"}
    BY DEF PumpMeetsEnd, PumpFails, PumpIsCancelled, PumpEnds, PumpTimesOut, processVars, stoppingVars
<1>2. (~reported /\ stopStep \in {"idle", "awaitPump"}) \/ pump \in PumpEnded
    BY <1>1 DEF PipelineInv, StopInv, PumpHasFailed
<1>3. ~reported /\ stopStep \in {"idle", "awaitPump"}
    BY <1>1, <1>2 DEF PumpEnded
<1>4. LaunchInv'
    BY <1>1 DEF PipelineInv, LaunchInv
<1>5. StopInv'
    BY <1>1, <1>3 DEF PipelineInv, StopInv
<1>6. QED BY <1>4, <1>5 DEF PipelineInv

LEMMA MediaKeeps ==
    ASSUME PipelineInv, MeetEnd \/ CheckStatus \/ EndMedia \/ CancelMedia
    PROVE  PipelineInv'
<1>1. /\ UNCHANGED <<process, startAt, pump, pumpTimedOut, stopStep, stopCancelled>>
      /\ media \in {"reading", "waiting", "yielding"} /\ media' # "none"
    BY DEF MeetEnd, CheckStatus, EndMedia, CancelMedia, RaiseOr, processVars, pumpVars, stoppingVars
<1>2. /\ reported' \in BOOLEAN
      /\ reported' => PumpHasFailed'
      /\ media' = "raised" => reported' \/ process["ffmpeg"] = "bad"
  <2>1. PumpHasFailed' = PumpHasFailed
      BY <1>1 DEF PumpHasFailed
  <2>2. reported \in BOOLEAN /\ (reported => PumpHasFailed)
      BY DEF PipelineInv, StopInv
  <2>3. ASSUME NEW next \in {"waiting", "returned"}, RaiseOr(next)
        PROVE  /\ reported' \in BOOLEAN /\ (reported' => PumpHasFailed)
               /\ media' = "raised" => reported'
      BY <2>2, <2>3 DEF RaiseOr, PumpHasFailed
  <2>4. CASE MeetEnd \/ EndMedia
      BY <2>1, <2>3, <2>4 DEF MeetEnd, EndMedia
  <2>5. CASE CheckStatus \/ CancelMedia
      BY <2>1, <2>2, <2>5 DEF CheckStatus, CancelMedia
  <2>6. QED BY <2>4, <2>5
<1>3. stopStep = "idle"
    BY <1>1 DEF PipelineInv, StopInv, MediaEnded
<1>4. LaunchInv'
  <2>1. startAt = "started"
      BY <1>1 DEF PipelineInv, LaunchInv
  <2>2. QED BY <1>1, <2>1 DEF PipelineInv, LaunchInv
<1>5. StopInv'
    BY <1>1, <1>2, <1>3 DEF PipelineInv, StopInv
<1>6. QED BY <1>4, <1>5 DEF PipelineInv

LEMMA StopKeeps ==
    ASSUME PipelineInv,
           StopPump \/ StopFfmpeg \/ StopStreamlink \/ EndPipeline \/ StopIsCancelled \/ LeavePipeline
    PROVE  PipelineInv'
<1>1. UNCHANGED <<startAt, pump, pumpTimedOut, media>> /\ media \in MediaEnded
    BY DEF PipelineInv, StopInv, StopPump, StopFfmpeg, StopStreamlink, EndPipeline, StopIsCancelled,
           LeavePipeline, MediaEnded, pumpVars
<1>2. startAt = "started" /\ \A p \in Programs : process[p] # "none"
    BY <1>1 DEF PipelineInv, LaunchInv, MediaEnded
<1>3. PumpHasFailed' = PumpHasFailed
    BY <1>1 DEF PumpHasFailed
<1>4. ASSUME process' \in [Programs -> {"none", "running", "told", "ok", "bad"}],
             \A p \in Programs : process'[p] # "none"
      PROVE  LaunchInv'
    BY <1>1, <1>2, <1>4 DEF PipelineInv, LaunchInv, Programs
<1>5. CASE StopPump
  <2>1. UNCHANGED <<process, reported, stopCancelled>> /\ stopStep = "idle" /\ stopStep' = "awaitPump"
      BY <1>5 DEF StopPump, processVars
  <2>2. StopInv'
      BY <1>1, <1>3, <2>1 DEF PipelineInv, StopInv
  <2>3. QED BY <1>2, <1>4, <2>1, <2>2 DEF PipelineInv, LaunchInv
<1>6. CASE StopFfmpeg
  <2>1. /\ process' \in [Programs -> {"none", "running", "told", "ok", "bad"}]
        /\ process'["streamlink"] = process["streamlink"]
        /\ process'["ffmpeg"] = IF process["ffmpeg"] = "running" THEN "told" ELSE process["ffmpeg"]
      BY <1>6 DEF StopFfmpeg, Told, PipelineInv, LaunchInv, Programs
  <2>2. /\ UNCHANGED <<reported, stopCancelled>> /\ stopStep = "awaitPump" /\ stopStep' = "awaitFfmpeg"
        /\ pump \in PumpEnded
      BY <1>6 DEF StopFfmpeg, PumpEnded
  <2>3. StopInv'
    <3>1. media = "raised" => reported \/ process'["ffmpeg"] = "bad"
        BY <2>1 DEF PipelineInv, StopInv
    <3>2. QED BY <1>1, <1>3, <2>1, <2>2, <3>1 DEF PipelineInv, StopInv
  <2>4. QED BY <1>2, <1>4, <2>1, <2>3 DEF PipelineInv, Programs
<1>7. CASE StopStreamlink
  <2>1. /\ process' \in [Programs -> {"none", "running", "told", "ok", "bad"}]
        /\ process'["streamlink"] \notin {"none", "running"}
        /\ process'["ffmpeg"] = IF Exited("ffmpeg") THEN process["ffmpeg"] ELSE "bad"
      BY <1>2, <1>7 DEF StopStreamlink, Killed, PipelineInv, LaunchInv, Programs
  <2>2. /\ UNCHANGED <<reported, stopCancelled>> /\ stopStep = "awaitFfmpeg" /\ stopStep' = "awaitStreamlink"
      BY <1>7 DEF StopStreamlink
  <2>3. process'["ffmpeg"] \in {"ok", "bad"} /\ (process["ffmpeg"] = "bad" => process'["ffmpeg"] = "bad")
      BY <2>1 DEF Exited
  <2>4. StopInv'
      BY <1>1, <1>3, <2>1, <2>2, <2>3 DEF PipelineInv, StopInv, Exited
  <2>5. QED BY <1>4, <2>1, <2>3, <2>4 DEF PipelineInv, Programs
<1>8. CASE EndPipeline
  <2>1. /\ process' \in [Programs -> {"none", "running", "told", "ok", "bad"}]
        /\ process'["ffmpeg"] = process["ffmpeg"]
        /\ process'["streamlink"] \in {"ok", "bad"}
      BY <1>8 DEF EndPipeline, Killed, Exited, PipelineInv, LaunchInv, Programs
  <2>2. stopStep = "awaitStreamlink" /\ stopStep' \in {"returned", "raised"} /\ stopCancelled' = stopCancelled
      BY <1>8 DEF EndPipeline
  <2>3. /\ reported' \in BOOLEAN /\ (reported' => PumpHasFailed) /\ (reported => reported')
        /\ PumpHasFailed /\ ~stopCancelled => reported'
        /\ stopStep' = "raised" => reported' /\ ~reported
    <3>1. reported \in BOOLEAN /\ (reported => PumpHasFailed)
        BY DEF PipelineInv, StopInv
    <3>2. \/ /\ stopStep' = IF PumpHasFailed /\ ~reported THEN "raised" ELSE "returned"
             /\ reported' = (reported \/ PumpHasFailed)
          \/ stopCancelled /\ stopStep' = "returned" /\ reported' = reported
        BY <1>8, Zenon DEF EndPipeline
    <3>3. CASE reported' = (reported \/ PumpHasFailed) /\ stopStep' = IF PumpHasFailed /\ ~reported THEN "raised" ELSE "returned"
        BY <3>1, <3>3 DEF PumpHasFailed
    <3>4. CASE stopCancelled /\ stopStep' = "returned" /\ reported' = reported
        BY <3>1, <3>4 DEF PumpHasFailed
    <3>5. QED BY <3>2, <3>3, <3>4
  <2>4. StopInv'
    <3>1. media = "raised" => reported \/ process["ffmpeg"] = "bad"
        BY DEF PipelineInv, StopInv
    <3>2. QED BY <1>1, <1>3, <2>1, <2>2, <2>3, <3>1 DEF PipelineInv, StopInv, Exited
  <2>5. QED BY <1>2, <1>4, <2>1, <2>4 DEF PipelineInv, Programs
<1>9. CASE StopIsCancelled
  <2>1. reported' = reported /\ stopCancelled'
      BY <1>9 DEF StopIsCancelled
  <2>2. /\ process' \in [Programs -> {"none", "running", "told", "ok", "bad"}]
        /\ process'["ffmpeg"] = process["ffmpeg"]
        /\ process'["streamlink"] \in {process["streamlink"], "told"}
        /\ process["streamlink"] # "running" => process'["streamlink"] = process["streamlink"]
      BY <1>9 DEF StopIsCancelled, Told, PipelineInv, LaunchInv, Programs
  <2>3. \/ stopStep = "awaitPump" /\ stopStep' = "awaitPump"
        \/ stopStep = "awaitFfmpeg" /\ stopStep' = "leaving" /\ process'["streamlink"] # "running"
        \/ stopStep = "awaitStreamlink" /\ stopStep' = "cancelled"
      BY <1>9 DEF StopIsCancelled, Told, PipelineInv, LaunchInv, Programs
  <2>4. StopInv'
      BY <1>1, <1>3, <2>1, <2>2, <2>3 DEF PipelineInv, StopInv, Exited
  <2>5. QED BY <1>2, <1>4, <2>2, <2>4 DEF PipelineInv, Programs
<1>10. CASE LeavePipeline
  <2>1. /\ process' \in [Programs -> {"none", "running", "told", "ok", "bad"}]
        /\ process'["ffmpeg"] = process["ffmpeg"]
        /\ process'["streamlink"] \in {"ok", "bad"}
      BY <1>10 DEF LeavePipeline, Killed, Exited, PipelineInv, LaunchInv, Programs
  <2>2. UNCHANGED <<reported, stopCancelled>> /\ stopStep = "leaving" /\ stopStep' = "cancelled"
      BY <1>10 DEF LeavePipeline
  <2>3. StopInv'
      BY <1>1, <1>3, <2>1, <2>2 DEF PipelineInv, StopInv, Exited
  <2>4. QED BY <1>2, <1>4, <2>1, <2>3 DEF PipelineInv, Programs
<1>11. QED BY <1>5, <1>6, <1>7, <1>8, <1>9, <1>10

LEMMA PipelineKept ==
    ASSUME PipelineInv, [PipelineNext]_mediaVars
    PROVE  PipelineInv'
<1>1. CASE UNCHANGED mediaVars
    BY <1>1 DEF mediaVars, processVars, pumpVars, stoppingVars, PipelineInv, LaunchInv, StopInv, Exited,
           PumpHasFailed
<1>2. QED BY <1>1, ProgramEndsKeeps, LaunchKeeps, PumpKeeps, MediaKeeps, StopKeeps
       DEF PipelineNext, PipelineStep

(* However start() and stop() end, and whoever dies first: no pump is left *)
(* and no program that was not told to end, and only a cancellation leaves *)
(* one that was told and not killed; a failure of the pump, or that it     *)
(* ended late, is told once, by the events or by a stop() that was not     *)
(* cancelled.                                                              *)
THEOREM NothingKeepsStreaming == PipelineSpec => []PipelineIsCleared
<1>1. PipelineInit => PipelineInv
    BY DEF PipelineInit, PipelineInv, LaunchInv, StopInv, Programs
<1>2. PipelineInv => PipelineIsCleared
  <2>1. LaunchInv => (startAt = "failed" => \A p \in Programs : process[p] = "none" \/ Exited(p))
      BY DEF LaunchInv, Programs, Exited
  <2>2. LaunchInv => (startAt = "abandoned" => process["ffmpeg"] = "none" /\ process["streamlink"] # "running")
      BY DEF LaunchInv
  <2>3. ASSUME StopInv, StopHasEnded
        PROVE  /\ pump \in {"done", "failed", "cancelled"}
               /\ \A p \in Programs : process[p] # "running"
               /\ \E p \in Programs : Exited(p)
               /\ stopStep # "cancelled" => \A p \in Programs : Exited(p)
               /\ PumpHasFailed /\ ~stopCancelled => reported
               /\ reported => PumpHasFailed
               /\ stopStep = "raised" => reported /\ (media # "raised" \/ process["ffmpeg"] = "bad")
      BY <2>3 DEF StopInv, StopHasEnded, PumpEnded, Programs
  <2>4. QED BY <2>1, <2>2, <2>3 DEF PipelineInv, PipelineIsCleared
<1>3. QED BY <1>1, <1>2, PipelineKept, PTL DEF PipelineSpec

-----------------------------------------------------------------------------
(* VideoDecoder.  While its reader reads, what was sampled is what events() *)
(* has yielded, then what is in the queue, then what waits to be put.  The *)
(* completion may take one frame out, once the thread has no more to give. *)
Items == {Failure, Finished} \cup {Frame(at) : at \in Nat}

DecoderTypes ==
    /\ queue \in Seq(Items)
    /\ toPut \in Items \cup {Nothing}
    /\ sampled \in Seq(Nat)
    /\ taken \in Seq(Nat)
    /\ frameTime \in Nat
    /\ stopRequested \in BOOLEAN /\ failed \in BOOLEAN

StreamInv ==
    /\ thread # "opened" /\ streamOpen => activeStream
    /\ thread \in {"finishing", "ended"} => ~streamOpen
    /\ stopAt = "done" => thread = "ended"
    /\ thread = "none" => reader = "none"
    /\ failed => thread \in {"submitting", "closing", "finishing", "ended"}

SamplingInv ==
    /\ \A i \in 1..(Len(sampled) - 1) : sampled[i + 1] >= sampled[i] + SampleInterval
    /\ nextSample = IF sampled = <<>> THEN -1 ELSE sampled[Len(sampled)] + SampleInterval

TakenInv ==
    /\ FramesInOrder
    /\ reader = "returned" => ~failed /\ thread \in {"finishing", "ended"}
    /\ reader = "raised" => failed

(* The completion has not run.                                             *)
Uncompleted == completing \/ thread \notin {"finishing", "ended"}

(* The queue begins with f frames, and d were taken out by the completion. *)
Carries(d, f) ==
    /\ Len(taken) + f + d + (IF IsFrame(toPut) THEN 1 ELSE 0) = Len(sampled)
    /\ d = 1 => ~Uncompleted
    /\ \A j \in 1..f : queue[j] = Frame(sampled[Len(taken) + j + d])
    /\ Len(taken) > 0 =>
        taken[Len(taken)] \in {sampled[Len(taken)], sampled[Len(taken) + d]}
    /\ f < Len(queue) => queue[f + 1] = IF failed THEN Failure ELSE Finished
    /\ Uncompleted => Len(queue) = f + (IF failed /\ toPut = Nothing THEN 1 ELSE 0)

HandoverInv ==
    reader \in {"none", "reading"} =>
        /\ stopRequested = FALSE /\ loopClosed = FALSE /\ putCancelled = FALSE
        /\ stopAt = "idle"
        /\ completing => thread \in {"finishing", "ended"}
        /\ toPut # Nothing =>
            /\ thread = "submitting"
            /\ toPut = IF failed THEN Failure ELSE Frame(sampled[Len(sampled)])
        /\ IsFrame(toPut) => sampled # <<>>
        /\ \E d \in {0, 1}, f \in 0..Len(queue) : Carries(d, f)

DecoderInv == DecoderTypes /\ StreamInv /\ SamplingInv /\ TakenInv /\ HandoverInv

LEMMA ItemFacts ==
    /\ Failure # Nothing /\ Finished # Nothing /\ Failure # Finished
    /\ ~IsFrame(Failure) /\ ~IsFrame(Finished) /\ ~IsFrame(Nothing)
    /\ \A at : IsFrame(Frame(at)) /\ Frame(at).at = at
BY DEF Failure, Finished, Nothing, Frame, IsFrame

LEMMA DecoderTypesKept ==
    ASSUME DecoderInv, [DecoderNext]_decoderVars
    PROVE  DecoderTypes'
<1>1. CASE UNCHANGED decoderVars
    BY <1>1 DEF decoderVars, threadVars, handover, ownerVars, DecoderInv, DecoderTypes
<1>2. ASSUME NEW step \in 0..SampleInterval, DecodeFrame(step)
      PROVE  DecoderTypes'
  <2>1. frameTime' = frameTime + step /\ frameTime' \in Nat
      BY <1>2, DecoderAssumption DEF DecodeFrame, DecoderInv, DecoderTypes
  <2>2. /\ UNCHANGED <<queue, taken, stopRequested, failed>>
        /\ toPut' \in {toPut, Frame(frameTime')}
        /\ sampled' \in {sampled, Append(sampled, frameTime')}
      BY <1>2, <2>1 DEF DecodeFrame, Submit, handover, ownerVars
  <2>3. toPut' \in Items \cup {Nothing}
      BY <2>1, <2>2 DEF DecoderInv, DecoderTypes, Items
  <2>4. sampled' \in Seq(Nat)
    <3>1. sampled \in Seq(Nat) /\ Append(sampled, frameTime') \in Seq(Nat)
        BY <2>1 DEF DecoderInv, DecoderTypes
    <3>2. QED BY <2>2, <3>1
  <2>5. QED BY <2>1, <2>2, <2>3, <2>4 DEF DecoderInv, DecoderTypes
<1>3. CASE DecodingFails
  <2>1. /\ UNCHANGED <<queue, taken, stopRequested, sampled, frameTime>>
        /\ toPut' \in {toPut, Failure}
        /\ failed' = ~stopRequested
      BY <1>3 DEF DecodingFails, Submit, handover, ownerVars
  <2>2. QED BY <2>1 DEF DecoderInv, DecoderTypes, Items
<1>4. CASE \/ StartDecoding \/ OpenStream \/ NameStream \/ DecodingEnds \/ ItemIsTaken
           \/ GiveUpItem \/ CloseAndFinish \/ ThreadEnds
  <2>1. UNCHANGED <<queue, toPut, sampled, taken, frameTime, stopRequested, failed>>
      BY <1>4 DEF StartDecoding, OpenStream, NameStream, DecodingEnds, ItemIsTaken, GiveUpItem,
                  CloseAndFinish, ThreadEnds, handover, ownerVars
  <2>2. QED BY <2>1 DEF DecoderInv, DecoderTypes
<1>5. CASE RunPut \/ RunCompletion
  <2>1. /\ UNCHANGED <<sampled, taken, frameTime, stopRequested, failed>>
        /\ toPut' \in {toPut, Nothing}
      BY <1>5 DEF RunPut, RunCompletion, threadVars, ownerVars
  <2>2. queue' \in Seq(Items)
    <3>1. CASE RunPut
      <4>1. toPut \in Items /\ queue' \in {queue, Append(queue, toPut)}
          BY <3>1 DEF RunPut, DecoderInv, DecoderTypes
      <4>2. queue \in Seq(Items) /\ Append(queue, toPut) \in Seq(Items)
          BY <4>1 DEF DecoderInv, DecoderTypes
      <4>3. QED BY <4>1, <4>2
    <3>2. CASE RunCompletion
      <4>1. Finished \in Items /\ queue' = Completed(queue)
          BY <3>2 DEF RunCompletion, Items
      <4>2. CASE Len(queue) < QueueLimit
          BY <4>1, <4>2 DEF Completed, DecoderInv, DecoderTypes
      <4>3. CASE ~(Len(queue) < QueueLimit)
        <5>1. Tail(queue) \in Seq(Items) /\ Head(queue) \in Items
            BY <4>3, DecoderAssumption DEF DecoderInv, DecoderTypes
        <5>2. QED BY <4>1, <4>3, <5>1 DEF Completed
      <4>4. QED BY <4>2, <4>3
    <3>3. QED BY <1>5, <3>1, <3>2
  <2>3. QED BY <2>1, <2>2 DEF DecoderInv, DecoderTypes
<1>6. CASE ReadItem
  <2>1. /\ queue # <<>> /\ queue' = Tail(queue)
        /\ UNCHANGED <<toPut, sampled, frameTime, stopRequested, failed>>
        /\ taken' = IF IsFrame(Head(queue)) THEN Append(taken, Head(queue).at) ELSE taken
      BY <1>6 DEF ReadItem, threadVars
  <2>2. Head(queue) \in Items /\ queue' \in Seq(Items)
      BY <2>1 DEF DecoderInv, DecoderTypes
  <2>3. IsFrame(Head(queue)) => Head(queue).at \in Nat
      BY <2>2, ItemFacts DEF Items
  <2>4. QED BY <2>1, <2>2, <2>3 DEF DecoderInv, DecoderTypes
<1>7. CASE BeginStop \/ EndStop \/ CancelReader \/ CloseLoop
  <2>1. /\ UNCHANGED <<queue, sampled, taken, frameTime, failed>>
        /\ toPut' \in {toPut, Nothing}
        /\ stopRequested' \in {stopRequested, TRUE}
      BY <1>7 DEF BeginStop, EndStop, CancelReader, CloseLoop, threadVars, handover
  <2>2. QED BY <2>1 DEF DecoderInv, DecoderTypes
<1>8. QED BY <1>1, <1>2, <1>3, <1>4, <1>5, <1>6, <1>7 DEF DecoderNext, OnThread, OnLoop

(* A stream is open only in the hands of the thread.                       *)
LEMMA StreamKept ==
    ASSUME DecoderInv, [DecoderNext]_decoderVars
    PROVE  StreamInv'
<1> USE DEF DecoderInv, StreamInv
<1>1. CASE UNCHANGED decoderVars
    BY <1>1 DEF decoderVars, threadVars, ownerVars
<1>2. CASE StartDecoding \/ OpenStream \/ NameStream \/ DecodingEnds
    BY <1>2 DEF StartDecoding, OpenStream, NameStream, DecodingEnds, ownerVars
<1>3. CASE DecodingFails
  <2>1. /\ thread \in {"opening", "decoding"} /\ thread' \in {"closing", "submitting"}
        /\ UNCHANGED <<streamOpen, activeStream, stopAt, reader>>
      BY <1>3 DEF DecodingFails, Submit, ownerVars
  <2>2. QED BY <2>1
<1>4. ASSUME NEW step \in 0..SampleInterval, DecodeFrame(step)
      PROVE  StreamInv'
    BY <1>4 DEF DecodeFrame, Submit, handover, ownerVars
<1>5. CASE ItemIsTaken \/ GiveUpItem \/ ThreadEnds
    BY <1>5 DEF ItemIsTaken, GiveUpItem, ThreadEnds, ownerVars
<1>6. CASE CloseAndFinish
    BY <1>6 DEF CloseAndFinish, ownerVars
<1>7. CASE RunPut \/ RunCompletion \/ CancelReader
    BY <1>7 DEF RunPut, RunCompletion, CancelReader, threadVars, ownerVars
<1>8. CASE ReadItem
    BY <1>8 DEF ReadItem, threadVars
<1>9. CASE EndStop \/ CloseLoop
    BY <1>9 DEF EndStop, CloseLoop, threadVars
<1>10. CASE BeginStop
  <2>1. /\ UNCHANGED <<thread, activeStream, reader, failed>> /\ stopAt' # "done"
        /\ streamOpen' = (streamOpen /\ ~activeStream)
      BY <1>10 DEF BeginStop
  <2>2. QED BY <2>1
<1>11. QED BY <1>1, <1>2, <1>3, <1>4, <1>5, <1>6, <1>7, <1>8, <1>9, <1>10
        DEF DecoderNext, OnThread, OnLoop

(* A frame that is sampled comes after the last one, by the interval.      *)
LEMMA SamplingKept ==
    ASSUME DecoderInv, [DecoderNext]_decoderVars
    PROVE  /\ SamplingInv'
           /\ Len(sampled') >= Len(sampled)
           /\ \A i \in 1..Len(sampled) : sampled'[i] = sampled[i]
           /\ sampled' # sampled => thread = "decoding"
<1>1. CASE UNCHANGED <<sampled, nextSample>>
    BY <1>1 DEF DecoderInv, DecoderTypes, SamplingInv
<1>2. ASSUME NEW step \in 0..SampleInterval, DecodeFrame(step), ~UNCHANGED <<sampled, nextSample>>
      PROVE  /\ SamplingInv'
             /\ Len(sampled') >= Len(sampled)
             /\ \A i \in 1..Len(sampled) : sampled'[i] = sampled[i]
             /\ thread = "decoding"
  <2> DEFINE at == frameTime + step
             n == Len(sampled)
  <2>1. /\ at \in Nat /\ n \in Nat /\ thread = "decoding"
        /\ nextSample # -1 => ~(at < nextSample)
        /\ nextSample' = at + SampleInterval
        /\ sampled' = Append(sampled, at)
      BY <1>2, DecoderAssumption DEF DecodeFrame, DecoderInv, DecoderTypes
  <2>2. /\ Len(sampled') = n + 1 /\ sampled'[n + 1] = at /\ sampled' # <<>>
        /\ \A i \in 1..n : sampled'[i] = sampled[i] /\ sampled[i] \in Nat
      BY <2>1 DEF DecoderInv, DecoderTypes
  <2>3. n > 0 => at >= sampled[n] + SampleInterval
      BY <2>1, <2>2, DecoderAssumption DEF DecoderInv, DecoderTypes, SamplingInv
  <2>4. \A i \in 1..n : sampled'[i + 1] >= sampled'[i] + SampleInterval
    <3>1. \A i \in 1..(n - 1) : sampled'[i + 1] >= sampled'[i] + SampleInterval
        BY <2>1, <2>2 DEF DecoderInv, SamplingInv
    <3>2. n > 0 => sampled'[n + 1] >= sampled'[n] + SampleInterval
        BY <2>1, <2>2, <2>3
    <3>3. QED BY <2>1, <3>1, <3>2
  <2>5. SamplingInv'
      BY <2>1, <2>2, <2>4 DEF SamplingInv
  <2>6. QED BY <2>1, <2>2, <2>5
<1>3. CASE UNCHANGED threadVars
    BY <1>1, <1>3 DEF threadVars
<1>4. CASE RunPut \/ RunCompletion \/ ReadItem \/ EndStop \/ CancelReader \/ CloseLoop
    BY <1>3, <1>4 DEF RunPut, RunCompletion, ReadItem, EndStop, CancelReader, CloseLoop
<1>5. CASE BeginStop \/ (OnThread /\ ~\E step \in 0..SampleInterval : DecodeFrame(step))
  <2>1. UNCHANGED <<sampled, nextSample>>
      BY <1>5 DEF BeginStop, OnThread, StartDecoding, OpenStream, NameStream, DecodingFails,
                  DecodingEnds, ItemIsTaken, GiveUpItem, CloseAndFinish, ThreadEnds
  <2>2. QED BY <1>1, <2>1
<1>6. CASE \E step \in 0..SampleInterval : DecodeFrame(step)
    BY <1>1, <1>2, <1>6
<1>7. CASE UNCHANGED decoderVars
    BY <1>3, <1>7 DEF decoderVars
<1>8. QED BY <1>4, <1>5, <1>6, <1>7 DEF DecoderNext, OnLoop

(* What events() has yielded stays a part of what was sampled.             *)
LEMMA TakenIsKept ==
    ASSUME DecoderInv, [DecoderNext]_decoderVars, UNCHANGED taken,
           reader \in {"returned", "raised"} => failed' = failed,
           thread \in {"finishing", "ended"} => thread' \in {"finishing", "ended"},
           reader' \in {reader, "none", "reading", "cancelled"}
    PROVE  TakenInv'
<1> DEFINE n == Len(taken)
<1>1. n \in Nat /\ Len(sampled) \in Nat /\ n <= Len(sampled)
    BY DEF DecoderInv, DecoderTypes, TakenInv, FramesInOrder
<1>2. /\ Len(sampled') \in Nat /\ Len(sampled') >= Len(sampled)
      /\ \A i \in 1..Len(sampled) : sampled'[i] = sampled[i]
      /\ sampled' # sampled => thread = "decoding"
    BY SamplingKept, DecoderTypesKept DEF DecoderTypes
<1>3. thread' \notin {"finishing", "ended"} => thread \notin {"finishing", "ended"}
    OBVIOUS
<1>4. \A i \in 1..n : taken[i] = sampled'[i] \/ (taken[i] = sampled'[i + 1] /\ thread' \in {"finishing", "ended"})
  <2> SUFFICES ASSUME NEW i \in 1..n
               PROVE  taken[i] = sampled'[i] \/ (taken[i] = sampled'[i + 1] /\ thread' \in {"finishing", "ended"})
      OBVIOUS
  <2>1. CASE taken[i] = sampled[i]
      BY <1>1, <1>2, <2>1
  <2>2. CASE taken[i] = sampled[i + 1] /\ thread \in {"finishing", "ended"}
      BY <1>2, <2>2
  <2>3. QED BY <2>1, <2>2 DEF DecoderInv, TakenInv, FramesInOrder
<1>5. reader' = "returned" => /\ ~failed /\ thread' \in {"finishing", "ended"}
                              /\ n + 1 >= Len(sampled')
    BY <1>2 DEF DecoderInv, TakenInv, FramesInOrder
<1>6. FramesInOrder'
    BY <1>1, <1>2, <1>4, <1>5 DEF DecoderInv, TakenInv, FramesInOrder
<1>7. QED BY <1>5, <1>6 DEF DecoderInv, TakenInv

(* Most steps leave what is carried as it is.                              *)
LEMMA CarriesOn ==
    ASSUME DecoderInv,
           reader' \in {"none", "reading"} => reader \in {"none", "reading"},
           UNCHANGED <<stopRequested, loopClosed, putCancelled, stopAt, queue, toPut, taken,
                       sampled, failed>>,
           Uncompleted' = Uncompleted,
           completing' => thread' \in {"finishing", "ended"},
           toPut # Nothing /\ thread = "submitting" => thread' = "submitting"
    PROVE  HandoverInv'
<1> SUFFICES ASSUME reader' \in {"none", "reading"}
             PROVE  HandoverInv'
    BY DEF HandoverInv
<1>1. PICK d \in {0, 1}, f \in 0..Len(queue) : Carries(d, f)
    BY DEF DecoderInv, HandoverInv
<1>2. Carries(d, f)'
    BY <1>1 DEF Carries
<1>3. QED BY <1>2 DEF DecoderInv, HandoverInv

(* Before anything else was sent to the loop nothing was taken out.        *)
LEMMA AllIsCarried ==
    ASSUME DecoderInv, reader \in {"none", "reading"}, Uncompleted
    PROVE  \E f \in 0..Len(queue) : Carries(0, f)
<1>1. PICK d \in {0, 1}, f \in 0..Len(queue) : Carries(d, f)
    BY DEF DecoderInv, HandoverInv
<1>2. d = 0
    BY <1>1 DEF Carries
<1>3. QED BY <1>1, <1>2

(* A new frame comes last, after all that is in the queue.                 *)
LEMMA FrameIsCarried ==
    ASSUME DecoderInv, NEW step \in 0..SampleInterval, DecodeFrame(step),
           reader \in {"none", "reading"}
    PROVE  HandoverInv'
<1>1. /\ thread = "decoding" /\ Uncompleted /\ ~failed /\ toPut = Nothing
      /\ stopRequested = FALSE /\ loopClosed = FALSE
    BY DEF DecodeFrame, DecoderInv, StreamInv, HandoverInv, Uncompleted
<1>2. UNCHANGED <<reader, stopRequested, loopClosed, stopAt, taken, failed>>
    BY DEF DecodeFrame, ownerVars
<1>3. CASE UNCHANGED <<thread, sampled, handover>>
    BY <1>1, <1>2, <1>3, CarriesOn DEF handover, Uncompleted, DecoderInv, HandoverInv
<1>4. CASE ~UNCHANGED <<thread, sampled, handover>>
  <2> DEFINE at == frameTime + step
             n == Len(sampled)
             put == Len(taken)
  <2>1. /\ thread' = "submitting" /\ toPut' = Frame(at) /\ putCancelled' = FALSE
        /\ sampled' = Append(sampled, at)
        /\ UNCHANGED <<queue, completing>>
      BY <1>1, <1>4 DEF DecodeFrame, Submit
  <2>2. at \in Nat /\ n \in Nat /\ put \in Nat
      BY DecoderAssumption DEF DecoderInv, DecoderTypes
  <2>3. /\ Len(sampled') = n + 1 /\ sampled'[n + 1] = at /\ sampled' # <<>>
        /\ \A i \in 1..n : sampled'[i] = sampled[i]
      BY <2>1, <2>2 DEF DecoderInv, DecoderTypes
  <2>4. PICK f \in 0..Len(queue) : Carries(0, f)
      BY <1>1, AllIsCarried
  <2>5. f = Len(queue) /\ put + f = n
      BY <1>1, <2>2, <2>4, ItemFacts DEF Carries, DecoderInv, DecoderTypes
  <2>6. put > 0 => taken[put] = sampled[put]
      BY <2>2, <2>4 DEF Carries
  <2>7. put > 0 => taken[put] = sampled'[put]
      BY <2>2, <2>3, <2>5, <2>6
  <2>8. \A j \in 1..f : queue[j] = Frame(sampled'[put + j + 0])
      BY <2>2, <2>3, <2>4, <2>5 DEF Carries
  <2>9. Carries(0, f)'
    <3>1. IsFrame(toPut') /\ toPut' # Nothing
        BY <2>1, ItemFacts
    <3>2. put' + f + 0 + (IF IsFrame(toPut') THEN 1 ELSE 0) = Len(sampled')
        BY <1>2, <2>2, <2>3, <2>5, <3>1
    <3>3. f \in Nat /\ Len(queue') = f /\ put + 0 = put
        BY <2>1, <2>2, <2>5
    <3>4. Uncompleted' /\ ~failed'
        BY <1>1, <1>2, <2>1 DEF Uncompleted
    <3>5. Len(queue') = f + (IF failed' /\ toPut' = Nothing THEN 1 ELSE 0)
        BY <3>3, <3>4
    <3>6. \A j \in 1..f : queue'[j] = Frame(sampled'[Len(taken') + j + 0])
        BY <1>2, <2>1, <2>8
    <3>7. Len(taken') > 0 =>
            taken'[Len(taken')] \in {sampled'[Len(taken')], sampled'[Len(taken') + 0]}
        BY <1>2, <2>7
    <3>8. ~(f < Len(queue'))
        BY <3>3
    <3>9. QED BY <3>2, <3>4, <3>5, <3>6, <3>7, <3>8 DEF Carries
  <2>10. QED BY <1>1, <1>2, <2>1, <2>3, <2>9 DEF DecoderInv, HandoverInv
<1>5. QED BY <1>3, <1>4

(* A failure is put in the place of the frame that it came instead of.     *)
LEMMA FailureIsCarried ==
    ASSUME DecoderInv, DecodingFails, reader \in {"none", "reading"}
    PROVE  HandoverInv'
<1>1. /\ thread \in {"opening", "decoding"} /\ Uncompleted /\ ~failed /\ toPut = Nothing
      /\ stopRequested = FALSE /\ loopClosed = FALSE
    BY DEF DecodingFails, DecoderInv, StreamInv, HandoverInv, Uncompleted
<1>2. UNCHANGED <<reader, stopRequested, loopClosed, stopAt, taken, sampled>>
    BY DEF DecodingFails, ownerVars
<1>3. /\ thread' = "submitting" /\ toPut' = Failure /\ putCancelled' = FALSE
      /\ UNCHANGED <<queue, completing>> /\ failed' = TRUE
    BY <1>1 DEF DecodingFails, Submit
<1>4. PICK f \in 0..Len(queue) : Carries(0, f)
    BY <1>1, AllIsCarried
<1>5. f = Len(queue)
    BY <1>1, <1>4 DEF Carries, DecoderInv, DecoderTypes
<1>6. Carries(0, f)'
  <2>1. ~IsFrame(toPut) /\ ~IsFrame(toPut') /\ toPut' # Nothing
      BY <1>1, <1>3, ItemFacts
  <2>2. Uncompleted'
      BY <1>3 DEF Uncompleted
  <2>3. Len(queue') = f /\ f = f + 0
      BY <1>3, <1>5 DEF DecoderInv, DecoderTypes
  <2>4. Len(queue') = f + (IF failed' /\ toPut' = Nothing THEN 1 ELSE 0)
      BY <2>1, <2>3
  <2>5. QED BY <1>2, <1>3, <1>4, <2>1, <2>2, <2>3, <2>4 DEF Carries
<1>7. QED BY <1>1, <1>2, <1>3, <1>6, ItemFacts DEF DecoderInv, HandoverInv

(* What is put is behind all frames that are not yet taken.                *)
LEMMA PutIsCarried ==
    ASSUME DecoderInv, RunPut, reader \in {"none", "reading"}
    PROVE  HandoverInv'
<1>1. /\ toPut # Nothing /\ thread = "submitting" /\ Uncompleted
      /\ queue' = Append(queue, toPut) /\ toPut' = Nothing
      /\ toPut = IF failed THEN Failure ELSE Frame(sampled[Len(sampled)])
      /\ UNCHANGED <<putCancelled, completing>>
    BY DEF RunPut, DecoderInv, HandoverInv, Uncompleted
<1>2. UNCHANGED <<thread, reader, stopRequested, loopClosed, stopAt, taken, sampled, failed>>
    BY DEF RunPut, threadVars, ownerVars
<1>3. PICK f \in 0..Len(queue) : Carries(0, f)
    BY <1>1, AllIsCarried
<1>4. f = Len(queue) /\ f \in Nat /\ Len(taken) \in Nat /\ Len(sampled) \in Nat
    BY <1>1, <1>3 DEF Carries, DecoderInv, DecoderTypes
<1>5. /\ Len(queue') = f + 1 /\ queue'[f + 1] = toPut
      /\ \A j \in 1..f : queue'[j] = queue[j]
    BY <1>1, <1>4 DEF DecoderInv, DecoderTypes
<1>6. CASE failed
  <2>1. Carries(0, f)'
      BY <1>1, <1>2, <1>3, <1>4, <1>5, <1>6, ItemFacts DEF Carries, Uncompleted
  <2>2. f \in 0..Len(queue')
      BY <1>4, <1>5
  <2>3. QED BY <1>1, <1>2, <2>1, <2>2, ItemFacts DEF DecoderInv, HandoverInv
<1>7. CASE ~failed
  <2>1. Len(taken) + f + 1 = Len(sampled)
      BY <1>1, <1>3, <1>4, <1>7, ItemFacts DEF Carries
  <2>2. \A j \in 1..(f + 1) : queue'[j] = Frame(sampled[Len(taken) + j + 0])
    <3>1. \A j \in 1..f : queue'[j] = Frame(sampled[Len(taken) + j + 0])
        BY <1>3, <1>5 DEF Carries
    <3>2. queue'[f + 1] = Frame(sampled[Len(taken) + (f + 1) + 0])
        BY <1>1, <1>4, <1>5, <1>7, <2>1
    <3>3. QED BY <1>4, <3>1, <3>2
  <2>3. Carries(0, f + 1)'
      BY <1>1, <1>2, <1>3, <1>4, <1>5, <1>7, <2>1, <2>2, ItemFacts DEF Carries, Uncompleted
  <2>4. f + 1 \in 0..Len(queue')
      BY <1>4, <1>5
  <2>5. QED BY <1>1, <1>2, <2>3, <2>4, ItemFacts DEF DecoderInv, HandoverInv
<1>8. QED BY <1>6, <1>7

LEMMA LastAppended ==
    ASSUME NEW S, NEW s \in Seq(S), NEW e \in S
    PROVE  Len(Append(s, e)) = Len(s) + 1 /\ Append(s, e)[Len(s) + 1] = e
OBVIOUS

LEMMA TailShifts ==
    ASSUME NEW S, NEW s \in Seq(S), s # <<>>
    PROVE  /\ Head(s) = s[1] /\ Tail(s) \in Seq(S) /\ Len(Tail(s)) = Len(s) - 1
           /\ \A j \in 1..(Len(s) - 1) : Tail(s)[j] = s[j + 1]
OBVIOUS

(* The completion adds the end, in the place of the oldest frame when the  *)
(* queue is full, or finds that a failure is end enough.                   *)
LEMMA CompletionIsCarried ==
    ASSUME DecoderInv, RunCompletion, reader \in {"none", "reading"}
    PROVE  HandoverInv'
<1> DEFINE put == Len(taken)
           n == Len(queue)
<1>1. /\ thread \in {"finishing", "ended"} /\ Uncompleted /\ toPut = Nothing
      /\ queue' = Completed(queue) /\ completing' = FALSE
      /\ UNCHANGED <<toPut, putCancelled>>
    BY DEF RunCompletion, DecoderInv, HandoverInv, Uncompleted
<1>2. UNCHANGED <<thread, reader, stopRequested, loopClosed, stopAt, taken, sampled, failed>>
    BY DEF RunCompletion, threadVars, ownerVars
<1>3. ~Uncompleted'
    BY <1>1, <1>2 DEF Uncompleted
<1>4. PICK f \in 0..n : Carries(0, f)
    BY <1>1, AllIsCarried
<1>5. /\ f \in Nat /\ n \in Nat /\ put \in Nat /\ n = f + (IF failed THEN 1 ELSE 0)
      /\ put + f = Len(sampled)
      /\ \A j \in 1..f : queue[j] = Frame(sampled[put + j])
      /\ put > 0 => taken[put] = sampled[put]
      /\ failed => queue[f + 1] = Failure
    <2>1. f \in Nat /\ n \in Nat /\ put \in Nat
        BY DEF DecoderInv, DecoderTypes
    <2>2. n = f + (IF failed THEN 1 ELSE 0)
        BY <1>1, <1>4 DEF Carries
    <2>3. failed => queue[f + 1] = Failure
        BY <1>4, <2>1, <2>2 DEF Carries
    <2>4. put + f = Len(sampled)
        BY <1>1, <1>4, <2>1, ItemFacts DEF Carries
    <2>5. \A j \in 1..f : queue[j] = Frame(sampled[put + j])
        BY <1>4, <2>1 DEF Carries
    <2>6. put > 0 => taken[put] = sampled[put]
        BY <1>4, <2>1 DEF Carries
    <2>7. QED BY <2>1, <2>2, <2>3, <2>4, <2>5, <2>6
<1>6. SUFFICES \E d \in {0, 1}, g \in 0..Len(queue') : Carries(d, g)'
    BY <1>1, <1>2 DEF DecoderInv, HandoverInv
<1>7. CASE n < QueueLimit
  <2>1. /\ Len(queue') = n + 1 /\ queue'[n + 1] = Finished
        /\ \A j \in 1..n : queue'[j] = queue[j]
      BY <1>1, <1>5, <1>7 DEF Completed, DecoderInv, DecoderTypes, Items
  <2>2. queue'[f + 1] = IF failed THEN Failure ELSE Finished
    <3>1. CASE failed
        BY <1>5, <2>1, <3>1
    <3>2. CASE ~failed
      <4>1. n = f
          BY <1>5, <3>2
      <4>2. QED BY <2>1, <3>2, <4>1
    <3>3. QED BY <3>1, <3>2
  <2>3. \A j \in 1..f : queue'[j] = Frame(sampled[put + j + 0])
    <3>1. ASSUME NEW j \in 1..f PROVE queue'[j] = Frame(sampled[put + j + 0])
      <4>1. j \in 1..n /\ put + j + 0 = put + j
          BY <1>5
      <4>2. queue'[j] = queue[j]
          BY <2>1, <4>1
      <4>3. QED BY <1>5, <4>1, <4>2
    <3>2. QED BY <3>1
  <2>4. put + f + 0 + (IF IsFrame(toPut') THEN 1 ELSE 0) = Len(sampled)
      BY <1>1, <1>5, ItemFacts
  <2>5. put > 0 => taken[put] \in {sampled[put], sampled[put + 0]}
      BY <1>5
  <2>6. Carries(0, f)'
      BY <1>2, <1>3, <2>2, <2>3, <2>4, <2>5 DEF Carries
  <2>7. f \in 0..Len(queue')
      BY <1>5, <2>1
  <2>8. QED BY <2>6, <2>7
<1>8. CASE ~(n < QueueLimit)
  <2>1. /\ n >= 1 /\ queue # <<>> /\ Head(queue) = queue[1] /\ Tail(queue) \in Seq(Items)
        /\ Len(Tail(queue)) = n - 1
        /\ \A j \in 1..(n - 1) : Tail(queue)[j] = queue[j + 1]
    <3>1. n >= 1 /\ queue \in Seq(Items)
        BY <1>5, <1>8, DecoderAssumption DEF DecoderInv, DecoderTypes
    <3>2. queue # <<>>
        BY <3>1
    <3>3. QED BY <3>1, <3>2, TailShifts
  <2>2. CASE f >= 1
    <3>1. IsFrame(Head(queue))
      <4>1. 1 \in 1..f
          BY <1>5, <2>2
      <4>2. queue[1] = Frame(sampled[put + 1])
          BY <1>5, <4>1
      <4>3. QED BY <2>1, <4>2, ItemFacts
    <3>2. queue' = Append(Tail(queue), Finished)
        BY <1>1, <1>8, <3>1 DEF Completed
    <3>3. /\ Len(queue') = n /\ queue'[n] = Finished
          /\ \A j \in 1..(n - 1) : queue'[j] = queue[j + 1]
        BY <1>5, <2>1, <3>2
    <3>4. queue'[(f - 1) + 1] = IF failed THEN Failure ELSE Finished
        BY <1>5, <2>2, <3>3
    <3>5. \A j \in 1..(f - 1) : queue'[j] = Frame(sampled[put + j + 1])
      <4>1. ASSUME NEW j \in 1..(f - 1) PROVE queue'[j] = Frame(sampled[put + j + 1])
        <5>1. queue'[j] = queue[j + 1] /\ j + 1 \in 1..f
            BY <1>5, <3>3
        <5>2. queue[j + 1] = Frame(sampled[put + (j + 1)])
            BY <1>5, <5>1
        <5>3. put + (j + 1) = put + j + 1
            BY <1>5
        <5>4. QED BY <5>1, <5>2, <5>3
      <4>2. QED BY <4>1
    <3>6. put + (f - 1) + 1 + (IF IsFrame(toPut') THEN 1 ELSE 0) = Len(sampled)
        BY <1>1, <1>5, ItemFacts
    <3>7. Carries(1, f - 1)'
        BY <1>2, <1>3, <1>5, <3>4, <3>5, <3>6 DEF Carries
    <3>8. f - 1 \in 0..Len(queue')
        BY <1>5, <2>2, <3>3
    <3>9. QED BY <3>7, <3>8
  <2>3. CASE f = 0
    <3>1. failed /\ n = 1 /\ queue[1] = Failure
        BY <1>5, <2>1, <2>3
    <3>2. queue' = Append(Tail(queue), Failure)
        BY <1>1, <1>8, <2>1, <3>1, ItemFacts DEF Completed
    <3>3. Len(queue') = 1 /\ queue'[0 + 1] = Failure
      <4>1. Len(Tail(queue)) = 0 /\ Failure \in Items
          BY <2>1, <3>1 DEF Items
      <4>2. Len(queue') = Len(Tail(queue)) + 1 /\ queue'[Len(Tail(queue)) + 1] = Failure
          BY <2>1, <3>2, <4>1, LastAppended
      <4>3. Len(Tail(queue)) + 1 = 1 /\ 0 + 1 = 1
          BY <4>1
      <4>4. QED BY <4>2, <4>3
    <3>4. put + 0 + 0 + (IF IsFrame(toPut') THEN 1 ELSE 0) = Len(sampled)
        BY <1>1, <1>5, <2>3, ItemFacts
    <3>5. put > 0 => taken[put] \in {sampled[put], sampled[put + 0]}
        BY <1>5
    <3>6. Carries(0, 0)'
        BY <1>2, <1>3, <3>1, <3>3, <3>4, <3>5 DEF Carries
    <3>7. 0 \in 0..Len(queue')
        BY <3>3
    <3>8. QED BY <3>6, <3>7
  <2>4. QED BY <1>5, <2>2, <2>3
<1>9. QED BY <1>7, <1>8

(* events() meets a frame that comes after the last, or the end that there *)
(* is.                                                                     *)
LEMMA ReadIsCarried ==
    ASSUME DecoderInv, ReadItem, [DecoderNext]_decoderVars
    PROVE  TakenInv' /\ HandoverInv'
<1> DEFINE put == Len(taken)
           n == Len(queue)
           S == Len(sampled)
<1>1. /\ reader = "reading" /\ queue # <<>> /\ queue' = Tail(queue)
      /\ taken' = IF IsFrame(Head(queue)) THEN Append(taken, Head(queue).at) ELSE taken
      /\ reader' = IF IsFrame(Head(queue)) THEN "reading"
                   ELSE IF Head(queue) = Failure THEN "raised" ELSE "returned"
      /\ UNCHANGED <<thread, stopRequested, loopClosed, stopAt, sampled, failed, toPut,
                     putCancelled, completing>>
    BY DEF ReadItem, threadVars
<1>2. PICK d \in {0, 1}, f \in 0..n : Carries(d, f)
    BY <1>1 DEF DecoderInv, HandoverInv
<1>3. /\ f \in Nat /\ n \in Nat /\ n >= 1 /\ put \in Nat /\ S \in Nat /\ Head(queue) = queue[1]
      /\ Len(queue') = n - 1
      /\ \A j \in 1..(n - 1) : queue'[j] = queue[j + 1]
    BY <1>1 DEF DecoderInv, DecoderTypes
<1>4. CASE f >= 1
  <2> DEFINE at == sampled[put + 1 + d]
  <2>1. Head(queue) = Frame(at) /\ IsFrame(Head(queue)) /\ Head(queue).at = at
    <3>1. queue[1] = Frame(at)
        BY <1>2, <1>4 DEF Carries
    <3>2. QED BY <1>3, <3>1, ItemFacts
  <2>2. taken' = Append(taken, at) /\ reader' = "reading"
      BY <1>1, <2>1
  <2>3. /\ Len(taken') = put + 1 /\ taken'[put + 1] = at
        /\ \A i \in 1..put : taken'[i] = taken[i]
      BY <1>3, <2>2 DEF DecoderInv, DecoderTypes
  <2>4. put + f + d <= S
      BY <1>2, <1>3 DEF Carries
  <2>5. put > 0 => taken[put + 0] + SampleInterval <= at
    <3>1. \A i \in 1..S : sampled[i] \in Nat
        BY DEF DecoderInv, DecoderTypes
    <3>2. put > 0 => sampled[put + 1] >= sampled[put] + SampleInterval
        BY <1>3, <1>4, <2>4 DEF DecoderInv, SamplingInv
    <3>3. put > 0 /\ d = 1 => sampled[put + 2] >= sampled[put + 1] + SampleInterval
        BY <1>3, <1>4, <2>4 DEF DecoderInv, SamplingInv
    <3>4. put > 0 => taken[put] \in {sampled[put], sampled[put + d]}
        BY <1>2 DEF Carries
    <3>5. CASE d = 0
        BY <1>3, <1>4, <2>4, <3>1, <3>2, <3>4, <3>5, DecoderAssumption
    <3>6. CASE d = 1
        BY <1>3, <1>4, <2>4, <3>1, <3>2, <3>3, <3>4, <3>6, DecoderAssumption
    <3>7. QED BY <3>5, <3>6
  <2>6. \A i \in 1..(Len(taken') - 1) : taken'[i + 1] >= taken'[i] + SampleInterval
    <3>1. \A i \in 1..(put - 1) : taken'[i + 1] >= taken'[i] + SampleInterval
        BY <1>3, <2>3 DEF DecoderInv, TakenInv, FramesInOrder
    <3>2. put > 0 => taken'[put + 1] >= taken'[put] + SampleInterval
      <4>1. at \in Nat /\ (put > 0 => taken[put] \in Nat)
        <5>1. put + 1 + d \in 1..S
            BY <1>3, <1>4, <2>4
        <5>2. put > 0 => put \in 1..Len(taken)
            BY <1>3
        <5>3. QED BY <5>1, <5>2 DEF DecoderInv, DecoderTypes
      <4>2. QED BY <1>3, <2>3, <2>5, <4>1, DecoderAssumption
    <3>3. QED BY <1>3, <2>3, <3>1, <3>2
  <2>7. d = 1 => thread \in {"finishing", "ended"}
      BY <1>2 DEF Carries, Uncompleted
  <2>8. ASSUME NEW i \in 1..Len(taken')
        PROVE  \/ taken'[i] = sampled[i]
               \/ taken'[i] = sampled[i + 1] /\ thread \in {"finishing", "ended"}
    <3>1. CASE i = put + 1
        BY <1>3, <2>3, <2>7, <3>1
    <3>2. CASE i \in 1..put
        BY <2>3, <3>2 DEF DecoderInv, TakenInv, FramesInOrder
    <3>3. QED BY <1>3, <2>3, <3>1, <3>2
  <2>9. TakenInv'
    <3>1. Len(taken') <= S
        BY <1>3, <1>4, <2>3, <2>4
    <3>2. QED BY <1>1, <2>2, <2>6, <2>8, <3>1 DEF TakenInv, FramesInOrder
  <2>10. Carries(d, f - 1)'
    <3>1. (put + 1) + (f - 1) + d + (IF IsFrame(toPut) THEN 1 ELSE 0) = S
        BY <1>2, <1>3 DEF Carries
    <3>2. ASSUME NEW j \in 1..(f - 1)
          PROVE  queue'[j] = Frame(sampled[(put + 1) + j + d])
      <4>1. queue'[j] = queue[j + 1] /\ j + 1 \in 1..f
          BY <1>3
      <4>2. queue[j + 1] = Frame(sampled[put + (j + 1) + d])
          BY <1>2, <4>1 DEF Carries
      <4>3. put + (j + 1) + d = (put + 1) + j + d
          BY <1>3
      <4>4. QED BY <4>1, <4>2, <4>3
    <3>3. taken'[put + 1] \in {sampled[put + 1], sampled[(put + 1) + d]}
        BY <2>3
    <3>4. f - 1 < Len(queue') => queue'[(f - 1) + 1] = IF failed THEN Failure ELSE Finished
      <4>1. f - 1 < Len(queue') => f < n /\ queue'[f] = queue[f + 1] /\ (f - 1) + 1 = f
          BY <1>3, <1>4
      <4>2. QED BY <1>2, <4>1 DEF Carries
    <3>5. Uncompleted' = Uncompleted
        BY <1>1 DEF Uncompleted
    <3>6. Uncompleted => Len(queue') = (f - 1) + (IF failed /\ toPut = Nothing THEN 1 ELSE 0)
        BY <1>2, <1>3 DEF Carries
    <3>7. d = 1 => ~Uncompleted
        BY <1>2 DEF Carries
    <3>8. QED BY <1>1, <2>3, <3>1, <3>2, <3>3, <3>4, <3>5, <3>6, <3>7 DEF Carries
  <2>11. f - 1 \in 0..Len(queue')
      BY <1>3, <1>4
  <2>12. HandoverInv'
      BY <1>1, <2>10, <2>11 DEF DecoderInv, HandoverInv
  <2>13. QED BY <2>9, <2>12
<1>5. CASE f = 0
  <2>1. Head(queue) = IF failed THEN Failure ELSE Finished
      BY <1>2, <1>3, <1>5 DEF Carries
  <2>2. /\ taken' = taken
        /\ reader' = IF failed THEN "raised" ELSE "returned"
      BY <1>1, <2>1, ItemFacts
  <2>3. ~failed => thread \in {"finishing", "ended"} /\ put + 1 >= S
    <3>1. ASSUME ~failed PROVE ~Uncompleted
        BY <1>2, <1>3, <1>5, <3>1 DEF Carries
    <3>2. ASSUME ~Uncompleted PROVE thread \in {"finishing", "ended"} /\ ~IsFrame(toPut)
        BY <1>1, <3>2, ItemFacts DEF Uncompleted, DecoderInv, HandoverInv
    <3>3. ASSUME ~IsFrame(toPut) PROVE put + 1 >= S
        BY <1>2, <1>3, <1>5, <3>3 DEF Carries
    <3>4. QED BY <3>1, <3>2, <3>3
  <2>4. TakenInv'
      BY <1>1, <2>2, <2>3 DEF DecoderInv, TakenInv, FramesInOrder
  <2>5. HandoverInv'
      BY <2>2 DEF HandoverInv
  <2>6. QED BY <2>4, <2>5
<1>6. QED BY <1>3, <1>4, <1>5

LEMMA DecoderKept ==
    ASSUME DecoderInv, [DecoderNext]_decoderVars
    PROVE  DecoderInv'
<1>1. DecoderTypes' /\ StreamInv' /\ SamplingInv'
    BY DecoderTypesKept, StreamKept, SamplingKept
<1> SUFFICES TakenInv' /\ HandoverInv'
    BY <1>1 DEF DecoderInv
<1>2. CASE ReadItem
    BY <1>2, ReadIsCarried
<1>3. ASSUME NEW step \in 0..SampleInterval, DecodeFrame(step)
      PROVE  TakenInv' /\ HandoverInv'
  <2>1. /\ thread = "decoding" /\ UNCHANGED <<taken, failed, reader>>
      BY <1>3 DEF DecodeFrame, ownerVars
  <2>2. TakenInv'
      BY <2>1, TakenIsKept
  <2>3. HandoverInv'
      BY <1>3, <2>1, FrameIsCarried DEF HandoverInv
  <2>4. QED BY <2>2, <2>3
<1>4. CASE DecodingFails
  <2>1. /\ thread \in {"opening", "decoding"} /\ UNCHANGED <<taken, reader>>
      BY <1>4 DEF DecodingFails, ownerVars
  <2>2. reader \notin {"returned", "raised"}
      BY <2>1 DEF DecoderInv, StreamInv, TakenInv
  <2>3. TakenInv'
      BY <2>1, <2>2, TakenIsKept
  <2>4. HandoverInv'
      BY <1>4, <2>1, FailureIsCarried DEF HandoverInv
  <2>5. QED BY <2>3, <2>4
<1>5. CASE RunPut \/ RunCompletion
  <2>1. UNCHANGED <<thread, taken, failed, reader>>
      BY <1>5 DEF RunPut, RunCompletion, threadVars, ownerVars
  <2>2. TakenInv'
      BY <2>1, TakenIsKept
  <2>3. HandoverInv'
      BY <1>5, <2>1, PutIsCarried, CompletionIsCarried DEF HandoverInv
  <2>4. QED BY <2>2, <2>3
<1>6. CASE StartDecoding \/ OpenStream \/ NameStream \/ DecodingEnds \/ ThreadEnds
  <2>1. /\ UNCHANGED <<stopRequested, loopClosed, putCancelled, stopAt, queue, toPut, taken,
                       sampled, failed, completing>>
        /\ thread # "submitting"
        /\ thread \in {"finishing", "ended"} <=> thread' \in {"finishing", "ended"}
        /\ (thread = "none" /\ reader' = "reading") \/ reader' = reader
      BY <1>6 DEF StartDecoding, OpenStream, NameStream, DecodingEnds, ThreadEnds, ownerVars, handover
  <2>2. reader' = "reading" => reader \in {"none", "reading"}
      BY <2>1 DEF DecoderInv, StreamInv
  <2>3. completing' /\ reader' \in {"none", "reading"} => thread' \in {"finishing", "ended"}
      BY <2>1, <2>2 DEF DecoderInv, HandoverInv
  <2>4. HandoverInv'
      BY <2>1, <2>2, <2>3, CarriesOn DEF HandoverInv, Uncompleted
  <2>5. TakenInv'
      BY <2>1, TakenIsKept
  <2>6. QED BY <2>4, <2>5
<1>7. CASE ItemIsTaken \/ CloseAndFinish
  <2>1. /\ UNCHANGED <<stopRequested, loopClosed, putCancelled, stopAt, queue, toPut, taken,
                       sampled, failed, reader>>
        /\ thread \notin {"finishing", "ended"}
        /\ thread = "submitting" => toPut = Nothing
      BY <1>7 DEF ItemIsTaken, CloseAndFinish, ownerVars, handover
  <2>2. TakenInv'
      BY <2>1, TakenIsKept
  <2>3. ASSUME reader \in {"none", "reading"}
        PROVE  /\ Uncompleted' = Uncompleted
               /\ completing' => thread' \in {"finishing", "ended"}
    <3>1. loopClosed = FALSE /\ completing \in {completing} /\ ~completing
        BY <2>1, <2>3 DEF DecoderInv, HandoverInv
    <3>2. CASE ItemIsTaken
        BY <2>1, <3>1, <3>2 DEF ItemIsTaken, Uncompleted, handover
    <3>3. CASE CloseAndFinish
        BY <2>1, <3>1, <3>3 DEF CloseAndFinish, Uncompleted
    <3>4. QED BY <1>7, <3>2, <3>3
  <2>4. HandoverInv'
      BY <2>1, <2>3, CarriesOn DEF HandoverInv
  <2>5. QED BY <2>2, <2>4
<1>8. CASE GiveUpItem \/ BeginStop \/ EndStop \/ CancelReader \/ CloseLoop
  <2>1. UNCHANGED <<taken, failed>> /\ reader' \in {reader, "cancelled"}
      BY <1>8 DEF GiveUpItem, BeginStop, EndStop, CancelReader, CloseLoop, threadVars, ownerVars
  <2>2. thread \in {"finishing", "ended"} => thread' \in {"finishing", "ended"}
      BY <1>8 DEF GiveUpItem, BeginStop, EndStop, CancelReader, CloseLoop, threadVars
  <2>3. TakenInv'
      BY <2>1, <2>2, TakenIsKept
  <2>4. reader' \notin {"none", "reading"}
      BY <1>8 DEF GiveUpItem, BeginStop, EndStop, CancelReader, CloseLoop, ownerVars, DecoderInv,
                  HandoverInv
  <2>5. QED BY <2>3, <2>4 DEF HandoverInv
<1>9. CASE UNCHANGED decoderVars
  <2>1. UNCHANGED <<thread, reader, stopRequested, loopClosed, putCancelled, stopAt, queue, toPut,
                    taken, sampled, failed, completing>>
      BY <1>9 DEF decoderVars, threadVars, handover, ownerVars
  <2>2. TakenInv'
      BY <2>1, TakenIsKept
  <2>3. HandoverInv'
      BY <2>1, CarriesOn DEF HandoverInv, Uncompleted, DecoderInv
  <2>4. QED BY <2>2, <2>3
<1>10. QED BY <1>2, <1>3, <1>4, <1>5, <1>6, <1>7, <1>8, <1>9 DEF DecoderNext, OnThread, OnLoop

(* The frames that events() yields are those that were sampled, in their   *)
(* order and at their distance, but for one at the end; a stream that      *)
(* failed never ends as one that came to its end, and what was opened is   *)
(* closed with the thread, whatever the reader and the loop do meanwhile.  *)
THEOREM FramesAreHandedOver == DecoderSpec => []VideoIsHandedOver
<1>1. DecoderInit => DecoderInv
  <2> SUFFICES ASSUME DecoderInit PROVE DecoderInv
      OBVIOUS
  <2>1. DecoderTypes /\ StreamInv /\ SamplingInv /\ TakenInv
    <3>1. DecoderTypes
      <4>1. <<>> \in Seq(Items) /\ <<>> \in Seq(Nat)
          OBVIOUS
      <4>2. QED BY <4>1 DEF DecoderInit, DecoderTypes
    <3>2. StreamInv /\ SamplingInv
        BY DEF DecoderInit, StreamInv, SamplingInv
    <3>3. TakenInv
        BY DEF DecoderInit, TakenInv, FramesInOrder
    <3>4. QED BY <3>1, <3>2, <3>3
  <2>2. Carries(0, 0)
      BY ItemFacts DEF DecoderInit, Carries
  <2>3. HandoverInv
      BY <2>2, ItemFacts DEF DecoderInit, HandoverInv
  <2>4. QED BY <2>1, <2>3 DEF DecoderInv
<1>2. DecoderInv => VideoIsHandedOver
    BY DEF DecoderInv, StreamInv, TakenInv, VideoIsHandedOver, FailuresSurface
<1>3. QED BY <1>1, <1>2, DecoderKept, PTL DEF DecoderSpec

-----------------------------------------------------------------------------
(* The readers share nothing, so that a run with all of them has what each *)
(* promises: every PING is answered on the connection it came on, nothing  *)
(* of a stopped reader is left, and frames are handed over in order.       *)
THEOREM ReadersLeaveNothingBehind == ReadersSpec => []ReadersLeaveNothing
<1> QED BY ChatIsServed, NothingKeepsStreaming, FramesAreHandedOver, PTL
        DEF ReadersSpec, ReadersLeaveNothing

-----------------------------------------------------------------------------
(* What HandedOutIsValid needs: the anchor of a validation is never later  *)
(* than the moment Google issues the token, so the life that the guard     *)
(* counts from it ends no later than the token's.                          *)
Anchored ==
    /\ anchor <= ytNow
    /\ monitor = "second" => ytDeadline <= ytNow
    /\ monitor \in {"issued", "identifying"} => anchor + fresh.life <= fresh.expiry
    /\ holding => expiresAt <= ytExpiry

CapabilityInv == CapabilityTypeOK /\ DisarmedForGood /\ Anchored /\ SilentReturnIsHarmless

LEMMA DelayType ==
    ASSUME NEW life \in Int
    PROVE  Delay(life) \in Int
<1>1. life \div MarginDivisor \in Int
  BY LifeAssumption
<1>2. Margin(life) \in Int
  BY <1>1, LifeAssumption DEF Margin, Least, Greatest
<1> QED
  BY <1>2, LifeAssumption DEF Delay, Least

(* The initial states.                                                     *)
LEMMA CapabilityInitially == CapabilityInit => CapabilityInv
<1> SUFFICES ASSUME CapabilityInit PROVE CapabilityInv
  OBVIOUS
<1>1. CapabilityTypeOK
  <2>1. [life |-> 0, expiry |-> 0] \in [life : Int, expiry : Int]
    OBVIOUS
  <2>2. fresh \in [life : Int, expiry : Int]
    BY <2>1 DEF CapabilityInit
  <2>3. inserting \subseteq Inserts
    BY DEF CapabilityInit
  <2> QED
    BY <2>2, <2>3 DEF CapabilityInit, CapabilityTypeOK, MonitorPlaces
<1>2. DisarmedForGood /\ SilentReturnIsHarmless
  BY DEF CapabilityInit, DisarmedForGood, SilentReturnIsHarmless
<1>3. Anchored
  BY DEF CapabilityInit, Anchored
<1> QED
  BY <1>1, <1>2, <1>3 DEF CapabilityInv

(* The sender disarms.                                                     *)
LEMMA DisarmTypes ==
    ASSUME Disarm
    PROVE  /\ disabled' \in BOOLEAN /\ validated' \in BOOLEAN /\ holding' \in BOOLEAN
           /\ expiresAt' \in Int /\ ytDeadline' \in Int
<1>1. disabled' \in BOOLEAN /\ validated' \in BOOLEAN /\ holding' \in BOOLEAN
  BY Zenon DEF Disarm
<1>2. expiresAt' \in Int /\ ytDeadline' \in Int
  BY DEF Disarm
<1> QED
  BY <1>1, <1>2

LEMMA DisarmKeeps ==
    ASSUME CapabilityInv, Disarm, ytCapability' = "disabled", inserting' \subseteq Inserts,
           UNCHANGED <<ytNow, monitor, anchor, fresh, ytExpiry>>
    PROVE  CapabilityInv'
<1>1. CapabilityTypeOK'
  BY DisarmTypes DEF CapabilityInv, CapabilityTypeOK
<1>2. DisarmedForGood' /\ SilentReturnIsHarmless'
  BY DEF CapabilityInv, DisarmedForGood, SilentReturnIsHarmless, Disarm
<1>3. Anchored'
  BY DEF CapabilityInv, CapabilityTypeOK, Anchored, Disarm
<1> QED
  BY <1>1, <1>2, <1>3 DEF CapabilityInv

(* A validation that fails or is given up, and the first look after the    *)
(* sleep, end in the same three ways.                                      *)
LEMMA FailKeeps == CapabilityInv /\ Fail => CapabilityInv'
<1> SUFFICES ASSUME CapabilityInv, Fail PROVE CapabilityInv'
  OBVIOUS
<1>1. CapabilityTypeOK'
  <2>1. ytNow' \in Nat /\ monitor' \in MonitorPlaces /\ anchor' \in Int /\ inserting' \subseteq Inserts
    BY DEF CapabilityInv, CapabilityTypeOK, Fail, MonitorPlaces
  <2>2. fresh' \in [life : Int, expiry : Int] /\ ytExpiry' \in Int
    BY DEF CapabilityInv, CapabilityTypeOK, Fail
  <2>3. CASE disabled
    BY <2>1, <2>2, <2>3 DEF CapabilityInv, CapabilityTypeOK, Fail, guardState
  <2>4. CASE ~disabled
    BY <2>1, <2>2, <2>4, DisarmTypes DEF CapabilityInv, CapabilityTypeOK, Fail
  <2> QED
    BY <2>3, <2>4 DEF CapabilityInv, CapabilityTypeOK
<1>2. DisarmedForGood'
  BY DEF CapabilityInv, DisarmedForGood, Fail, Disarm, guardState
<1>3. Anchored'
  BY DEF CapabilityInv, CapabilityTypeOK, Anchored, Fail, Disarm, guardState
<1>4. SilentReturnIsHarmless'
  BY
     DEF CapabilityInv, DisarmedForGood, SilentReturnIsHarmless, SendEnabled, Fail, Disarm,
         guardState
<1> QED
  BY <1>1, <1>2, <1>3, <1>4 DEF CapabilityInv

LEMMA AbandonKeeps == CapabilityInv /\ Abandon => CapabilityInv'
  BY
     DEF CapabilityInv, CapabilityTypeOK, DisarmedForGood, Anchored, SilentReturnIsHarmless,
         SendEnabled, Abandon, guardState, MonitorPlaces

LEMMA ProceedKeeps ==
    ASSUME NEW place \in MonitorPlaces \ {"issued", "second", "done"}, CapabilityInv, Proceed(place),
           place = "identifying" => monitor = "issued"
    PROVE  CapabilityInv'
  BY
     DEF CapabilityInv, CapabilityTypeOK, DisarmedForGood, Anchored, SilentReturnIsHarmless,
         SendEnabled, Proceed, guardState, MonitorPlaces

(* Adopting a token is where the anchor matters.                           *)
LEMMA AdoptKeeps ==
    ASSUME CapabilityInv, monitor = "identifying", ~disabled, Adopt, monitor' = "top",
           ytCapability' = IF ytCapability = "pending" THEN "ready" ELSE ytCapability,
           UNCHANGED <<ytNow, anchor, fresh, disabled, inserting>>
    PROVE  CapabilityInv'
<1>1. fresh.life \in Int /\ fresh.expiry \in Int /\ anchor \in Int
  BY DEF CapabilityInv, CapabilityTypeOK
<1>2. Delay(fresh.life) \in Int
  BY <1>1, DelayType
<1>3. CapabilityTypeOK'
  BY <1>1, <1>2 DEF CapabilityInv, CapabilityTypeOK, Adopt, MonitorPlaces
<1>4. DisarmedForGood'
  BY DEF CapabilityInv, DisarmedForGood, Adopt
<1>5. Anchored'
  BY <1>1 DEF CapabilityInv, CapabilityTypeOK, Anchored, Adopt
<1>6. SilentReturnIsHarmless'
  BY DEF SilentReturnIsHarmless
<1> QED
  BY <1>3, <1>4, <1>5, <1>6 DEF CapabilityInv

LEMMA CapabilityStepwise == CapabilityInv /\ [CapabilityNext]_capabilityVars => CapabilityInv'
<1> SUFFICES ASSUME CapabilityInv, [CapabilityNext]_capabilityVars PROVE CapabilityInv'
  OBVIOUS
<1>1. CASE Load
  BY <1>1, AbandonKeeps, FailKeeps, ProceedKeeps DEF Load, MonitorPlaces
<1>2. ASSUME NEW life \in Lives, Issue(life) PROVE CapabilityInv'
  <2>1. life \in Int
    BY LifeAssumption
  <2>2. CapabilityTypeOK'
    BY <1>2, <2>1 DEF CapabilityInv, CapabilityTypeOK, Issue, guardState, MonitorPlaces
  <2>3. Anchored'
    BY <1>2, <2>1 DEF CapabilityInv, CapabilityTypeOK, Anchored, Issue, guardState
  <2> QED
    BY <1>2, <2>2, <2>3
    DEF CapabilityInv, DisarmedForGood, SilentReturnIsHarmless, Issue, guardState
<1>3. CASE RefreshFails \/ IdentityFails
  BY <1>3, FailKeeps DEF RefreshFails, IdentityFails
<1>4. CASE Refreshed
  BY <1>4, AbandonKeeps, FailKeeps, ProceedKeeps DEF Refreshed, MonitorPlaces
<1>5. CASE Identified
  BY <1>5, AbandonKeeps, AdoptKeeps DEF Identified
<1>6. CASE Sleep
  BY <1>6
     DEF CapabilityInv, CapabilityTypeOK, DisarmedForGood, Anchored, SilentReturnIsHarmless,
         SendEnabled, Sleep, guardState, MonitorPlaces
<1>7. CASE MonitorWakes
  <2>1. CASE ~disabled /\ expiresAt <= ytNow
    BY <1>7, <2>1, FailKeeps DEF MonitorWakes
  <2>2. CASE ~(~disabled /\ expiresAt <= ytNow)
    BY <1>7, <2>2
       DEF CapabilityInv, CapabilityTypeOK, DisarmedForGood, Anchored,
           SilentReturnIsHarmless, MonitorWakes, guardState, MonitorPlaces
  <2> QED
    BY <2>1, <2>2
<1>8. CASE Revalidate
  BY <1>8
     DEF CapabilityInv, CapabilityTypeOK, DisarmedForGood, Anchored, SilentReturnIsHarmless,
         SendEnabled, Revalidate, guardState, MonitorPlaces
<1>9. ASSUME NEW s \in Inserts, BeginInsert(s) PROVE CapabilityInv'
  BY <1>9
     DEF CapabilityInv, CapabilityTypeOK, DisarmedForGood, Anchored, SilentReturnIsHarmless,
         SendEnabled, BeginInsert, guardState
<1>10. ASSUME NEW s \in Inserts, EndInsert(s) PROVE CapabilityInv'
  <2>1. CASE UNCHANGED <<guardState, ytCapability>>
    BY <1>10, <2>1
       DEF CapabilityInv, CapabilityTypeOK, DisarmedForGood, Anchored,
           SilentReturnIsHarmless, SendEnabled, EndInsert, guardState
  <2>2. CASE Disarm /\ ytCapability' = "disabled"
    <3>1. inserting' \subseteq Inserts
      BY <1>10 DEF EndInsert, CapabilityInv, CapabilityTypeOK
    <3> QED
      BY <1>10, <2>2, <3>1, DisarmKeeps DEF EndInsert
  <2> QED
    BY <1>10, <2>1, <2>2 DEF EndInsert
<1>11. CASE RefuseToken
  <2>1. inserting' \subseteq Inserts
    BY <1>11 DEF RefuseToken, CapabilityInv, CapabilityTypeOK
  <2> QED
    BY <1>11, <2>1, DisarmKeeps DEF RefuseToken
<1>12. CASE MonitoringEnds
  BY <1>12
     DEF CapabilityInv, CapabilityTypeOK, DisarmedForGood, Anchored, SilentReturnIsHarmless,
         MonitoringEnds, guardState, MonitorPlaces
<1>13. CASE MonitorTick
  BY <1>13
     DEF CapabilityInv, CapabilityTypeOK, DisarmedForGood, Anchored, SilentReturnIsHarmless,
         SendEnabled, MonitorTick, guardState
<1>14. CASE UNCHANGED capabilityVars
  BY <1>14
     DEF CapabilityInv, CapabilityTypeOK, DisarmedForGood, Anchored, SilentReturnIsHarmless,
         SendEnabled, capabilityVars, guardState
<1> QED
  BY <1>1, <1>2, <1>3, <1>4, <1>5, <1>6, <1>7, <1>8, <1>9, <1>10, <1>11, <1>12, <1>13, <1>14
  DEF CapabilityNext

THEOREM CapabilityInductive == CapabilitySpec => []CapabilityInv
  BY CapabilityInitially, CapabilityStepwise, PTL DEF CapabilitySpec

(* A guard that the sender disarmed during a validation is not brought     *)
(* back by it, and the policy is disarmed exactly when the guard is.       *)
THEOREM NotBroughtBack == CapabilitySpec => []DisarmedForGood
<1>1. CapabilityInv => DisarmedForGood
  BY DEF CapabilityInv
<1> QED
  BY <1>1, CapabilityInductive, PTL

(* No token that the guard hands out has expired.                          *)
THEOREM NeverHandsOutExpired == CapabilitySpec => []HandedOutIsValid
<1>1. CapabilityInv => HandedOutIsValid
  BY DEF CapabilityInv, CapabilityTypeOK, Anchored, HandedOutIsValid, SendEnabled
<1> QED
  BY <1>1, CapabilityInductive, PTL

(* A monitor that returned without telling the policy left no usable token.*)
THEOREM SilentReturn == CapabilitySpec => []SilentReturnIsHarmless
<1>1. CapabilityInv => SilentReturnIsHarmless
  BY DEF CapabilityInv
<1> QED
  BY <1>1, CapabilityInductive, PTL

(* The whole promise of the guard.                                         *)
THEOREM HonestCapability == CapabilitySpec => []CapabilityIsHonest
<1> QED
  BY NotBroughtBack, NeverHandsOutExpired, SilentReturn, PTL DEF CapabilityIsHonest
==============================================================================
