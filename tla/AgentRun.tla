------------------------------ MODULE AgentRun ------------------------------
(***************************************************************************)
(* src/src/minnarone/app.py, Agent.run(): the start of the run, the tasks  *)
(* it makes, what it waits for, and its shutdown, with the loops of        *)
(* cadence.py that the Reactors and the Summarizer share.                  *)
(*                                                                         *)
(* Every await of run() and of its tasks is a place.  What a task awaits   *)
(* is external: a step of a loop may fail, the stream may end or fail, the *)
(* guard may find a token invalid, a stop() may raise.  A cancellation     *)
(* reaches a task at its await, before whatever the await would return.    *)
(***************************************************************************)
EXTENDS Integers, FiniteSets

CONSTANTS
    Reactors,       \* one cadence loop each
    Summarizer,     \* the cadence loop of the Summarizer
    Setups          \* what runs are built with

(* Tasks are distinct.  A run with a platform to send to has a guard and a *)
(* sender.  Only a run with an adapter may have a perception queue.        *)
ASSUME RunAssumption ==
    /\ Summarizer \notin Reactors
    /\ {"pump", "guard"} \cap (Reactors \cup {Summarizer}) = {}
    /\ Setups \subseteq [adapter : BOOLEAN, queue : BOOLEAN, platform : {"none", "twitch", "youtube"}]
    /\ \A s \in Setups : s.queue => s.adapter

Loops == Reactors \cup {Summarizer}
Children == Loops \cup {"pump", "guard"}

VARIABLES
    setup,          \* what the run was built with
    main,           \* where run() is
    raised,         \* what its body is raising: "nothing" | "error" | "cancellation"
    outcome,        \* how run() ended: "none" | "normal" | "error" | "cancelled"
    task,           \* per child, where it is
    cancelled,      \* the children with a cancel() not yet delivered
    looping,        \* _running, per loop
    pumpRaises,     \* what the pump is raising while it cleans up
    adapter,        \* "down" | "up" | "stopped" | "interrupted", the latter in its stop()
    queue,          \* "down" | "up"
    sender,         \* "none" | "up" | "stopped"
    senderFailed,   \* sender_error is not None
    capability,     \* the policy: "pending" | "ready" | "disabled"
    ticked,         \* the Reactors that had their last tick
    gatherCancelled,\* the gather() of the shutdown was cancelled
    \* history
    asked,          \* run() was cancelled
    swallowed       \* the guard's task swallowed its cancellation

resources == <<adapter, queue, sender>>
mainVars == <<main, raised, outcome, senderFailed, ticked, gatherCancelled, asked>>
childVars == <<task, cancelled, looping, pumpRaises, swallowed>>
vars == <<setup, mainVars, childVars, resources, capability>>

Twitch == setup.platform = "twitch"
Guarded == setup.platform # "none"

Ended == {"absent", "done", "failed", "cancelled"}
Over(c) == task[c] \in Ended

Init ==
    /\ setup \in Setups
    /\ main = IF setup.platform = "none" THEN "launching" ELSE "validating"
    /\ raised = "nothing"
    /\ outcome = "none"
    /\ task = [c \in Children |-> "absent"]
    /\ cancelled = {}
    /\ looping = [l \in Loops |-> FALSE]
    /\ pumpRaises = "nothing"
    /\ adapter = "down"
    /\ queue = "down"
    /\ sender = "none"
    /\ senderFailed = FALSE
    /\ capability = "pending"
    /\ ticked = {}
    /\ gatherCancelled = FALSE
    /\ asked = FALSE
    /\ swallowed = FALSE

-----------------------------------------------------------------------------
(* run() before its tasks exist                                            *)

EndEarly(how) ==
    /\ main' = "over"
    /\ outcome' = how
    /\ UNCHANGED <<raised, senderFailed, ticked, gatherCancelled, task>>

(* The tasks are created, none has run yet.                                *)
CreateTasks(guarded) ==
    /\ main' = "driving"
    /\ task' = [c \in Children |-> IF c = "guard" /\ ~guarded THEN "absent" ELSE "created"]
    /\ UNCHANGED <<raised, outcome, senderFailed, ticked, gatherCancelled>>

EarlyStays == UNCHANGED <<setup, asked, cancelled, looping, pumpRaises, swallowed, adapter, queue>>

(* The guard's validate_startup(): sending is allowed, or only refused, or *)
(* the run ends before it began.  A YouTube guard that refused is not      *)
(* watched.                                                                *)
Validate ==
    /\ main = "validating"
    /\ \/ /\ capability' = "ready"
          /\ main' = "starting"
          /\ UNCHANGED <<raised, outcome, senderFailed, ticked, gatherCancelled, task>>
       \/ capability' = "disabled" /\ CreateTasks(Twitch)
       \/ EndEarly("error") /\ UNCHANGED capability
    /\ UNCHANGED sender
    /\ EarlyStays

(* sender.start().                                                         *)
StartSender ==
    /\ main = "starting"
    /\ \/ sender' = "up" /\ CreateTasks(TRUE)
       \/ EndEarly("error") /\ UNCHANGED sender
    /\ UNCHANGED capability
    /\ EarlyStays

(* A run without a guard.                                                  *)
Launch ==
    /\ main = "launching"
    /\ CreateTasks(FALSE)
    /\ UNCHANGED <<sender, capability>>
    /\ EarlyStays

-----------------------------------------------------------------------------
(* The tasks                                                               *)

Goes(c, from, to) ==
    /\ c \notin cancelled
    /\ task[c] \in from
    /\ task' = [task EXCEPT ![c] = to]

LoopStays == UNCHANGED <<setup, mainVars, cancelled, pumpRaises, swallowed, resources, capability>>

(* CadenceLoop.run().                                                      *)
BeginLoop(l) ==
    /\ Goes(l, {"created"}, "stepping")
    /\ looping' = [looping EXCEPT ![l] = TRUE]
    /\ LoopStays

(* A step is done, or an error of the model was swallowed by the loop or   *)
(* by run_once(): the loop sleeps.  Any other error ends it.               *)
EndStep(l) ==
    /\ Goes(l, {"stepping"}, "sleeping") \/ Goes(l, {"stepping"}, "failed")
    /\ UNCHANGED looping
    /\ LoopStays

Awake(l) ==
    /\ Goes(l, {"sleeping"}, IF looping[l] THEN "stepping" ELSE "done")
    /\ UNCHANGED looping
    /\ LoopStays

(* reactor.stop() from outside, which is how a run without a source ends.  *)
(* Before the task has run it finds no loop to stop.                       *)
StopLoop(l) ==
    /\ ~setup.adapter
    /\ task[l] \in {"stepping", "sleeping"}
    /\ looping[l]
    /\ looping' = [looping EXCEPT ![l] = FALSE]
    /\ UNCHANGED task
    /\ LoopStays

(* A cancelled step may fail while it cleans up.                           *)
CancelLoop(l) ==
    /\ l \in cancelled
    /\ cancelled' = cancelled \ {l}
    /\ \E end \in {"cancelled", "failed"} :
        /\ end = "failed" => task[l] = "stepping"
        /\ task' = [task EXCEPT ![l] = end]
    /\ UNCHANGED <<setup, mainVars, looping, pumpRaises, swallowed, resources, capability>>

PumpStays ==
    UNCHANGED <<setup, mainVars, cancelled, looping, swallowed, sender, capability>>

(* _pump_perceptions(): both start() calls return at once.                 *)
BeginPump ==
    /\ Goes("pump", {"created"}, IF setup.adapter THEN "reading" ELSE "done")
    /\ adapter' = IF setup.adapter THEN "up" ELSE "down"
    /\ queue' = IF setup.queue THEN "up" ELSE "down"
    /\ UNCHANGED pumpRaises
    /\ PumpStays

(* The stream ends, or it or a perceiver fails: adapter.stop() is next.    *)
EndStream ==
    /\ Goes("pump", {"reading"}, "stoppingAdapter")
    /\ pumpRaises' \in {"nothing", "error"}
    /\ UNCHANGED <<adapter, queue>>
    /\ PumpStays

EndOf(raises) ==
    CASE raises = "nothing" -> "done" [] raises = "error" -> "failed" [] OTHER -> "cancelled"

(* Where the pump goes when adapter.stop() is over.                        *)
AfterAdapter(raises) == IF setup.queue THEN "stoppingQueue" ELSE EndOf(raises)

(* adapter.stop() returns, or raises in place of what was being raised.    *)
StopAdapter ==
    /\ \E raises \in {pumpRaises, "error"} :
        /\ Goes("pump", {"stoppingAdapter"}, AfterAdapter(raises))
        /\ pumpRaises' = raises
    /\ adapter' = "stopped"
    /\ UNCHANGED queue
    /\ PumpStays

(* perception_queue.stop() returns.                                        *)
StopQueue ==
    /\ Goes("pump", {"stoppingQueue", "cuttingQueue"}, EndOf(pumpRaises))
    /\ queue' = "down"
    /\ UNCHANGED <<adapter, pumpRaises>>
    /\ PumpStays

(* A fault: the adapter is stopped only when its stream ends.              *)
CancelPumpAtOnce ==
    /\ "pump" \in cancelled
    /\ cancelled' = cancelled \ {"pump"}
    /\ pumpRaises' = "cancellation"
    /\ task' = [task EXCEPT !["pump"] = "cancelled"]
    /\ UNCHANGED <<setup, mainVars, looping, swallowed, resources, capability>>

(* The pump's cancellation.  Its finally clauses still run, and one that   *)
(* is awaiting a stop() when it is cancelled again goes on to the next.    *)
CancelPump ==
    /\ "pump" \in cancelled
    /\ cancelled' = cancelled \ {"pump"}
    /\ pumpRaises' = "cancellation"
    /\ task' = [task EXCEPT !["pump"] =
            CASE @ = "reading" -> "stoppingAdapter"
              [] @ = "stoppingAdapter" -> AfterAdapter("cancellation")
              [] @ = "stoppingQueue" -> "cuttingQueue"
              [] OTHER -> "cancelled"]
    /\ adapter' = IF task["pump"] = "stoppingAdapter" THEN "interrupted" ELSE adapter
    /\ queue' = IF task["pump"] \in {"stoppingQueue", "cuttingQueue"} THEN "down" ELSE queue
    /\ UNCHANGED <<setup, mainVars, looping, swallowed, sender, capability>>

GuardStays == UNCHANGED <<setup, mainVars, looping, pumpRaises, adapter, queue>>

(* monitor().                                                              *)
BeginGuard ==
    /\ Goes("guard", {"created"}, "watching")
    /\ UNCHANGED <<cancelled, swallowed, sender, capability>>
    /\ GuardStays

(* The read token of a Twitch run is not valid any more; or the first look *)
(* of a YouTube monitor finds the token expired, or a later one does and   *)
(* it returns.                                                             *)
FailGuard ==
    /\ Goes("guard", {"watching"}, "failed") \/ (~Twitch /\ Goes("guard", {"watching"}, "done"))
    /\ UNCHANGED <<cancelled, swallowed, sender, capability>>
    /\ GuardStays

(* The send token is not valid: on_send_invalid() disarms the policy and   *)
(* stops the sender.  Only the Twitch sender has something to wait for.    *)
InvalidateSend ==
    /\ capability = "ready"
    /\ capability' = "disabled"
    /\ Goes("guard", {"watching"}, IF Twitch THEN "disarming" ELSE "done")
    /\ sender' = IF Twitch THEN sender ELSE "stopped"
    /\ UNCHANGED <<cancelled, swallowed>>
    /\ GuardStays

(* sender.stop() returns to the guard, or raises when it closes the stream.*)
EndDisarming ==
    /\ Goes("guard", {"disarming"}, "watching") \/ Goes("guard", {"disarming"}, "failed")
    /\ sender' = "stopped"
    /\ UNCHANGED <<cancelled, swallowed, capability>>
    /\ GuardStays

(* The guard's cancellation.  sender.stop() swallows it while it waits for *)
(* the tasks that it has cancelled itself, and monitor() goes on.          *)
CancelGuard ==
    /\ "guard" \in cancelled
    /\ cancelled' = cancelled \ {"guard"}
    /\ \/ /\ task' = [task EXCEPT !["guard"] = "cancelled"]
          /\ UNCHANGED swallowed
       \/ /\ task["guard"] = "disarming"
          /\ task' = [task EXCEPT !["guard"] = "watching"]
          /\ swallowed' = TRUE
    /\ sender' = IF task["guard"] = "disarming" THEN "stopped" ELSE sender
    /\ UNCHANGED capability
    /\ GuardStays

-----------------------------------------------------------------------------
(* run(): what it waits for, and its end                                   *)

(* The finally clause up to its first await.  Only the sender of a Twitch  *)
(* run has something to wait for.                                          *)
ShutDown ==
    /\ looping' = [l \in Loops |-> FALSE]
    /\ cancelled' = {c \in Children : ~Over(c)}
    /\ main' = IF Twitch /\ sender = "up" THEN "stopping" ELSE "gathering"
    /\ sender' = IF sender = "up" /\ ~Twitch THEN "stopped" ELSE sender

GuardDrives == Twitch /\ task["guard"] # "absent"

Drivers ==
    (IF setup.adapter THEN {"pump"} ELSE IF Reactors = {} THEN {Summarizer} ELSE Reactors)
    \cup (IF GuardDrives THEN {"guard"} ELSE {})

MainStays == UNCHANGED <<setup, task, pumpRaises, swallowed, adapter, queue>>

(* A driver ended.  A guard that did is noticed first: a read token was    *)
(* revoked, and there is no last tick.                                     *)
NoticeGuard ==
    /\ main = "driving"
    /\ GuardDrives /\ Over("guard")
    /\ capability' = "disabled"
    /\ raised' = "error"
    /\ ShutDown
    /\ UNCHANGED <<outcome, senderFailed, ticked, gatherCancelled, asked>>
    /\ MainStays

NoticeDriver ==
    /\ main = "driving"
    /\ ~(GuardDrives /\ Over("guard"))
    /\ \E c \in Drivers : Over(c)
    /\ IF setup.adapter /\ Reactors # {}
       THEN main' = "draining" /\ UNCHANGED <<looping, cancelled, sender>>
       ELSE ShutDown
    /\ UNCHANGED <<raised, outcome, senderFailed, ticked, gatherCancelled, asked, capability>>
    /\ MainStays

(* The last run_once() of each Reactor, one after the other.               *)
LastTick(r) ==
    /\ main = "draining"
    /\ r \notin ticked
    /\ ticked' = ticked \cup {r}
    /\ \/ /\ ticked' # Reactors
          /\ UNCHANGED <<main, looping, cancelled, raised, sender>>
       \/ /\ ticked' = Reactors
          /\ ShutDown
          /\ UNCHANGED raised
       \/ raised' = "error" /\ ShutDown
    /\ UNCHANGED <<outcome, senderFailed, gatherCancelled, asked, capability>>
    /\ MainStays

(* sender.stop() at the end of the run returns, or raises.                 *)
StopSender ==
    /\ main = "stopping"
    /\ main' = "gathering"
    /\ sender' = "stopped"
    /\ senderFailed' \in BOOLEAN
    /\ UNCHANGED <<raised, outcome, ticked, gatherCancelled, asked, cancelled, looping, capability>>
    /\ MainStays

(* A fault: what the tasks raised is dropped.                              *)
OutcomeOfBody ==
    IF gatherCancelled THEN "cancelled"
    ELSE IF raised = "error" \/ senderFailed THEN "error"
    ELSE IF raised = "cancellation" THEN "cancelled"
    ELSE "normal"

(* A cancelled gather() says so; otherwise the errors of the tasks and of  *)
(* the sender come before what the body was raising.                       *)
Outcome ==
    IF gatherCancelled THEN "cancelled"
    ELSE IF senderFailed \/ raised = "error" \/ \E c \in Children : task[c] = "failed" THEN "error"
    ELSE IF raised = "cancellation" THEN "cancelled"
    ELSE "normal"

(* gather() returns when every task has ended.                             *)
Gather ==
    /\ main = "gathering"
    /\ \A c \in Children : Over(c)
    /\ main' = "over"
    /\ outcome' = Outcome
    /\ UNCHANGED <<raised, senderFailed, ticked, gatherCancelled, asked, cancelled, looping, sender,
                   capability>>
    /\ MainStays

(* run() itself is cancelled, which happens once: by Ctrl-C or by the TUI. *)
(* Before the tasks exist it is over.  Later the shutdown begins, or, when *)
(* it is in the gather(), the tasks are cancelled again.  A cancellation   *)
(* that arrives while the sender is being stopped is lost.                 *)
CancelRun ==
    /\ main # "over"
    /\ ~asked
    /\ asked' = TRUE
    /\ \/ /\ main \in {"validating", "starting", "launching"}
          /\ EndEarly("cancelled")
          /\ UNCHANGED <<looping, cancelled, sender>>
       \/ /\ main \in {"driving", "draining"}
          /\ raised' = "cancellation"
          /\ ShutDown
          /\ UNCHANGED <<outcome, senderFailed, ticked, gatherCancelled>>
       \/ /\ main = "stopping"
          /\ \/ UNCHANGED <<main, sender>>
             \/ main' = "gathering" /\ sender' = "stopped"
          /\ UNCHANGED <<raised, outcome, senderFailed, ticked, gatherCancelled, looping, cancelled>>
       \/ /\ main = "gathering"
          /\ gatherCancelled' = TRUE
          /\ cancelled' = {c \in Children : ~Over(c)}
          /\ UNCHANGED <<main, raised, outcome, senderFailed, ticked, looping, sender>>
    /\ UNCHANGED capability
    /\ MainStays

ChildStep(c) ==
    \/ c \in Loops /\ (BeginLoop(c) \/ EndStep(c) \/ Awake(c) \/ CancelLoop(c))
    \/ c = "pump" /\ (BeginPump \/ StopAdapter \/ StopQueue \/ CancelPump)
    \/ c = "guard" /\ (BeginGuard \/ EndDisarming \/ CancelGuard)

MainStep ==
    \/ Validate \/ StartSender \/ Launch
    \/ NoticeGuard \/ NoticeDriver
    \/ \E r \in Reactors : LastTick(r)
    \/ StopSender \/ Gather

World == EndStream \/ FailGuard \/ InvalidateSend \/ \E r \in Reactors : StopLoop(r)

Next ==
    \/ MainStep
    \/ \E c \in Children : ChildStep(c)
    \/ World
    \/ CancelRun

Spec == Init /\ [][Next]_vars

(* The event loop runs whatever is ready, and what a task awaits returns:  *)
(* calls to models and to the network have time limits, and stop() of the  *)
(* adapter, the queue and the sender are shown to end in their modules.    *)
(* The stream need not end, and no token need be refused.                  *)
RunFairness ==
    /\ WF_vars(MainStep)
    /\ \A c \in Children : WF_vars(ChildStep(c))

FairSpec == Spec /\ RunFairness

-----------------------------------------------------------------------------
Places == Ended \cup {"created", "stepping", "sleeping", "reading", "stoppingAdapter",
                     "stoppingQueue", "cuttingQueue", "watching", "disarming"}

TypeOK ==
    /\ setup \in Setups
    /\ main \in {"validating", "starting", "launching", "driving", "draining", "stopping",
                "gathering", "over"}
    /\ raised \in {"nothing", "error", "cancellation"}
    /\ outcome \in {"none", "normal", "error", "cancelled"}
    /\ task \in [Children -> Places]
    /\ cancelled \subseteq Children
    /\ looping \in [Loops -> BOOLEAN]
    /\ pumpRaises \in {"nothing", "error", "cancellation"}
    /\ adapter \in {"down", "up", "stopped", "interrupted"}
    /\ queue \in {"down", "up"}
    /\ sender \in {"none", "up", "stopped"}
    /\ senderFailed \in BOOLEAN
    /\ capability \in {"pending", "ready", "disabled"}
    /\ ticked \subseteq Reactors
    /\ gatherCancelled \in BOOLEAN
    /\ asked \in BOOLEAN
    /\ swallowed \in BOOLEAN

(* A run that is over leaves nothing behind: no task is alive, what was    *)
(* started was stopped, and only a cancellation may cut a stop() short.    *)
NothingOrphaned ==
    main = "over" =>
        /\ \A c \in Children : Over(c)
        /\ queue = "down"
        /\ adapter # "up"
        /\ sender # "up"
        /\ adapter = "interrupted" => outcome # "normal"

(* An error of a task, of the sender or of run() itself is the outcome of  *)
(* the run, unless its gather() was cancelled.                             *)
ErrorsSurface ==
    main = "over" /\ ~gatherCancelled =>
        ((senderFailed \/ raised = "error" \/ \E c \in Children : task[c] = "failed")
            => outcome = "error")

(* A run that is cancelled, or whose driver ended, comes to its end,       *)
(* unless the guard's task swallowed its cancellation.                     *)
DriverEnded == main = "driving" /\ \E c \in Drivers : Over(c)

RunEnds == asked \/ DriverEnded ~> main = "over" \/ swallowed

(* In all cases the shutdown is clean: once run() has told its tasks to    *)
(* stop, it ends.                                                          *)
ShutdownEnds == main \in {"stopping", "gathering"} ~> main = "over"

=============================================================================
