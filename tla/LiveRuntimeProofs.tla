------------------------- MODULE LiveRuntimeProofs --------------------------
(***************************************************************************)
(* Theorems about AgentRun and LiveRuntime, for any number of Reactors and *)
(* whatever a run was built with, and about PromptContract, for every      *)
(* window and number of lines.                                             *)
(*                                                                         *)
(* That a finished run left nothing behind is not inductive: it rests on   *)
(* the pump, whose place says what it still has to stop, on the sender,    *)
(* which only a run that is not yet gathering its tasks may have up, and   *)
(* on why a pump is cancelled at all.                                      *)
(*                                                                         *)
(* Then the prompts that such a run renders.  That no accepted set fails   *)
(* is a matter of which file blocks a prompt can hold at all: each is      *)
(* given what its contract allows, and the contract is what was checked.   *)
(* What a prompt shows is put together block by block: each operator of    *)
(* PromptContract has a lemma that says which lines it shows.              *)
(***************************************************************************)
EXTENDS LiveRuntime, PromptContract, OrderingProofs, TLAPS

Early == {"validating", "starting", "launching"}

(* No task exists before they are created, and a cancellation waits only   *)
(* for a task that is alive.                                               *)
TasksInv ==
    /\ main \in Early => (\A c \in Children : task[c] = "absent") /\ cancelled = {}
    /\ \A c \in cancelled : ~Over(c)
    /\ main = "over" => \A c \in Children : Over(c)

(* What the pump has started it has still to stop where it is.             *)
PumpInv ==
    /\ task["pump"] \in Ended \cup {"created", "reading", "stoppingAdapter", "stoppingQueue",
                                    "cuttingQueue"}
    /\ adapter = "up" => task["pump"] \in {"reading", "stoppingAdapter"}
    /\ queue = "up" => task["pump"] \in {"reading", "stoppingAdapter", "stoppingQueue"}
    /\ queue = "up" => setup.queue
    /\ task["pump"] \in {"reading", "stoppingAdapter"} => setup.adapter

(* A sender that is up is stopped before the tasks are gathered.           *)
SenderInv == sender = "up" => main \in {"driving", "draining", "stopping"}

(* The pump of a run with a source is cancelled only by a run that was     *)
(* cut short: otherwise it has ended before the shutdown begins.           *)
CutShort == raised # "nothing" \/ gatherCancelled

PumpEndsFirst ==
    /\ main = "draining" => Over("pump")
    /\ main \in {"stopping", "gathering"} /\ setup.adapter => Over("pump") \/ CutShort
    /\ "pump" \in cancelled /\ setup.adapter => CutShort
    /\ adapter = "interrupted" => CutShort

(* How a run ends, and that nothing has failed before it began.            *)
OutcomeInv ==
    /\ main \in Early => raised = "nothing" /\ ~senderFailed /\ adapter = "down"
    /\ main = "over" /\ CutShort => outcome # "normal"
    /\ ErrorsSurface

RunInv == TypeOK /\ TasksInv /\ PumpInv /\ SenderInv /\ PumpEndsFirst /\ OutcomeInv

-----------------------------------------------------------------------------
LEMMA RunInitially == Init => RunInv
<1> SUFFICES ASSUME Init PROVE RunInv
    OBVIOUS
<1>1. TypeOK
    BY RunAssumption DEF Init, TypeOK, Places, Ended
<1>2. TasksInv /\ PumpInv
    BY DEF Init, TasksInv, PumpInv, Children, Ended, Over
<1>3. SenderInv /\ PumpEndsFirst
    BY DEF Init, SenderInv, PumpEndsFirst
<1>4. OutcomeInv
    BY DEF Init, OutcomeInv, ErrorsSurface, Early
<1>5. QED BY <1>1, <1>2, <1>3, <1>4 DEF RunInv

-----------------------------------------------------------------------------
(* Steps of tasks                                                          *)

(* A task that is alive is there only while the run is under way.          *)
LEMMA AliveWhileUnderWay ==
    ASSUME TasksInv, NEW c \in Children, ~Over(c)
    PROVE  main \notin Early \cup {"over"}
<1>1. QED BY DEF TasksInv, Over, Ended

(* What a step of a loop or of the guard may do: the task moves on, and a  *)
(* cancellation is delivered when it ends; the sender may be stopped.      *)
LEMMA TaskMoves ==
    ASSUME RunInv, NEW c \in Children, c # "pump", ~Over(c),
           NEW to \in Places, task' = [task EXCEPT ![c] = to],
           cancelled' = cancelled \ {c},
           UNCHANGED <<setup, mainVars, pumpRaises, adapter, queue>>,
           looping' \in [Loops -> BOOLEAN], swallowed' \in BOOLEAN,
           capability' \in {"pending", "ready", "disabled"},
           sender' \in {sender, "stopped"}
    PROVE  RunInv'
<1>1. main \notin Early \cup {"over"} /\ task \in [Children -> Places]
    BY AliveWhileUnderWay DEF RunInv, TypeOK
<1>2. TypeOK'
    BY DEF RunInv, TypeOK, mainVars
<1>3. \A d \in Children : d # c => task'[d] = task[d]
    BY <1>1
<1>4. "pump" \in Children
    BY DEF Children
<1>5. TasksInv'
    BY <1>1, <1>3 DEF RunInv, TypeOK, TasksInv, mainVars, Over
<1>6. PumpInv'
    BY <1>3, <1>4 DEF RunInv, PumpInv, Over
<1>7. SenderInv' /\ PumpEndsFirst'
    BY <1>3, <1>4 DEF RunInv, SenderInv, PumpEndsFirst, mainVars, Over, CutShort
<1>8. OutcomeInv'
    BY <1>1 DEF RunInv, OutcomeInv, ErrorsSurface, mainVars, CutShort
<1>9. QED BY <1>2, <1>5, <1>6, <1>7, <1>8 DEF RunInv

LEMMA LoopSteps ==
    ASSUME RunInv, NEW l \in Loops,
           BeginLoop(l) \/ EndStep(l) \/ Awake(l) \/ CancelLoop(l)
    PROVE  RunInv'
<1>1. l \in Children /\ l # "pump"
    BY RunAssumption DEF Loops, Children
<1>2. /\ task \in [Children -> Places] /\ looping \in [Loops -> BOOLEAN]
      /\ swallowed \in BOOLEAN /\ capability \in {"pending", "ready", "disabled"}
    BY DEF RunInv, TypeOK
<1>3. CASE BeginLoop(l) \/ EndStep(l) \/ Awake(l)
  <2>1. PICK to \in {"stepping", "sleeping", "failed", "done"} :
            /\ l \notin cancelled
            /\ task[l] \in {"created", "stepping", "sleeping"}
            /\ task' = [task EXCEPT ![l] = to]
      BY <1>3 DEF BeginLoop, EndStep, Awake, Goes
  <2>2. UNCHANGED <<setup, mainVars, cancelled, pumpRaises, swallowed, resources, capability>>
      BY <1>3 DEF BeginLoop, EndStep, Awake, LoopStays
  <2>3. looping' \in [Loops -> BOOLEAN]
      BY <1>2, <1>3 DEF BeginLoop, EndStep, Awake
  <2>4. to \in Places /\ ~Over(l) /\ cancelled' = cancelled \ {l}
      BY <2>1, <2>2 DEF Places, Ended, Over
  <2>5. QED BY <1>1, <1>2, <2>1, <2>2, <2>3, <2>4, TaskMoves DEF resources
<1>4. CASE CancelLoop(l)
  <2>1. PICK to \in {"cancelled", "failed"} : task' = [task EXCEPT ![l] = to]
      BY <1>4 DEF CancelLoop
  <2>2. to \in Places /\ ~Over(l)
      BY <1>4, <2>1 DEF Places, Ended, CancelLoop, RunInv, TasksInv
  <2>3. QED BY <1>1, <1>2, <1>4, <2>1, <2>2, TaskMoves DEF CancelLoop, resources
<1>5. QED BY <1>3, <1>4

LEMMA GuardSteps ==
    ASSUME RunInv,
           BeginGuard \/ EndDisarming \/ CancelGuard \/ FailGuard \/ InvalidateSend
    PROVE  RunInv'
<1>1. "guard" \in Children /\ "guard" # "pump"
    BY DEF Children
<1>2. /\ task \in [Children -> Places] /\ looping \in [Loops -> BOOLEAN]
      /\ swallowed \in BOOLEAN /\ capability \in {"pending", "ready", "disabled"}
    BY DEF RunInv, TypeOK
<1>3. GuardStays
    BY DEF BeginGuard, EndDisarming, CancelGuard, FailGuard, InvalidateSend
<1>4. PICK to \in {"watching", "failed", "done", "disarming", "cancelled"} :
            task' = [task EXCEPT !["guard"] = to]
    BY DEF BeginGuard, EndDisarming, CancelGuard, FailGuard, InvalidateSend, Goes
<1>5. ~Over("guard") /\ cancelled' = cancelled \ {"guard"}
    BY DEF BeginGuard, EndDisarming, CancelGuard, FailGuard, InvalidateSend, Goes,
           RunInv, TasksInv, Over, Ended
<1>6. /\ swallowed' \in BOOLEAN /\ capability' \in {"pending", "ready", "disabled"}
      /\ sender' \in {sender, "stopped"}
    BY <1>2 DEF BeginGuard, EndDisarming, CancelGuard, FailGuard, InvalidateSend
<1>7. to \in Places
    BY DEF Places, Ended
<1>8. QED BY <1>1, <1>2, <1>3, <1>4, <1>5, <1>6, <1>7, TaskMoves DEF GuardStays

(* A loop that is told to stop goes on until it wakes.                     *)
LEMMA StopLoopKeeps ==
    ASSUME RunInv, NEW r \in Reactors, StopLoop(r)
    PROVE  RunInv'
<1>1. UNCHANGED <<setup, mainVars, task, cancelled, pumpRaises, swallowed, resources, capability>>
    BY DEF StopLoop, LoopStays
<1>2. TypeOK'
    BY <1>1 DEF StopLoop, RunInv, TypeOK, mainVars, resources, Loops
<1>3. QED
    BY <1>1, <1>2 DEF RunInv, TasksInv, PumpInv, SenderInv, PumpEndsFirst, OutcomeInv,
            ErrorsSurface, CutShort, Over, mainVars, resources

-----------------------------------------------------------------------------
(* Steps of the pump                                                       *)

(* What a step of the pump leaves alone; what remains is what the pump     *)
(* itself has to stop.                                                     *)
LEMMA PumpMoves ==
    ASSUME RunInv, ~Over("pump"),
           NEW to \in Places, task' = [task EXCEPT !["pump"] = to],
           cancelled' = cancelled \ {"pump"},
           UNCHANGED <<setup, mainVars, looping, swallowed, sender, capability>>,
           pumpRaises' \in {"nothing", "error", "cancellation"},
           adapter' \in {"down", "up", "stopped", "interrupted"},
           queue' \in {"down", "up"},
           PumpInv',
           adapter' = "interrupted" => CutShort
    PROVE  RunInv'
<1>1. "pump" \in Children
    BY DEF Children
<1>2. main \notin Early \cup {"over"} /\ task \in [Children -> Places]
    BY <1>1, AliveWhileUnderWay DEF RunInv, TypeOK
<1>3. TypeOK'
  <2>1. task' \in [Children -> Places] /\ cancelled' \subseteq Children
      BY <1>2 DEF RunInv, TypeOK
  <2>2. QED BY <2>1 DEF RunInv, TypeOK, mainVars
<1>4. \A d \in Children : d # "pump" => task'[d] = task[d]
    BY <1>2
<1>5. TasksInv'
    BY <1>2, <1>4 DEF RunInv, TypeOK, TasksInv, mainVars, Over
<1>6. SenderInv'
    BY DEF RunInv, SenderInv, mainVars
<1>7. main # "draining" /\ (main \in {"stopping", "gathering"} /\ setup.adapter => CutShort)
    BY DEF RunInv, PumpEndsFirst
<1>8. PumpEndsFirst'
    BY <1>7 DEF RunInv, PumpEndsFirst, mainVars, CutShort
<1>9. OutcomeInv'
    BY <1>2 DEF RunInv, OutcomeInv, ErrorsSurface, mainVars, CutShort
<1>10. QED BY <1>3, <1>5, <1>6, <1>8, <1>9 DEF RunInv

LEMMA PumpSteps ==
    ASSUME RunInv, BeginPump \/ EndStream \/ StopAdapter \/ StopQueue
    PROVE  RunInv'
<1>1. "pump" \in Children /\ task \in [Children -> Places]
    BY DEF Children, RunInv, TypeOK
<1>2. PumpInv /\ TypeOK
    BY DEF RunInv
<1>3. "pump" \notin cancelled /\ ~Over("pump") /\ PumpStays
    BY DEF BeginPump, EndStream, StopAdapter, StopQueue, Goes, Over, Ended
<1>4. cancelled' = cancelled \ {"pump"}
    BY <1>3 DEF PumpStays
<1>5. PICK to \in Ended \cup {"reading", "stoppingAdapter", "stoppingQueue"} :
            task' = [task EXCEPT !["pump"] = to]
    BY <1>2 DEF BeginPump, EndStream, StopAdapter, StopQueue, Goes, AfterAdapter, EndOf, Ended
<1>6. /\ pumpRaises' \in {"nothing", "error", "cancellation"}
      /\ adapter' \in {adapter, "up", "down", "stopped"} /\ queue' \in {"down", "up"}
    BY <1>2 DEF BeginPump, EndStream, StopAdapter, StopQueue, TypeOK
<1>7. task'["pump"] = to
    BY <1>1, <1>5
<1>8. PumpInv'
  <2>1. CASE BeginPump
      BY <1>1, <1>2, <1>7, <2>1, RunAssumption
      DEF BeginPump, Goes, PumpStays, PumpInv, Ended, TypeOK
  <2>2. CASE EndStream
      BY <1>1, <1>2, <1>7, <2>2 DEF EndStream, Goes, PumpStays, PumpInv, Ended
  <2>3. CASE StopAdapter
      BY <1>1, <1>2, <1>7, <2>3
      DEF StopAdapter, Goes, PumpStays, PumpInv, AfterAdapter, EndOf, Ended
  <2>4. CASE StopQueue
      BY <1>1, <1>2, <1>7, <2>4 DEF StopQueue, Goes, PumpStays, PumpInv, EndOf, Ended
  <2>5. QED BY <2>1, <2>2, <2>3, <2>4
<1>9. adapter' = "interrupted" => CutShort
    BY <1>6 DEF RunInv, PumpEndsFirst
<1>10. /\ UNCHANGED <<setup, mainVars, looping, swallowed, sender, capability>>
       /\ adapter' \in {"down", "up", "stopped", "interrupted"} /\ to \in Places
    BY <1>2, <1>3, <1>6 DEF PumpStays, TypeOK, Places
<1>11. QED BY <1>3, <1>4, <1>5, <1>6, <1>8, <1>9, <1>10, PumpMoves

(* The cancelled pump goes on to what it has still to stop.                *)
LEMMA CancelPumpKeeps ==
    ASSUME RunInv, CancelPump
    PROVE  RunInv'
<1>1. "pump" \in Children /\ task \in [Children -> Places]
    BY DEF Children, RunInv, TypeOK
<1>2. PumpInv /\ TypeOK /\ ~Over("pump")
    BY DEF RunInv, TasksInv, CancelPump
<1>3. DEFINE to == task'["pump"]
<1>4. /\ task' = [task EXCEPT !["pump"] = to]
      /\ to = CASE task["pump"] = "reading" -> "stoppingAdapter"
                [] task["pump"] = "stoppingAdapter" -> AfterAdapter("cancellation")
                [] task["pump"] = "stoppingQueue" -> "cuttingQueue"
                [] OTHER -> "cancelled"
    BY <1>1 DEF CancelPump
<1>5. PumpInv'
    BY <1>1, <1>2, <1>4 DEF CancelPump, PumpInv, AfterAdapter, EndOf, Ended, TypeOK
<1>6. adapter' = "interrupted" => CutShort
    BY <1>2 DEF CancelPump, RunInv, PumpEndsFirst, PumpInv
<1>7. /\ to \in Places
      /\ pumpRaises' \in {"nothing", "error", "cancellation"}
      /\ adapter' \in {"down", "up", "stopped", "interrupted"} /\ queue' \in {"down", "up"}
    BY <1>2, <1>5 DEF CancelPump, TypeOK, PumpInv, Places
<1>8. QED BY <1>2, <1>4, <1>5, <1>6, <1>7, PumpMoves DEF CancelPump

-----------------------------------------------------------------------------
(* Steps of run() itself                                                   *)

(* Before the tasks exist: run() ends early, or creates them.              *)
LEMMA EarlySteps ==
    ASSUME RunInv, Validate \/ StartSender \/ Launch
    PROVE  RunInv'
<1>1. main \in Early /\ TypeOK
    BY DEF Validate, StartSender, Launch, Early, RunInv
<1>2. \A c \in Children : task[c] = "absent"
    BY <1>1 DEF RunInv, TasksInv
<1>3. /\ cancelled = {} /\ adapter = "down" /\ queue = "down" /\ sender # "up"
      /\ raised = "nothing" /\ ~senderFailed
    BY <1>1, <1>2 DEF RunInv, TasksInv, OutcomeInv, PumpInv, SenderInv, Early, Children, TypeOK
<1>4. EarlyStays
    BY DEF Validate, StartSender, Launch
<1>5. \A c \in Children : task'[c] \in {"absent", "created"}
    BY <1>2 DEF Validate, StartSender, Launch, CreateTasks, EndEarly
<1>6. \/ main' \in Early \cup {"over"} /\ task' = task
      \/ main' = "driving"
    BY DEF Validate, StartSender, Launch, CreateTasks, EndEarly, Early
<1>7. /\ raised' = raised /\ senderFailed' = senderFailed /\ ticked' = ticked
      /\ gatherCancelled' = gatherCancelled
      /\ main' = "over" => outcome' = "error"
      /\ main' # "over" => outcome' = outcome
    BY DEF Validate, StartSender, Launch, CreateTasks, EndEarly
<1>8. TypeOK'
  <2>1. task' \in [Children -> Places]
      BY <1>1 DEF Validate, StartSender, Launch, CreateTasks, EndEarly, TypeOK, Places, Ended
  <2>2. /\ sender' \in {"none", "up", "stopped"} /\ capability' \in {"pending", "ready", "disabled"}
      BY <1>1 DEF Validate, StartSender, Launch, TypeOK
  <2>3. QED BY <1>1, <1>4, <1>6, <1>7, <2>1, <2>2 DEF TypeOK, EarlyStays, Early
<1>9. TasksInv'
    BY <1>2, <1>3, <1>4, <1>6 DEF TasksInv, EarlyStays, Over, Ended, Early
<1>10. PumpInv'
    BY <1>3, <1>4, <1>5 DEF PumpInv, EarlyStays, Children, Ended
<1>11. SenderInv'
    BY <1>1, <1>3 DEF SenderInv, Validate, StartSender, Launch, CreateTasks, Early
<1>12. PumpEndsFirst'
    BY <1>3, <1>4, <1>6 DEF PumpEndsFirst, EarlyStays, Early
<1>13. OutcomeInv'
    BY <1>3, <1>4, <1>6, <1>7 DEF OutcomeInv, ErrorsSurface, EarlyStays, CutShort, Early
<1>14. QED BY <1>8, <1>9, <1>10, <1>11, <1>12, <1>13 DEF RunInv

(* The finally clause of run(), entered with its tasks under way.  A run   *)
(* that nothing has cut short finds the pump of its source ended.          *)
LEMMA ShutDownKeeps ==
    ASSUME RunInv, main \in {"driving", "draining"}, ShutDown,
           UNCHANGED <<outcome, senderFailed, gatherCancelled>>, MainStays,
           asked' \in BOOLEAN,
           raised' \in {"nothing", "error", "cancellation"},
           ticked' \subseteq Reactors,
           capability' \in {"pending", "ready", "disabled"},
           raised # "nothing" => raised' # "nothing",
           raised' = "nothing" /\ setup.adapter => Over("pump")
    PROVE  RunInv'
<1>1. TypeOK /\ main \notin Early \cup {"over"}
    BY DEF RunInv, Early
<1>2. /\ main' \in {"stopping", "gathering"}
      /\ cancelled' = {c \in Children : ~Over(c)}
      /\ sender' \in {sender, "stopped"}
      /\ main' = "gathering" => sender' # "up"
    BY DEF ShutDown
<1>3. TypeOK'
    BY <1>1, <1>2 DEF TypeOK, ShutDown, MainStays
<1>4. TasksInv'
    BY <1>2 DEF TasksInv, MainStays, Over, Early
<1>5. PumpInv'
    BY DEF RunInv, PumpInv, MainStays
<1>6. SenderInv'
    BY <1>2 DEF SenderInv
<1>7. PumpEndsFirst'
    BY <1>2 DEF RunInv, PumpEndsFirst, CutShort, MainStays, Over
<1>8. OutcomeInv'
    BY <1>2 DEF OutcomeInv, ErrorsSurface, Early
<1>9. QED BY <1>3, <1>4, <1>5, <1>6, <1>7, <1>8 DEF RunInv

LEMMA NoticeGuardKeeps == RunInv /\ NoticeGuard => RunInv'
<1>1. QED BY ShutDownKeeps DEF NoticeGuard, RunInv, TypeOK

(* A driver that is not the guard is the pump, where there is a source.    *)
LEMMA NoticeDriverKeeps ==
    ASSUME RunInv, NoticeDriver
    PROVE  RunInv'
<1>1. setup.adapter => Over("pump")
    BY DEF NoticeDriver, Drivers
<1>2. /\ main = "driving" /\ MainStays
      /\ UNCHANGED <<raised, outcome, senderFailed, ticked, gatherCancelled, asked, capability>>
    BY DEF NoticeDriver
<1>3. CASE main' = "draining" /\ setup.adapter /\ UNCHANGED <<looping, cancelled, sender>>
  <2>1. TypeOK'
      BY <1>2, <1>3 DEF RunInv, TypeOK, MainStays
  <2>2. TasksInv' /\ PumpInv' /\ SenderInv' /\ OutcomeInv'
      BY <1>2, <1>3 DEF RunInv, TasksInv, PumpInv, SenderInv, OutcomeInv, ErrorsSurface,
              MainStays, Over, Early
  <2>3. PumpEndsFirst'
      BY <1>1, <1>2, <1>3 DEF RunInv, PumpEndsFirst, CutShort, MainStays, Over
  <2>4. QED BY <2>1, <2>2, <2>3 DEF RunInv
<1>4. CASE ShutDown
    BY <1>1, <1>2, <1>4, ShutDownKeeps DEF RunInv, TypeOK
<1>5. QED BY <1>3, <1>4 DEF NoticeDriver

LEMMA LastTickKeeps ==
    ASSUME RunInv, NEW r \in Reactors, LastTick(r)
    PROVE  RunInv'
<1>1. main = "draining" /\ Over("pump") /\ TypeOK
    BY DEF LastTick, RunInv, PumpEndsFirst
<1>2. /\ MainStays /\ UNCHANGED <<outcome, senderFailed, gatherCancelled, asked, capability>>
      /\ ticked' \subseteq Reactors
    BY <1>1 DEF LastTick, TypeOK
<1>3. CASE UNCHANGED <<main, looping, cancelled, raised, sender>>
  <2>1. TypeOK'
      BY <1>1, <1>2, <1>3 DEF TypeOK, MainStays
  <2>2. QED
      BY <1>2, <1>3, <2>1 DEF RunInv, TasksInv, PumpInv, SenderInv, PumpEndsFirst, OutcomeInv,
              ErrorsSurface, CutShort, MainStays, Over
<1>4. CASE ShutDown /\ raised' \in {raised, "error"}
    BY <1>1, <1>2, <1>4, ShutDownKeeps DEF TypeOK
<1>5. QED BY <1>3, <1>4 DEF LastTick

LEMMA StopSenderKeeps ==
    ASSUME RunInv, StopSender
    PROVE  RunInv'
<1>1. TypeOK'
    BY DEF StopSender, MainStays, RunInv, TypeOK
<1>2. QED
    BY <1>1 DEF StopSender, MainStays, RunInv, TasksInv, PumpInv, SenderInv, PumpEndsFirst,
            OutcomeInv, ErrorsSurface, CutShort, Over, Early

(* Every task has ended, and their errors decide.                          *)
LEMMA GatherKeeps ==
    ASSUME RunInv, Gather
    PROVE  RunInv'
<1>1. /\ main = "gathering" /\ main' = "over" /\ outcome' = Outcome /\ MainStays
      /\ \A c \in Children : Over(c)
      /\ UNCHANGED <<raised, senderFailed, ticked, gatherCancelled, asked, cancelled, looping, sender,
                     capability>>
    BY DEF Gather
<1>2. TypeOK'
    BY <1>1 DEF RunInv, TypeOK, MainStays, Outcome
<1>3. TasksInv' /\ PumpInv' /\ SenderInv' /\ PumpEndsFirst'
    BY <1>1 DEF RunInv, TasksInv, PumpInv, SenderInv, PumpEndsFirst, CutShort, MainStays, Over,
            Early
<1>4. OutcomeInv'
  <2>1. CutShort => Outcome # "normal"
      BY DEF CutShort, Outcome, RunInv, TypeOK
  <2>2. ~gatherCancelled /\ (senderFailed \/ raised = "error" \/ \E c \in Children : task[c] = "failed")
            => Outcome = "error"
      BY DEF Outcome
  <2>3. QED BY <1>1, <2>1, <2>2 DEF OutcomeInv, ErrorsSurface, CutShort, MainStays, Early
<1>5. QED BY <1>2, <1>3, <1>4 DEF RunInv

(* run() is cancelled, wherever it is.                                     *)
LEMMA CancelRunKeeps ==
    ASSUME RunInv, CancelRun
    PROVE  RunInv'
<1>1. /\ MainStays /\ UNCHANGED capability /\ asked' = TRUE /\ TypeOK
    BY DEF CancelRun, RunInv
<1>2. CASE /\ main \in Early /\ EndEarly("cancelled")
           /\ UNCHANGED <<looping, cancelled, sender>>
  <2>1. TypeOK'
      BY <1>1, <1>2 DEF TypeOK, MainStays, EndEarly
  <2>2. TasksInv' /\ PumpInv' /\ SenderInv' /\ PumpEndsFirst'
      BY <1>1, <1>2 DEF RunInv, TasksInv, PumpInv, SenderInv, PumpEndsFirst, CutShort, MainStays,
              EndEarly, Over, Ended, Early
  <2>3. OutcomeInv'
      BY <1>2, <1>1 DEF RunInv, TasksInv, OutcomeInv, ErrorsSurface, CutShort, EndEarly, Early
  <2>4. QED BY <2>1, <2>2, <2>3 DEF RunInv
<1>3. CASE /\ main \in {"driving", "draining"} /\ raised' = "cancellation" /\ ShutDown
           /\ UNCHANGED <<outcome, senderFailed, ticked, gatherCancelled>>
    BY <1>1, <1>3, ShutDownKeeps DEF TypeOK
<1>4. CASE /\ main = "stopping" /\ main' \in {"stopping", "gathering"}
           /\ sender' = (IF main' = "gathering" THEN "stopped" ELSE sender)
           /\ UNCHANGED <<raised, outcome, senderFailed, ticked, gatherCancelled, looping, cancelled>>
  <2>1. TypeOK'
      BY <1>1, <1>4 DEF TypeOK, MainStays
  <2>2. QED
      BY <1>1, <1>4, <2>1 DEF RunInv, TasksInv, PumpInv, SenderInv, PumpEndsFirst, OutcomeInv,
              ErrorsSurface, CutShort, MainStays, Over, Early
<1>5. CASE /\ main = "gathering" /\ gatherCancelled' = TRUE
           /\ cancelled' = {c \in Children : ~Over(c)}
           /\ UNCHANGED <<main, raised, outcome, senderFailed, ticked, looping, sender>>
  <2>1. TypeOK'
      BY <1>1, <1>5 DEF TypeOK, MainStays
  <2>2. QED
      BY <1>1, <1>5, <2>1 DEF RunInv, TasksInv, PumpInv, SenderInv, PumpEndsFirst, OutcomeInv,
              ErrorsSurface, CutShort, MainStays, Over, Early
<1>6. QED BY <1>2, <1>3, <1>4, <1>5 DEF CancelRun, Early

-----------------------------------------------------------------------------
LEMMA RunStepwise == RunInv /\ [Next]_vars => RunInv'
<1> SUFFICES ASSUME RunInv, [Next]_vars PROVE RunInv'
    OBVIOUS
<1>1. CASE MainStep
    BY <1>1, EarlySteps, NoticeGuardKeeps, NoticeDriverKeeps, LastTickKeeps, StopSenderKeeps,
       GatherKeeps DEF MainStep
<1>2. ASSUME NEW c \in Children, ChildStep(c) PROVE RunInv'
    BY <1>2, LoopSteps, PumpSteps, CancelPumpKeeps, GuardSteps DEF ChildStep
<1>3. CASE World
    BY <1>3, PumpSteps, GuardSteps, StopLoopKeeps DEF World
<1>4. CASE CancelRun
    BY <1>4, CancelRunKeeps
<1>5. CASE UNCHANGED vars
    BY <1>5 DEF RunInv, TypeOK, TasksInv, PumpInv, SenderInv, PumpEndsFirst, OutcomeInv,
            ErrorsSurface, CutShort, Over, vars, mainVars, childVars, resources
<1>6. QED BY <1>1, <1>2, <1>3, <1>4, <1>5 DEF Next

(* A run that is over has left nothing behind (Agent.run's finally, the    *)
(* pump's, and the guard's on_send_invalid), and one that ended normally   *)
(* let its source stop.                                                    *)
THEOREM NothingIsOrphaned == Spec => []NothingOrphaned
<1>1. RunInv => NothingOrphaned
    BY DEF RunInv, TasksInv, PumpInv, SenderInv, PumpEndsFirst, OutcomeInv, NothingOrphaned, TypeOK,
           Over, Ended, Children
<1> QED BY RunInitially, RunStepwise, <1>1, PTL DEF Spec

(* What a task, the sender or run() itself raised is how the run ends,     *)
(* however it was stopped, short of a second cancellation.                 *)
THEOREM ErrorsAreRaised == Spec => []ErrorsSurface
<1>1. RunInv => ErrorsSurface
    BY DEF RunInv, OutcomeInv
<1> QED BY RunInitially, RunStepwise, <1>1, PTL DEF Spec

-----------------------------------------------------------------------------
(* The thread of the runtime, and the app in the foreground                *)

(* Each is where it is because of what the other has done, and an error is *)
(* on its way to the operator until it is reported.                        *)
ThreadsInv ==
    /\ thread \in {"closed", "dead"} => main = "over"
    /\ tui = "starting" => ~reported
    /\ tui = "stopped" => thread = "dead"
    /\ session = "completed" => tui = "over" /\ thread = "dead" /\ ~error
    /\ thread \in {"closed", "dead"} /\ (outcome = "error" \/ snapshots = "failed")
            => error \/ reported

LiveInv == RunInv /\ ThreadsInv

(* A run that is over stays as it is.                                      *)
LEMMA OverIsOver ==
    ASSUME RunInv, main = "over", [Next]_vars
    PROVE  main' = "over" /\ outcome' = outcome
<1>1. \A c \in Children : Over(c) /\ c \notin cancelled
    BY DEF RunInv, TasksInv, TypeOK
<1>2. CASE MainStep
    BY <1>2 DEF MainStep, Validate, StartSender, Launch, NoticeGuard, NoticeDriver, LastTick,
                StopSender, Gather
<1>3. ASSUME NEW c \in Children, ChildStep(c) PROVE FALSE
  <2>1. task[c] \in Ended /\ c \notin cancelled
      BY <1>1 DEF Over
  <2>2. QED
      BY <1>3, <2>1 DEF ChildStep, BeginLoop, EndStep, Awake, CancelLoop, BeginPump, StopAdapter,
              StopQueue, CancelPump, BeginGuard, EndDisarming, CancelGuard, Goes, Ended
<1>4. CASE World
  <2>1. \A c \in {"pump", "guard"} \cup Reactors : task[c] \in Ended
      BY <1>1 DEF Over, Children, Loops
  <2>2. QED
      BY <1>4, <2>1 DEF World, EndStream, FailGuard, InvalidateSend, StopLoop, Goes, Ended
<1>5. CASE CancelRun
    BY <1>5 DEF CancelRun
<1>6. CASE UNCHANGED vars
    BY <1>6 DEF vars, mainVars
<1>7. QED BY <1>2, <1>3, <1>4, <1>5, <1>6 DEF Next

(* A step of either thread is a step of the agent's run or none.           *)
LEMMA LiveStepOfRun == [LiveNext]_liveVars => [Next]_vars
<1>1. QED
    BY DEF LiveNext, AgentStep, CtrlC, ThreadStep, SnapshotFails, TuiStep, BeginThread, WaitEnds,
           Reap, FinishThread, Started, StartTimesOut, Render, Quit, Stop, Post, Joined,
           JoinTimesOut, Finish, TuiStays, liveVars, Next

LEMMA ThreadsInitially == LiveInit => LiveInv
<1>1. QED BY RunInitially DEF LiveInit, LiveInv, ThreadsInv

(* Steps of the agent alone, and of Ctrl-C.                                *)
LEMMA AgentStepsKeep ==
    ASSUME ThreadsInv, RunInv, [Next]_vars, UNCHANGED <<threadVars, tuiVars, error>>
    PROVE  ThreadsInv'
<1>1. thread \in {"closed", "dead"} => main' = "over" /\ outcome' = outcome
    BY OverIsOver DEF ThreadsInv
<1>2. QED BY <1>1 DEF ThreadsInv, threadVars, tuiVars

LEMMA ThreadStepsKeep ==
    ASSUME LiveInv, ThreadStep \/ SnapshotFails
    PROVE  ThreadsInv'
<1>1. ThreadsInv
    BY DEF LiveInv
<1>2. CASE BeginThread
    BY <1>1, <1>2 DEF BeginThread, ThreadsInv, tuiVars
<1>3. CASE SnapshotFails
    BY <1>1, <1>3 DEF SnapshotFails, ThreadsInv, tuiVars
<1>4. CASE WaitEnds
    BY <1>1, <1>4 DEF WaitEnds, ThreadsInv, tuiVars
<1>5. CASE Reap
    BY <1>1, <1>5 DEF Reap, ThreadsInv, tuiVars, vars, mainVars
<1>6. CASE FinishThread
    BY <1>1, <1>6 DEF FinishThread, ThreadsInv, vars, mainVars
<1>7. QED BY <1>2, <1>3, <1>4, <1>5, <1>6 DEF ThreadStep

LEMMA TuiStepsKeep ==
    ASSUME LiveInv, TuiStep \/ StartTimesOut \/ Quit \/ JoinTimesOut
    PROVE  ThreadsInv'
<1>1. ThreadsInv
    BY DEF LiveInv
<1>2. CASE Started \/ StartTimesOut \/ Render \/ Quit
    BY <1>1, <1>2 DEF Started, StartTimesOut, Render, Quit, TuiStays, threadVars, ThreadsInv, vars,
            mainVars
<1>3. CASE Stop \/ Joined \/ JoinTimesOut
    BY <1>1, <1>3 DEF Stop, Joined, JoinTimesOut, TuiStays, threadVars, ThreadsInv, vars, mainVars
<1>4. CASE Post \/ Finish
    BY <1>1, <1>4 DEF Post, Finish, threadVars, ThreadsInv, vars, mainVars
<1>5. QED BY <1>2, <1>3, <1>4 DEF TuiStep

LEMMA LiveStepwise == LiveInv /\ [LiveNext]_liveVars => LiveInv'
<1> SUFFICES ASSUME LiveInv, [LiveNext]_liveVars PROVE LiveInv'
    OBVIOUS
<1>1. RunInv /\ ThreadsInv /\ [Next]_vars
    BY LiveStepOfRun DEF LiveInv
<1>2. RunInv'
    BY <1>1, RunStepwise
<1>3. ThreadsInv'
  <2>1. CASE UNCHANGED <<threadVars, tuiVars, error>>
      BY <1>1, <2>1, AgentStepsKeep
  <2>2. CASE ThreadStep \/ SnapshotFails
      BY <2>2, ThreadStepsKeep
  <2>3. CASE TuiStep \/ StartTimesOut \/ Quit \/ JoinTimesOut
      BY <2>3, TuiStepsKeep
  <2>4. QED BY <2>1, <2>2, <2>3 DEF LiveNext, AgentStep, CtrlC, liveVars
<1>4. QED BY <1>2, <1>3 DEF LiveInv

(* The run in its thread is a run of the agent: what holds of Agent.run()  *)
(* on the console holds of it under the TUI.                               *)
THEOREM LiveRunIsARun == LiveSpec => Spec
<1>1. LiveInit => Init
    BY DEF LiveInit
<1> QED BY <1>1, LiveStepOfRun, PTL DEF LiveSpec, Spec

(* A live run leaves nothing behind, and run_artifacts.py marks its        *)
(* directory as completed only when it is over.                            *)
THEOREM NothingKeepsRunning == LiveSpec => []NothingLeftRunning
<1>1. LiveInv => (session = "completed" => main = "over")
    BY DEF LiveInv, ThreadsInv
<1>2. LiveSpec => [](session = "completed" => main = "over")
    BY ThreadsInitially, LiveStepwise, <1>1, PTL DEF LiveSpec
<1>3. NothingOrphaned /\ (session = "completed" => main = "over") => NothingLeftRunning
    BY DEF NothingLeftRunning
<1> QED BY <1>2, <1>3, LiveRunIsARun, NothingIsOrphaned, PTL

(* What the agent or its snapshots raise in the thread is reported by      *)
(* run_live_tui() before the session is given up as completed.             *)
THEOREM EveryErrorIsReported == LiveSpec => []NoErrorIsLost
<1>1. LiveInv => NoErrorIsLost
    BY DEF LiveInv, ThreadsInv, RunInv, OutcomeInv, NoErrorIsLost
<1> QED BY ThreadsInitially, LiveStepwise, <1>1, PTL DEF LiveSpec

-----------------------------------------------------------------------------
(* The blocks of prompts.                                                  *)
Keys == {"lead"} \cup DOMAIN Situations \cup HeaderKeys \cup {"cosa_sai"} \cup SummaryKeys
FileBlocksThereAre ==
    {b \in [by : {"file"}, what : Files \X Keys, given : SUBSET Placeholders] :
        /\ b.what[2] = "lead" => SectionSpecs(b.what[1]) = <<>> /\ FileSpec(b.what[1]).allowed \subseteq b.given
        /\ b.what[2] # "lead" =>
                /\ b.what[2] \in DOMAIN SectionSpecs(b.what[1])
                /\ SectionSpecs(b.what[1])[b.what[2]].allowed \subseteq b.given}
PlainBlocks == [by : {"code", "memory", "quoted"},
                what : {"robustness", "disclosure", "situation", "soul", "facts",
                        "facts of streamer", "summary", "own messages"}]
People == {p \in Lines : p.who # Bot}
Shown == [by : {"observed"}, what : Seq(People)]
Quiet == FileBlocksThereAre \cup PlainBlocks
Blocks == Quiet \cup Shown

-----------------------------------------------------------------------------
(* What is accepted renders.                                               *)
LEMMA ValidRenders ==
    ASSUME NEW b \in FileBlocksThereAre, Valid(b.what[1], TextOf(b.what[1]))
    PROVE  ~Fails(b)
<1> DEFINE f == b.what[1]
           key == b.what[2]
           text == TextOf(f)
           specs == SectionSpecs(f)
<1>1. Valid(f, text)
    OBVIOUS
<1>2. CASE key = "lead"
    <2>1. specs = <<>> /\ FileSpec(f).allowed \subseteq b.given
        BY <1>2 DEF FileBlocksThereAre
    <2>2. UNION {specs[k].allowed : k \in DOMAIN specs} = {}
        BY <2>1
    <2>3. Used(text) \subseteq FileSpec(f).allowed
        BY <1>1, <2>2 DEF Valid
    <2>4. text.lead.uses \subseteq Used(text)
        BY DEF Used, Bodies
    <2>5. text.lead.uses \subseteq b.given
        BY <2>1, <2>3, <2>4
    <2>6. QED
        BY <1>2, <2>5 DEF Fails
<1>3. CASE key # "lead"
    <2>1. key \in DOMAIN specs /\ specs[key].allowed \subseteq b.given
        BY <1>3 DEF FileBlocksThereAre
    <2>2. key \in DOMAIN text.sections
        BY <1>1, <2>1 DEF Valid, RequiredKeys
    <2>3. Section(text, key).uses \subseteq specs[key].allowed
        BY <1>1, <2>1 DEF Valid, Meets
    <2>4. QED
        BY <1>3, <2>1, <2>2, <2>3 DEF Fails
<1>4. QED
    BY <1>2, <1>3

(* Sequences of blocks, for what the prompts are put together of.          *)
LEMMA OneIsASequence ==
    ASSUME NEW S, NEW b \in S
    PROVE  <<b>> \in Seq(S)
OBVIOUS

LEMMA FileBlockIs ==
    ASSUME NEW file \in Files, NEW key \in Keys, NEW given \in SUBSET Placeholders,
           key = "lead" => SectionSpecs(file) = <<>> /\ FileSpec(file).allowed \subseteq given,
           key # "lead" => key \in DOMAIN SectionSpecs(file)
                            /\ SectionSpecs(file)[key].allowed \subseteq given
    PROVE  OfFile(file, key, given) \in Seq(Quiet)
<1> DEFINE b == [by |-> "file", what |-> <<file, key>>, given |-> given]
<1>1. b \in [by : {"file"}, what : Files \X Keys, given : SUBSET Placeholders]
    OBVIOUS
<1>2. b.what[1] = file /\ b.what[2] = key /\ b.given = given
    OBVIOUS
<1> HIDE DEF b
<1>3. b \in FileBlocksThereAre
    BY <1>1, <1>2 DEF FileBlocksThereAre
<1>4. OfFile(file, key, given) = <<b>>
    BY DEF OfFile, b
<1>5. QED
    BY <1>3, <1>4, OneIsASequence DEF Quiet

LEMMA PlainBlockIs ==
    ASSUME NEW what \in {"robustness", "disclosure", "situation", "soul", "facts",
                        "facts of streamer", "summary", "own messages"}
    PROVE  /\ Code(what) \in Seq(Quiet) /\ Memory(what) \in Seq(Quiet) /\ Quoted(what) \in Seq(Quiet)
<1>1. /\ [by |-> "code", what |-> what] \in Quiet
      /\ [by |-> "memory", what |-> what] \in Quiet
      /\ [by |-> "quoted", what |-> what] \in Quiet
    BY DEF Quiet, PlainBlocks
<1>2. QED
    BY <1>1, OneIsASequence, Zenon DEF Code, Memory, Quoted

LEMMA ObservedIs ==
    ASSUME NEW lines \in Seq(People)
    PROVE  Observed(lines) \in Seq(Blocks)
<1>1. [by |-> "observed", what |-> lines] \in Blocks
    BY DEF Blocks, Shown, People
<1>2. QED
    BY <1>1, OneIsASequence DEF Observed

LEMMA HeaderIs ==
    ASSUME NEW key \in HeaderKeys
    PROVE  Header(key) \in Seq(Quiet)
<1>1. "headers" \in Files /\ key # "lead" /\ key \in Keys
    BY DEF Files, Packaged, HeaderKeys, Keys
<1>2. SectionSpecs("headers") = HeaderSpecs
    BY DEF SectionSpecs
<1>3. key \in DOMAIN HeaderSpecs /\ HeaderSpecs[key].allowed = {}
    BY DEF HeaderSpecs, HeaderKeys, Contract
<1>4. QED
    BY <1>1, <1>2, <1>3, FileBlockIs DEF Header

LEMMA FactsHeaderIs == OfFile("headers", "cosa_sai", {"channel"}) \in Seq(Quiet)
<1>1. "headers" \in Files /\ "cosa_sai" \in Keys /\ {"channel"} \in SUBSET Placeholders
    BY DEF Files, Packaged, Keys, Placeholders
<1>2. SectionSpecs("headers") = HeaderSpecs
    BY DEF SectionSpecs
<1>3. "cosa_sai" \in DOMAIN HeaderSpecs /\ HeaderSpecs["cosa_sai"].allowed = {"channel"}
    BY DEF HeaderSpecs, Contract
<1>4. QED
    BY <1>1, <1>2, <1>3, FileBlockIs

LEMMA SummaryPartIs ==
    ASSUME NEW key \in SummaryKeys
    PROVE  OfFile("summarizer", key, {}) \in Seq(Quiet)
<1>1. "summarizer" \in Files /\ key # "lead" /\ key \in Keys
    BY DEF Files, Packaged, SummaryKeys, Keys
<1>2. SectionSpecs("summarizer") = SummarySpecs
    BY DEF SectionSpecs
<1>3. key \in DOMAIN SummarySpecs /\ SummarySpecs[key].allowed = {}
    BY DEF SummarySpecs, Contract
<1>4. QED
    BY <1>1, <1>2, <1>3, FileBlockIs

LEMMA TextIs ==
    /\ Text("format", {}) \in Seq(Quiet)
    /\ Text("rules", {"channel"}) \in Seq(Quiet)
    /\ Text("intro", {"channel"}) \in Seq(Quiet)
    /\ \A style \in {"operator", "meeting_synthesizer", "suggester"} :
            Text(style, {"language"}) \in Seq(Quiet)
<1>1. "lead" \in Keys
    BY DEF Keys
<1>2. {"format", "rules", "intro", "operator", "meeting_synthesizer", "suggester"} \subseteq Files
    BY DEF Files, Packaged
<1>3. {"channel"} \in SUBSET Placeholders /\ {"language"} \in SUBSET Placeholders
    BY DEF Placeholders
<1>4. \A file \in {"format", "rules", "intro", "operator", "meeting_synthesizer", "suggester"} :
        SectionSpecs(file) = <<>>
    BY DEF SectionSpecs
<1>5. FileSpec("format").allowed = {} /\ FileSpec("rules").allowed = {"channel"}
      /\ FileSpec("intro").allowed = {"channel"}
    BY DEF FileSpec, Contract
<1>6. \A style \in {"operator", "meeting_synthesizer", "suggester"} : FileSpec(style).allowed = {"language"}
    BY DEF FileSpec, Contract
<1>7. QED
    BY <1>1, <1>2, <1>3, <1>4, <1>5, <1>6, FileBlockIs DEF Text

-----------------------------------------------------------------------------
(* The lines of people, and what becomes of a line.                        *)
Contains(s, x) == \E k \in DOMAIN s : s[k] = x

LEMMA ContainsJoined ==
    ASSUME NEW X, NEW s \in Seq(X), NEW t \in Seq(X), NEW x
    PROVE  /\ s \o t \in Seq(X)
           /\ Contains(s, x) => Contains(s \o t, x)
           /\ Contains(t, x) => Contains(s \o t, x)
<1>1. s \o t \in Seq(X) /\ Len(s \o t) = Len(s) + Len(t)
    OBVIOUS
<1>2. ASSUME NEW k \in DOMAIN s PROVE k \in DOMAIN (s \o t) /\ (s \o t)[k] = s[k]
    OBVIOUS
<1>3. ASSUME NEW k \in DOMAIN t PROVE k + Len(s) \in DOMAIN (s \o t) /\ (s \o t)[k + Len(s)] = t[k]
    OBVIOUS
<1>4. QED
    BY <1>1, <1>2, <1>3 DEF Contains

(* What is picked, and that the last place comes last.                     *)
LEMMA PickedLines ==
    ASSUME NEW s, NEW n \in Nat, NEW S \in SUBSET (1..n), NEW X, \A i \in S : s[i] \in X
    PROVE  /\ Picked(s, S) \in Seq(X)
           /\ \A i \in S : Contains(Picked(s, S), s[i])
           /\ \A i \in S : (\A j \in S : j <= i) =>
                /\ Len(Picked(s, S)) > 0
                /\ Picked(s, S)[Len(Picked(s, S))] = s[i]
<1> DEFINE m == Cardinality(S)
           picked == Picked(s, S)
<1>1. S \in SUBSET Int /\ IsFiniteSet(S)
    <2>1. S \subseteq 1..n /\ 1 \in Int /\ n \in Int
        OBVIOUS
    <2>2. IsFiniteSet(1..n)
        BY <2>1, FS_Interval
    <2>3. IsFiniteSet(S)
        BY <2>1, <2>2, FS_Subset
    <2>4. QED
        BY <2>1, <2>3
<1>2. /\ m \in Nat /\ Upwards(S) \in [1..m -> S]
      /\ \A i \in S : Rank(S, i) \in 1..m /\ Upwards(S)[Rank(S, i)] = i
    BY <1>1, OrderIsUp
<1>3. picked = [k \in 1..m |-> s[Upwards(S)[k]]]
    BY <1>2 DEF Picked
<1>4. picked \in [1..m -> X]
    BY <1>2, <1>3
<1>5. picked \in Seq(X) /\ Len(picked) = m /\ DOMAIN picked = 1..m
    BY <1>2, <1>3, <1>4
<1>6. ASSUME NEW i \in S PROVE Rank(S, i) \in DOMAIN picked /\ picked[Rank(S, i)] = s[i]
    BY <1>2, <1>3, <1>5
<1>7. ASSUME NEW i \in S, \A j \in S : j <= i PROVE Rank(S, i) = m
    <2>1. {j \in S : j <= i} = S
        BY <1>7
    <2>2. QED
        BY <2>1 DEF Rank
<1>8. \A i \in S : Contains(picked, s[i])
    BY <1>6 DEF Contains
<1>9. ASSUME NEW i \in S, \A j \in S : j <= i PROVE Len(picked) > 0 /\ picked[Len(picked)] = s[i]
    <2>1. Rank(S, i) = m /\ Rank(S, i) \in 1..m
        BY <1>2, <1>7, <1>9
    <2>2. Len(picked) = m /\ picked[Rank(S, i)] = s[i]
        BY <1>5, <1>6
    <2> HIDE DEF picked, m
    <2>3. m > 0
        BY <1>2, <2>1
    <2>4. QED
        BY <2>1, <2>2, <2>3, Zenon
<1>10. QED
    BY <1>5, <1>8, <1>9

LEMMA LastShows ==
    ASSUME NEW X, NEW s \in Seq(X)
    PROVE  /\ Last(s) \in Seq(X)
           /\ Len(s) > 0 => Contains(Last(s), s[Len(s)])
<1>1. Window \in Nat /\ Window > 0 /\ Len(s) \in Nat
    BY PromptAssumption
<1> DEFINE from == IF Len(s) > Window THEN Len(s) - Window + 1 ELSE 1
<1>2. from \in Nat \ {0} /\ from <= Len(s) + 1 /\ (Len(s) > 0 => from <= Len(s))
    BY <1>1
<1>3. Last(s) = SubSeq(s, from, Len(s))
    BY DEF Last
<1> HIDE DEF from
<1>4. Last(s) \in Seq(X)
    BY <1>1, <1>2, <1>3
<1>5. ASSUME Len(s) > 0 PROVE Contains(Last(s), s[Len(s)])
    <2> DEFINE n == Len(s) - from + 1
    <2>1. n \in Nat \ {0} /\ Len(Last(s)) = n
        BY <1>1, <1>2, <1>3, <1>5
    <2>2. n \in DOMAIN Last(s) /\ Last(s)[n] = s[Len(s)]
        BY <1>1, <1>2, <1>3, <1>4, <1>5, <2>1
    <2>3. QED
        BY <2>2 DEF Contains
<1>6. QED
    BY <1>4, <1>5

(* The lines of one source.                                                *)
LEMMA FromShows ==
    ASSUME NEW X, NEW seen \in Seq(X), NEW source
    PROVE  /\ From(seen, source) \in Seq(X)
           /\ \A i \in DOMAIN seen : seen[i].source = source => Contains(From(seen, source), seen[i])
           /\ \A i \in DOMAIN seen :
                /\ seen[i].source = source
                /\ \A k \in i + 1 .. Len(seen) : seen[k].source # source
                => LET from == From(seen, source) IN Len(from) > 0 /\ from[Len(from)] = seen[i]
<1> DEFINE S == {i \in DOMAIN seen : seen[i].source = source}
           n == Len(seen)
<1>1. n \in Nat /\ DOMAIN seen = 1..n /\ S \in SUBSET (1..n) /\ \A i \in S : seen[i] \in X
    OBVIOUS
<1>2. From(seen, source) = Picked(seen, S)
    BY DEF From
<1>3. ASSUME NEW i \in DOMAIN seen, \A k \in i + 1 .. Len(seen) : seen[k].source # source
      PROVE  \A j \in S : j <= i
    BY <1>1, <1>3
<1>4. \A i \in DOMAIN seen : seen[i].source = source => i \in S
    OBVIOUS
<1> HIDE DEF S, n
<1>5. /\ Picked(seen, S) \in Seq(X)
      /\ \A i \in S : Contains(Picked(seen, S), seen[i])
      /\ \A i \in S : (\A j \in S : j <= i) =>
            Len(Picked(seen, S)) > 0 /\ Picked(seen, S)[Len(Picked(seen, S))] = seen[i]
    BY <1>1, PickedLines
<1>6. QED
    BY <1>2, <1>3, <1>4, <1>5

(* The order of time keeps every line.                                     *)
LEMMA ByTimeShows ==
    ASSUME NEW seen \in Seq(Lines)
    PROVE  /\ ByTime(seen) \in Seq(Lines)
           /\ \A x : Contains(seen, x) => Contains(ByTime(seen), x)
<1> DEFINE n == Len(seen)
           S(t) == {i \in DOMAIN seen : seen[i].at = t}
<1>1. n \in Nat /\ DOMAIN seen = 1..n /\ \A i \in DOMAIN seen : seen[i] \in Lines
    OBVIOUS
<1>2. \A p \in Lines : p.at \in {0, 1}
    BY DEF Lines
<1>3. ASSUME NEW t \in {0, 1}
      PROVE  /\ Picked(seen, S(t)) \in Seq(Lines)
             /\ \A i \in S(t) : Contains(Picked(seen, S(t)), seen[i])
    <2>1. S(t) \in SUBSET (1..n) /\ \A i \in S(t) : seen[i] \in Lines
        BY <1>1
    <2> HIDE DEF S, n
    <2>2. QED
        BY <1>1, <2>1, PickedLines
<1>4. ByTime(seen) = Picked(seen, S(0)) \o Picked(seen, S(1))
    BY DEF ByTime
<1>5. ASSUME NEW x, Contains(seen, x) PROVE Contains(Picked(seen, S(0)), x) \/ Contains(Picked(seen, S(1)), x)
    <2>1. PICK i \in DOMAIN seen : seen[i] = x
        BY <1>5 DEF Contains
    <2>2. i \in S(0) \/ i \in S(1)
        BY <1>1, <1>2, <2>1
    <2> HIDE DEF S
    <2>3. QED
        BY <1>3, <2>1, <2>2
<1> HIDE DEF S
<1>6. Picked(seen, S(0)) \in Seq(Lines) /\ Picked(seen, S(1)) \in Seq(Lines)
    BY <1>3
<1>7. QED
    BY <1>4, <1>5, <1>6, ContainsJoined

(* i is where the source was heard of last.                                *)
IsLastOf(seen, source, i) ==
    /\ i \in DOMAIN seen
    /\ seen[i].source = source
    /\ \A k \in i + 1 .. Len(seen) : seen[k].source # source

LEMMA RecentShows ==
    ASSUME NEW style, NEW seen \in Seq(Lines)
    PROVE  /\ RecentOf(style, seen) \in Seq(Lines)
           /\ style = "original_chat" => \A source \in {"chat", "audio", "video"} :
                \A i : IsLastOf(seen, source, i) => Contains(RecentOf(style, seen), seen[i])
<1> DEFINE window(source) == Last(From(seen, source))
           all == window("chat") \o window("audio") \o window("video")
<1>1. ASSUME NEW source
      PROVE  /\ window(source) \in Seq(Lines)
             /\ \A i : IsLastOf(seen, source, i) => Contains(window(source), seen[i])
    <2>1. From(seen, source) \in Seq(Lines)
        BY FromShows
    <2>2. window(source) \in Seq(Lines)
        BY <2>1, LastShows
    <2>3. ASSUME NEW i, IsLastOf(seen, source, i) PROVE Contains(window(source), seen[i])
        <3>1. Len(From(seen, source)) > 0 /\ From(seen, source)[Len(From(seen, source))] = seen[i]
            BY <2>3, FromShows DEF IsLastOf
        <3>2. QED
            BY <2>1, <3>1, LastShows
    <2>4. QED
        BY <2>2, <2>3
<1>2. Last(seen) \in Seq(Lines)
    BY LastShows
<1> HIDE DEF window
<1>3. window("chat") \o window("audio") \in Seq(Lines) /\ all \in Seq(Lines)
    BY <1>1
<1>4. ASSUME NEW source \in {"chat", "audio", "video"}, NEW x, Contains(window(source), x)
      PROVE  Contains(all, x)
    <2>1. source \in {"chat", "audio"} => Contains(window("chat") \o window("audio"), x)
        BY <1>1, <1>4, ContainsJoined
    <2>2. QED
        BY <1>1, <1>3, <1>4, <2>1, ContainsJoined
<1>5. RecentOf(style, seen) = IF style = "original_chat" THEN ByTime(all) ELSE Last(seen)
    BY DEF RecentOf, window
<1> HIDE DEF all
<1>6. ByTime(all) \in Seq(Lines) /\ \A x : Contains(all, x) => Contains(ByTime(all), x)
    BY <1>3, ByTimeShows
<1>7. QED
    BY <1>1, <1>2, <1>4, <1>5, <1>6

(* The history: of people, without the line that is reacted to.            *)
LEMMA HistoryShows ==
    ASSUME NEW style, NEW seen \in Seq(Lines), NEW line
    PROVE  /\ History(style, seen, line) \in Seq({p \in People : <<p>> # line})
           /\ \A x \in People : Contains(RecentOf(style, seen), x) /\ <<x>> # line =>
                Contains(History(style, seen, line), x)
<1> DEFINE recent == RecentOf(style, seen)
           n == Len(recent)
           S == {i \in DOMAIN recent : recent[i].who # Bot /\ <<recent[i]>> # line}
           X == {p \in People : <<p>> # line}
<1>1. recent \in Seq(Lines)
    BY RecentShows
<1>2. n \in Nat /\ S \in SUBSET (1..n) /\ \A i \in S : recent[i] \in X
    BY <1>1 DEF People
<1>3. History(style, seen, line) = Picked(recent, S)
    BY DEF History
<1>4. ASSUME NEW x \in People, Contains(recent, x), <<x>> # line
      PROVE  \E i \in S : recent[i] = x
    BY <1>4 DEF People, Contains
<1> HIDE DEF recent, n, S, X
<1>5. Picked(recent, S) \in Seq(X) /\ \A i \in S : Contains(Picked(recent, S), recent[i])
    BY <1>2, PickedLines
<1>6. ASSUME NEW x \in People, Contains(recent, x), <<x>> # line
      PROVE  Contains(Picked(recent, S), x)
    BY <1>4, <1>5, <1>6
<1>7. QED
    BY <1>3, <1>5, <1>6 DEF recent, X

-----------------------------------------------------------------------------
(* What a sequence of blocks shows of what was observed.                   *)
Shows(s, x) == \E i \in DOMAIN s : s[i].by = "observed" /\ Contains(s[i].what, x)
ShowsOnce(s, x) == \E i \in DOMAIN s :
    /\ s[i].by = "observed" /\ s[i].what = <<x>>
    /\ \A j \in DOMAIN s \ {i} : s[j].by = "observed" => ~Contains(s[j].what, x)

LEMMA JoinedShows ==
    ASSUME NEW s \in Seq(Blocks), NEW t \in Seq(Blocks), NEW x
    PROVE  /\ s \o t \in Seq(Blocks)
           /\ Shows(s \o t, x) <=> Shows(s, x) \/ Shows(t, x)
           /\ ShowsOnce(s, x) /\ ~Shows(t, x) => ShowsOnce(s \o t, x)
           /\ ~Shows(s, x) /\ ShowsOnce(t, x) => ShowsOnce(s \o t, x)
<1> DEFINE u == s \o t
           m == Len(s)
           n == Len(t)
<1>1. /\ m \in Nat /\ n \in Nat /\ u \in Seq(Blocks) /\ Len(u) = m + n
      /\ DOMAIN s = 1..m /\ DOMAIN t = 1..n /\ DOMAIN u = 1..(m + n)
    OBVIOUS
<1>2. ASSUME NEW k \in 1..m PROVE k \in 1..(m + n) /\ u[k] = s[k]
    OBVIOUS
<1>3. ASSUME NEW k \in 1..n PROVE k + m \in 1..(m + n) /\ u[k + m] = t[k]
    OBVIOUS
<1>4. ASSUME NEW k \in 1..(m + n) PROVE k \in 1..m \/ (k - m \in 1..n /\ (k - m) + m = k)
    BY <1>1
<1> HIDE DEF u, m, n
<1>5. Shows(u, x) <=> Shows(s, x) \/ Shows(t, x)
    <2>1. ASSUME Shows(s, x) PROVE Shows(u, x)
        BY <1>1, <1>2, <2>1 DEF Shows
    <2>2. ASSUME Shows(t, x) PROVE Shows(u, x)
        BY <1>1, <1>3, <2>2 DEF Shows
    <2>3. ASSUME Shows(u, x) PROVE Shows(s, x) \/ Shows(t, x)
        <3>1. PICK k \in 1..(m + n) : u[k].by = "observed" /\ Contains(u[k].what, x)
            BY <1>1, <2>3 DEF Shows
        <3>2. CASE k \in 1..m
            BY <1>1, <1>2, <3>1, <3>2 DEF Shows
        <3>3. CASE k - m \in 1..n /\ (k - m) + m = k
            <4>1. u[k] = t[k - m]
                BY <1>3, <3>3
            <4>2. QED
                BY <1>1, <3>1, <3>3, <4>1 DEF Shows
        <3>4. QED
            BY <1>4, <3>2, <3>3
    <2>4. QED
        BY <2>1, <2>2, <2>3
<1>6. ASSUME ShowsOnce(s, x), ~Shows(t, x) PROVE ShowsOnce(u, x)
    <2>1. PICK i \in 1..m : /\ s[i].by = "observed" /\ s[i].what = <<x>>
                            /\ \A j \in 1..m \ {i} : s[j].by = "observed" => ~Contains(s[j].what, x)
        BY <1>1, <1>6 DEF ShowsOnce
    <2>2. i \in 1..(m + n) /\ u[i] = s[i]
        BY <1>2
    <2>3. ASSUME NEW j \in 1..(m + n), j # i, u[j].by = "observed", Contains(u[j].what, x)
          PROVE  FALSE
        <3>1. CASE j \in 1..m
            BY <1>2, <2>1, <2>3, <3>1
        <3>2. CASE j - m \in 1..n /\ (j - m) + m = j
            <4>1. u[j] = t[j - m]
                BY <1>3, <3>2
            <4>2. QED
                BY <1>1, <1>6, <2>3, <3>2, <4>1 DEF Shows
        <3>3. QED
            BY <1>4, <3>1, <3>2
    <2>4. QED
        BY <1>1, <2>1, <2>2, <2>3 DEF ShowsOnce
<1>7. ASSUME ~Shows(s, x), ShowsOnce(t, x) PROVE ShowsOnce(u, x)
    <2>1. PICK i \in 1..n : /\ t[i].by = "observed" /\ t[i].what = <<x>>
                            /\ \A j \in 1..n \ {i} : t[j].by = "observed" => ~Contains(t[j].what, x)
        BY <1>1, <1>7 DEF ShowsOnce
    <2>2. i + m \in 1..(m + n) /\ u[i + m] = t[i]
        BY <1>3
    <2>3. ASSUME NEW j \in 1..(m + n), j # i + m, u[j].by = "observed", Contains(u[j].what, x)
          PROVE  FALSE
        <3>1. CASE j \in 1..m
            <4>1. u[j] = s[j]
                BY <1>2, <3>1
            <4>2. QED
                BY <1>1, <1>7, <2>3, <3>1, <4>1 DEF Shows
        <3>2. CASE j - m \in 1..n /\ (j - m) + m = j
            <4>1. u[j] = t[j - m] /\ j - m # i
                BY <1>3, <2>3, <3>2
            <4>2. QED
                BY <2>1, <2>3, <3>2, <4>1
        <3>3. QED
            BY <1>4, <3>1, <3>2
    <2>4. QED
        BY <1>1, <2>1, <2>2, <2>3 DEF ShowsOnce
<1>8. QED
    BY <1>1, <1>5, <1>6, <1>7 DEF u

(* What comes of the code, the files and the memory shows nothing.         *)
LEMMA QuietShowsNothing ==
    ASSUME NEW s \in Seq(Quiet), NEW x
    PROVE  s \in Seq(Blocks) /\ ~Shows(s, x)
<1>1. \A b \in Quiet : b \in Blocks /\ b.by # "observed"
    BY DEF Quiet, Blocks, FileBlocksThereAre, PlainBlocks
<1>2. QED
    BY <1>1 DEF Shows

LEMMA ObservedShows ==
    ASSUME NEW lines \in Seq(People), NEW x
    PROVE  /\ Observed(lines) \in Seq(Blocks)
           /\ Shows(Observed(lines), x) <=> Contains(lines, x)
           /\ lines = <<x>> => ShowsOnce(Observed(lines), x)
<1>1. Observed(lines) \in Seq(Blocks)
    BY ObservedIs
<1>2. /\ DOMAIN Observed(lines) = {1}
      /\ Observed(lines)[1].by = "observed" /\ Observed(lines)[1].what = lines
    BY DEF Observed
<1>3. QED
    BY <1>1, <1>2 DEF Shows, ShowsOnce

-----------------------------------------------------------------------------
(* The parts of a prompt.                                                  *)
LEMMA QuietJoined ==
    ASSUME NEW s \in Seq(Quiet), NEW t \in Seq(Quiet)
    PROVE  s \o t \in Seq(Quiet)
OBVIOUS

LEMMA PrefixIsQuiet ==
    ASSUME NEW style \in CommentStyles
    PROVE  StablePrefix(style) \in Seq(Quiet)
<1>1. CASE style = "original_chat"
    <2>1. {"regole", "memoria_permanente", "memoria_permanente_uso", "chi_sei", "formato_risposta"}
            \subseteq HeaderKeys
        BY DEF HeaderKeys
    <2>2. /\ Header("regole") \in Seq(Quiet) /\ Header("memoria_permanente") \in Seq(Quiet)
          /\ Header("memoria_permanente_uso") \in Seq(Quiet) /\ Header("chi_sei") \in Seq(Quiet)
          /\ Header("formato_risposta") \in Seq(Quiet)
        BY <2>1, HeaderIs
    <2>3. /\ Code("robustness") \in Seq(Quiet) /\ Code("disclosure") \in Seq(Quiet)
          /\ Memory("soul") \in Seq(Quiet) /\ Memory("facts") \in Seq(Quiet)
        BY PlainBlockIs
    <2>4. QED
        BY <1>1, <2>2, <2>3, TextIs, FactsHeaderIs, QuietJoined, Zenon DEF StablePrefix
<1>2. CASE style # "original_chat"
    <2>1. Text(style, {"language"}) \in Seq(Quiet)
        BY <1>2, TextIs DEF CommentStyles
    <2>2. /\ Code("robustness") \in Seq(Quiet) /\ Code("disclosure") \in Seq(Quiet)
          /\ Memory("soul") \in Seq(Quiet) /\ Memory("facts") \in Seq(Quiet)
        BY PlainBlockIs
    <2>3. QED
        BY <1>2, <2>1, <2>2, QuietJoined DEF StablePrefix
<1>3. QED
    BY <1>1, <1>2

LEMMA SummaryIsQuiet ==
    ASSUME NEW style, NEW summary
    PROVE  SummaryBlock(style, summary) \in Seq(Quiet)
<1>1. Header("memoria") \in Seq(Quiet) /\ Header("memoria_suffix") \in Seq(Quiet)
      /\ Header("riassunto_std") \in Seq(Quiet) /\ Quoted("summary") \in Seq(Quiet)
    BY HeaderIs, PlainBlockIs DEF HeaderKeys
<1>2. QED
    BY <1>1, QuietJoined DEF SummaryBlock

LEMMA SaidIsQuiet ==
    ASSUME NEW style, NEW said
    PROVE  SaidBlock(style, said) \in Seq(Quiet)
<1>1. Header("tuoi_ultimi_messaggi") \in Seq(Quiet) /\ Quoted("own messages") \in Seq(Quiet)
    BY HeaderIs, PlainBlockIs DEF HeaderKeys
<1>2. Header("tuoi_ultimi_messaggi") \o Quoted("own messages") \in Seq(Quiet)
    BY <1>1, QuietJoined, Zenon
<1>3. CASE ~said \/ style # "original_chat"
    <2>1. SaidBlock(style, said) = <<>>
        BY <1>3, Zenon DEF SaidBlock
    <2>2. QED
        BY <2>1
<1>4. CASE ~(~said \/ style # "original_chat")
    <2>1. SaidBlock(style, said) = Header("tuoi_ultimi_messaggi") \o Quoted("own messages")
        BY <1>4, Zenon DEF SaidBlock
    <2>2. QED
        BY <1>2, <2>1, Zenon
<1>5. QED
    BY <1>3, <1>4

(* The block of what was seen lately: nothing but the history, and all of  *)
(* it.                                                                     *)
LEMMA RecentBlockShows ==
    ASSUME NEW style, NEW seen \in Seq(Lines), NEW line
    PROVE  /\ RecentBlock(style, seen, line) \in Seq(Blocks)
           /\ \A x : Shows(RecentBlock(style, seen, line), x) => Contains(History(style, seen, line), x)
           /\ style = "original_chat" => \A x \in People :
                Contains(History(style, seen, line), x) => Shows(RecentBlock(style, seen, line), x)
<1> DEFINE block == RecentBlock(style, seen, line)
           history == History(style, seen, line)
           X == {p \in People : <<p>> # line}
           part(source) == From(history, source)
<1>1. history \in Seq(X) /\ history \in Seq(People)
    <2>1. history \in Seq(X)
        BY HistoryShows
    <2>2. X \subseteq People
        OBVIOUS
    <2> HIDE DEF history, X
    <2>3. QED
        BY <2>1, <2>2
<1>2. ASSUME NEW source
      PROVE  /\ part(source) \in Seq(People)
             /\ \A x : Contains(part(source), x) => Contains(history, x)
             /\ \A i \in DOMAIN history : history[i].source = source => Contains(part(source), history[i])
    <2> DEFINE Y == {p \in People : Contains(history, p)}
    <2>1. history \in Seq(Y)
        BY <1>1 DEF Contains
    <2>2. part(source) \in Seq(Y)
        BY <2>1, FromShows
    <2>3. QED
        BY <1>1, <2>2, FromShows DEF Contains
<1>3. /\ Header("conversazione_recente") \in Seq(Quiet) /\ Header("chat_recente") \in Seq(Quiet)
      /\ Header("parlato_recente") \in Seq(Quiet) /\ Header("schermo_recente") \in Seq(Quiet)
      /\ Header("conversazione_recente_std") \in Seq(Quiet)
    BY HeaderIs DEF HeaderKeys
<1> HIDE DEF history, part
<1>4. CASE style = "original_chat"
    <2> DEFINE h1 == Header("conversazione_recente")
               h2 == Header("chat_recente")
               h3 == Header("parlato_recente")
               h4 == Header("schermo_recente")
               o1 == Observed(part("chat"))
               o2 == Observed(part("audio"))
               o3 == Observed(part("video"))
    <2>1. block = h1 \o h2 \o o1 \o h3 \o o2 \o h4 \o o3
        BY <1>4 DEF RecentBlock, history, part
    <2>2. /\ h1 \in Seq(Blocks) /\ h2 \in Seq(Blocks) /\ h3 \in Seq(Blocks) /\ h4 \in Seq(Blocks)
          /\ \A x : ~Shows(h1, x) /\ ~Shows(h2, x) /\ ~Shows(h3, x) /\ ~Shows(h4, x)
        BY <1>3, QuietShowsNothing
    <2>3. /\ o1 \in Seq(Blocks) /\ o2 \in Seq(Blocks) /\ o3 \in Seq(Blocks)
          /\ \A x : /\ Shows(o1, x) <=> Contains(part("chat"), x)
                    /\ Shows(o2, x) <=> Contains(part("audio"), x)
                    /\ Shows(o3, x) <=> Contains(part("video"), x)
        BY <1>2, ObservedShows
    <2> HIDE DEF h1, h2, h3, h4, o1, o2, o3, block
    <2>4. h1 \o h2 \in Seq(Blocks) /\ \A x : ~Shows(h1 \o h2, x)
        BY <2>2, JoinedShows
    <2>5. h1 \o h2 \o o1 \in Seq(Blocks) /\ \A x : Shows(h1 \o h2 \o o1, x) <=> Shows(o1, x)
        BY <2>3, <2>4, JoinedShows
    <2>6. h1 \o h2 \o o1 \o h3 \in Seq(Blocks)
          /\ \A x : Shows(h1 \o h2 \o o1 \o h3, x) <=> Shows(o1, x)
        BY <2>2, <2>5, JoinedShows
    <2>7. h1 \o h2 \o o1 \o h3 \o o2 \in Seq(Blocks)
          /\ \A x : Shows(h1 \o h2 \o o1 \o h3 \o o2, x) <=> Shows(o1, x) \/ Shows(o2, x)
        BY <2>3, <2>6, JoinedShows
    <2>8. h1 \o h2 \o o1 \o h3 \o o2 \o h4 \in Seq(Blocks)
          /\ \A x : Shows(h1 \o h2 \o o1 \o h3 \o o2 \o h4, x) <=> Shows(o1, x) \/ Shows(o2, x)
        BY <2>2, <2>7, JoinedShows
    <2>9. block \in Seq(Blocks)
          /\ \A x : Shows(block, x) <=> Shows(o1, x) \/ Shows(o2, x) \/ Shows(o3, x)
        <3> DEFINE before == h1 \o h2 \o o1 \o h3 \o o2 \o h4
        <3>1. before \in Seq(Blocks) /\ \A x : Shows(before, x) <=> Shows(o1, x) \/ Shows(o2, x)
            BY <2>8
        <3>2. block = before \o o3
            BY <2>1
        <3> HIDE DEF before
        <3>3. QED
            BY <2>3, <3>1, <3>2, JoinedShows
    <2>10. ASSUME NEW x, Shows(block, x) PROVE Contains(history, x)
        BY <1>2, <2>3, <2>9, <2>10
    <2>11. ASSUME NEW x \in People, Contains(history, x) PROVE Shows(block, x)
        <3>1. PICK i \in DOMAIN history : history[i] = x
            BY <2>11 DEF Contains
        <3>2. x.source \in {"chat", "audio", "video"}
            BY DEF People, Lines
        <3>3. Contains(part(x.source), x)
            BY <1>2, <3>1
        <3>4. QED
            BY <2>3, <2>9, <3>2, <3>3
    <2>12. QED
        BY <2>9, <2>10, <2>11 DEF history, block
<1>5. CASE style # "original_chat"
    <2> DEFINE h == Header("conversazione_recente_std")
    <2>1. block = h \o Observed(history)
        BY <1>5 DEF RecentBlock, history
    <2>2. h \in Seq(Blocks) /\ \A x : ~Shows(h, x)
        BY <1>3, QuietShowsNothing
    <2>3. Observed(history) \in Seq(Blocks) /\ \A x : Shows(Observed(history), x) <=> Contains(history, x)
        BY <1>1, ObservedShows
    <2> HIDE DEF h
    <2>4. block \in Seq(Blocks) /\ \A x : Shows(block, x) => Contains(history, x)
        BY <2>1, <2>2, <2>3, JoinedShows
    <2>5. QED
        BY <1>5, <2>4 DEF history, block
<1>6. QED
    BY <1>4, <1>5

(* Nothing, or one line of somebody else.                                  *)
IsTrigger(style, trigger) ==
    /\ trigger.line = <<>> \/ \E p \in People : trigger.line = <<p>>
    /\ style = "suggester" => trigger.line # <<>>

LEMMA TriggersAreSo ==
    ASSUME NEW style \in CommentStyles, NEW seen \in Seq(Lines), NEW trigger \in TriggersFor(style, seen)
    PROVE  IsTrigger(style, trigger)
<1> DEFINE Answered(kinds, sources) == {[kind |-> kind, line |-> <<p>>] : kind \in kinds,
                p \in {q \in {seen[i] : i \in DOMAIN seen} : q.source \in sources /\ q.who # Bot}}
<1>1. ASSUME NEW kinds, NEW sources, NEW t \in Answered(kinds, sources)
      PROVE  \E p \in People : t.line = <<p>>
    <2>1. PICK p \in {q \in {seen[i] : i \in DOMAIN seen} : q.source \in sources /\ q.who # Bot} :
            t.line = <<p>>
        OBVIOUS
    <2>2. p \in People
        BY <2>1 DEF People
    <2>3. QED
        BY <2>1, <2>2
<1>2. TriggersFor(style, seen) =
        CASE style = "meeting_synthesizer" -> {[NoTrigger EXCEPT !.kind = "synthesis_tick"]}
          [] style = "suggester" -> Answered({"suggestion_eval"}, {"audio"})
          [] OTHER -> {NoTrigger} \cup Answered({"mention", "continuation"}, {"chat", "audio"})
    BY DEF TriggersFor
<1> HIDE DEF Answered
<1>3. CASE style = "meeting_synthesizer"
    <2>1. TriggersFor(style, seen) = {[NoTrigger EXCEPT !.kind = "synthesis_tick"]}
        BY <1>2, <1>3
    <2>2. trigger.line = <<>>
        BY <2>1 DEF NoTrigger
    <2>3. QED
        BY <1>3, <2>2 DEF IsTrigger
<1>4. CASE style = "suggester"
    <2>1. TriggersFor(style, seen) = Answered({"suggestion_eval"}, {"audio"})
        BY <1>2, <1>4
    <2>2. PICK p \in People : trigger.line = <<p>>
        BY <1>1, <2>1
    <2>3. QED
        BY <2>2 DEF IsTrigger
<1>5. CASE style \notin {"meeting_synthesizer", "suggester"}
    <2>1. TriggersFor(style, seen) = {NoTrigger} \cup Answered({"mention", "continuation"}, {"chat", "audio"})
        BY <1>2, <1>5
    <2>2. trigger = NoTrigger \/ \E p \in People : trigger.line = <<p>>
        BY <1>1, <2>1
    <2>3. QED
        BY <1>5, <2>2 DEF IsTrigger, NoTrigger
<1>6. QED
    BY <1>3, <1>4, <1>5

LEMMA SituationIs ==
    ASSUME NEW key, NEW given,
           \/ key = "idle" /\ given = {}
           \/ key \in {"chat-mention", "chat-continuation"} /\ given = {"user", "mention"}
           \/ key \in {"streamer-mention", "streamer-continuation"} /\ given = {}
           \/ key = "generic" /\ given = {"reason"}
    PROVE  OfFile("situations", key, given \cup HeaderRefs) \in Seq(Quiet)
<1>1. "situations" \in Files /\ key # "lead" /\ key \in DOMAIN Situations /\ key \in Keys
    BY DEF Files, Packaged, Situations, Keys
<1>2. given \cup HeaderRefs \in SUBSET Placeholders
    BY DEF Placeholders
<1>3. SectionSpecs("situations") = SituationSpecs
    BY DEF SectionSpecs
<1>4. key \in DOMAIN SituationSpecs
    BY <1>1 DEF SituationSpecs
<1>5. SituationSpecs[key].allowed \subseteq given \cup HeaderRefs
    BY <1>1 DEF SituationSpecs, Contract
<1>6. QED
    BY <1>1, <1>2, <1>3, <1>4, <1>5, FileBlockIs

(* A line that a block sequence shows once, and no other; or none.         *)
Presents(s, line) ==
    /\ s \in Seq(Blocks)
    /\ \A x : Shows(s, x) => <<x>> = line
    /\ \A x : line = <<x>> => ShowsOnce(s, x) /\ Shows(s, x)

LEMMA LinePresented ==
    ASSUME NEW line, NEW s \in Seq(Quiet), NEW t \in Seq(Quiet),
           line = <<>> \/ \E p \in People : line = <<p>>
    PROVE  /\ line = <<>> => Presents(s, line)
           /\ Presents(s \o Observed(line), line)
           /\ Presents(s \o Observed(line) \o t, line)
<1> DEFINE o == Observed(line)
<1>1. line \in Seq(People) /\ \A x : Contains(line, x) <=> <<x>> = line
    <2>1. CASE line = <<>>
        <3>1. \A x : ~Contains(line, x) /\ <<x>> # line
            BY <2>1 DEF Contains
        <3>2. line \in Seq(People)
            BY <2>1
        <3>3. QED
            BY <3>1, <3>2
    <2>2. ASSUME NEW p \in People, line = <<p>>
          PROVE  line \in Seq(People) /\ \A x : Contains(line, x) <=> <<x>> = line
        <3>1. line \in Seq(People)
            BY <2>2, OneIsASequence
        <3>2. DOMAIN line = {1} /\ line[1] = p
            BY <2>2
        <3>3. \A x : <<x>> = line <=> x = p
            BY <2>2
        <3>4. QED
            BY <3>1, <3>2, <3>3 DEF Contains
    <2>3. QED
        BY <2>1, <2>2
<1>2. /\ o \in Seq(Blocks) /\ \A x : Shows(o, x) <=> <<x>> = line
      /\ \A x : line = <<x>> => ShowsOnce(o, x)
    BY <1>1, ObservedShows
<1>3. s \in Seq(Blocks) /\ t \in Seq(Blocks) /\ \A x : ~Shows(s, x) /\ ~Shows(t, x)
    BY QuietShowsNothing
<1> HIDE DEF o
<1>4. ASSUME line = <<>> PROVE Presents(s, line)
    <2>1. \A x : line # <<x>>
        BY <1>4
    <2>2. QED
        BY <1>3, <2>1 DEF Presents
<1>5. /\ s \o o \in Seq(Blocks) /\ \A x : Shows(s \o o, x) <=> <<x>> = line
      /\ \A x : line = <<x>> => ShowsOnce(s \o o, x)
    BY <1>2, <1>3, JoinedShows
<1>6. /\ s \o o \o t \in Seq(Blocks) /\ \A x : Shows(s \o o \o t, x) <=> <<x>> = line
      /\ \A x : line = <<x>> => ShowsOnce(s \o o \o t, x)
    BY <1>3, <1>5, JoinedShows
<1>7. QED
    BY <1>4, <1>5, <1>6 DEF Presents, o

LEMMA SituationPresents ==
    ASSUME NEW style \in CommentStyles, NEW trigger, IsTrigger(style, trigger)
    PROVE  Presents(SituationBlock(style, trigger), trigger.line)
<1> DEFINE line == trigger.line
<1>1. line = <<>> \/ \E p \in People : line = <<p>>
    BY DEF IsTrigger
<1>2. <<>> \in Seq(Quiet)
    OBVIOUS
<1>3. Header("situazione") \in Seq(Quiet) /\ Header("situazione_std") \in Seq(Quiet)
    BY HeaderIs DEF HeaderKeys
<1>4. Code("situation") \in Seq(Quiet) /\ Memory("facts of streamer") \in Seq(Quiet)
    BY PlainBlockIs
<1>5. CASE style = "original_chat" /\ line = <<>>
    <2>1. OfFile("situations", "idle", {} \cup HeaderRefs) \in Seq(Quiet)
        BY SituationIs
    <2>2. SituationBlock(style, trigger)
            = Header("situazione") \o OfFile("situations", "idle", {} \cup HeaderRefs)
        BY <1>5, Zenon DEF SituationBlock, OriginalChatSituation
    <2>3. SituationBlock(style, trigger) \in Seq(Quiet)
        BY <1>3, <2>1, <2>2, QuietJoined, Zenon
    <2>4. QED
        BY <1>1, <1>5, <2>3, LinePresented, Zenon
<1>6. CASE style = "original_chat" /\ line # <<>>
    <2>1. PICK part \in Seq(Quiet) : OriginalChatSituation(trigger) = part \o Observed(line)
        <3> DEFINE continues == trigger.kind = "continuation"
                   a == OfFile("situations", IF continues THEN "chat-continuation" ELSE "chat-mention",
                               {"user", "mention"} \cup HeaderRefs)
                   b == OfFile("situations", IF continues THEN "streamer-continuation" ELSE "streamer-mention",
                               {} \cup HeaderRefs)
                   c == OfFile("situations", "generic", {"reason"} \cup HeaderRefs)
                   d == CASE line[1].source = "chat" -> a [] line[1].source = "audio" -> b [] OTHER -> c
        <3>1. a \in Seq(Quiet) /\ b \in Seq(Quiet) /\ c \in Seq(Quiet)
            <4>1. (IF continues THEN "chat-continuation" ELSE "chat-mention")
                        \in {"chat-mention", "chat-continuation"}
                OBVIOUS
            <4>2. (IF continues THEN "streamer-continuation" ELSE "streamer-mention")
                        \in {"streamer-mention", "streamer-continuation"}
                OBVIOUS
            <4>3. QED
                BY <4>1, <4>2, SituationIs, Zenon
        <3>2. OriginalChatSituation(trigger) = d \o Observed(line)
            BY <1>6, Zenon DEF OriginalChatSituation
        <3> HIDE DEF a, b, c
        <3>3. d \in Seq(Quiet)
            BY <3>1
        <3>4. QED
            BY <3>2, <3>3, Zenon
    <2>2. SituationBlock(style, trigger) = Header("situazione") \o (part \o Observed(line))
        BY <1>6, <2>1, Zenon DEF SituationBlock
    <2>3. Observed(line) \in Seq(Blocks) /\ part \in Seq(Blocks) /\ Header("situazione") \in Seq(Blocks)
        <3>1. line \in Seq(People)
            BY <1>1, <1>6, OneIsASequence
        <3>2. QED
            BY <1>3, <2>1, <3>1, ObservedIs, QuietShowsNothing
    <2>4. Header("situazione") \o (part \o Observed(line)) = (Header("situazione") \o part) \o Observed(line)
        BY <2>3
    <2>5. Header("situazione") \o part \in Seq(Quiet)
        BY <1>3, <2>1
    <2>6. QED
        BY <1>1, <2>2, <2>4, <2>5, LinePresented
<1>7. CASE style # "original_chat"
    <2> DEFINE before == Header("situazione_std") \o Code("situation")
               back == IF style = "suggester" /\ line[1].who = "streamer" THEN Memory("facts of streamer") ELSE <<>>
               middle == IF line = <<>> THEN <<>> ELSE Observed(line)
    <2>1. SituationBlock(style, trigger) = before \o middle \o back
        BY <1>7, Zenon DEF SituationBlock
    <2>2. before \in Seq(Quiet) /\ back \in Seq(Quiet)
        <3>1. before \in Seq(Quiet)
            BY <1>3, <1>4, QuietJoined, Zenon
        <3>2. back \in {Memory("facts of streamer"), <<>>}
            OBVIOUS
        <3> HIDE DEF before, back
        <3>3. QED
            BY <1>2, <1>4, <3>1, <3>2
    <2> HIDE DEF before, back
    <2>3. CASE line = <<>>
        <3>1. before \o middle \o back \in Seq(Quiet)
            BY <2>2, <2>3
        <3>2. QED
            BY <1>1, <2>1, <2>3, <3>1, LinePresented
    <2>4. CASE line # <<>>
        <3>1. middle = Observed(line)
            BY <2>4
        <3>2. QED
            BY <1>1, <2>1, <2>2, <3>1, LinePresented
    <2>5. QED
        BY <2>3, <2>4
<1>8. QED
    BY <1>5, <1>6, <1>7

-----------------------------------------------------------------------------
(* A prompt: quiet, then what was seen lately, then what it reacts to.     *)
IsTurn(r) ==
    /\ r.style \in CommentStyles
    /\ r.seen \in Seq(Lines)
    /\ IsTrigger(r.style, r.trigger)

Intro(r) == IF r.style = "original_chat" THEN Text("intro", {"channel"}) ELSE <<>>
Front(r) == StablePrefix(r.style) \o Intro(r)
    \o SummaryBlock(r.style, r.summary) \o SaidBlock(r.style, r.said)

LEMMA IntroIsQuiet ==
    ASSUME NEW r
    PROVE  Intro(r) \in Seq(Quiet)
<1>1. Text("intro", {"channel"}) \in Seq(Quiet)
    BY TextIs
<1>2. <<>> \in Seq(Quiet)
    OBVIOUS
<1>3. QED
    BY <1>1, <1>2, Zenon DEF Intro

LEMMA FrontIsQuiet ==
    ASSUME NEW r, IsTurn(r)
    PROVE  Front(r) \in Seq(Quiet)
<1>1. StablePrefix(r.style) \in Seq(Quiet)
    BY PrefixIsQuiet DEF IsTurn
<1>2. QED
    BY <1>1, IntroIsQuiet, SummaryIsQuiet, SaidIsQuiet, QuietJoined, Zenon DEF Front

LEMMA PromptShows ==
    ASSUME NEW r, IsTurn(r)
    PROVE  /\ PromptOf(r) \in Seq(Blocks)
           /\ \A x : Shows(PromptOf(r), x) => x \in People
           /\ \A x : r.trigger.line = <<x>> => ShowsOnce(PromptOf(r), x)
           /\ r.style = "original_chat" => \A source \in {"chat", "audio", "video"} :
                \A i : IsLastOf(r.seen, source, i) /\ r.seen[i].who # Bot => Shows(PromptOf(r), r.seen[i])
           /\ \A b : Contains(StablePrefix(r.style), b) => Contains(PromptOf(r), b)
<1> DEFINE line == r.trigger.line
           recent == RecentBlock(r.style, r.seen, line)
           situation == SituationBlock(r.style, r.trigger)
           history == History(r.style, r.seen, line)
           X == {p \in People : <<p>> # line}
<1>1. r.style \in CommentStyles /\ r.seen \in Seq(Lines) /\ IsTrigger(r.style, r.trigger)
    BY DEF IsTurn
<1>2. PromptOf(r) = Front(r) \o recent \o situation
    BY DEF PromptOf, Front, Intro
<1>3. Front(r) \in Seq(Blocks) /\ \A x : ~Shows(Front(r), x)
    BY FrontIsQuiet, QuietShowsNothing
<1>4. history \in Seq(X)
    BY <1>1, HistoryShows
<1>5. recent \in Seq(Blocks) /\ \A x : Shows(recent, x) => x \in X
    <2>1. recent \in Seq(Blocks) /\ \A x : Shows(recent, x) => Contains(history, x)
        BY <1>1, RecentBlockShows, Zenon
    <2> HIDE DEF recent, history, X
    <2>2. QED
        BY <1>4, <2>1 DEF Contains
<1>6. ASSUME r.style = "original_chat", NEW source \in {"chat", "audio", "video"}, NEW i,
             IsLastOf(r.seen, source, i), r.seen[i].who # Bot
      PROVE  Shows(recent, r.seen[i]) \/ line = <<r.seen[i]>>
    <2> DEFINE x == r.seen[i]
    <2>1. x \in People
        BY <1>1, <1>6 DEF IsLastOf, People
    <2>2. Contains(RecentOf(r.style, r.seen), x)
        BY <1>1, <1>6, RecentShows
    <2> HIDE DEF x
    <2>3. line # <<x>> => Contains(history, x)
        BY <1>1, <2>1, <2>2, HistoryShows
    <2>4. Contains(history, x) => Shows(recent, x)
        BY <1>1, <1>6, <2>1, RecentBlockShows
    <2>5. QED
        BY <2>3, <2>4 DEF x
<1>7. Presents(situation, line)
    BY <1>1, SituationPresents
<1>8. \A x : line = <<x>> => x \in People
    <2>1. line = <<>> \/ \E p \in People : line = <<p>>
        BY <1>1 DEF IsTrigger
    <2>2. \A x, p : <<x>> = <<p>> => x = p
        OBVIOUS
    <2>3. \A x : <<x>> # <<>>
        OBVIOUS
    <2> HIDE DEF line
    <2>4. QED
        BY <2>1, <2>2, <2>3
<1>9. \A x : line = <<x>> => ~Shows(recent, x)
    BY <1>5
<1> HIDE DEF line, recent, situation, history, X
<1>10. /\ situation \in Seq(Blocks)
       /\ \A x : Shows(situation, x) => <<x>> = line
       /\ \A x : line = <<x>> => ShowsOnce(situation, x) /\ Shows(situation, x)
    BY <1>7 DEF Presents
<1>11. Front(r) \o recent \in Seq(Blocks) /\ \A x : Shows(Front(r) \o recent, x) <=> Shows(recent, x)
    BY <1>3, <1>5, JoinedShows
<1>12. /\ PromptOf(r) \in Seq(Blocks)
       /\ \A x : Shows(PromptOf(r), x) <=> Shows(recent, x) \/ Shows(situation, x)
       /\ \A x : line = <<x>> => ShowsOnce(PromptOf(r), x)
    <2> DEFINE lately == Front(r) \o recent
    <2>1. PromptOf(r) = lately \o situation
        BY <1>2
    <2>2. lately \in Seq(Blocks) /\ \A x : Shows(lately, x) <=> Shows(recent, x)
        BY <1>11
    <2> HIDE DEF lately
    <2>3. ASSUME NEW x
          PROVE  /\ lately \o situation \in Seq(Blocks)
                 /\ Shows(lately \o situation, x) <=> Shows(recent, x) \/ Shows(situation, x)
                 /\ line = <<x>> => ShowsOnce(lately \o situation, x)
        BY <1>9, <1>10, <2>2, JoinedShows
    <2>4. QED
        BY <2>1, <2>3
<1>13. \A x : Shows(PromptOf(r), x) => x \in People
    BY <1>5, <1>8, <1>10, <1>12 DEF X
<1>14. r.style = "original_chat" => \A source \in {"chat", "audio", "video"} :
            \A i : IsLastOf(r.seen, source, i) /\ r.seen[i].who # Bot => Shows(PromptOf(r), r.seen[i])
    BY <1>6, <1>10, <1>12
<1>15. ASSUME NEW b, Contains(StablePrefix(r.style), b) PROVE Contains(PromptOf(r), b)
    <2> DEFINE intro == Intro(r)
               prefix == StablePrefix(r.style)
               summary == SummaryBlock(r.style, r.summary)
               said == SaidBlock(r.style, r.said)
    <2>1. prefix \in Seq(Quiet) /\ summary \in Seq(Quiet) /\ said \in Seq(Quiet)
        BY <1>1, PrefixIsQuiet, SummaryIsQuiet, SaidIsQuiet
    <2>2. intro \in Seq(Quiet)
        BY IntroIsQuiet
    <2>3. Front(r) = prefix \o intro \o summary \o said
        BY DEF Front
    <2> HIDE DEF intro, prefix, summary, said
    <2>4. Contains(prefix, b)
        BY <1>15 DEF prefix
    <2>5. prefix \o intro \in Seq(Quiet) /\ Contains(prefix \o intro, b)
        BY <2>1, <2>2, <2>4, ContainsJoined
    <2>6. prefix \o intro \o summary \in Seq(Quiet) /\ Contains(prefix \o intro \o summary, b)
        BY <2>1, <2>5, ContainsJoined
    <2>7. Contains(Front(r), b)
        BY <2>1, <2>3, <2>6, ContainsJoined
    <2>8. Contains(Front(r) \o recent, b)
        BY <1>3, <1>5, <2>7, ContainsJoined
    <2>9. QED
        BY <1>2, <1>10, <1>11, <2>8, ContainsJoined
<1>16. QED
    BY <1>12, <1>13, <1>14, <1>15 DEF line

-----------------------------------------------------------------------------
LEMMA EditIs ==
    ASSUME NEW file, NEW at, NEW changes, NEW e \in Edit(file, at, changes)
    PROVE  e.file = file /\ e.at = at /\ e.change \in changes
<1>1. PICK c \in changes : e = [file |-> file, at |-> at, change |-> c]
    BY DEF Edit
<1>2. QED
    BY <1>1

LEMMA ChangeKinds ==
    ASSUME NEW body, NEW c \in ChangesOf(body)
    PROVE  c[1] \in {"use", "lose", "drop", "empty"}
<1>1. \E what \in {"use", "lose", "drop", "empty"} : \E p : c = <<what, p>>
    BY DEF ChangesOf
<1>2. PICK what \in {"use", "lose", "drop", "empty"} : \E p : c = <<what, p>>
    BY <1>1
<1>3. PICK p : c = <<what, p>>
    BY <1>2
<1>4. QED
    BY <1>3

(* An edit is of the whole, of the text, of a section or of another one.   *)
LEMMA EditsAre ==
    ASSUME NEW file, NEW e \in EditsOf(file)
    PROVE  /\ e.file = file
           /\ Packaged[file].sections = <<>> =>
                \/ e.at = "lead" /\ e.change[1] \in {"use", "lose", "drop", "empty"}
                \/ e.at = "whole" /\ e.change[1] = "unreadable"
<1>1. \/ e \in Edit(file, "lead", ChangesOf(Packaged[file].lead))
      \/ e \in Edit(file, "whole", {<<"unreadable", "">>})
      \/ \E key \in DOMAIN Packaged[file].sections : \E changes : e \in Edit(file, key, changes)
      \/ Packaged[file].sections # <<>> /\ \E changes : e \in Edit(file, "another", changes)
    <2> DEFINE sections == Packaged[file].sections
    <2>1. \/ e \in Edit(file, "lead", ChangesOf(Packaged[file].lead))
          \/ e \in Edit(file, "whole", {<<"unreadable", "">>})
          \/ e \in UNION {Edit(file, key, ChangesOf(sections[key][1])
                            \cup {<<"remove", "">>, <<"repeat", "">>}) : key \in DOMAIN sections}
          \/ e \in (IF sections = <<>> THEN {}
                    ELSE Edit(file, "another", {<<"insert", p>> : p \in Placeholders}))
        BY DEF EditsOf
    <2> HIDE DEF sections
    <2>2. ASSUME e \in UNION {Edit(file, key, ChangesOf(sections[key][1])
                            \cup {<<"remove", "">>, <<"repeat", "">>}) : key \in DOMAIN sections}
          PROVE  \E key \in DOMAIN sections : \E changes : e \in Edit(file, key, changes)
        BY <2>2, Zenon
    <2>3. ASSUME e \in (IF sections = <<>> THEN {}
                    ELSE Edit(file, "another", {<<"insert", p>> : p \in Placeholders}))
          PROVE  sections # <<>> /\ \E changes : e \in Edit(file, "another", changes)
        BY <2>3, Zenon
    <2>4. QED
        BY <2>1, <2>2, <2>3, Zenon DEF sections
<1>2. CASE e \in Edit(file, "lead", ChangesOf(Packaged[file].lead))
    <2>1. e.file = file /\ e.at = "lead" /\ e.change \in ChangesOf(Packaged[file].lead)
        BY <1>2, EditIs
    <2>2. QED
        BY <2>1, ChangeKinds
<1>3. CASE e \in Edit(file, "whole", {<<"unreadable", "">>})
    <2>1. e.file = file /\ e.at = "whole" /\ e.change \in {<<"unreadable", "">>}
        BY <1>3, EditIs
    <2>2. e.change = <<"unreadable", "">>
        BY <2>1
    <2>3. e.change[1] = "unreadable"
        <3>1. \A c, what : c = <<"unreadable", what>> => c[1] = "unreadable"
            OBVIOUS
        <3>2. QED
            BY <2>2, <3>1, Zenon
    <2>4. QED
        BY <2>1, <2>3, Zenon
<1>4. CASE \E key \in DOMAIN Packaged[file].sections : \E changes : e \in Edit(file, key, changes)
    <2>1. Packaged[file].sections # <<>>
        <3> DEFINE sections == Packaged[file].sections
        <3>1. \E key : key \in DOMAIN sections
            BY <1>4
        <3> HIDE DEF sections
        <3>2. sections # <<>>
            BY <3>1
        <3>3. QED
            BY <3>2 DEF sections
    <2>2. e.file = file
        BY <1>4, EditIs
    <2>3. QED
        BY <2>1, <2>2, Zenon
<1>5. CASE Packaged[file].sections # <<>> /\ \E changes : e \in Edit(file, "another", changes)
    <2>1. e.file = file
        BY <1>5, EditIs
    <2>2. QED
        BY <1>5, <2>1, Zenon
<1>6. QED
    BY <1>1, <1>2, <1>3, <1>4, <1>5, Zenon

(* The files without sections keep none, whatever is edited of them: the   *)
(* tokens that such a file must hold are in its text.                      *)
LEMMA TokensHeld ==
    ASSUME NEW file \in {"format", "suggester"}, edit \in Edits, Valid(file, TextOf(file))
    PROVE  FileSpec(file).tokens \subseteq TextOf(file).lead.tokens
<1>1. file \in Files /\ Packaged[file].sections = <<>>
    BY DEF Files, Packaged, Prose
<1>2. TextOf(file).sections = <<>>
    <2>1. CASE edit.file # file
        BY <1>1, <2>1, Zenon DEF TextOf
    <2>2. CASE edit.file = file
        <3>1. edit # Untouched
            <4>1. Untouched.file = "none"
                BY DEF Untouched
            <4>2. QED
                BY <2>2, <4>1
        <3>2. PICK other \in Files : edit \in EditsOf(other)
            BY <3>1, Zenon DEF Edits
        <3>3. edit \in EditsOf(file)
            BY <2>2, <3>2, EditsAre
        <3>4. \/ edit.at = "lead" /\ edit.change[1] \in {"use", "lose", "drop", "empty"}
              \/ edit.at = "whole" /\ edit.change[1] = "unreadable"
            BY <1>1, <3>3, EditsAre
        <3> DEFINE text == Packaged[file]
                   change == edit.change
        <3>5. PICK lead : text = [readable |-> TRUE, lead |-> lead, sections |-> <<>>]
            <4>1. text = Packaged["format"] \/ text = Packaged["suggester"]
                OBVIOUS
            <4>2. Packaged["format"] = Prose({}, {"RE:", "MSG:", "#end_conv"})
                BY Zenon DEF Packaged
            <4>3. Packaged["suggester"] = Prose({"language"}, {"#nothing"})
                BY DEF Packaged
            <4>4. QED
                BY <4>1, <4>2, <4>3 DEF Prose
        <3>6. CASE edit.at = "whole" /\ change[1] = "unreadable"
            <4>1. Edited(file, edit) = [text EXCEPT !.readable = FALSE]
                BY <3>6, Zenon DEF Edited
            <4>2. QED
                BY <2>2, <3>5, <4>1 DEF TextOf
        <3>7. CASE edit.at = "lead" /\ change[1] \in {"use", "lose", "drop", "empty"}
            <4>1. Edited(file, edit) = [text EXCEPT !.lead = Changed(text.lead, change)]
                BY <3>7 DEF Edited
            <4>2. QED
                BY <2>2, <3>5, <4>1 DEF TextOf
        <3>8. QED
            BY <3>4, <3>6, <3>7
    <2>3. QED
        BY <2>1, <2>2
<1>3. Bodies(TextOf(file)) = {TextOf(file).lead}
    BY <1>2 DEF Bodies
<1>4. Held(TextOf(file)) = TextOf(file).lead.tokens
    BY <1>3 DEF Held
<1>5. QED
    BY <1>4 DEF Valid

(* What the agent has loaded renders.                                      *)
LEMMA NothingFails ==
    ASSUME Broken = {}, NEW s \in Seq(Blocks)
    PROVE  ~ \E b \in FileBlocks(s) : Fails(b)
<1>1. \A file \in Files : Valid(file, TextOf(file))
    BY DEF Broken
<1>2. ASSUME NEW b \in FileBlocks(s) PROVE ~Fails(b)
    <2>1. b \in Blocks /\ b.by = "file"
        BY DEF FileBlocks
    <2>2. b \in FileBlocksThereAre
        BY <2>1 DEF Blocks, Quiet, PlainBlocks, Shown
    <2>3. b.what[1] \in Files
        BY <2>2 DEF FileBlocksThereAre
    <2>4. QED
        BY <1>1, <2>2, <2>3, ValidRenders
<1>3. QED
    BY <1>2

LEMMA TurnRenders ==
    ASSUME Broken = {}, NEW style, NEW trigger, NEW seen, NEW summary, NEW said, NEW r,
           r = [style |-> style, trigger |-> trigger, seen |-> seen, summary |-> summary, said |-> said],
           IsTurn(r)
    PROVE  ~ \E b \in FileBlocks(RenderedFor(r)) : Fails(b)
<1> DEFINE q == [r EXCEPT !.summary = TRUE, !.said = TRUE]
<1>1. q.style = r.style /\ q.seen = r.seen /\ q.trigger = r.trigger
    OBVIOUS
<1> HIDE DEF q
<1>2. IsTurn(q)
    BY <1>1 DEF IsTurn
<1>3. PromptOf(q) \in Seq(Blocks)
    BY <1>2, PromptShows
<1>4. RenderedFor(r) = PromptOf(q)
    BY DEF RenderedFor, q
<1>5. QED
    BY <1>3, <1>4, NothingFails

LEMMA SummaryRenders ==
    ASSUME Broken = {}, NEW others \in Seq(People), NEW summary
    PROVE  ~ \E b \in FileBlocks(SummaryPrompt(others, summary)) : Fails(b)
<1> DEFINE Part(key) == OfFile("summarizer", key, {})
           Group(k) == LET lines == From(others, SourceLabels[k][1]) IN
                       IF lines = <<>> THEN <<>> ELSE Part(SourceLabels[k][2]) \o Observed(lines)
           so == IF summary THEN Quoted("summary") ELSE Part("empty_placeholder")
<1>1. ASSUME NEW key \in SummaryKeys PROVE Part(key) \in Seq(Blocks)
    BY SummaryPartIs, QuietShowsNothing
<1>2. {"instruction", "current_summary_header", "empty_placeholder", "recent_events_header",
       "update_instruction", "label_streamer", "label_schermo", "label_chat"} \subseteq SummaryKeys
    BY DEF SummaryKeys
<1>3. <<>> \in Seq(Blocks)
    OBVIOUS
<1>4. ASSUME NEW k \in 1..3 PROVE Group(k) \in Seq(Blocks)
    <2>1. SourceLabels[k][2] \in SummaryKeys
        BY <1>2 DEF SourceLabels
    <2>2. From(others, SourceLabels[k][1]) \in Seq(People)
        BY FromShows
    <2>3. Observed(From(others, SourceLabels[k][1])) \in Seq(Blocks)
        BY <2>2, ObservedIs
    <2>4. Part(SourceLabels[k][2]) \in Seq(Blocks)
        BY <1>1, <2>1
    <2> HIDE DEF Part
    <2>5. QED
        BY <1>3, <2>3, <2>4
<1>5. so \in Seq(Blocks)
    <2>1. Quoted("summary") \in Seq(Blocks)
        BY PlainBlockIs, QuietShowsNothing
    <2>2. Part("empty_placeholder") \in Seq(Blocks)
        BY <1>1, <1>2
    <2> HIDE DEF Part
    <2>3. QED
        BY <2>1, <2>2
<1>6. SummaryPrompt(others, summary) = Part("instruction") \o Part("current_summary_header") \o so
        \o Part("recent_events_header") \o Group(1) \o Group(2) \o Group(3) \o Part("update_instruction")
    BY Zenon DEF SummaryPrompt
<1> HIDE DEF Part, Group, so
<1>7. /\ Part("instruction") \in Seq(Blocks) /\ Part("current_summary_header") \in Seq(Blocks)
      /\ Part("recent_events_header") \in Seq(Blocks) /\ Part("update_instruction") \in Seq(Blocks)
      /\ Group(1) \in Seq(Blocks) /\ Group(2) \in Seq(Blocks) /\ Group(3) \in Seq(Blocks)
    BY <1>1, <1>2, <1>4
<1>8. SummaryPrompt(others, summary) \in Seq(Blocks)
    BY <1>5, <1>6, <1>7
<1>9. QED
    BY <1>8, NothingFails

(* What a turn's prompt tells of the tokens that the answer is read by.    *)
LEMMA TokensTold ==
    ASSUME Broken = {}, edit \in Edits, NEW r, IsTurn(r)
    PROVE  /\ r.style = "original_chat" => {"RE:", "MSG:", "#end_conv"} \subseteq TokensIn(PromptOf(r))
           /\ r.style = "suggester" => "#nothing" \in TokensIn(PromptOf(r))
<1>1. \A file \in Files : Valid(file, TextOf(file))
    BY DEF Broken
<1>2. "format" \in Files /\ "suggester" \in Files
    BY DEF Files, Packaged
<1>3. /\ FileSpec("format").tokens \subseteq TextOf("format").lead.tokens
      /\ FileSpec("suggester").tokens \subseteq TextOf("suggester").lead.tokens
    BY <1>1, <1>2, TokensHeld
<1>4. FileSpec("format").tokens = {"RE:", "MSG:", "#end_conv"} /\ FileSpec("suggester").tokens = {"#nothing"}
    BY DEF FileSpec, Contract
<1>5. ASSUME NEW file, NEW given, Contains(PromptOf(r), Text(file, given)[1])
      PROVE  TextOf(file).lead.tokens \subseteq TokensIn(PromptOf(r))
    <2> DEFINE b == Text(file, given)[1]
    <2>1. b.by = "file" /\ b.what[1] = file /\ b.what[2] = "lead"
        BY DEF Text, OfFile
    <2> HIDE DEF b
    <2>2. b \in FileBlocks(PromptOf(r))
        BY <1>5, <2>1 DEF FileBlocks, Contains, b
    <2>3. QED
        BY <2>1, <2>2 DEF TokensIn
<1>6. /\ Header("regole") \in Seq(Quiet) /\ Header("memoria_permanente") \in Seq(Quiet)
      /\ Header("memoria_permanente_uso") \in Seq(Quiet) /\ Header("chi_sei") \in Seq(Quiet)
      /\ Header("formato_risposta") \in Seq(Quiet)
    BY HeaderIs DEF HeaderKeys
<1>7. /\ Code("robustness") \in Seq(Quiet) /\ Code("disclosure") \in Seq(Quiet)
      /\ Memory("soul") \in Seq(Quiet) /\ Memory("facts") \in Seq(Quiet)
    BY PlainBlockIs
<1>8. ASSUME NEW file, NEW given PROVE Contains(Text(file, given), Text(file, given)[1])
    BY DEF Text, OfFile, Contains
<1>9. ASSUME r.style = "original_chat" PROVE Contains(StablePrefix(r.style), Text("format", {})[1])
    <2> DEFINE before == Header("regole") \o Code("robustness") \o Text("rules", {"channel"}) \o Code("disclosure")
             \o Header("memoria_permanente") \o Header("memoria_permanente_uso") \o Header("chi_sei")
             \o Memory("soul") \o OfFile("headers", "cosa_sai", {"channel"}) \o Memory("facts")
             \o Header("formato_risposta")
    <2>1. before \in Seq(Quiet)
        BY <1>6, <1>7, TextIs, FactsHeaderIs, QuietJoined, Zenon
    <2>2. StablePrefix(r.style) = before \o Text("format", {})
        BY <1>9, Zenon DEF StablePrefix
    <2> HIDE DEF before
    <2>3. QED
        BY <1>8, <2>1, <2>2, TextIs, ContainsJoined
<1>10. ASSUME r.style = "suggester" PROVE Contains(StablePrefix(r.style), Text("suggester", {"language"})[1])
    <2> DEFINE text == Text("suggester", {"language"})
    <2>1. text \in Seq(Quiet) /\ Contains(text, text[1])
        BY <1>8, TextIs
    <2>2. StablePrefix(r.style) = Code("robustness") \o text \o Code("disclosure") \o Memory("soul") \o Memory("facts")
        BY <1>10, Zenon DEF StablePrefix
    <2> HIDE DEF text
    <2>3. Code("robustness") \o text \in Seq(Quiet) /\ Contains(Code("robustness") \o text, text[1])
        BY <1>7, <2>1, ContainsJoined
    <2>4. /\ Code("robustness") \o text \o Code("disclosure") \in Seq(Quiet)
          /\ Contains(Code("robustness") \o text \o Code("disclosure"), text[1])
        BY <1>7, <2>3, ContainsJoined
    <2>5. /\ Code("robustness") \o text \o Code("disclosure") \o Memory("soul") \in Seq(Quiet)
          /\ Contains(Code("robustness") \o text \o Code("disclosure") \o Memory("soul"), text[1])
        BY <1>7, <2>4, ContainsJoined
    <2>6. QED
        BY <1>7, <2>2, <2>5, ContainsJoined DEF text
<1>11. QED
    BY <1>3, <1>4, <1>5, <1>9, <1>10, PromptShows
-----------------------------------------------------------------------------
(* The state: what the tool said and the start made of the same directory, *)
(* and a prompt is there only when an accepted set was rendered.           *)
PromptKept ==
    /\ dirKind \in DirKinds
    /\ edit \in Edits
    /\ toolExit = "none" \/ toolExit = IF ~DirIsRead THEN "2" ELSE IF Broken # {} THEN "1" ELSE "0"
    /\ loading = "none" \/ loading = IF DirIsRead /\ Broken = {} THEN "loaded" ELSE "refused"
    /\ rendering \in {"none", "done"}
    /\ rendering = "done" =>
            /\ loading = "loaded"
            /\ request.style = "summarizer" \/ (IsTurn(request) /\ prompt = PromptOf(request))

(* The tool's reading of prompts_dir is the configuration's.               *)
LEMMA DirIsReadAlike ==
    ASSUME NEW kind \in DirKinds
    PROVE  ReadField("root", "prompts_dir", kind) = "accepted" <=> kind \in {"word", "absent", "null"}
<1>1. Sections["root"] = RootFields
    BY DEF Sections
<1>2. "prompts_dir" \in DOMAIN RootFields /\ RootFields["prompts_dir"] = "optionalText"
    BY DEF RootFields
<1>3. <<"root", "prompts_dir">> \notin Required
    BY DEF Required
<1>4. CrashesOf("optionalText") = {}
    BY DEF CrashesOf, Crashes
<1>5. Accepts["optionalText"] = (Texts \ {"empty"}) \cup {"null"}
    BY DEF Accepts
<1>6. ReadField("root", "prompts_dir", kind) =
        IF kind = "absent" THEN "accepted"
        ELSE IF kind \in Accepts["optionalText"] THEN "accepted" ELSE "refused"
    BY <1>1, <1>2, <1>3, <1>4, Zenon DEF ReadField
<1>7. kind \in Accepts["optionalText"] <=> kind \in {"word", "null"}
    BY <1>5 DEF DirKinds, Texts
<1>8. QED
    BY <1>6, <1>7

LEMMA PromptKeptAtStart ==
    ASSUME PromptInit
    PROVE  PromptKept
<1>1. Untouched \in Edits /\ edit \in Edits
    BY DEF PromptInit, Edits
<1>2. QED
    BY <1>1 DEF PromptInit, PromptKept

LEMMA SameReading ==
    ASSUME UNCHANGED <<dirKind, edit>>
    PROVE  /\ DirIsRead' = DirIsRead /\ Broken' = Broken
           /\ \A b : TextOf(b)' = TextOf(b)
<1>1. DirIsRead' = DirIsRead
    BY DEF DirIsRead
<1>2. \A file : TextOf(file)' = TextOf(file)
    BY DEF TextOf
<1>3. Broken' = Broken
    BY <1>2 DEF Broken
<1>4. QED
    BY <1>1, <1>2, <1>3

(* Of a request that is built, and that renders.                           *)
LEMMA TurnIsBuilt ==
    ASSUME PromptKept, BuildPrompt
    PROVE  IsTurn(request') /\ rendering' = "done" /\ prompt' = PromptOf(request')
<1>1. PICK style \in CommentStyles, summary \in BOOLEAN, said \in BOOLEAN :
        \E n \in 0 .. (IF edit = Untouched THEN MaxSeen ELSE 1) : \E seen \in [1..n -> Lines] :
        \E trigger \in TriggersFor(style, seen) :
            request' = [style |-> style, trigger |-> trigger, seen |-> seen,
                        summary |-> summary, said |-> said]
    BY Zenon DEF BuildPrompt
<1>2. PICK n \in 0 .. (IF edit = Untouched THEN MaxSeen ELSE 1) :
        \E seen \in [1..n -> Lines] : \E trigger \in TriggersFor(style, seen) :
            request' = [style |-> style, trigger |-> trigger, seen |-> seen,
                        summary |-> summary, said |-> said]
    BY <1>1, Zenon
<1> PICK seen \in [1..n -> Lines] : \E trigger \in TriggersFor(style, seen) :
            request' = [style |-> style, trigger |-> trigger, seen |-> seen,
                        summary |-> summary, said |-> said]
    BY <1>2, Zenon
<1>3. PICK trigger \in TriggersFor(style, seen) :
            request' = [style |-> style, trigger |-> trigger, seen |-> seen,
                        summary |-> summary, said |-> said]
    OBVIOUS
<1>4. n \in Nat /\ seen \in Seq(Lines)
    BY PromptAssumption
<1>5. IsTrigger(style, trigger)
    BY <1>4, TriggersAreSo
<1>6. IsTurn(request')
    <2>1. request'.style = style /\ request'.seen = seen /\ request'.trigger = trigger
        BY <1>3
    <2>2. QED
        BY <1>4, <1>5, <2>1 DEF IsTurn
<1>7. Broken = {}
    BY DEF PromptKept, BuildPrompt
<1>8. ~ \E b \in FileBlocks(RenderedFor(request')) : Fails(b)
    BY <1>3, <1>6, <1>7, TurnRenders
<1>9. rendering' = "done" /\ prompt' = PromptOf(request')
    BY <1>8, Zenon DEF BuildPrompt
<1>10. QED
    BY <1>6, <1>9

LEMMA SummaryIsBuilt ==
    ASSUME PromptKept, BuildSummaryPrompt
    PROVE  request'.style = "summarizer" /\ rendering' = "done"
<1>1. PICK n \in 1..MaxSeen : \E seen \in [1..n -> {p \in Lines : p.at = 0}] : \E summary \in BOOLEAN :
        LET others == Picked(seen, {i \in DOMAIN seen : seen[i].who # Bot})
            blocks == SummaryPrompt(others, summary)
        IN
        /\ request' = [NoRequest EXCEPT !.style = "summarizer", !.seen = seen, !.summary = summary]
        /\ IF \E b \in FileBlocks(blocks) : Fails(b)
           THEN rendering' = "raised" /\ UNCHANGED prompt
           ELSE rendering' = "done" /\ prompt' = blocks
    BY Zenon DEF BuildSummaryPrompt
<1>2. PICK seen \in [1..n -> {p \in Lines : p.at = 0}], summary \in BOOLEAN :
        LET others == Picked(seen, {i \in DOMAIN seen : seen[i].who # Bot})
            blocks == SummaryPrompt(others, summary)
        IN
        /\ request' = [NoRequest EXCEPT !.style = "summarizer", !.seen = seen, !.summary = summary]
        /\ IF \E b \in FileBlocks(blocks) : Fails(b)
           THEN rendering' = "raised" /\ UNCHANGED prompt
           ELSE rendering' = "done" /\ prompt' = blocks
    BY <1>1, Zenon
<1> DEFINE S == {i \in DOMAIN seen : seen[i].who # Bot}
           others == Picked(seen, S)
<1>3. n \in Nat /\ S \in SUBSET (1..n) /\ \A i \in S : seen[i] \in People
    BY PromptAssumption DEF People
<1>4. request' = [NoRequest EXCEPT !.style = "summarizer", !.seen = seen, !.summary = summary]
    BY <1>2, Zenon
<1>5. IF \E b \in FileBlocks(SummaryPrompt(others, summary)) : Fails(b)
      THEN rendering' = "raised" /\ UNCHANGED prompt
      ELSE rendering' = "done" /\ prompt' = SummaryPrompt(others, summary)
    BY <1>2, Zenon
<1>6. others \in Seq(People)
    <2> HIDE DEF S
    <2>1. QED
        BY <1>3, PickedLines
<1>7. Broken = {}
    BY DEF PromptKept, BuildSummaryPrompt
<1> HIDE DEF others
<1>8. ~ \E b \in FileBlocks(SummaryPrompt(others, summary)) : Fails(b)
    BY <1>6, <1>7, SummaryRenders
<1>9. request'.style = "summarizer"
    BY <1>4 DEF NoRequest
<1>10. QED
    BY <1>5, <1>8, <1>9, Zenon

LEMMA PromptKeptOn ==
    ASSUME PromptKept, [PromptNext]_promptVars
    PROVE  PromptKept'
<1>1. CASE UNCHANGED promptVars
    BY <1>1, SameReading DEF PromptKept, promptVars
<1>2. CASE ValidatePrompts
    BY <1>2, SameReading DEF PromptKept, ValidatePrompts
<1>3. CASE LoadPromptSets
    <2>1. ReadField("root", "prompts_dir", dirKind) = "accepted" <=> DirIsRead
        BY DirIsReadAlike DEF PromptKept, DirIsRead
    <2>2. loading' = IF DirIsRead /\ Broken = {} THEN "loaded" ELSE "refused"
        BY <1>3, <2>1, Zenon DEF LoadPromptSets
    <2>3. UNCHANGED <<dirKind, edit, toolExit, request, prompt, rendering>> /\ rendering # "done"
        BY <1>3 DEF LoadPromptSets, PromptKept
    <2>4. QED
        BY <2>2, <2>3, SameReading DEF PromptKept
<1>4. CASE BuildPrompt
    <2>1. IsTurn(request') /\ rendering' = "done" /\ prompt' = PromptOf(request')
        BY <1>4, TurnIsBuilt
    <2>2. UNCHANGED <<dirKind, edit, toolExit, loading>> /\ loading = "loaded"
        BY <1>4 DEF BuildPrompt
    <2>3. QED
        BY <2>1, <2>2, SameReading DEF PromptKept
<1>5. CASE BuildSummaryPrompt
    <2>1. request'.style = "summarizer" /\ rendering' = "done"
        BY <1>5, SummaryIsBuilt
    <2>2. UNCHANGED <<dirKind, edit, toolExit, loading>> /\ loading = "loaded"
        BY <1>5 DEF BuildSummaryPrompt
    <2>3. QED
        BY <2>1, <2>2, SameReading DEF PromptKept
<1>6. QED
    BY <1>1, <1>2, <1>3, <1>4, <1>5 DEF PromptNext

LEMMA SceneShown ==
    ASSUME PromptKept
    PROVE  SceneIsShown
<1> SUFFICES ASSUME rendering = "done", request.style # "summarizer"
             PROVE  /\ \A place \in ObservedLines : LineAt(place).who # Bot
                    /\ request.trigger.line # <<>> =>
                        Cardinality({place \in ObservedLines : <<LineAt(place)>> = request.trigger.line}) = 1
                    /\ request.style = "original_chat" => \A source \in {"chat", "audio", "video"} :
                        \A i \in LastFrom(source) : request.seen[i].who # Bot =>
                            \E place \in ObservedLines : LineAt(place) = request.seen[i]
    BY DEF SceneIsShown
<1>1. IsTurn(request) /\ prompt = PromptOf(request)
    BY DEF PromptKept
<1>2. /\ \A x : Shows(prompt, x) => x \in People
      /\ \A x : request.trigger.line = <<x>> => ShowsOnce(prompt, x)
      /\ request.style = "original_chat" => \A source \in {"chat", "audio", "video"} :
            \A i : IsLastOf(request.seen, source, i) /\ request.seen[i].who # Bot => Shows(prompt, request.seen[i])
    BY <1>1, PromptShows
<1>3. \A place : place \in ObservedLines <=>
        \E i \in DOMAIN prompt : \E k \in DOMAIN prompt[i].what :
            prompt[i].by = "observed" /\ place = <<i, k>>
    BY DEF ObservedLines
<1>4. \A i, k : LineAt(<<i, k>>) = prompt[i].what[k]
    BY DEF LineAt
<1>5. ASSUME NEW place \in ObservedLines PROVE LineAt(place).who # Bot
    <2>1. PICK i \in DOMAIN prompt : \E k \in DOMAIN prompt[i].what :
            prompt[i].by = "observed" /\ place = <<i, k>>
        BY <1>3, <1>5
    <2>2. PICK k \in DOMAIN prompt[i].what : prompt[i].by = "observed" /\ place = <<i, k>>
        BY <2>1
    <2>3. Shows(prompt, LineAt(place))
        BY <1>4, <2>2 DEF Shows, Contains
    <2>4. QED
        BY <1>2, <2>3 DEF People
<1>6. ASSUME NEW x, request.trigger.line = <<x>>
      PROVE  Cardinality({place \in ObservedLines : <<LineAt(place)>> = request.trigger.line}) = 1
    <2> DEFINE P == {place \in ObservedLines : <<LineAt(place)>> = request.trigger.line}
    <2>1. PICK i \in DOMAIN prompt :
            /\ prompt[i].by = "observed" /\ prompt[i].what = <<x>>
            /\ \A j \in DOMAIN prompt \ {i} : prompt[j].by = "observed" => ~Contains(prompt[j].what, x)
        BY <1>2, <1>6, Zenon DEF ShowsOnce
    <2>2. DOMAIN prompt[i].what = {1} /\ prompt[i].what[1] = x
        BY <2>1
    <2>3. <<i, 1>> \in ObservedLines /\ LineAt(<<i, 1>>) = x
        BY <1>3, <1>4, <2>1, <2>2
    <2>4. ASSUME NEW place \in P PROVE place = <<i, 1>>
        <3> PICK j \in DOMAIN prompt : \E k \in DOMAIN prompt[j].what :
                prompt[j].by = "observed" /\ place = <<j, k>>
            BY <1>3, <2>4
        <3>1. PICK k \in DOMAIN prompt[j].what : prompt[j].by = "observed" /\ place = <<j, k>>
            OBVIOUS
        <3>2. <<LineAt(place)>> = <<x>>
            BY <1>6, <2>4
        <3>3. prompt[j].what[k] = x
            BY <1>4, <3>1, <3>2
        <3>4. j = i
            BY <2>1, <3>1, <3>3 DEF Contains
        <3>5. k = 1
            BY <2>2, <3>1, <3>4
        <3>6. QED
            BY <3>1, <3>4, <3>5
    <2>5. P = {<<i, 1>>}
        BY <1>6, <2>3, <2>4
    <2> HIDE DEF P
    <2>6. Cardinality(P) = 1
        BY <2>5, FS_Singleton
    <2>7. QED
        BY <2>6 DEF P
<1>7. ASSUME request.style = "original_chat", NEW source \in {"chat", "audio", "video"},
             NEW i \in LastFrom(source), request.seen[i].who # Bot
      PROVE  \E place \in ObservedLines : LineAt(place) = request.seen[i]
    <2>1. IsLastOf(request.seen, source, i)
        BY <1>7 DEF LastFrom, IsLastOf
    <2>2. Shows(prompt, request.seen[i])
        BY <1>2, <1>7, <2>1
    <2>3. PICK j \in DOMAIN prompt : prompt[j].by = "observed" /\ Contains(prompt[j].what, request.seen[i])
        BY <2>2 DEF Shows
    <2>4. PICK k \in DOMAIN prompt[j].what : prompt[j].what[k] = request.seen[i]
        BY <2>3 DEF Contains
    <2>5. <<j, k>> \in ObservedLines /\ LineAt(<<j, k>>) = request.seen[i]
        BY <1>3, <1>4, <2>3, <2>4
    <2>6. QED
        BY <2>5
<1>8. request.trigger.line = <<>> \/ \E x : request.trigger.line = <<x>>
    BY <1>1 DEF IsTurn, IsTrigger
<1>9. QED
    BY <1>5, <1>6, <1>7, <1>8

(* A set of prompts that was accepted at the start renders whatever a turn *)
(* or a summary asks of it (prompt_source.py, prompt.py), the validating   *)
(* tool says what the start does, and a prompt shows each line once, not   *)
(* the agent's own, and the last of each source: for every window and      *)
(* number of lines.                                                        *)
THEOREM PromptsKeepTheirWord == PromptSpec => []PromptsAreSound
<1>1. PromptInit => PromptKept
    BY PromptKeptAtStart
<1>2. PromptKept /\ [PromptNext]_promptVars => PromptKept'
    BY PromptKeptOn
<1>3. PromptKept => PromptsAreSound
    <2> SUFFICES ASSUME PromptKept PROVE PromptsAreSound
        OBVIOUS
    <2>1. ToolTellsTheTruth
        BY DEF PromptKept, ToolTellsTheTruth
    <2>2. AcceptedSetsRender
        <3>1. rendering # "raised"
            BY DEF PromptKept
        <3>2. ASSUME rendering = "done", request.style \in {"original_chat", "suggester"}
              PROVE  /\ request.style = "original_chat" => {"RE:", "MSG:", "#end_conv"} \subseteq TokensIn(prompt)
                     /\ request.style = "suggester" => "#nothing" \in TokensIn(prompt)
            <4>1. Broken = {} /\ edit \in Edits /\ IsTurn(request) /\ prompt = PromptOf(request)
                BY <3>2 DEF PromptKept
            <4>2. QED
                BY <4>1, TokensTold
        <3>3. QED
            BY <3>1, <3>2 DEF AcceptedSetsRender
    <2>3. QED
        BY <2>1, <2>2, SceneShown DEF PromptsAreSound
<1>4. QED
    BY <1>1, <1>2, <1>3, PTL DEF PromptSpec
=============================================================================
