---------------------------- MODULE LiveRuntime -----------------------------
(***************************************************************************)
(* src/src/minnarone/live_tui.py around Agent.run(): the run on an event   *)
(* loop in a thread of its own, the Textual app in the foreground, and the *)
(* end of the run session (run_artifacts.py).                              *)
(*                                                                         *)
(* The two threads share four things: the events _ready and                *)
(* _stop_requested, _error, and a future of the loop.  The steps of either *)
(* thread between two looks at those are one action.                       *)
(***************************************************************************)
EXTENDS AgentRun

VARIABLES
    front,          \* "console": asyncio.run(agent.run()), or "tui": run_live_tui(agent)
    tui,            \* where run_live_tui() is
    thread,         \* where the runtime's thread is
    ready,          \* _ready
    stopRequested,  \* _stop_requested
    stopFuture,     \* _stop_future: "none" | "open" | "set"
    snapshots,      \* the task of publish_forever(): "none" | "alive" | "failed" | "cancelled"
    error,          \* _error, which the bridge's _fatal repeats
    reported,       \* run_live_tui() has an error to raise
    session         \* the marker of the run's directory: "active" | "completed"

threadVars == <<thread, ready, stopFuture, snapshots>>
tuiVars == <<front, tui, stopRequested, reported, session>>
liveVars == <<vars, threadVars, tuiVars, error>>

LiveInit ==
    /\ Init
    /\ front \in {"console", "tui"}
    /\ tui = "starting"
    /\ thread = "starting"
    /\ ready = FALSE
    /\ stopRequested = FALSE
    /\ stopFuture = "none"
    /\ snapshots = "none"
    /\ error = FALSE
    /\ reported = FALSE
    /\ session = "active"

-----------------------------------------------------------------------------
(* The runtime's thread: _run() and _run_until_stopped()                   *)

BeginThread ==
    /\ front = "tui"
    /\ thread = "starting"
    /\ thread' = "waiting"
    /\ stopFuture' = "open"
    /\ snapshots' = "alive"
    /\ ready' = TRUE
    /\ UNCHANGED <<vars, tuiVars, error>>

(* A snapshot cannot be taken.                                             *)
SnapshotFails ==
    /\ thread = "waiting"
    /\ snapshots = "alive"
    /\ snapshots' = "failed"
    /\ UNCHANGED <<vars, thread, ready, stopFuture, tuiVars, error>>

(* The wait for the agent, the snapshots and the stop future is over: what *)
(* is still alive is cancelled.                                            *)
WaitEnds ==
    /\ thread = "waiting"
    /\ main = "over" \/ snapshots = "failed" \/ stopFuture = "set"
    /\ thread' = "reaping"
    /\ snapshots' = IF snapshots = "alive" THEN "cancelled" ELSE snapshots
    /\ IF main = "over" THEN UNCHANGED vars ELSE CancelRun
    /\ UNCHANGED <<ready, stopFuture, tuiVars, error>>

(* asyncio.run() is over; _run() keeps what the agent or the snapshots     *)
(* raised.  A cancelled agent raises nothing here.                         *)
Reap ==
    /\ thread = "reaping"
    /\ main = "over"
    /\ thread' = "closed"
    /\ error' = (error \/ outcome = "error" \/ snapshots = "failed")
    /\ UNCHANGED <<vars, ready, stopFuture, snapshots, tuiVars>>

(* A fault: an agent that has gone is noticed when the operator quits.     *)
FinishThreadQuietly ==
    /\ thread = "closed"
    /\ thread' = "dead"
    /\ ready' = TRUE
    /\ UNCHANGED <<vars, stopFuture, snapshots, tuiVars, error>>

(* The finally clause of _run(): unless the TUI asked for it, the app is   *)
(* told to exit.  An app that is not running yet refuses, which is an      *)
(* error of the runtime.                                                   *)
FinishThread ==
    /\ thread = "closed"
    /\ thread' = "dead"
    /\ ready' = TRUE
    /\ IF stopRequested
       THEN UNCHANGED <<tui, error>>
       ELSE IF tui = "app"
       THEN tui' = "stopping" /\ UNCHANGED error
       ELSE error' = TRUE /\ UNCHANGED tui
    /\ UNCHANGED <<vars, stopFuture, snapshots, front, stopRequested, reported,
                   session>>

-----------------------------------------------------------------------------
(* The foreground: run_live_tui()                                          *)

TuiStays == UNCHANGED <<vars, threadVars, front, session>>

(* runtime.start(): the runtime is ready, or has already failed, or the    *)
(* wait for it runs into its time limit.                                   *)
Started ==
    /\ tui = "starting" /\ front = "tui"
    /\ ready
    /\ tui' = IF error THEN "stopping" ELSE "mounting"
    /\ reported' = error
    /\ error' = FALSE
    /\ UNCHANGED stopRequested
    /\ TuiStays

StartTimesOut ==
    /\ tui = "starting" /\ front = "tui"
    /\ ~ready
    /\ stopRequested' = TRUE
    /\ reported' = TRUE
    /\ tui' = "stopping"
    /\ UNCHANGED error
    /\ TuiStays

(* The app draws its first snapshot, and another every half second: a      *)
(* runtime that failed makes it crash.                                     *)
Render ==
    /\ tui \in {"mounting", "app"}
    /\ tui' = IF error THEN "stopping" ELSE "app"
    /\ tui' # tui
    /\ reported' = (reported \/ error)
    /\ UNCHANGED <<stopRequested, error>>
    /\ TuiStays

Quit ==
    /\ tui = "app"
    /\ tui' = "stopping"
    /\ UNCHANGED <<stopRequested, reported, error>>
    /\ TuiStays

(* runtime.stop(), as far as the look at the thread and its loop.          *)
Stop ==
    /\ tui = "stopping"
    /\ stopRequested' = TRUE
    /\ tui' = IF thread = "waiting" \/ thread = "reaping" THEN "posting" ELSE "joining"
    /\ UNCHANGED <<reported, error>>
    /\ TuiStays

(* The request is handed to the loop, which may have been closed since.    *)
Post ==
    /\ tui = "posting"
    /\ IF thread \in {"waiting", "reaping"}
       THEN /\ stopFuture' = "set"
            /\ tui' = "joining"
            /\ UNCHANGED reported
       ELSE /\ reported' = TRUE
            /\ tui' = "stuck"
            /\ UNCHANGED stopFuture
    /\ UNCHANGED <<vars, thread, ready, snapshots, front, stopRequested, session,
                   error>>

Joined ==
    /\ tui = "joining"
    /\ thread = "dead"
    /\ tui' = "stopped"
    /\ UNCHANGED <<stopRequested, reported, error>>
    /\ TuiStays

JoinTimesOut ==
    /\ tui = "joining"
    /\ thread # "dead"
    /\ tui' = "stuck"
    /\ reported' = TRUE
    /\ UNCHANGED <<stopRequested, error>>
    /\ TuiStays

(* raise_if_failed(), and the end of the session if the runtime stopped.   *)
Finish ==
    /\ tui \in {"stopped", "stuck"}
    /\ tui' = "over"
    /\ session' = IF tui = "stopped" THEN "completed" ELSE session
    /\ reported' = (reported \/ error)
    /\ error' = FALSE
    /\ UNCHANGED <<vars, threadVars, front, stopRequested>>

-----------------------------------------------------------------------------
(* The agent runs when its loop does; from the console, at once.           *)
LoopRuns == front = "console" \/ thread \in {"waiting", "reaping"}

AgentStep(step) == LoopRuns /\ step /\ UNCHANGED <<threadVars, tuiVars, error>>

CtrlC == front = "console" /\ AgentStep(CancelRun)

ThreadStep == BeginThread \/ WaitEnds \/ Reap \/ FinishThread
TuiStep == Started \/ Render \/ Stop \/ Post \/ Joined \/ Finish

LiveNext ==
    \/ AgentStep(MainStep)
    \/ \E c \in Children : AgentStep(ChildStep(c))
    \/ AgentStep(World)
    \/ CtrlC
    \/ ThreadStep \/ SnapshotFails
    \/ TuiStep \/ StartTimesOut \/ Quit \/ JoinTimesOut

LiveSpec == LiveInit /\ [][LiveNext]_liveVars

(* Both threads run; Ctrl-C, the operator's quit and the time limits may   *)
(* never come.                                                             *)
LiveFairness ==
    /\ WF_liveVars(AgentStep(MainStep))
    /\ \A c \in Children : WF_liveVars(AgentStep(ChildStep(c)))
    /\ WF_liveVars(ThreadStep)
    /\ WF_liveVars(TuiStep)

FairLiveSpec == LiveSpec /\ LiveFairness

-----------------------------------------------------------------------------
LiveTypeOK ==
    /\ TypeOK
    /\ front \in {"console", "tui"}
    /\ tui \in {"starting", "mounting", "app", "stopping", "posting", "joining", "stopped", "stuck",
               "over"}
    /\ thread \in {"starting", "waiting", "reaping", "closed", "dead"}
    /\ ready \in BOOLEAN
    /\ stopRequested \in BOOLEAN
    /\ stopFuture \in {"none", "open", "set"}
    /\ snapshots \in {"none", "alive", "failed", "cancelled"}
    /\ error \in BOOLEAN
    /\ reported \in BOOLEAN
    /\ session \in {"active", "completed"}

(* A run that is over leaves nothing behind, and its directory is given up *)
(* for pruning only then.                                                  *)
NothingLeftRunning == NothingOrphaned /\ (session = "completed" => main = "over")

(* An error of any task of the run reaches the operator, from the console  *)
(* as from the TUI, unless the shutdown itself was cancelled.              *)
NoErrorIsLost ==
    /\ ErrorsSurface
    /\ session = "completed" /\ (outcome = "error" \/ snapshots = "failed") => reported

(* A run comes to its end, and the app closes when its agent has gone.     *)
EndsTogether ==
    /\ RunEnds
    /\ front = "tui" /\ main = "over" ~> tui = "over"

=============================================================================
