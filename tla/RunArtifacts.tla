---------------------------- MODULE RunArtifacts ----------------------------
(***************************************************************************)
(* src/src/minnarone/run_artifacts.py: the directories of the runs with a  *)
(* TUI, as cli.py makes them and live_tui.py gives them up, by processes   *)
(* that may overlap, crash, and prune for each other.                      *)
(*                                                                         *)
(* Runs are numbered in the order of _run_sort_key.  A listing of the root *)
(* is one step, and so is the write of a marker, unless it is cut short.   *)
(***************************************************************************)
EXTENDS Integers, FiniteSets

CONSTANTS
    Runs,           \* numbers of the runs that are started
    Keep            \* retention_limit

(* create_run_session refuses a limit below one; the runs are finite.     *)
ASSUME ArtifactsAssumption ==
    /\ Runs \subseteq Nat /\ IsFiniteSet(Runs)
    /\ Keep \in Nat \ {0}

VARIABLES
    dir,        \* "none" | "bare" (no marker that counts) | "active" | "completed" | "gone"
    stage,      \* where the process of each run is
    budget,     \* completed_budget
    victims,    \* what _prune_old_run_dirs has still to remove
    removing,   \* the victim that shutil.rmtree is at
    \* history
    counted,    \* the runs that each start found active
    spared,     \* the completed ones that it kept
    lost        \* pairs: a run, and the one whose start removed it

pruned == <<counted, spared, lost>>
artifactVars == <<dir, stage, budget, victims, removing, pruned>>

NoRun == -1

ArtifactsInit ==
    /\ dir = [r \in Runs |-> "none"]
    /\ stage = [r \in Runs |-> "idle"]
    /\ budget = [r \in Runs |-> 0]
    /\ victims = [r \in Runs |-> {}]
    /\ removing = [r \in Runs |-> NoRun]
    /\ counted = [r \in Runs |-> {}]
    /\ spared = [r \in Runs |-> {}]
    /\ lost = {}

WithMarker(marker) == {r \in Runs : dir[r] = marker}

(* The n last of the runs in a set, or all of them.                        *)
Newest(S, n) == {r \in S : Cardinality({s \in S : s > r}) < n}

Move(r, to) == stage' = [stage EXCEPT ![r] = to]

-----------------------------------------------------------------------------
(* _create_unique_run_dir.                                                 *)
MakeDir(r) ==
    /\ stage[r] = "idle"
    /\ \A s \in Runs : s < r => stage[s] # "idle"
    /\ dir' = [dir EXCEPT ![r] = "bare"]
    /\ Move(r, "made")
    /\ UNCHANGED <<budget, victims, removing, pruned>>

(* _write_ownership_marker.                                                *)
MarkActive(r) ==
    /\ stage[r] = "made"
    /\ dir' = [dir EXCEPT ![r] = "active"]
    /\ Move(r, "marked")
    /\ UNCHANGED <<budget, victims, removing, pruned>>

(* The first listing: what is active takes from the budget.                *)
CountActive(r) ==
    /\ stage[r] = "marked"
    /\ LET active == WithMarker("active")
           rest == Keep - Cardinality(active)
       IN  /\ budget' = [budget EXCEPT ![r] = IF rest > 0 THEN rest ELSE 0]
           /\ counted' = [counted EXCEPT ![r] = active]
    /\ Move(r, "counted")
    /\ UNCHANGED <<dir, victims, removing, spared, lost>>

(* A fault: whatever bears a marker is taken for completed.                *)
ChooseVictimsOwned(r) ==
    /\ stage[r] = "counted"
    /\ LET others == (WithMarker("completed") \cup WithMarker("active")) \ {r}
           kept == Newest(others, budget[r])
       IN  /\ victims' = [victims EXCEPT ![r] = others \ kept]
           /\ spared' = [spared EXCEPT ![r] = kept]
    /\ Move(r, "pruning")
    /\ UNCHANGED <<dir, budget, removing, counted, lost>>

(* The second listing: the newest completed runs are kept.                 *)
ChooseVictims(r) ==
    /\ stage[r] = "counted"
    /\ LET others == WithMarker("completed") \ {r}
           kept == Newest(others, budget[r])
       IN  /\ victims' = [victims EXCEPT ![r] = others \ kept]
           /\ spared' = [spared EXCEPT ![r] = kept]
    /\ Move(r, "pruning")
    /\ UNCHANGED <<dir, budget, removing, counted, lost>>

(* shutil.rmtree begins with a victim, whose marker may be the first file  *)
(* to go or the last.  One that is gone raises: the start fails, and its   *)
(* directory stays active.                                                 *)
BeginRemoval(r, v) ==
    /\ stage[r] = "pruning"
    /\ removing[r] = NoRun
    /\ v \in victims[r]
    /\ victims' = [victims EXCEPT ![r] = @ \ {v}]
    /\ \/ /\ dir[v] # "gone"
          /\ removing' = [removing EXCEPT ![r] = v]
          /\ dir' \in {dir, [dir EXCEPT ![v] = "bare"]}
          /\ lost' = lost \cup {<<v, r>>}
          /\ UNCHANGED stage
       \/ /\ dir[v] = "gone"
          /\ Move(r, "failed")
          /\ UNCHANGED <<removing, dir, lost>>
    /\ UNCHANGED <<budget, counted, spared>>

(* It ends, or meets a file that another process has just removed.         *)
EndRemoval(r) ==
    /\ stage[r] = "pruning"
    /\ removing[r] # NoRun
    /\ removing' = [removing EXCEPT ![r] = NoRun]
    /\ LET v == removing[r] IN
       \/ /\ dir[v] # "gone"
          /\ dir' = [dir EXCEPT ![v] = "gone"]
          /\ UNCHANGED stage
       \/ /\ dir[v] = "gone" \/ \E s \in Runs \ {r} : removing[s] = v
          /\ Move(r, "failed")
          /\ UNCHANGED dir
    /\ UNCHANGED <<budget, victims, pruned>>

(* create_run_session returns: the agent is built, and run.                *)
BeginRun(r) ==
    /\ stage[r] = "pruning"
    /\ removing[r] = NoRun
    /\ victims[r] = {}
    /\ Move(r, "running")
    /\ UNCHANGED <<dir, budget, victims, removing, pruned>>

(* The runtime could not be stopped in time: the run is not marked while   *)
(* its agent may go on writing.                                            *)
StopTimesOut(r) ==
    /\ stage[r] = "running"
    /\ Move(r, "stuck")
    /\ UNCHANGED <<dir, budget, victims, removing, pruned>>

(* The end of a run, or of an attempt to build its agent: mark_completed,  *)
(* whose write may fail before or after it has emptied the marker.         *)
EndRun(r) ==
    /\ stage[r] = "running"
    /\ Move(r, "ended")
    /\ dir' \in {[dir EXCEPT ![r] = marker] : marker \in {"completed", "bare", "active"}}
    /\ UNCHANGED <<budget, victims, removing, pruned>>

(* A crash of the process, or the end of one that is stuck, leaves its     *)
(* directory, and the one it was removing, as they are.                    *)
ProcessDies(r) ==
    /\ stage[r] \notin {"idle", "ended", "failed", "crashed"}
    /\ Move(r, "crashed")
    /\ removing' = [removing EXCEPT ![r] = NoRun]
    /\ UNCHANGED <<dir, budget, victims, pruned>>

ArtifactsStep(r) ==
    \/ MakeDir(r) \/ MarkActive(r) \/ CountActive(r) \/ ChooseVictims(r)
    \/ \E v \in Runs : BeginRemoval(r, v)
    \/ EndRemoval(r) \/ BeginRun(r) \/ StopTimesOut(r) \/ EndRun(r) \/ ProcessDies(r)

ArtifactsNext == \E r \in Runs : ArtifactsStep(r)

ArtifactsSpec == ArtifactsInit /\ [][ArtifactsNext]_artifactVars

-----------------------------------------------------------------------------
Stages == {"idle", "made", "marked", "counted", "pruning", "running", "stuck", "ended", "failed",
           "crashed"}

ArtifactsTypeOK ==
    /\ dir \in [Runs -> {"none", "bare", "active", "completed", "gone"}]
    /\ stage \in [Runs -> Stages]
    /\ budget \in [Runs -> 0..Keep]
    /\ victims \in [Runs -> SUBSET Runs]
    /\ removing \in [Runs -> Runs \cup {NoRun}]
    /\ counted \in [Runs -> SUBSET Runs]
    /\ spared \in [Runs -> SUBSET Runs]
    /\ lost \subseteq Runs \X Runs

(* Whoever prunes, the directory of a run that may still be written to is  *)
(* there, and marked as such.                                              *)
RunningIsKept ==
    \A r \in Runs :
        stage[r] \in {"marked", "counted", "pruning", "running", "stuck"} => dir[r] = "active"

(* A run is removed only when the start that removes it found as many runs *)
(* active, and kept as many newer ones, as the limit asks for.             *)
PrunedForOthers ==
    \A pair \in lost :
        LET v == pair[1] IN
        LET by == pair[2] IN
        /\ \A s \in spared[by] : s > v
        /\ Cardinality(counted[by]) + Cardinality(spared[by]) >= Keep

(* What create_run_session may remove, when several processes start, run   *)
(* and crash: never what another one uses, never a newer run before an     *)
(* older one, and nothing that the limit still has room for.               *)
PruningIsSafe == RunningIsKept /\ PrunedForOthers
=============================================================================
