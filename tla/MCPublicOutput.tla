--------------------------- MODULE MCPublicOutput ---------------------------
(* Who may speak in public, and what it was told, in five questions: every *)
(* method of the policy called at any time by anybody, with the run's      *)
(* target and a foreign one, over two hours of two minutes each; the       *)
(* output path of a run that uses it, with two runners and four turns,     *)
(* within one hour; what a run leaves for its audit; which agent a command *)
(* line and a configuration make; and which prompts an operator's texts    *)
(* give.  A subject is looked at alone.                                    *)
EXTENDS PublicOutput, Startup, PromptContract, RunReplay

CONSTANTS own, foreign, Subjects,
    MaxRunClock,    \* bound of the model: last instant of a run
    MaxAuditClock   \* bound of the model: last instant of a run that is audited

VARIABLE subject

MCTargets == {own, foreign}
MCAllowed == {own}

(* A part that is not the subject has one way to begin.                    *)
MCInit ==
    /\ subject \in Subjects
    /\ Init
    /\ subject \in {"startup", "prompts"} => mode = "off"
    /\ ReplayInit
    /\ subject # "audit" => output = "private"
    /\ subject = "audit" /\ output = "private" => mode = "off"
    /\ StartupInit
    /\ subject # "startup" => invocation = "check" /\ oddity = <<"file", "missing", "none">>
    /\ PromptInit
    /\ subject # "prompts" => dirKind = "absent"

OfPolicy == /\ subject = "policy" /\ PolicyNext
            /\ UNCHANGED <<subject, runVars, startupVars, promptVars, replayVars>>
OfRun == /\ subject = "run" /\ Next /\ now' <= MaxRunClock
         /\ UNCHANGED <<subject, startupVars, promptVars, replayVars>>
OfAudit == /\ subject = "audit" /\ ReplayNext /\ now' <= MaxAuditClock
           /\ UNCHANGED <<subject, runVars, startupVars, promptVars>>
OfStartup == /\ subject = "startup" /\ StartupNext
             /\ UNCHANGED <<subject, vars, promptVars, replayVars>>
OfPrompts == /\ subject = "prompts" /\ PromptNext
             /\ UNCHANGED <<subject, vars, startupVars, replayVars>>

MCSpec ==
    /\ MCInit
    /\ [][OfPolicy \/ OfRun \/ OfAudit \/ OfStartup \/ OfPrompts]_
            <<subject, vars, startupVars, promptVars, replayVars>>
=============================================================================
