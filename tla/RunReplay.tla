----------------------------- MODULE RunReplay ------------------------------
(* What a run of the TUI leaves for its audit, and what the audit shows:   *)
(* the turns of the Reactor (reactor.py) through the policy's router       *)
(* (public_router.py) or the private one, the panel of messages            *)
(* (output_sink.py), the keys of the dashboard (dashboard_tui.py) with     *)
(* their command surfaces, the events of the run (run_events.py), and how  *)
(* replay.py reads them back.                                              *)
(*                                                                         *)
(* A text is what matters of it: whose turn it is of, and whether it is    *)
(* empty; a tick has one trigger.  A row is written whole, or the disk     *)
(* refuses it, cuts it, or takes it and fails to sync: an OSError in each  *)
(* case.  A crash is a run that makes no more steps.  The number of a row  *)
(* is not read by anybody.                                                 *)
EXTENDS PublicSendPolicy, FiniteSets

CONSTANTS
    Audience,       \* the target of the router
    ConfirmWindow,  \* _PROMOTE_CONFIRM_WINDOW, in clock ticks
    PanelSize,      \* max_messages of MinnaroneOutputStream
    MaxReplies,     \* bound of the model: turns of the Reactor
    MaxCommands,    \* bound of the model: commands that reach a surface
    MaxFaults       \* bound of the model: writes that fail

ASSUME AudienceAssumption == Audience \in Targets

(* MinnaroneOutputStream.__init__ refuses a panel without a message.       *)
ASSUME ReplayAssumption ==
    /\ PanelSize \in Nat \ {0}
    /\ {ConfirmWindow, MaxReplies, MaxCommands, MaxFaults} \subseteq Nat

VARIABLES
    output,         \* OutputMode of the run: "public" | "private"
    up,             \* FALSE once the app of the TUI has failed
    pressedAt,      \* _promote_pending_at
    command,        \* the transition that a surface has made and not recorded
    turn,           \* the turn of the Reactor: its step, number, and whether it is blank
    panel,          \* MinnaroneOutputStream._messages
    rows,           \* events.jsonl
    \* history
    commands,       \* commands given
    attempts,       \* rows that were to be written
    faults,         \* writes that failed
    taken,          \* turns whose message the platform took
    refused,        \* turns whose message the platform refused
    dropped,        \* turns whose message the policy dropped
    presses         \* presses of P since the last K, up to two

replayVars == <<output, up, pressedAt, command, turn, panel, rows,
                commands, attempts, faults, taken, refused, dropped, presses>>
keyVars == <<up, pressedAt, command, commands, presses>>
fates == <<taken, refused, dropped>>

NotPressed == -1
Row(kind, what, of, blank) == [kind |-> kind, what |-> what, of |-> of, blank |-> blank]
Torn == Row("torn", "none", 0, FALSE)
Garbage == Row("garbage", "none", 0, FALSE)

(* Only a run in public mode has a policy, and with it the keys P and K.   *)
ReplayInit ==
    /\ output \in {"public", "private"}
    /\ up = TRUE
    /\ pressedAt = NotPressed
    /\ command = "none"
    /\ turn = [step |-> "idle", of |-> 0, blank |-> FALSE]
    /\ panel = <<>>
    /\ rows = <<>>
    /\ commands = 0 /\ attempts = 0 /\ faults = 0 /\ presses = 0
    /\ taken = {} /\ refused = {} /\ dropped = {}

-----------------------------------------------------------------------------
EndsTorn(file) == file # <<>> /\ file[Len(file)].kind = "torn"

(* A row after one that was cut continues its line.                        *)
Put(file, row) ==
    IF EndsTorn(file) THEN [file EXCEPT ![Len(file)] = Garbage] ELSE Append(file, row)

Cut(file) == IF EndsTorn(file) THEN file ELSE Append(file, Torn)

(* RunEventRecorder._append, which may raise.                              *)
Written(row) ==
    /\ rows' = Put(rows, row)
    /\ attempts' = attempts + 1
    /\ UNCHANGED faults

NotWritten(row) ==
    /\ faults < MaxFaults
    /\ faults' = faults + 1
    /\ rows' \in {rows, Cut(rows), Put(rows, row)}
    /\ attempts' = attempts + 1

(* MinnaroneOutputStream.append.                                           *)
Show(marker) ==
    LET more == Append(panel, [marker |-> marker, of |-> turn.of, blank |-> turn'.blank])
    IN panel' = SubSeq(more, IF Len(more) > PanelSize THEN 2 ELSE 1, Len(more))

At(step) == up /\ turn.step = step
Goto(step) == turn' = [turn EXCEPT !.step = step]

(* Reactor.run_once: the trigger is recorded, if it can be, and the model  *)
(* is asked.                                                               *)
Ask ==
    /\ At("idle")
    /\ turn.of < MaxReplies
    /\ turn' = [step |-> "asking", of |-> turn.of + 1, blank |-> FALSE]
    /\ LET trigger == Row("trigger", "none", turn.of + 1, FALSE)
       IN Written(trigger) \/ NotWritten(trigger)
    /\ UNCHANGED <<policyVars, output, keyVars, panel, fates>>

(* An LLMError, #nothing or #end_conv.                                     *)
SaysNothing ==
    /\ At("asking")
    /\ Goto("idle")
    /\ UNCHANGED <<policyVars, output, keyVars, panel, rows, attempts, faults, fates>>

(* TuiPrivateOutputRouter.route of a private message, never an empty one.  *)
SaysPrivately ==
    /\ At("asking")
    /\ output = "private"
    /\ Goto("noting")
    /\ Show("none")
    /\ UNCHANGED <<policyVars, output, keyVars, rows, attempts, faults, fates>>

DecisionRow(action) == Row("decision", action, turn.of, turn'.blank)

(* The end of route(): the wrapper looks at the decision, which a failed   *)
(* send has not changed.                                                   *)
EndRoute(action) ==
    /\ turn'.step = "noting"
    /\ CASE action = "send" -> Show("SENT")
         [] action = "shadow" -> Show("SHADOW")
         [] OTHER -> UNCHANGED panel

(* An OSError of the recorder is nobody's in the router: the loop ends.    *)
Breaks(row) ==
    /\ turn'.step = "dead"
    /\ NotWritten(row)
    /\ UNCHANGED panel

(* PublicOutputRouter.route up to the await of the sender, or, without a   *)
(* send, to its end.                                                       *)
SaysPublicly(blank) ==
    /\ At("asking")
    /\ output = "public"
    /\ Decide(Audience)
    /\ \E step \in {"sending", "noting", "dead"} :
        turn' = [turn EXCEPT !.step = step, !.blank = blank]
    /\ \/ /\ lastDecision'.action = "send"
          /\ turn'.step = "sending"
          /\ UNCHANGED <<rows, attempts, faults, panel>>
       \/ /\ lastDecision'.action # "send"
          /\ \/ Written(DecisionRow(lastDecision'.action)) /\ EndRoute(lastDecision'.action)
             \/ Breaks(DecisionRow(lastDecision'.action))
    /\ dropped' = dropped \cup (IF lastDecision'.action = "drop" THEN {turn.of} ELSE {})
    /\ UNCHANGED <<output, keyVars, taken, refused>>

(* The platform took the message.                                          *)
SendIsTaken ==
    /\ At("sending")
    /\ RecordSuccess
    /\ taken' = taken \cup {turn.of}
    /\ \/ Goto("noting") /\ Written(DecisionRow("send")) /\ EndRoute("send")
       \/ Goto("dead") /\ Breaks(DecisionRow("send"))
    /\ UNCHANGED <<output, keyVars, refused, dropped>>

(* A fault: the record of a failed send is that of the decision.           *)
SendIsRefusedUnseen ==
    /\ At("sending")
    /\ RecordFailure
    /\ refused' = refused \cup {turn.of}
    /\ \/ Goto("degrading") /\ Written(DecisionRow("send")) /\ UNCHANGED panel
       \/ Goto("dead") /\ Breaks(DecisionRow("send"))
    /\ UNCHANGED <<output, keyVars, taken, dropped>>

(* PublicSendFailure: it is counted and recorded.                          *)
SendIsRefused ==
    /\ At("sending")
    /\ RecordFailure
    /\ refused' = refused \cup {turn.of}
    /\ \/ Goto("degrading") /\ Written(DecisionRow("failed")) /\ UNCHANGED panel
       \/ Goto("dead") /\ Breaks(DecisionRow("failed"))
    /\ UNCHANGED <<output, keyVars, taken, dropped>>

(* _record_auto_degrade_if_engaged, with the two rows of a degrade, between *)
(* which another thread may write.                                         *)
LooksForDegrade ==
    /\ At("degrading")
    /\ Snapshot
    /\ LET degrade == Row("decision", "auto_degrade", 0, TRUE) IN
       \/ killSwitch /\ Goto("killing") /\ Written(degrade) /\ UNCHANGED panel
       \/ killSwitch /\ Goto("dead") /\ Breaks(degrade)
       \/ ~killSwitch /\ Goto("noting") /\ EndRoute("send") /\ UNCHANGED <<rows, attempts, faults>>
    /\ UNCHANGED <<output, keyVars, fates>>

RecordsDegrade ==
    /\ At("killing")
    /\ LET kill == Row("transition", "auto_kill", 0, FALSE)
       IN \/ Goto("noting") /\ Written(kill) /\ EndRoute("send")
          \/ Goto("dead") /\ Breaks(kill)
    /\ UNCHANGED <<policyVars, output, keyVars, fates>>

(* A send that an authorization failure refused: live is disabled, and the *)
(* failure counted and recorded; no degrade is looked for.                 *)
SendIsForbidden ==
    /\ At("sending")
    /\ DisableLive
    /\ Goto("disarming")
    /\ refused' = refused \cup {turn.of}
    /\ UNCHANGED <<output, keyVars, panel, rows, attempts, faults, taken, dropped>>

CountForbidden ==
    /\ At("disarming")
    /\ RecordFailure
    /\ \/ Goto("noting") /\ Written(DecisionRow("failed")) /\ EndRoute("send")
       \/ Goto("dead") /\ Breaks(DecisionRow("failed"))
    /\ UNCHANGED <<output, keyVars, fates>>

(* Reactor._record_minnarone_output, whatever became of the message.       *)
NoteOutput ==
    /\ At("noting")
    /\ Goto("idle")
    /\ LET note == Row("output", "none", turn.of, turn.blank)
       IN Written(note) \/ NotWritten(note)
    /\ UNCHANGED <<policyVars, output, keyVars, panel, fates>>

(* The run ends while the turn awaits the model or the sender: the message *)
(* may have got through, and nothing will be recorded of it.               *)
CancelTurn ==
    /\ At("asking") \/ At("sending")
    /\ Goto("dead")
    /\ \/ UNCHANGED taken
       \/ turn.step = "sending" /\ taken' = taken \cup {turn.of}
    /\ UNCHANGED <<policyVars, output, keyVars, panel, rows, attempts, faults, refused, dropped>>

-----------------------------------------------------------------------------
(* The keys, on the thread of the TUI.  A surface makes its transition and *)
(* then records it, while the loop goes on.                                *)
KeysFree == up /\ output = "public" /\ command = "none" /\ commands < MaxCommands

Confirms == pressedAt # NotPressed /\ now - pressedAt < ConfirmWindow

Pressed == presses' = IF presses = 0 THEN 1 ELSE 2

(* action_promote: the first press, or one that comes too late.            *)
PressPromote ==
    /\ KeysFree
    /\ ~Confirms
    /\ pressedAt' = now
    /\ Pressed
    /\ UNCHANGED <<policyVars, output, up, command, turn, panel, rows, commands, attempts,
                   faults, fates>>

(* The press that confirms, and SendCommandSurface.promote up to its       *)
(* record; a refusal is not recorded.                                      *)
ConfirmPromote ==
    /\ KeysFree
    /\ Confirms
    /\ pressedAt' = NotPressed
    /\ commands' = commands + 1
    /\ Pressed
    /\ \/ Promote /\ command' = "promote"
       \/ ~PromoteAccepted /\ UNCHANGED <<policyVars, command>>
    /\ UNCHANGED <<output, up, turn, panel, rows, attempts, faults, fates>>

(* action_kill_switch and SendCommandSurface.kill_switch up to its record. *)
PressKill ==
    /\ KeysFree
    /\ EngageKillSwitch
    /\ command' = "kill_switch"
    /\ commands' = commands + 1
    /\ presses' = 0
    /\ UNCHANGED <<output, up, pressedAt, turn, panel, rows, attempts, faults, fates>>

(* A fault: the kill leaves a press of P waiting for the next one.         *)
RecordCommandOnly ==
    /\ up /\ command # "none"
    /\ command' = "none"
    /\ LET row == Row("transition", command, 0, FALSE)
       IN \/ Written(row) /\ UNCHANGED up
          \/ NotWritten(row) /\ up' = FALSE
    /\ UNCHANGED <<policyVars, output, turn, panel, pressedAt, commands, fates, presses>>

(* _record_transition, and the rest of the key's action; an OSError ends   *)
(* the app.                                                                *)
RecordCommand ==
    /\ up /\ command # "none"
    /\ command' = "none"
    /\ LET row == Row("transition", command, 0, FALSE)
       IN \/ Written(row) /\ UNCHANGED up
          \/ NotWritten(row) /\ up' = FALSE
    /\ pressedAt' = IF command = "kill_switch" /\ up' THEN NotPressed ELSE pressedAt
    /\ UNCHANGED <<policyVars, output, turn, panel, commands, fates, presses>>

(* SpeakerCommandSurface.mark_current_streamer, when there is a voice to   *)
(* mark: its row has a recorder of its own.                                *)
MarkStreamer ==
    /\ up /\ command = "none" /\ commands < MaxCommands
    /\ commands' = commands + 1
    /\ LET row == Row("mark", "none", 0, FALSE)
       IN \/ Written(row) /\ UNCHANGED up
          \/ NotWritten(row) /\ up' = FALSE
    /\ UNCHANGED <<policyVars, output, pressedAt, command, turn, panel, fates, presses>>

(* The guard disarms the session; no row says so.                          *)
GuardDisables == up /\ output = "public" /\ DisableLive /\ UNCHANGED replayVars

TimePasses == up /\ Tick /\ UNCHANGED replayVars

ReplayNext ==
    \/ Ask \/ SaysNothing \/ SaysPrivately
    \/ \E blank \in BOOLEAN : SaysPublicly(blank)
    \/ SendIsTaken \/ SendIsRefused \/ LooksForDegrade \/ RecordsDegrade
    \/ SendIsForbidden \/ CountForbidden
    \/ NoteOutput \/ CancelTurn
    \/ PressPromote \/ ConfirmPromote \/ PressKill \/ RecordCommand \/ MarkStreamer
    \/ GuardDisables
    \/ TimePasses

ReplaySpec == PolicyInit /\ ReplayInit /\ [][ReplayNext]_<<policyVars, replayVars>>

-----------------------------------------------------------------------------
(* replay.py, _read_run_events: rows that it cannot read, and those of the *)
(* others that give a message.                                             *)
Malformed(row) ==
    \/ row.kind \in {"torn", "garbage"}
    \/ row.kind \in {"output", "decision"} /\ row.blank

Tells(row) ==
    /\ ~Malformed(row)
    /\ row.kind = "output" \/ (row.kind = "decision" /\ row.what # "drop")

MarkerOf(row) ==
    IF row.kind = "output" THEN "none" ELSE IF row.what = "send" THEN "SENT" ELSE "SHADOW"

(* The messages of the replay: the rows they are read from, whose order    *)
(* they have.                                                              *)
Replayed == {k \in DOMAIN rows : Tells(rows[k])}

-----------------------------------------------------------------------------
(* Every variable stays in its range.                                      *)
ReplayTypeOK ==
    /\ output \in {"public", "private"}
    /\ up \in BOOLEAN
    /\ pressedAt \in Nat \cup {NotPressed}
    /\ command \in {"none", "promote", "kill_switch"}
    /\ turn \in [step : {"idle", "asking", "sending", "degrading", "killing", "disarming",
                         "noting", "dead"},
                 of : 0..MaxReplies, blank : BOOLEAN]
    /\ Len(panel) <= PanelSize
    /\ commands \in 0..MaxCommands /\ faults \in 0..MaxFaults /\ presses \in 0..2
    /\ taken \cup refused \cup dropped \subseteq 1..MaxReplies

(* The audit claims no message that the platform has not taken.  When no   *)
(* write failed, it leaves out none that it took but the one that was      *)
(* being sent when the run ended, and an empty one, whose row is there.    *)
SentIsDelivered ==
    LET sent == {rows[k].of : k \in {k \in Replayed : MarkerOf(rows[k]) = "SENT"}}
        blank == {rows[k].of : k \in {k \in DOMAIN rows : rows[k].kind = "decision" /\ rows[k].blank}}
        lost == IF turn.step = "dead" THEN {turn.of} ELSE {}
    IN /\ sent \subseteq taken
       /\ faults = 0 => taken \subseteq sent \cup blank \cup lost

(* What the panel shows is the end of what the replay shows: each message  *)
(* with its marker, both in the order of the turns, and none left out      *)
(* since the first that is still shown; but for the sends that failed,     *)
(* which only the replay tells apart, and for empty messages, which it     *)
(* reports as malformed.  (In a public run each message is there once      *)
(* more, without a marker: DroppedStayUnseen.)                             *)
PanelIsReplayed ==
    LET shown == {i \in DOMAIN panel : ~panel[i].blank}
        told == {k \in Replayed : (MarkerOf(rows[k]) = "none") = (output = "private")}
        pending == turn.step \in {"degrading", "killing"} \/ (output = "private" /\ turn.step = "noting")
    IN faults = 0 /\ ~pending =>
        /\ \A i, j \in shown : i < j => panel[i].of < panel[j].of
        /\ \A k, l \in told : k < l => rows[k].of < rows[l].of
        /\ \A i \in shown : \E k \in told :
            /\ rows[k].of = panel[i].of
            /\ MarkerOf(rows[k]) = IF panel[i].of \in refused THEN "SHADOW" ELSE panel[i].marker
        /\ \A i \in shown, k \in told :
            rows[k].of > panel[i].of => \E j \in shown : panel[j].of = rows[k].of

(* A write that fails costs its own row and at most the next, and each one *)
(* that it spoils is reported as malformed.                                *)
RowsAreAccounted ==
    LET spoiled == {i \in 1..Len(rows) : rows[i].kind \in {"torn", "garbage"}}
        whole == Len(rows) - Cardinality(spoiled)
    IN /\ Cardinality(spoiled) <= faults
       /\ attempts - whole <= 2 * faults
       /\ whole <= attempts

(* The session is live only after two presses of P that no K came between  *)
(* or after.                                                               *)
PromotionIsConfirmed == output = "public" /\ promoted => presses = 2

(* All of these.                                                           *)
ReplayTellsTheRun ==
    SentIsDelivered /\ PanelIsReplayed /\ RowsAreAccounted /\ PromotionIsConfirmed

(* replay.py, _message_from_send_decision: "dropped messages are not shown *)
(* in the MINNARONE panel".                                                *)
DroppedStayUnseen == \A k \in Replayed : rows[k].of \notin dropped
=============================================================================
