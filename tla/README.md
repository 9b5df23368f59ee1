# Verification of minnarone

minnarone is a Python program that watches a live stream (Twitch, YouTube, or the devices of this
machine), turns what it hears, sees and reads into *perceptions*, lets a language model comment on
them and, when an operator has armed and promoted it, posts the comments to the public chat. This
directory holds TLA+ models of its concurrent and stateful parts, the TLC configurations that check
them on small instances, and TLAPS proofs for every value of the constants. Paths below are relative
to `src/minnarone/` of the repository.

## The system

One asyncio event loop runs the agent (`app.py`, `Agent.run`): a pump that reads the source, one
Reactor loop per profile, the Summarizer, and a token guard. Around the loop there are threads: one
daemon thread per slow perception job, the decode thread of the video reader, and the TUI thread
from which the operator sends commands. Perceptions go through an append-only file.

| Component | State it keeps | Operations | Interacts with |
|---|---|---|---|
| Public send policy (`public_send.py`) | mode, capability, promotion, kill-switch, revocation, failure streak, two sliding windows | decide, promote, engage_kill_switch, disable_live, enable_live_capability, record_failure, record_success, snapshot | called by the router (loop), the command surface (TUI thread), the guards (loop), under one lock |
| Public output path (`public_router.py`, `output_sink.py`, `send_commands.py`, `reactor.py`) | last decision, panel messages, the Reactor's own messages | route, promote, kill_switch, run_once | the policy, the sender, the run events |
| Local perception queue (`perception_queue.py`, `perception_work.py`) | one bounded queue, worker, token and thread per channel; counters | start, submit, stop, stats | the pump; processors on threads; the store through the token |
| Perception store (`store.py`) | the JSONL file, two kinds of 256-entry caches | append, read_from, tail, tail_matching, read_since | written by perceivers, read by Senser, Reactor, Summarizer, dashboard |
| Senser (`senser.py`) | read cursor, conversation windows, idle timer | tick (three modes), close_window, note_agent_message | the store, the Reactor |
| Twitch chat sender (`twitch_chat_sender.py`) | connection, ping task, reconnect task, backoff | start, send, stop, reconnect loop, ping loop | the router, the guard, `Agent.run` |
| Token guards (`twitch_auth.py`, `youtube_oauth.py`) | deadlines, refresh state | validate_startup, monitor, refresh | the policy, the sender, `Agent.run` |
| Readers and sources (`merge.py`, `twitch_*.py`, `youtube_chat.py`, `capture.py`, `os_capture.py`) | queues, processes, threads, page tokens | start, events, stop | the pump |
| Perception algorithms (`vad.py`, `speaker.py`, `video.py`, `vlm.py`, `asr.py`) | segment under construction, clusters, last frame | per chunk or frame; operator marks | the queue's threads, the store |
| Summarizer, cadence (`summarizer.py`, `cadence.py`) | rolling summary, stop flag | run, run_once, stop | the store, the model |
| Run events and artifacts (`run_events.py`, `run_artifacts.py`, `replay.py`) | the rows of a run, its directory and marker | record_*, start and end of a run, pruning, reading back | everybody |
| Model providers (`openrouter.py`, `llamacpp.py`, `prompt_observation.py`) | the captures of calls, in memory and on disk | complete, probe, observe | the loops |
| Prompts (`prompt.py`, `prompt_source.py`) | the operator's texts | load, validate, render | the Reactor, the Summarizer, `validate-prompts` |
| Configuration and start (`config.py`, `cli.py`, `app.py`) | none that outlives the start | load, check, build, run | everything |
| TUI and dashboard (`live_tui.py`, `dashboard*.py`) | runtime thread, pending confirmation | keys, start, stop, snapshot | the command surface, `Agent.run` |

What is hard here: decisions taken before an `await` and used after it; a shared "last decision";
commands from another thread at any moment; cancellation at every `await`; threads that cannot be
killed; a shutdown with a time limit; files that survive a crash. `PROJECT.json` lists each of these
hazards at its line with the properties that cover it.

## Modules

Every module translates the code between two awaits (or one step of a thread) into one action, and
its variables carry the attributes' names, without the leading underscore. Texts, names and audio are
members of small sets. "A fault:" definitions are mutated forms of the definition that follows them;
no specification uses them. They are what each property is known to catch.

Who may speak in public, and what is told of it:

| Module | Models | State and actions |
|---|---|---|
| `SendGate` | what a public-output policy promises | a gate that is live, in shadow or disarmed, a failure streak, a clock and the grants; a grant needs room in both windows, and only a live gate grants a send |
| `PublicSendPolicy` | `public_send.py` | one action per method; each runs under the policy's lock, so it is one step. `Prune` is the pruning that `decide` and `snapshot` do first. `granted` is history: the deques are what the code remembers of it |
| `PublicOutput` | `public_router.py`, `output_sink.py`, `send_commands.py`, the turn of `reactor.py`, the life of the run in `app.py` | extends the policy; two runners (the Reactor's loop task and the last tick of `Agent.run`) with a program counter; `held` says which of them keeps the event loop between two of its own steps, so only the TUI thread and the clock come between; the operator and the guard are actions of their own |
| `RunReplay` | what the same turns and keys record: `run_events.py`, the panel of `output_sink.py`, the keys of `dashboard_tui.py`, `replay.py` | extends the policy; `rows` is the file of events as `replay.py` finds it, where a row is whole, torn, or garbage (a row that continues a torn one); `panel` is what the TUI shows; a command makes its transition and records it in two steps |

What is perceived, and what becomes of it:

| Module | Models | State and actions |
|---|---|---|
| `PerceptionQueue` | `perception_queue.py`, `perception_work.py`, the write gate of `store.py` | per channel a queue, a worker and its counters; per job a daemon thread and a future; `stop()` as four phases. Thread steps (`CheckToken`, `WritePerception`, `EndThread`) interleave with everything |
| `AudioPerception` | `vad.py`, `audio.py`, `speaker.py`, the marks of `speaker_commands.py` | the ring and the utterance, frame by frame; the segments still to be transcribed; the clusters with their speech; the steps of the automatic choice, each between two looks at the clusterer, beside those of a mark; what the store did with each perception, which it may refuse, or drop when the job is cancelled |
| `VideoPerception` | `video.py`, the captioner of `app.py`, `vlm.py`, `vlm_llamacpp.py` | the reference frame and the counters; the model's lock; per frame the thread of its inference, which may end after the call that waited for it, and whose caption the store may refuse or drop |
| `PerceptionStore` | `store.py` | the file as a sequence of pieces, three to a line; the part of it that `fsync` made safe; both caches; cursor readers; write errors, crashes and reopening |
| `Conversation` | `senser.py`, `human.py` and the turn of `reactor.py` in private runs | the log, the cursor, a window per interlocutor and the timers of the Senser; per turn the triggers it still has to answer and the message being typed; both answer styles and the three trigger modes as initial states; a turn may die of an error that is no LLMError, and the run goes on without its task |

What a run meets the platforms with:

| Module | Models | State and actions |
|---|---|---|
| `MergingSource` | `merge.py` and the pump that consumes it | per reader a worker and the reader it drives; the buffer with its priorities; `stop()` with both of its limits; a wait on the condition is left only by the notification that the code sends |
| `YouTubeChatReader` | `youtube_chat.py` | where the reader awaits, the page it yields, its token, its two counts of retries, the bounded memory of what it has yielded, and the chat it has published; the server keeps messages and repeats some of them |
| `TwitchChatReader` | `twitch_chat.py` | the four lines of the handshake, the lines read, `stop()`; a cancellation at any await |
| `MediaPipeline` | `twitch_media.py` | two processes, the pump between them, and `start()` and `stop()` with what they undo, their time limits and their cancellations |
| `VideoDecoder` | `twitch_video.py` | the decode thread, the coroutines it sends to the loop, the bounded queue, the mark of the end that makes room for itself, and `stop()` with its time limit |
| `TwitchReaders` | the three above side by side | no state of its own: they share none, and a run that reads a stream has all of them |
| `TwitchChatSender` | `twitch_chat_sender.py` | streams and the link behind each; `start`, `send`, `stop`, the reconnect loop and the ping loop, each at one of its awaits; an error reaches a task only through the stream it awaits |
| `TokenLife` | the arithmetic of deadlines shared by the guards | the margin of a life, and when a token must be asked about next |
| `TwitchTokenGuard` | `twitch_auth.py` and what `Agent.run` does with either failure | start-up and the lap of `monitor()`; a question and its answer are separate steps with time between them, and either token may be revoked at any moment |
| `YouTubeCapability` | `youtube_oauth.py`, `youtube_chat_sender.py` | the guard's refresh, one action per await; `access_token()` and `disarm()` as the sender calls them in between |

What a run is made of, and what it leaves:

| Module | Models | State and actions |
|---|---|---|
| `ConfigFile` | `config.py` | no state: the fields of each section, the kinds of value that each accepts, refuses or stumbles over, and the conditions between sections |
| `Startup` | `cli.py`, `dotenv.py`, `build_agent` and its parts in `app.py` | a command line, a file with at most one oddity, and an environment; `main()` goes through its stages and either ends with a code or leaves a running agent, given by its sender, guard, policy, router, Reactors and perceivers |
| `PromptContract` | `prompt_source.py`, `prompt.py`, the prompt of `summarizer.py`, the window of `reactor.py` | an operator's files, the packaged ones with at most one change; what `validate-prompts` says of them, what the start makes of them, and the blocks that a turn renders |
| `ModelCalls` | `openrouter.py`, `llamacpp.py`, `prompt_observation.py`, the loops that call them | per loop the call it awaits; the captures in memory and on disk, with the binary search of the longest prompt that fits; a server that answers in every way `_open_request` knows of, and some that it does not |
| `AgentRun` | `Agent.run` in `app.py`, `cadence.py` | `main` is the await that `run()` is at, `task` the one that each of its tasks is at; `cancelled` holds cancellations not yet delivered; what a task awaits is external and may fail |
| `LiveRuntime` | `live_tui.py`, the marker of `run_artifacts.py`, the start in `cli.py` | `AgentRun` on an event loop in a thread of its own with the app in the foreground, or alone on the console |
| `RunArtifacts` | `run_artifacts.py` | per run its directory and how far its start has got; what it counted and what it spared when it pruned, while others start, end and crash |

`Ordering` lists the numbers of a set upwards, and picks what a sequence has there: the lines of a log, the triggers of a
turn, the history of a prompt.
The `*Proofs` modules hold the theorems below, and the `MC*` modules the instances for TLC.

`PublicSendPolicy` implements `SendGate` under the mapping `Gate`: disarmed is `liveDisabled`, live
is `promoted`, the streak is `consecutive_failures` and the grants are the history that the deques
abbreviate. `PublicOutput` and `RunReplay` act on the same policy, so the
threads and awaits around it add nothing that the gate forbids.

Components that only meet through a narrow interface are instantiated side by side in one MC module:
`subject` says which of them a behaviour is about, and the others stay as they were made. What one of
them gives another is nondeterministic in the other: a perceiver is given any chunk or frame that the queue may
leave, the merging source any order of what its readers emit. Components that share state are composed: `PublicOutput` and
`RunReplay` with the policy, `LiveRuntime` with `AgentRun`, `PromptContract` and `Startup` with `ConfigFile`.

Abstractions worth knowing:

- asyncio wakes a task whose stream broke or was closed at once; `TwitchChatSender` lets no other
  task finish a backoff of a second or more before that (`Prompt`). The length of the backoff is
  left out, its being followed by an attempt is not.
- Whether a text names the agent is an input of `Conversation`; fuzzy matching is not modelled. A
  near-duplicate is an equal text.
- In `PerceptionStore` a line is three pieces (half of the JSON, the rest, the newline). A line that
  is not whole is skipped by `_parse_or_skip`; what JSON it holds does not matter.
- The clock of `PublicSendPolicy` and `Conversation` is a counter of time units that may advance
  at any step; `time.monotonic` and the intervals of the configuration are read as such.
- In `VideoPerception` a frame is a number, and the share of bytes that changed between two frames is
  the distance of their numbers. In `AudioPerception` the detector's verdict on a frame, and which
  cluster is near, are inputs.
- In `MediaPipeline` a process that is killed ends, and a cancelled creation of a process leaves none. The merge
  shields a reader's `stop()`, which is therefore cancelled once at most, when `asyncio.run` closes the loop. A
  cancellation that meets the end of what is waited for may be lost (`wait_for` of Python 3.11), or be taken by
  `stop()` for the pump's.
- The store looks at a job's token and then writes. In `AudioPerception` and `VideoPerception` the two are one step, as a
  cancellation between them changes nothing of what is written; `PerceptionQueue` has them apart.
- In `ConfigFile` a value is the kind of value it is (a word, a numeral, a list, NaN, ...), and a file has one
  that is not as it should be: each condition of the parser looks at one field, and those that relate
  sections are over well-formed files.
- In `ModelCalls` a prompt tells of each of its characters where it ends, in the bytes of the UTF-8 and in
  those of the JSON; the other fields of a capture are a size.

## Runs

| Run | Question | Bounds |
|---|---|---|
| `public_output` | Five subjects. The policy alone, called by anybody at any time: do both budgets hold over a session, is live armed only when everything allows it, is a revocation permanent, is it a `SendGate`? Its run: do threads and awaits keep these promises, with one straggler at most after a kill and markers that belong to their turn? Its audit: does the replay tell what was delivered, lost and promoted? The start: is an agent that writes guarded, does nothing stay behind a failed start, does `--check` tell the truth? The prompts: does an accepted set of texts always render, with each line once? | 2 targets; at most 2 a minute and 3 an hour of 2 minutes, threshold 2, `MaxClock` 3 (2 in a run, 1 in an audit); 4 turns in a run; in an audit 2 replies, 2 commands, 1 failed write, a panel of 1; a file with 1 oddity, 1 missing credential (`MaxMissing`); texts with 1 change, 3 observed lines, a window of 1 |
| `perception_queue` | The queue: is every event accounted for, whatever hangs, fails, overflows or is cancelled, in order, and does `stop()` end and report what it abandons? Audio: are utterances whole, and is there a perception or a reason for each? Video: is an inference owned by its frame, and each frame counted? All this with detectors, models and stores that fail, and jobs that are cancelled | both channels, capacity 1, 2 events each; 9 frames of 2 units heard in chunks of 3 and 10 units, padding 2, utterances of 5 at most, 4 units lost; 6 frames seen, every second sampled |
| `perception_store` | The store: do cursor readers see each readable line once, do the caches answer as the file, what can a torn line cost? The runs' directories: is pruning safe? The calls: are captures the newest, whole, and as long as they may be? | 2 kinds, 2 readers, caches of 2, 4 appends, 1 error, 2 crashes; 3 runs of which 2 are kept; 2 loops, 3 calls of which 2 are kept, 1 fault, prompts that fit, fit when cut, and do not fit |
| `live_edges` | The sender: with broken links and overlapping stops at every await, one connection, recovery, nothing left behind? The guards: are deadlines safe with slow validations, how long does an armed policy outlive its token, does a disarmed guard stay so? The readers of Twitch: is nothing left of them when they end, do they end, and in order? | 3 streams, 2 stoppers, 2 sends; interval 3, margin 1 to 2, time limit 1, lives 3 and 8, clock 11; 3 lines; 4 frames, a queue of 1 |
| `conversation` | Whom does the agent answer, when does it speak unasked, is anyone forgotten by a Reactor that has not died? | 2 log lines, clock 3, idle and window life 2, continuation 1 |
| `merging_source` | The source: is every event accounted for, in order, with priority kept; does the pump always wake, `stop()` always return, and no reader stay open unnoticed? The YouTube reader: is each message yielded once, is the published chat the one that is read, are pages asked for politely? | a chat reader with 3 events, a video reader with 1, a buffer of 2; 2 chats of 3 messages, a memory of 2, 1 retry, intervals 0 and 2 |
| `live_run` | Whatever ends, fails, is revoked or cancelled, and wherever it is then: does a run stop what it started, report every error and end, together with the TUI's thread and app? | 1 Reactor; a Twitch run with a queue, a YouTube run, a run without a source |

Why the bounds are enough. The clock of the policy passes the end of the longer window after both
budgets were used up, so every way of filling, pruning and refilling them occurs. A run of
four turns has the two runners overlapping, a failure at the threshold, and one more. An audit needs a row that is torn, one
that continues it, and a message that pushes another off the panel. The queue needs one event in
flight and one waiting to overflow and to replace a frame; threads of the same channel meet when the
second job starts. Nine frames are two utterances, one ended by its length and one by silence, in chunks that end within a
frame and chunks that hold several; six frames are an inference that times out, a frame refused meanwhile, and one after it. The store needs a
torn line, a line merged into it, a later whole one, and a cache that
has dropped an entry; three runs are the one that prunes, one it counts and one it removes. A sender refers to at most three streams at once:
the one it left, the one it uses, the one it opens. A buffer of two is full when a third event
arrives, and both an eviction and a refusal occur; so does a repeated message that the memory has just forgotten. The clock of the guards
passes three intervals and the end of either life, so a
deadline that drifts passes it too. A queue of one frame is full when the mark of the end arrives, which is when it
throws something away. One Reactor and three setups give every kind of task and every await
of a run; a second Reactor only repeats the first.
In a conversation, two lines and two overlapping turns are a mention, its
answer, and what comes after. Properties over pairs of events need no third.

Deadlock is not checked: in each run there are behaviours in which the system rightly stops (the queue, the source and the
sender once stopped, a run or a start that ended) or reaches a bound of the model. Where stopping early would be an error, a liveness property says so.
Type invariants are stated in every module; those with a proof are theorems.

### Fairness

- `PerceptionQueue`: the event loop runs what is ready and its timers fire (`LoopFairness`). Nothing
  is assumed of a processor: it may hang for ever, and `stop()` must still end.
- `TwitchChatSender`: weak fairness of every task's next step, because the event loop is fair to
  ready tasks; strong fairness of a connection attempt and of the handshake's success, that is, the network
  does not refuse for ever. `Recovers` needs it, `StopReturns` does not rest on it.
- `Conversation`: weak fairness of each turn's steps: calls to the model and to the router end, as
  the HTTP clients have timeouts. Nobody is assumed to speak, and no turn to fail.
- `MergingSource`: weak fairness of the delivery of a cancellation, of a worker's end, of the pump and of
  the end of `stop()`, by its time limit if need be. A reader may hang in `start()`, in `events()`, when
  it is cancelled, and in its `stop()`.
- `YouTubeChatReader`: weak fairness of the reader's own step: a request has a time limit, timers fire, and the pump
  asks for the next event. Nobody need post, stop or close.
- `MediaPipeline`, `VideoDecoder`: weak fairness of the loop's steps and of the thread's. Streamlink and FFmpeg may
  run on, but FFmpeg ends when its input has. No time limit of the pump need pass, and nothing need be cancelled. A stream that is open gives frames, ends or fails, and a closed one ends.
- `AgentRun`, `LiveRuntime`: weak fairness of `run()`, of each task and of each thread. What a task
  awaits returns, because calls to models and to the network have time limits and the `stop()`s of the
  source, the queue and the sender are shown to end in their own modules. The end of a stream, a
  revocation, Ctrl-C, the operator's quit and the time limits of the TUI are not assumed.

The other properties are safety and need no fairness. The clock of `TwitchTokenGuard` stands still
while a step of the loop is due and while a validation is at its time limit (`MayWait`): its properties say
how late a deadline can be when the loop is prompt. The clock of `YouTubeCapability` may advance at any step.

### Disagreements between the code and its documents

Each is a run in which TLC finds the quoted statement violated; the trace is the shortest history.

- `acked_readable`: the append that follows a torn line is acknowledged and unreadable.
- `shutdown_ends`: the guard's task is cancelled while it stops the sender, which takes the
  cancellation for that of its own tasks; the monitor goes on and the end of `run()` waits for it. The
  history variable `swallowed` marks these behaviours, and `RunEnds` in the passing run sets them aside.
- `failures_are_llm_errors`: an answer that is cut short raises an error that no caller of the model skips, and the loop ends with its run.
- `operators_choice_wins`: the automatic choice of the streamer lands after the operator's mark has revoked it.
- `dropped_stay_unseen`: the replay of a public run shows what the policy dropped, and each other message twice.

Others were met while the models were written and have no run of their own; some are stated as
definitions that no run checks:

- `BadFilesAreTold` (`Startup`): YAML that does not parse, a file that is not UTF-8, `recent_chat_window: .inf` and a `vad` number that is
  a list end in a traceback, while `cli.py:12-13` has them end with a message. A missing prompt file or an unreachable model at the start
  raises PromptError or LLMError, which are no ConfigErrors either.
- `IntervalsArePositive` (`Startup`): NaN passes the checks `<= 0` of `config.py`.
- `NothingPrintedUnderTheTUI` (`Startup`): a shadow router of a TUI run echoes to the console.
- `SegmentsKeepTheirTime` (`AudioPerception`): `_next_frame_ts` of `vad.py` does not notice a chunk that the queue has dropped, so a segment
  after it is dated too early.
- `SkippedWereDescribed` (`VideoPerception`): a frame is skipped as described although the one it is like failed (`video.py:321-327`).
- `BackoffRespectsPacing` (`YouTubeChatReader`): after the chat is resolved again the interval starts at zero (`youtube_chat.py:325`).
- A send that is cancelled leaves no event (`RunReplay`, `CancelTurn`), while `docs/prds/twitch-public-chat-output.md:117` wants every decision recorded.
- `replay.py` skips `send_transition` rows, which `08-promotion-and-kill-switch-keys.md:60` wants visible, and reports the row of an empty message as malformed.
- A failed send is `[SENT]` on the panel and `[SHADOW]` in the replay (`PanelIsReplayed` sets it aside).
- A kill engaged by failures does not withdraw a pending press of P (`send_commands.py:11-12`): `PromotionIsConfirmed` speaks of K only.
- A read token that is refused during the last tick of a run leaves the policy armed for that tick, while `app.py:381-382` gives the
  revocation precedence over it.
- A cancellation of `run()` that arrives while it stops the sender at its end is dropped (`app.py:469-474`).
- Ctrl-C while `cli.py` builds the agent leaves the run's directory active, because only Exceptions are caught there.
- A worker of `merge.py` that is cancelled while it waits for a hanging `reader.stop()` leaves that cleanup out of the failures.
- The merge raises when one reader failed and none produced anything, while `merge.py:40` says when all of them failed.
- A job cancelled between its check of the token and its write still writes (`perception_work.py:44`).
- `dedup_capacity` may be smaller than a page (`youtube_chat.py`), so that a repeated page is yielded twice; the run takes it at least as long as what is repeated.
- A worker that is cancelled while `start()` undoes its launch leaves a Streamlink that ignores SIGTERM running
  (`twitch_media.py:89-92`): `_stop_process` waits for it and is cancelled before the kill.
- An error of a turn that is no LLMError ends the Reactor's task (`reactor.py:150`), and the run goes on without it until it ends,
  because `app.py:423` waits for the pump and the guard only. `EveryMentionIsConsidered` speaks of turns that have not died so.
- Utterances and captions are counted before the store takes them (`audio.py:198`, `video.py:339-345`): the counts
  include what the store refused, or dropped because the job was cancelled.
- Streamlink's failure is lost when the pump is cancelled while it closes FFmpeg's input (`tests/test_twitch_audio.py:178` tests the other order).
- `agent_name: null` gives an agent named "None"; a `vad` section may have utterances shorter than the padding.

## Proofs

The theorems hold for every value of the constants that the `ASSUME`s of the modules allow. Each
inductive invariant was first checked by TLC on the bounds of the run.

- `PublicOutputProofs`, of the policy: the types, both budgets (`BothBudgets`), `PromotionIsArmed`, `RevocationIsPermanent`, and that the policy
  implements `SendGate`. The budgets are not inductive: a pruned deque says nothing of the grants
  it has forgotten. The invariant adds `WindowKept`: the deque is the end of the history of
  grants, and every grant before it is at least a window old. A grant is then a window
  away from the one `max` places before it, since that one has been pruned when there is room.
- `PublicOutputProofs`, of the run: `OneStragglerAtMost`, `NoSendBeginsDisarmed` and `MarkersFollowTheTurn`. The argument is the
  discipline of the event loop: a runner between its decision and its send holds the loop
  (`LoopDiscipline`), hence there is at most one such runner, nobody else decides, and the guard, which
  runs on the loop, cannot act. A kill finds at most that one decision under way (`StragglersKept`).
  Every step is moreover one method of the policy at most (`StepOfPolicy`), whose invariant is proved
  to survive any of them in any order; so the run keeps what the policy promises (`PolicyIsKept`) and
  implements `SendGate` (`OutputImplementsGate`). The same module proves of `RunReplay` that the run as its audit sees
  it implements the gate, and that a promotion takes two presses that no K came between or after: the instant that
  the first press leaves is forgotten only after the kill was recorded, and no key is taken in between.
  And it proves `ReplayTellsTheRun` (`AuditIsTrue`). Between two steps a turn has its row and is not on the panel yet, or is on
  the panel and has none, so `AuditKept` says for each step which of the two holds (`Untold`, `Unshown`), that both
  are in the order of the turns, and that nothing is shown of a turn that is still deciding; without a failed write each
  row is then appended whole (`WriteIsWhole`). `RowsKept` counts what failed writes spoil, with the row that
  the next write will lose when the file ends with half of one.
- `PerceptionProofs`: of the queue the types with the capacity, `Ledger`, `NothingLeftBehind`,
  `AbandonedThreadsAreCounted`, `WrittenInOrder` and `LatestFrameWins`. `Tasks` relates the worker to its token, thread and
  future: `inflight` counts exactly the running worker, and the one thread of a channel that may still act is
  the one on record. `QueueOrder` puts what waits after what was taken; `StoreOrder` puts what was
  written before the events of threads that may still write. The latter is preserved because a worker takes its next job
  only when its future is settled, and a future is settled only when its thread is gone. `Stopping` says what each
  phase of `stop()` has done. Of the perceivers `SpeechIsAccounted` and `FramesAreDescribed`. The detector's ring and the
  utterance under way are each the end of what was heard (`VadInv`), which makes an utterance a run of frames that begins
  after the last one; what was said, passed over and is left of the segments are the segments (`SegmentsInv`); nobody was
  called the streamer while the automatic choice is still to be made, unless somebody is pinned (`StreamerInv`); what the
  store drops in silence is the rest of a cancelled job (`FatesInv`). A
  frame differs from the one tried last or is not asked about (`ReferenceInv`). Two facts are inductions over data:
  what `_bounded_size` makes of any size is within both limits (`BoundedFits`), and the library's sum
  grows by what is added to a term (`SumGrows`). The library's rules of induction cannot be instantiated; these proofs
  take a least counterexample instead (`LeastOfNats`) and unfold the recursive function as the choice that it is.
- `SourceProofs`: of the merge `EventsAccounted`, `PriorityIsKept` and `NoReaderForgotten`, for any readers and any
  buffer. Counting is additive over concatenation (`CountOfBoth`), which carries the sums through appends,
  evictions and hand-overs; the numbers of a channel grow between what the pump got last and what
  the reader yielded last (`NumbersGrow`). A reader that is started and not told to stop has a worker
  that is still at it, and those that a timed-out `stop()` leaves are reported (`Reported`). Of the YouTube reader
  `EachMessageOnce`, `TargetIsRead` and that no page is asked for before the wait that the last one named. Each message comes
  once because the memory is the end of what was yielded, as long as it can be, while a page begins no further
  back than the server repeats.
- `LiveEdgesProofs`, of Twitch: of the token guard `DeadlinesAreSafe` and `ExposureIsBounded`. A deadline is counted from the
  moment of the question or from the deadline before it, and never from the answer: the invariant says
  that this anchor is not later than the question, and that a monitor which the loop wakes is no later
  than the validations before it allow (`Punctual`). Of the chat sender `NeverStranded` and `NoConnectionLeaks`: the
  invariant says of each stream who still refers to it (`StreamsInv`, `ConnectionInv`) and of each task that `stop()` has
  cancelled where it can be (`StopsInv`). Of the readers what is left of one that ended
  (`ReadersLeaveNothing`), and that frames are handed over in order and each once. A pipeline leaves no pump, and no program that was
  not told to end; only a cancelled undo (`LaunchInv`) or a cancelled `stop()` (`StopInv`) leaves one that was not killed, and a failure or a lateness of
  the pump is told to somebody unless `stop()` was itself cancelled.
- `LiveEdgesProofs`, of YouTube: a disarmed guard is not brought back, no expired token is handed out, and a
  monitor that returns in silence leaves nothing to send with; the three together are `CapabilityIsHonest`. `Anchored` says that an expiry under
  way is counted from before the token was issued.
- `DiskProofs`: of the runs' directories `PruningIsSafe`, for any number of overlapping processes. What is to be removed
  belongs to a run that has ended (`OnlyTheEnded`), so what may still be written to is spared. That nothing
  is removed which the limit has room for rests on a fact about the `n` newest of a finite set:
  when one is left out there are `n` newer ones among them (`NewestOnes`). Of the store `LogIsReadAsWritten` and
  `LossIsBounded`. The lines of a log are picked from it by the ranks of their newlines (`Upwards`, about which
  `OrderingProofs` has the lemmas); what is picked from two
  parts is what is picked from the whole (`PickedJoins`), provided that they meet where a line ends, which is where a
  cursor stops (`CursorInv`). The caches are compared with the log as it was before the line that is being written
  (`CacheInv`), since a line of which the half is on disk is no perception yet. Each acknowledged perception is on disk, synced
  (`AckedInv`): when it cannot be read, the piece right before its line is a torn one, and two perceptions have not the same.
  Of the captures of calls `CapturesTellTheCalls`. What a lap of the binary search keeps (`SearchInv`: the best so far is the
  cut below what is left to be tried, and nothing above that fits) rests on bytes that only grow with the cut, and each lap leaves
  fewer; so the search ends, with the longest that fits (`CutIsLongest`). That no capture of the last calls is missing
  without a failure rests on their order: after the call of a file no fewer calls ended than there are
  files after it (`FilesInOrder`), so what is removed is never among the last `Retention`, however often removing failed before.
- `ConversationProofs`: `NoRepetition` and `SpeaksOnCue`. Whoever has a window named the agent since it last took leave
  of them (`Invited`), so only they are answered. The converse is what silence rests on: a mention that was read since
  has its window, refreshed no earlier than it, or is older than a window lives; and the timer never runs from before a mention
  (`Attended`). A tick answers each perception that calls for it (`ReactiveTick`), which makes every mention
  it reads reset both. As long as turns do not overlap, the draft that is on its way differs from all that is remembered
  (`OneAtATime`): the only turn that could add to the memory meanwhile is the one that sends it.
- `PublicOutputProofs`, of the start: `StartupIsSound`. `StartupKept` says for each stage what it leaves to those after
  it (`StagesKept`: the credentials that were read, the sender with its guard, the policy, the Reactors, the
  perceivers), so what a run is built of is known where it ends, and what is undone when it fails.
- `LiveRuntimeProofs`: `NothingLeftRunning` and `NoErrorIsLost`, and that each step of a live run is one of `AgentRun` or
  leaves it alone. `RunInv` says which tasks exist, and which of them are cancelled or over, at each await of `run()`.
  Of the prompts `PromptsAreSound`. Every block of a file that a turn or a summary can hold is given what
  its contract allows (`FileBlocksThereAre`), and what was accepted uses no more (`ValidRenders`). What a prompt shows follows
  block by block: the windows keep the last line of each source (`LastShows`, `FromShows`), the order of time loses none
  (`ByTimeShows`), the history leaves the line reacted to out, and the situation shows it once (`SituationPresents`).

What is assumed: a prompt loop and validations that end within `HttpTimeout` (`MayWait`, in the guard's
theorems); finitely many runs (`RunArtifacts`); a longest interval that the server may ask the YouTube reader
to wait; a target of the router that is one of the policy's (`ChannelAssumption`, `AudienceAssumption`);
a panel with room for a message (`ReplayAssumption`); a window of the prompt that has room for a line, as the
configuration requires (`PromptAssumption`); the names of a run's tasks are distinct (`RunAssumption`); nobody has the name that stands for nobody (`NobodySpeaks`); a character takes at least
a byte, in UTF-8 and in JSON (`WidthsGrow`).

Only model-checked: the liveness properties and what rests on ENABLED, which the prover does not handle:
`StopIsBounded`, `MovesOn`, `ReadersEnd`, `EveryMentionIsConsidered`, `NobodyWaitsForEver`, `EndsTogether` and the half of `PollsPolitely` that
says that the next page is asked for at all. Every invariant that a passing run checks is a theorem.

## Not modelled

`PROJECT.json` lists every component with its status and what its models leave out. Left out for good:

- the devices (`capture.py`, `os_capture.py`), and the detector, the transcription, the embeddings and
  the image model: numbers and libraries whose results are inputs of the models;
- the read-only snapshots of `dashboard.py` and `dashboard_health.py` and the layout of the panels;
- the smoke tools, which drive the same components by hand, and the scripts under `spike/`;
- the construction of the TUI's app before the runtime's thread starts: when it fails, `live_tui.py:423` marks the run completed
  though nothing ran (`LiveRuntime` starts with the thread);
- the parsing of IRC lines and of HTTP answers, beyond what of it can fail;
- the wording of prompts, and the texts of errors;
- errors other than OSError in the network calls of the chat sender and of the validations, and callers of
  the store that no part of the program has (`read_since`, `tail_matching` without a type).

## Plan

What would add most, in this order:

1. The dashboard's snapshots, which read a file that is being written.
2. `LiveRuntime` with the whole `PublicOutput` in the place of its opaque tasks: the shutdown beside a turn.
