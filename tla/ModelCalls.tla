----------------------------- MODULE ModelCalls -----------------------------
(***************************************************************************)
(* The calls to the language model: the check of the local server when the *)
(* agent starts (llamacpp.py), the request and what becomes of its failure *)
(* (openrouter.py), the capture of each call (prompt_observation.py), and  *)
(* the loops of reactor.py and summarizer.py that skip a turn.             *)
(*                                                                         *)
(* A prompt is the sequence of its characters.  Of each it is told where   *)
(* it ends, in the bytes of the prompt's UTF-8 and in those of its JSON.   *)
(***************************************************************************)
EXTENDS Integers, Sequences, FiniteSets

CONSTANTS
    Callers,        \* the loops that call the model
    Prompts,        \* prompts they may build
    Others,         \* sizes that the other fields of a capture may have
    Retention,      \* retention_limit
    MaxBytes,       \* PROMPT_RECORD_MAX_BYTES
    MarkerBytes,    \* the length of PROMPT_TRUNCATION_MARKER
    BareBytes,      \* the other fields once they are emptied or cut
    MaxCalls,       \* bound of the model: calls that are made
    MaxFaults       \* bound of the model: captures that cannot be written

ASSUME CallsAssumption ==
    /\ Retention \in Nat \ {0}
    /\ {MaxBytes, MarkerBytes, BareBytes, MaxCalls, MaxFaults} \subseteq Nat
    /\ BareBytes + MarkerBytes <= MaxBytes
    /\ Others \subseteq Nat
    /\ Prompts \subseteq Seq(Nat \X Nat)

(* The bytes that the first k characters take, in UTF-8 or in JSON.        *)
WidthOf(prompt, k, form) == IF k = 0 THEN 0 ELSE prompt[k][form]

(* Each takes at least one in either form.                                 *)
ASSUME WidthsGrow ==
    \A prompt \in Prompts : \A j, k \in 0..Len(prompt) : j < k =>
        \A form \in {1, 2} : WidthOf(prompt, j, form) < WidthOf(prompt, k, form)

VARIABLES
    server,         \* what listens at the address of the model
    loop,           \* "off" | "waiting" | "calling" | "dead" | "cancelled"
    asked,          \* the call that each loop waits for: [call, prompt]
    observations,   \* _observations
    files,          \* debug/prompts, in the order of the names
    sequence,       \* _sequence
    \* history
    ends,           \* the calls that ended, and what the provider raised
    calls,          \* calls begun
    faults          \* writes that failed

callVars == <<server, loop, asked, observations, files, sequence, ends, calls, faults>>

Servers == {"absent", "foreign", "loading", "blind", "ready"}
NoCall == [call |-> 0, prompt |-> <<>>]

CallsInit ==
    /\ server = "absent"
    /\ loop = [c \in Callers |-> "off"]
    /\ asked = [c \in Callers |-> NoCall]
    /\ observations = <<>>
    /\ files = <<>>
    /\ sequence = 0
    /\ ends = <<>>
    /\ calls = 0
    /\ faults = 0

Latest(s, n) == IF Len(s) <= n THEN s ELSE SubSeq(s, Len(s) - n + 1, Len(s))

-----------------------------------------------------------------------------
(* How many characters the first n bytes hold whole (errors="ignore").     *)
Whole(prompt, n) ==
    CHOOSE k \in 0..Len(prompt) :
        /\ WidthOf(prompt, k, 1) <= n
        /\ k < Len(prompt) => WidthOf(prompt, k + 1, 1) > n

Fits(prompt, k, others) == others + WidthOf(prompt, k, 2) + MarkerBytes <= MaxBytes

(* A fault: the search stops when one cut is left to be tried.             *)
IsOverEarly(search) == search.low >= search.high

IsOver(search) == search.low > search.high

(* A lap of the binary search of the longest cut that fits.                *)
Lap(prompt, others, search) ==
    LET mid == (search.low + search.high) \div 2 IN
    IF IsOver(search) THEN search
    ELSE IF Fits(prompt, Whole(prompt, mid), others)
    THEN [low |-> mid + 1, high |-> search.high, best |-> mid]
    ELSE [low |-> search.low, high |-> mid - 1, best |-> search.best]

(* The cut it finds, in bytes, or -1: each lap leaves fewer to be tried.   *)
Cut(prompt, others) ==
    LET bytes == WidthOf(prompt, Len(prompt), 1)
        after[n \in Nat] == IF n = 0 THEN [low |-> 0, high |-> bytes, best |-> -1]
                            ELSE Lap(prompt, others, after[n - 1])
    IN  after[bytes + 1].best

(* _serialize_observation: the characters it keeps, and the size it has.   *)
Serialized(prompt, others) ==
    LET size == others + WidthOf(prompt, Len(prompt), 2)
        cut == Cut(prompt, others)
        kept == Whole(prompt, cut)
    IN  IF size <= MaxBytes THEN [kept |-> Len(prompt), size |-> size]
        ELSE IF cut # -1
        THEN [kept |-> kept, size |-> others + WidthOf(prompt, kept, 2) + MarkerBytes]
        ELSE [kept |-> 0, size |-> BareBytes + MarkerBytes]

-----------------------------------------------------------------------------
(* What the transport meets, and what the provider raises for it: what     *)
(* http.client raises is neither an OSError nor a TransportError.          *)
Outcomes ==
    CASE server \in {"ready", "blind"} -> {"text", "slow", "status", "malformed", "reset", "cutShort"}
      [] server = "absent" -> {"refused"}
      [] server = "loading" -> {"status"}
      [] server = "foreign" -> {"status", "malformed", "garbled"}

Raised(outcome) ==
    CASE outcome = "text" -> "nothing"
      [] outcome = "slow" -> "LLMTimeout"
      [] outcome \in {"refused", "reset", "status", "malformed"} -> "LLMError"
      [] outcome \in {"cutShort", "garbled"} -> "HTTPException"

ServerChanges ==
    /\ server' \in Servers
    /\ UNCHANGED <<loop, asked, observations, files, sequence, ends, calls, faults>>

(* ensure_llamacpp_ready lets the agent start with a loaded model that     *)
(* sees; the loops are begun afterwards.                                   *)
StartLoops ==
    /\ \A c \in Callers : loop[c] = "off"
    /\ server = "ready"
    /\ loop' = [c \in Callers |-> "waiting"]
    /\ UNCHANGED <<server, asked, observations, files, sequence, ends, calls, faults>>

(* complete() hands the request to a thread and waits.                     *)
Ask(c, prompt) ==
    /\ loop[c] = "waiting"
    /\ \A d \in Callers : loop[d] # "dead"
    /\ calls < MaxCalls
    /\ calls' = calls + 1
    /\ asked' = [asked EXCEPT ![c] = [call |-> calls + 1, prompt |-> prompt]]
    /\ loop' = [loop EXCEPT ![c] = "calling"]
    /\ UNCHANGED <<server, observations, files, sequence, ends, faults>>

(* A fault: the names are taken in the wrong order.                        *)
PrunedNewest(captures) == SubSeq(captures, 1, IF Len(captures) < Retention THEN Len(captures) ELSE Retention)

(* _prune_prompt_files.                                                    *)
Pruned(captures) == Latest(captures, Retention)

(* _write_record, which may fail before there is a file, while it is       *)
(* written, and while the old ones are removed.                            *)
WriteRecord(capture) ==
    \/ /\ sequence' = sequence + 1
       /\ files' = Pruned(Append(files, capture))
       /\ UNCHANGED faults
    \/ /\ faults < MaxFaults
       /\ faults' = faults + 1
       /\ \/ UNCHANGED <<sequence, files>>
          \/ /\ sequence' = sequence + 1
             /\ \/ files' \in {files, Append(files, [capture EXCEPT !.whole = FALSE])}
                \/ \E n \in Retention + 1 .. Len(files) + 1 :
                    files' = Latest(Append(files, capture), n)

(* The call ends, is observed, and raises in its loop what it raised, or   *)
(* what the recorder did: a loop skips the turn of an LLMError only.       *)
Answer(c, outcome) ==
    /\ loop[c] = "calling"
    /\ outcome \in Outcomes
    /\ LET end == [call |-> asked[c].call, by |-> c, raised |-> Raised(outcome)] IN
       /\ ends' = Append(ends, end)
       /\ observations' = Latest(Append(observations, end), Retention)
       /\ \E others \in Others :
            LET bytes == Serialized(asked[c].prompt, others) IN
            WriteRecord([n |-> sequence + 1, call |-> end.call, prompt |-> asked[c].prompt,
                         others |-> others, whole |-> TRUE, kept |-> bytes.kept, size |-> bytes.size])
       /\ loop' = [loop EXCEPT ![c] =
                    IF faults' = faults /\ end.raised # "HTTPException" THEN "waiting" ELSE "dead"]
    /\ asked' = [asked EXCEPT ![c] = NoCall]
    /\ UNCHANGED <<server, calls>>

(* The run ends with the first loop that dies, and cancels the others:     *)
(* a call that is cancelled leaves no observation.                         *)
Cancel(c) ==
    /\ loop[c] \in {"waiting", "calling"}
    /\ loop' = [loop EXCEPT ![c] = "cancelled"]
    /\ asked' = [asked EXCEPT ![c] = NoCall]
    /\ UNCHANGED <<server, observations, files, sequence, ends, calls, faults>>

CallsNext ==
    \/ ServerChanges \/ StartLoops
    \/ \E c \in Callers :
        \/ \E prompt \in Prompts : Ask(c, prompt)
        \/ \E outcome \in Outcomes : Answer(c, outcome)
        \/ Cancel(c)

CallsSpec == CallsInit /\ [][CallsNext]_callVars

-----------------------------------------------------------------------------
CallsTypeOK ==
    /\ server \in Servers
    /\ loop \in [Callers -> {"off", "waiting", "calling", "dead", "cancelled"}]
    /\ \A c \in Callers : asked[c].call \in 0..calls /\ (asked[c] # NoCall <=> loop[c] = "calling")
    /\ Len(observations) <= Retention
    /\ calls \in 0..MaxCalls
    /\ faults \in 0..MaxFaults

(* A whole capture stays below the limit, with the longest part of its     *)
(* prompt that does; none is cut that would have fitted.                   *)
LongestThatFits(capture) ==
    LET prompt == capture.prompt IN
    /\ capture.size <= MaxBytes
    /\ capture.others + WidthOf(prompt, Len(prompt), 2) <= MaxBytes => capture.kept = Len(prompt)
    /\ capture.kept < Len(prompt) => ~Fits(prompt, capture.kept + 1, capture.others)

(* What the operator is shown of the calls, in the order they ended: the   *)
(* newest in memory; on disk the newest too but for those that could not   *)
(* be written, each as much of it as there is room for.                    *)
CapturesTellTheCalls ==
    /\ observations = Latest(ends, Retention)
    /\ \A i, j \in 1..Len(files) : i < j => files[i].n < files[j].n
    /\ \A i \in 1..Len(files) :
        /\ LongestThatFits(files[i])
        /\ \E e \in 1..Len(ends) : ends[e].call = files[i].call
    /\ Len(files) <= Retention + faults
    /\ Cardinality({end \in {observations[e] : e \in DOMAIN observations} :
            \A i \in 1..Len(files) : files[i].whole => files[i].call # end.call}) <= faults
    /\ faults = 0 /\ ends # <<>> => files[Len(files)].call = ends[Len(ends)].call

(* llm.py has complete() raise LLMError for every failure but a timeout,   *)
(* and so every failure of the model skip a turn.                          *)
FailuresAreLLMErrors ==
    \A e \in 1..Len(ends) : ends[e].raised \in {"nothing", "LLMTimeout", "LLMError"}
=============================================================================
