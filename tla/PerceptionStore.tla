--------------------------- MODULE PerceptionStore ---------------------------
(***************************************************************************)
(* src/src/minnarone/store.py: the append-only JSONL log all perceptions   *)
(* go through, its caches and its cursor readers, across write errors,     *)
(* crashes and restarts of the process.                                    *)
(*                                                                         *)
(* A line reaches the file in three pieces: half of the JSON object, the   *)
(* rest of it, and the newline.  A reader, an error or a crash can come    *)
(* between any two of them.  Writers are threads that exclude each other   *)
(* by the store's lock, so at most one line is being written.              *)
(***************************************************************************)
EXTENDS Ordering, Integers, Sequences, FiniteSets

CONSTANTS
    Kinds,          \* (source, type) pairs of perceptions
    Readers,        \* cursor readers: the Sensers
    CacheSize,      \* _TAIL_CACHE_SIZE
    MaxAppends,     \* bound of the model: appends over all processes
    MaxErrors,      \* bound of the model: writes that fail
    MaxCrashes      \* bound of the model: crashes of the process

ASSUME StoreAssumption ==
    /\ CacheSize \in Nat \ {0}
    /\ MaxAppends \in Nat
    /\ MaxErrors \in Nat
    /\ MaxCrashes \in Nat

VARIABLES
    file,       \* the pieces <<perception, 1..3>> on disk
    synced,     \* the pieces a crash cannot take back (os.fsync)
    up,         \* the process runs
    writing,    \* the perception whose append() holds the lock, or Nobody
    put,        \* pieces of it written so far
    recent,     \* _recent
    recentBy,   \* _recent_by_source_type
    position,   \* each reader's cursor
    delivered,  \* history: what read_from() gave each reader since it was made
    acked,      \* history: the perceptions whose append() returned
    appends,    \* history: appends begun
    errors,     \* history: writes that failed
    crashes,    \* history: crashes
    drifted     \* history: this process wrote something its caches do not know, or lost something they know

disk == <<file, synced>>
caches == <<recent, recentBy>>
cursors == <<position, delivered>>
vars == <<disk, up, writing, put, caches, cursors, acked, appends, errors, crashes, drifted>>

Nobody == [id |-> 0]
Perceptions == [id : 1..MaxAppends, kind : Kinds]
Pieces == Perceptions \X (1..3)

LastN(s, n) == IF n >= Len(s) THEN s ELSE SubSeq(s, Len(s) - n + 1, Len(s))

OfKind(s, kind) == Picked(s, {i \in 1..Len(s) : s[i].kind = kind})

-----------------------------------------------------------------------------
(* A line parses when nothing precedes its own JSON: what a torn write     *)
(* left before it makes both unreadable, and _parse_or_skip skips them.    *)
WholeLine(log, i) ==
    /\ i >= 3
    /\ log[i] = <<log[i][1], 3>>
    /\ log[i - 1] = <<log[i][1], 2>>
    /\ log[i - 2] = <<log[i][1], 1>>
    /\ i > 3 => log[i - 3][2] = 3

(* The lines that parse when a log is read from one offset to another.     *)
Lines(log, from, to) ==
    LET ends == Picked(log, {i \in (from + 3)..to : WholeLine(log, i)})
    IN [k \in 1..Len(ends) |-> ends[k][1]]

(* A last line without its newline parses too, for _read_all alone.        *)
Trailing(log) ==
    LET n == Len(log) IN
    IF /\ n >= 2
       /\ log[n] = <<log[n][1], 2>>
       /\ log[n - 1] = <<log[n][1], 1>>
       /\ n > 2 => log[n - 2][2] = 3
    THEN <<log[n][1]>>
    ELSE <<>>

AllLines(log) == Lines(log, 0, Len(log)) \o Trailing(log)

ReadAll == AllLines(file)

(* tail(): from the cache when it holds enough.                            *)
TailOf(n) == IF n <= Len(recent) THEN LastN(recent, n) ELSE LastN(ReadAll, n)

(* tail_matching() with source and type, as every caller gives both.       *)
TailMatching(n, kind) ==
    IF Len(OfKind(recent, kind)) >= n THEN LastN(OfKind(recent, kind), n)
    ELSE LastN(recentBy[kind], n)

(* A fault: the last line is consumed although it has no newline yet.      *)
ConsumedEagerly(from) == Len(file)

(* read_from() stops at the end of the last complete line.                 *)
Consumed(from) ==
    CHOOSE to \in from..Len(file) :
        /\ to = from \/ file[to][2] = 3
        /\ \A i \in (to + 1)..Len(file) : file[i][2] # 3

-----------------------------------------------------------------------------
Init ==
    /\ file = <<>>
    /\ synced = 0
    /\ up = TRUE
    /\ writing = Nobody
    /\ put = 0
    /\ recent = <<>>
    /\ recentBy = [kind \in Kinds |-> <<>>]
    /\ position = [r \in Readers |-> 0]
    /\ delivered = [r \in Readers |-> <<>>]
    /\ acked = <<>>
    /\ appends = 0
    /\ errors = 0
    /\ crashes = 0
    /\ drifted = FALSE

BeginAppend(kind) ==
    /\ up
    /\ writing = Nobody
    /\ appends < MaxAppends
    /\ appends' = appends + 1
    /\ writing' = [id |-> appends', kind |-> kind]
    /\ put' = 0
    /\ UNCHANGED <<disk, up, caches, cursors, acked, errors, crashes, drifted>>

WritePiece ==
    /\ writing # Nobody
    /\ put < 3
    /\ file' = Append(file, <<writing, put + 1>>)
    /\ put' = put + 1
    /\ UNCHANGED <<synced, up, writing, caches, cursors, acked, appends, errors, crashes, drifted>>

(* A fault: append() returns before fsync.                                 *)
EndAppendUnsynced ==
    /\ writing # Nobody
    /\ put = 3
    /\ recent' = LastN(Append(recent, writing), CacheSize)
    /\ recentBy' = [recentBy EXCEPT ![writing.kind] = LastN(Append(@, writing), CacheSize)]
    /\ acked' = Append(acked, writing)
    /\ drifted' = (drifted \/ ~WholeLine(file, Len(file)))
    /\ writing' = Nobody
    /\ put' = 0
    /\ UNCHANGED <<disk, up, cursors, appends, errors, crashes>>

(* A fault: only the global cache is updated.                              *)
EndAppendUncached ==
    /\ writing # Nobody
    /\ put = 3
    /\ synced' = Len(file)
    /\ recent' = LastN(Append(recent, writing), CacheSize)
    /\ recentBy' = recentBy
    /\ acked' = Append(acked, writing)
    /\ drifted' = (drifted \/ ~WholeLine(file, Len(file)))
    /\ writing' = Nobody
    /\ put' = 0
    /\ UNCHANGED <<file, up, cursors, appends, errors, crashes>>

(* fsync, then both caches, then the lock is given back.                   *)
EndAppend ==
    /\ writing # Nobody
    /\ put = 3
    /\ synced' = Len(file)
    /\ recent' = LastN(Append(recent, writing), CacheSize)
    /\ recentBy' = [recentBy EXCEPT ![writing.kind] = LastN(Append(@, writing), CacheSize)]
    /\ acked' = Append(acked, writing)
    /\ drifted' = (drifted \/ ~WholeLine(file, Len(file)))
    /\ writing' = Nobody
    /\ put' = 0
    /\ UNCHANGED <<file, up, cursors, appends, errors, crashes>>

(* OSError from write, flush or fsync: append() raises, what was written   *)
(* stays and nothing is cached.                                            *)
FailAppend ==
    /\ writing # Nobody
    /\ errors < MaxErrors
    /\ errors' = errors + 1
    /\ drifted' = (drifted \/ put > 0)
    /\ writing' = Nobody
    /\ put' = 0
    /\ UNCHANGED <<disk, up, caches, cursors, acked, appends, crashes>>

(* A Senser's read, at any moment: read_from() does not take the lock.     *)
ReadFrom(r) ==
    /\ up
    /\ position' = [position EXCEPT ![r] = Consumed(@)]
    /\ delivered' = [delivered EXCEPT ![r] = @ \o Lines(file, position[r], position'[r])]
    /\ UNCHANGED <<disk, up, writing, put, caches, acked, appends, errors, crashes, drifted>>

(* External: the process dies; what was not synced may be gone.            *)
Crash ==
    /\ up
    /\ crashes < MaxCrashes
    /\ crashes' = crashes + 1
    /\ up' = FALSE
    /\ \E n \in synced..Len(file) : file' = SubSeq(file, 1, n)
    /\ synced' = Len(file')
    /\ writing' = Nobody
    /\ put' = 0
    /\ recent' = <<>>
    /\ recentBy' = [kind \in Kinds |-> <<>>]
    /\ position' = [r \in Readers |-> 0]
    /\ delivered' = [r \in Readers |-> <<>>]
    /\ UNCHANGED <<acked, appends, errors, drifted>>

(* A new process opens the same log: __init__ primes the caches from it;   *)
(* its readers start at offset 0.                                          *)
Reopen ==
    /\ ~up
    /\ up' = TRUE
    /\ recent' = LastN(ReadAll, CacheSize)
    /\ recentBy' = [kind \in Kinds |-> LastN(OfKind(ReadAll, kind), CacheSize)]
    /\ drifted' = FALSE
    /\ UNCHANGED <<disk, writing, put, cursors, acked, appends, errors, crashes>>

Next ==
    \/ \E kind \in Kinds : BeginAppend(kind)
    \/ WritePiece
    \/ EndAppend
    \/ FailAppend
    \/ \E r \in Readers : ReadFrom(r)
    \/ Crash
    \/ Reopen

Spec == Init /\ [][Next]_vars

-----------------------------------------------------------------------------
(* Every variable stays in its range; the caches respect their size.       *)
TypeOK ==
    /\ file \in Seq(Pieces)
    /\ synced \in 0..Len(file)
    /\ up \in BOOLEAN
    /\ writing \in Perceptions \cup {Nobody}
    /\ put \in 0..3
    /\ recent \in Seq(Perceptions) /\ Len(recent) <= CacheSize
    /\ recentBy \in [Kinds -> Seq(Perceptions)]
    /\ position \in [Readers -> Nat]
    /\ delivered \in [Readers -> Seq(Perceptions)]
    /\ acked \in Seq(Perceptions)
    /\ appends \in 0..MaxAppends
    /\ errors \in 0..MaxErrors
    /\ crashes \in 0..MaxCrashes
    /\ drifted \in BOOLEAN

(* A cursor reader gets every readable line up to its cursor once and in   *)
(* order, although it reads while lines are half written and torn ones are *)
(* continued by the next append.                                           *)
CursorIsExact ==
    \A r \in Readers :
        /\ position[r] <= Len(file)
        /\ delivered[r] = Lines(file, 0, position[r])

(* As long as this process's appends went through on a log that ended in   *)
(* a whole line, the caches answer as the file would: tail() for any size, *)
(* tail_matching() up to the size of the cache, which is never outgrown.   *)
CachesMatchFile ==
    /\ Len(recent) <= CacheSize
    /\ \A kind \in Kinds : Len(recentBy[kind]) <= CacheSize
    /\ up /\ writing = Nobody /\ ~drifted =>
        /\ \A n \in 1..(CacheSize + 1) : TailOf(n) = LastN(ReadAll, n)
        /\ \A n \in 1..CacheSize, kind \in Kinds :
            TailMatching(n, kind) = LastN(OfKind(ReadAll, kind), n)

(* What is read of the log, from a cursor or from the caches, is what was  *)
(* written: both of the above.                                             *)
LogIsReadAsWritten == CursorIsExact /\ CachesMatchFile

(* The ends of writes that were cut short: a piece that is not a newline   *)
(* and is not continued by its own line.                                   *)
Torn ==
    {i \in 1..Len(file) :
        /\ file[i][2] # 3
        /\ IF i = Len(file) THEN file[i][1] # writing
           ELSE file[i + 1] # <<file[i][1], file[i][2] + 1>>}

(* What append() acknowledged is lost only to a torn line before it, and   *)
(* one torn line costs at most one acknowledged perception.                *)
LossIsBounded ==
    Cardinality({i \in 1..Len(acked) : \A j \in 1..Len(ReadAll) : ReadAll[j] # acked[i]})
        <= Cardinality(Torn)

(* store.py:7 promises complete lines on disk and that a crash leaves no   *)
(* half line: what append() acknowledged can be read back.                 *)
AckedIsReadable ==
    \A i \in 1..Len(acked) : \E j \in 1..Len(ReadAll) : ReadAll[j] = acked[i]
=============================================================================
