---------------------------- MODULE SourceProofs ----------------------------
(***************************************************************************)
(* Theorems about the two sources that deliver what others emit:           *)
(* MergingSource, for any channels, priorities, size of the buffer and     *)
(* number of events, and YouTubeChatReader, for any chats, pages, waits    *)
(* and size of its memory that covers what the server repeats.             *)
(*                                                                         *)
(* What the pump gets of a merge and what is dropped is told from the      *)
(* buffer alone: how many events of each channel it holds, and in which    *)
(* order, through every append, eviction and hand-over.  That no reader is *)
(* forgotten rests on where its worker can be once stop() has given up on  *)
(* it.  That each message of a chat comes once rests on the memory being   *)
(* the end of what was yielded, while a page begins no further back than   *)
(* the server repeats.                                                     *)
(***************************************************************************)
EXTENDS MergingSource, YouTubeChatReader, FiniteSetTheorems, SequenceTheorems, TLAPS

Events == Channels \X Nat

-----------------------------------------------------------------------------
(* Counting the events of a channel in a sequence.                         *)
LEMMA CountIsNat ==
    ASSUME NEW s \in Seq(Events), NEW ch
    PROVE  IsFiniteSet(Of(s, ch)) /\ Count(s, ch) \in Nat
<1>1. IsFiniteSet(1..Len(s)) /\ Of(s, ch) \in SUBSET (1..Len(s))
    BY FS_Interval DEF Of
<1>2. QED BY <1>1, FS_Subset, FS_CardinalityType DEF Count

LEMMA CountOfNone == \A ch : Of(<<>>, ch) = {} /\ Count(<<>>, ch) = 0
<1>1. QED BY FS_EmptySet DEF Of, Count

LEMMA CountOfOne ==
    ASSUME NEW e \in Events, NEW ch
    PROVE  Count(<<e>>, ch) = IF e[1] = ch THEN 1 ELSE 0
<1>1. CASE e[1] = ch
  <2>1. Of(<<e>>, ch) = {1}
      BY <1>1 DEF Of
  <2>2. QED BY <1>1, <2>1, FS_Singleton DEF Count
<1>2. CASE e[1] # ch
  <2>1. Of(<<e>>, ch) = {}
      BY <1>2 DEF Of
  <2>2. QED BY <1>2, <2>1, FS_EmptySet DEF Count
<1>3. QED BY <1>1, <1>2

(* The places of the second part are shifted by the length of the first.   *)
LEMMA CountOfBoth ==
    ASSUME NEW s \in Seq(Events), NEW t \in Seq(Events), NEW ch
    PROVE  Count(s \o t, ch) = Count(s, ch) + Count(t, ch)
<1> DEFINE shifted == {i \in (Len(s) + 1)..(Len(s) + Len(t)) : t[i - Len(s)][1] = ch}
           shift == [i \in Of(t, ch) |-> i + Len(s)]
<1>1. IsFiniteSet(Of(s, ch)) /\ IsFiniteSet(Of(t, ch))
      /\ Count(s, ch) \in Nat /\ Count(t, ch) \in Nat
    BY CountIsNat
<1>2. Of(s \o t, ch) = Of(s, ch) \cup shifted
    BY ConcatProperties DEF Of
<1>3. Of(s, ch) \cap shifted = {}
    BY DEF Of
<1>4. shift \in Bijection(Of(t, ch), shifted)
  <2>1. \A i \in Of(t, ch) : i \in Int /\ shift[i] = i + Len(s) /\ shift[i] \in shifted
      BY DEF Of
  <2>2. shift \in [Of(t, ch) -> shifted]
      BY <2>1
  <2>3. \A i, j \in Of(t, ch) : shift[i] = shift[j] => i = j
      BY <2>1
  <2>4. \A k \in shifted : \E i \in Of(t, ch) : shift[i] = k
    <3> SUFFICES ASSUME NEW k \in shifted PROVE \E i \in Of(t, ch) : shift[i] = k
        OBVIOUS
    <3>1. k - Len(s) \in Of(t, ch)
        BY DEF Of
    <3>2. shift[k - Len(s)] = k
        BY <2>1, <3>1
    <3>3. QED BY <3>1, <3>2
  <2>5. QED BY <2>2, <2>3, <2>4 DEF Bijection, Injection, Surjection, IsInjective
<1>5. IsFiniteSet(shifted) /\ Cardinality(shifted) = Cardinality(Of(t, ch))
    BY <1>1, <1>4, FS_Bijection DEF ExistsBijection
<1>6. Cardinality(Of(s, ch) \cap shifted) = 0
    BY <1>3, FS_EmptySet
<1>7. Cardinality(Of(s, ch) \cup shifted) = Cardinality(Of(s, ch)) + Cardinality(shifted)
  <2> HIDE DEF shifted, shift
  <2>1. Cardinality(Of(s, ch) \cup shifted) =
          Cardinality(Of(s, ch)) + Cardinality(shifted) - Cardinality(Of(s, ch) \cap shifted)
      BY <1>1, <1>5, FS_Union
  <2>2. Cardinality(Of(s, ch)) \in Nat /\ Cardinality(shifted) \in Nat
      BY <1>1, <1>5, FS_CardinalityType
  <2>3. QED BY <1>6, <2>1, <2>2
<1>8. QED BY <1>2, <1>5, <1>7 DEF Count

LEMMA CountOfAppend ==
    ASSUME NEW s \in Seq(Events), NEW e \in Events, NEW ch
    PROVE  Count(Append(s, e), ch) = Count(s, ch) + IF e[1] = ch THEN 1 ELSE 0
<1>1. Append(s, e) = s \o <<e>> /\ <<e>> \in Seq(Events)
    BY AppendIsConcat
<1>2. Count(Append(s, e), ch) = Count(s, ch) + Count(<<e>>, ch)
    BY <1>1, CountOfBoth
<1>3. QED BY <1>2, CountOfOne

LEMMA CountOfParts ==
    ASSUME NEW s \in Seq(Events), NEW k \in 0..Len(s), NEW ch
    PROVE  /\ SubSeq(s, 1, k) \in Seq(Events) /\ SubSeq(s, k + 1, Len(s)) \in Seq(Events)
           /\ Count(s, ch) = Count(SubSeq(s, 1, k), ch) + Count(SubSeq(s, k + 1, Len(s)), ch)
<1>1. SubSeq(s, 1, k) \in Seq(Events) /\ SubSeq(s, k + 1, Len(s)) \in Seq(Events)
  <2>1. \A i \in 1..Len(s) : s[i] \in Events
      BY ElementOfSeq
  <2>2. QED BY <2>1, SubSeqProperties
<1>2. SubSeq(s, 1, k) \o SubSeq(s, k + 1, Len(s)) = s
  <2>1. Len(s) \in Nat /\ 1 \in 1..Len(s) + 1 /\ k \in (1 - 1)..Len(s) /\ Len(s) \in k..Len(s)
      BY LenProperties
  <2>2. QED BY <2>1, ConcatAdjacentSubSeq, SubSeqFull
<1>3. Count(SubSeq(s, 1, k) \o SubSeq(s, k + 1, Len(s)), ch) =
        Count(SubSeq(s, 1, k), ch) + Count(SubSeq(s, k + 1, Len(s)), ch)
    BY <1>1, CountOfBoth
<1>4. QED BY <1>1, <1>2, <1>3

(* Without the event at one place.                                         *)
Without(s, i) == SubSeq(s, 1, i - 1) \o SubSeq(s, i + 1, Len(s))

LEMMA WithoutIsShorter ==
    ASSUME NEW s \in Seq(Events), NEW i \in 1..Len(s)
    PROVE  /\ Without(s, i) \in Seq(Events)
           /\ Len(Without(s, i)) = Len(s) - 1
           /\ \A j \in 1..Len(s) - 1 : Without(s, i)[j] = s[IF j < i THEN j ELSE j + 1]
<1> DEFINE left == SubSeq(s, 1, i - 1)
           right == SubSeq(s, i + 1, Len(s))
<1>1. \A j \in 1..Len(s) : s[j] \in Events
    BY ElementOfSeq
<1>2. /\ left \in Seq(Events) /\ Len(left) = i - 1
      /\ \A j \in 1..i - 1 : left[j] = s[j]
    BY <1>1, SubSeqProperties
<1>3. /\ right \in Seq(Events) /\ Len(right) = Len(s) - i
      /\ \A j \in 1..Len(s) - i : right[j] = s[i + j]
    BY <1>1, SubSeqProperties
<1>4. Without(s, i) = left \o right
    BY DEF Without
<1> HIDE DEF left, right
<1>5. /\ left \o right \in Seq(Events)
      /\ Len(left \o right) = Len(left) + Len(right)
      /\ \A j \in 1..Len(left) + Len(right) :
            (left \o right)[j] = IF j <= Len(left) THEN left[j] ELSE right[j - Len(left)]
    BY <1>2, <1>3, ConcatProperties
<1>6. Len(s) \in Nat
    BY LenProperties
<1>7. ASSUME NEW j \in 1..Len(s) - 1
      PROVE  Without(s, i)[j] = s[IF j < i THEN j ELSE j + 1]
  <2>1. CASE j < i
      BY <1>2, <1>3, <1>4, <1>5, <1>6, <2>1
  <2>2. CASE j >= i
    <3>1. (left \o right)[j] = right[j - (i - 1)]
        BY <1>2, <1>3, <1>5, <1>6, <2>2
    <3>2. right[j - (i - 1)] = s[i + (j - (i - 1))]
        BY <1>3, <1>6, <2>2
    <3>3. QED BY <1>4, <1>6, <2>2, <3>1, <3>2
  <2>3. QED BY <1>6, <2>1, <2>2
<1>8. QED BY <1>2, <1>3, <1>4, <1>5, <1>6, <1>7

LEMMA CountWithout ==
    ASSUME NEW s \in Seq(Events), NEW i \in 1..Len(s), NEW ch
    PROVE  Count(s, ch) = Count(Without(s, i), ch) + IF s[i][1] = ch THEN 1 ELSE 0
<1> DEFINE left == SubSeq(s, 1, i - 1)
           right == SubSeq(s, i + 1, Len(s))
<1>1. /\ left \in Seq(Events) /\ SubSeq(s, i, Len(s)) \in Seq(Events)
      /\ Count(s, ch) = Count(left, ch) + Count(SubSeq(s, i, Len(s)), ch)
  <2>1. i - 1 \in 0..Len(s) /\ (i - 1) + 1 = i
      OBVIOUS
  <2>2. QED BY <2>1, CountOfParts
<1>2. right \in Seq(Events)
    BY CountOfParts
<1>3. s[i] \in Events /\ <<s[i]>> \in Seq(Events)
    BY ElementOfSeq
<1>4. SubSeq(s, i, Len(s)) = <<s[i]>> \o right
    BY SubSeqRecursiveFirst
<1>5. Count(SubSeq(s, i, Len(s)), ch) = (IF s[i][1] = ch THEN 1 ELSE 0) + Count(right, ch)
  <2>1. Count(<<s[i]>> \o right, ch) = Count(<<s[i]>>, ch) + Count(right, ch)
      BY <1>2, <1>3, CountOfBoth
  <2>2. QED BY <1>3, <1>4, <2>1, CountOfOne
<1>6. Count(Without(s, i), ch) = Count(left, ch) + Count(right, ch)
    BY <1>1, <1>2, CountOfBoth DEF Without
<1>7. Count(left, ch) \in Nat /\ Count(right, ch) \in Nat
    BY <1>1, <1>2, CountIsNat
<1> HIDE DEF left, right
<1>8. QED BY <1>1, <1>5, <1>6, <1>7

(* A set of natural numbers that is finite and not empty has a last one:   *)
(* of the sets of its members from one on, one is the smallest.            *)
LEMMA LastExists ==
    ASSUME NEW S \in SUBSET Nat, IsFiniteSet(S), S # {}
    PROVE  \E i \in S : \A j \in S : j <= i
<1> DEFINE From(i) == {j \in S : i <= j}
           T == {From(i) : i \in S}
           R == StrictSubsetOrdering(S)
<1>1. IsWellFoundedOn(R, FiniteSubsetsOf(S))
    BY FS_StrictSubsetOrderingWellFounded
<1>2. T \subseteq FiniteSubsetsOf(S)
    BY FS_Subset DEF FiniteSubsetsOf
<1>3. T # {}
    OBVIOUS
<1>4. PICK U \in T : \A V \in T : <<V, U>> \notin R
    BY <1>1, <1>2, <1>3, WFMin
<1>5. PICK i \in S : U = From(i)
    BY <1>4
<1>6. ASSUME NEW j \in S, i < j PROVE FALSE
  <2>1. /\ i \in Nat /\ j \in Nat
        /\ \A k \in From(j) : k \in S /\ k \in Nat /\ j <= k
      OBVIOUS
  <2>2. From(j) \subseteq From(i)
    <3> SUFFICES ASSUME NEW k \in From(j) PROVE k \in From(i)
        OBVIOUS
    <3>1. k \in S /\ k \in Nat /\ j <= k
        BY <2>1
    <3>2. i <= k
        BY <1>6, <2>1, <3>1
    <3>3. QED BY <3>1, <3>2
  <2>3. i \in From(i) /\ i \notin From(j)
      BY <1>6, <2>1
  <2>4. From(j) # From(i) /\ From(j) \subseteq S /\ From(i) \subseteq S
      BY <2>3
  <2>5. <<From(j), From(i)>> \in R
      BY <2>2, <2>4 DEF StrictSubsetOrdering
  <2>6. QED BY <1>4, <1>5, <2>5
<1>7. QED BY <1>6

-----------------------------------------------------------------------------
(* The invariant.                                                          *)

(* The numbers of a channel's events grow along the buffer, between the    *)
(* last one that the pump got and the last one that the reader yielded.    *)
NumbersGrow(s, had, given) ==
    \A ch \in Channels :
        /\ had[ch] <= given[ch]
        /\ \A i \in Of(s, ch) : had[ch] < s[i][2] /\ s[i][2] <= given[ch]
        /\ \A i, j \in Of(s, ch) : i < j => s[i][2] < s[j][2]

OrderKept == NumbersGrow(buffer, latest, emitted)

(* A reader that was started and not told to stop has a worker that is     *)
(* still at it; once stop() is over, that worker was reported.             *)
Reported ==
    /\ \A ch \in Channels : reader[ch] = "started" => worker[ch] \in {"starting", "reading", "unwinding"}
    /\ pump = "idle" => stopper = "idle" /\ \A ch \in Channels : worker[ch] = "none"
    /\ stopper = "stopped" =>
        \A ch \in Channels :
            /\ worker[ch] \in {"unwinding", "late", "cut", "done"}
            /\ worker[ch] = "unwinding" => "cleanup timed out" \in failures[ch]

ReaderSteps == {"idle", "started", "stopping", "released", "stopRaised"}
Causes == {"error", "cleanup timed out"}

(* What the ledger needs of the types.                                     *)
Typed ==
    /\ buffer \in Seq(Events)
    /\ produced \in [Channels -> Nat] /\ dropped \in [Channels -> Nat]
    /\ emitted \in [Channels -> Nat] /\ evicted \in [Channels -> Nat]
    /\ received \in [Channels -> Nat] /\ latest \in [Channels -> Nat]

LEMMA TypesOfLedger == TypeOK => Typed
<1>1. QED BY Zenon DEF TypeOK, Typed, Events

(* The last event of a channel that a sequence holds.                      *)
LEMMA LastOfChannel ==
    ASSUME NEW s \in Seq(Events), NEW ch \in Channels, Of(s, ch) # {}
    PROVE  LET i == CHOOSE i \in Of(s, ch) : \A j \in Of(s, ch) : j <= i
           IN  i \in Of(s, ch) /\ (\A j \in Of(s, ch) : j <= i) /\ s[i][2] \in Nat
<1>1. Of(s, ch) \in SUBSET Nat
    BY DEF Of
<1>2. \E i \in Of(s, ch) : \A j \in Of(s, ch) : j <= i
    BY <1>1, CountIsNat, LastExists
<1>3. \A i \in Of(s, ch) : s[i] \in Events
    BY ElementOfSeq DEF Of
<1>4. QED BY <1>2, <1>3 DEF Events

LEMMA HandOnTyped ==
    ASSUME Typed, NEW s \in Seq(Events), HandOn(s)
    PROVE  received' \in [Channels -> Nat] /\ latest' \in [Channels -> Nat]
<1>1. received' \in [Channels -> Nat]
  <2>1. \A ch \in Channels : received[ch] + Count(s, ch) \in Nat
      BY CountIsNat DEF Typed
  <2>2. QED BY <2>1 DEF HandOn
<1>2. latest' \in [Channels -> Nat]
  <2> DEFINE last(ch) == CHOOSE i \in Of(s, ch) : \A j \in Of(s, ch) : j <= i
  <2>1. ASSUME NEW ch \in Channels
        PROVE  (IF Of(s, ch) = {} THEN latest[ch] ELSE s[last(ch)][2]) \in Nat
    <3>1. latest[ch] \in Nat
        BY DEF Typed
    <3>2. Of(s, ch) # {} => s[last(ch)][2] \in Nat
        BY LastOfChannel
    <3> HIDE DEF last
    <3>3. QED BY <3>1, <3>2
  <2>2. latest' = [ch \in Channels |-> IF Of(s, ch) = {} THEN latest[ch] ELSE s[last(ch)][2]]
      BY DEF HandOn
  <2> HIDE DEF last
  <2>3. QED BY <2>1, <2>2
<1>3. QED BY <1>1, <1>2

-----------------------------------------------------------------------------
(* The ledger and the order through the buffer.                            *)

LEMMA GrowsAppended ==
    ASSUME NEW s \in Seq(Events), NEW had \in [Channels -> Nat], NEW given \in [Channels -> Nat],
           NumbersGrow(s, had, given), NEW c \in Channels
    PROVE  NumbersGrow(Append(s, <<c, given[c] + 1>>), had, [given EXCEPT ![c] = @ + 1])
<1> DEFINE e == <<c, given[c] + 1>>
           t == Append(s, e)
           now == [given EXCEPT ![c] = @ + 1]
<1>1. e \in Events /\ e[1] = c /\ e[2] = given[c] + 1
    BY DEF Events
<1>2. /\ Len(s) \in Nat /\ Len(t) = Len(s) + 1 /\ t[Len(s) + 1] = e
      /\ \A i \in 1..Len(s) : t[i] = s[i]
    BY <1>1, AppendProperties, LenProperties
<1>3. \A ch \in Channels : given[ch] \in Nat /\ now[ch] = IF ch = c THEN given[c] + 1 ELSE given[ch]
    OBVIOUS
<1>4. \A i \in 1..Len(s) : s[i] \in Channels \X Nat /\ s[i][2] \in Nat
    BY ElementOfSeq DEF Events
<1> HIDE DEF t, now, e
<1>5. ASSUME NEW ch \in Channels, NEW i \in Of(t, ch)
      PROVE  \/ i \in Of(s, ch) /\ t[i] = s[i]
             \/ i = Len(s) + 1 /\ ch = c /\ t[i][2] = given[c] + 1
    BY <1>1, <1>2 DEF Of
<1>6. \A ch \in Channels : \A i \in Of(s, ch) : i \in 1..Len(s)
    BY DEF Of
<1>7. ASSUME NEW ch \in Channels
      PROVE  /\ had[ch] <= now[ch]
             /\ \A i \in Of(t, ch) : had[ch] < t[i][2] /\ t[i][2] <= now[ch]
             /\ \A i, j \in Of(t, ch) : i < j => t[i][2] < t[j][2]
  <2>1. /\ had[ch] \in Nat /\ had[ch] <= given[ch] /\ given[ch] \in Nat
        /\ \A i \in Of(s, ch) : had[ch] < s[i][2] /\ s[i][2] <= given[ch] /\ s[i][2] \in Nat
        /\ \A i, j \in Of(s, ch) : i < j => s[i][2] < s[j][2]
      BY <1>3, <1>4, <1>6 DEF NumbersGrow
  <2>2. had[ch] <= now[ch]
      BY <1>3, <2>1
  <2>3. \A i \in Of(t, ch) : had[ch] < t[i][2] /\ t[i][2] <= now[ch]
      BY <1>3, <1>5, <2>1
  <2>4. ASSUME NEW i \in Of(t, ch), NEW j \in Of(t, ch), i < j PROVE t[i][2] < t[j][2]
    <3>1. i \in Of(s, ch) /\ t[i] = s[i]
        BY <1>2, <1>5, <1>6, <2>4
    <3>2. QED BY <1>5, <2>1, <2>4, <3>1
  <2>5. QED BY <2>2, <2>3, <2>4
<1>8. QED BY <1>7 DEF NumbersGrow, t, now, e

LEMMA GrowsWithout ==
    ASSUME NEW s \in Seq(Events), NEW had, NEW given, NumbersGrow(s, had, given),
           NEW k \in 1..Len(s)
    PROVE  NumbersGrow(Without(s, k), had, given)
<1> DEFINE t == Without(s, k)
           was(j) == IF j < k THEN j ELSE j + 1
<1>1. Len(s) \in Nat /\ Len(t) = Len(s) - 1 /\ \A j \in 1..Len(s) - 1 : t[j] = s[was(j)]
    BY WithoutIsShorter, LenProperties
<1> HIDE DEF t
<1>2. \A ch : \A j \in Of(t, ch) : was(j) \in Of(s, ch) /\ t[j] = s[was(j)] /\ j \in Int
    BY <1>1 DEF Of
<1>3. \A i, j \in Int : i < j => was(i) < was(j)
    OBVIOUS
<1> HIDE DEF was
<1>4. QED BY <1>2, <1>3 DEF NumbersGrow, t

(* The sums of one channel.                                                *)
LEMMA Sums ==
    ASSUME Typed, Accounting, NEW c \in Channels
    PROVE  /\ emitted[c] \in Nat /\ produced[c] \in Nat /\ received[c] \in Nat
           /\ dropped[c] \in Nat /\ evicted[c] \in Nat /\ Count(buffer, c) \in Nat
           /\ emitted[c] = received[c] + Count(buffer, c) + dropped[c]
           /\ produced[c] = received[c] + Count(buffer, c) + evicted[c]
<1>1. Count(buffer, c) \in Nat
    BY CountIsNat DEF Typed
<1>2. QED BY <1>1 DEF Typed, Accounting

LEMMA OneMore ==
    ASSUME NEW f \in [Channels -> Nat], NEW x \in Channels, NEW c \in Channels
    PROVE  [f EXCEPT ![x] = @ + 1][c] = f[c] + IF x = c THEN 1 ELSE 0
<1>1. QED OBVIOUS

(* The reader yields an event: whatever becomes of it, and of the one that *)
(* it displaces, the sums come out and the order stays.                    *)
LEMMA EmitKeeps ==
    ASSUME Typed, Accounting, OrderKept, NEW ch \in Channels, Emit(ch)
    PROVE  Accounting' /\ OrderKept'
<1> DEFINE event == <<ch, emitted[ch] + 1>>
<1>1. /\ emitted' = [emitted EXCEPT ![ch] = @ + 1] /\ UNCHANGED <<received, latest>>
      /\ event \in Events /\ event[1] = ch
    BY DEF Emit, pumpVars, got, Typed, Events
<1>2. Len(buffer) \in Nat /\ Len(buffer) <= QueueSize /\ QueueSize \in Nat
    BY LenProperties, MergeAssumption DEF Typed, Accounting
<1>4. CASE Admit(ch, event)
  <2>1. /\ Len(buffer) < QueueSize /\ buffer' = Append(buffer, event)
        /\ produced' = [produced EXCEPT ![ch] = @ + 1] /\ UNCHANGED <<dropped, evicted>>
      BY <1>4 DEF Admit
  <2>2. Len(buffer') <= QueueSize
      BY <1>1, <1>2, <2>1, AppendProperties DEF Typed
  <2>3. \A c \in Channels : Count(buffer', c) = Count(buffer, c) + IF ch = c THEN 1 ELSE 0
      BY <1>1, <2>1, CountOfAppend DEF Typed
  <2>4. Accounting'
    <3> SUFFICES ASSUME NEW c \in Channels
                 PROVE  /\ emitted'[c] = received'[c] + Count(buffer', c) + dropped'[c]
                        /\ produced'[c] = received'[c] + Count(buffer', c) + evicted'[c]
        BY <2>2 DEF Accounting
    <3>1. /\ emitted'[c] = emitted[c] + IF ch = c THEN 1 ELSE 0
          /\ produced'[c] = produced[c] + IF ch = c THEN 1 ELSE 0
        BY <1>1, <2>1, OneMore DEF Typed
    <3>2. /\ received'[c] = received[c] /\ dropped'[c] = dropped[c] /\ evicted'[c] = evicted[c]
          /\ Count(buffer', c) = Count(buffer, c) + IF ch = c THEN 1 ELSE 0
        BY <1>1, <2>1, <2>3
    <3>3. /\ emitted[c] \in Nat /\ produced[c] \in Nat /\ received[c] \in Nat
          /\ dropped[c] \in Nat /\ evicted[c] \in Nat /\ Count(buffer, c) \in Nat
          /\ emitted[c] = received[c] + Count(buffer, c) + dropped[c]
          /\ produced[c] = received[c] + Count(buffer, c) + evicted[c]
        BY Sums
    <3>4. QED BY <3>1, <3>2, <3>3
  <2>5. OrderKept'
      BY <1>1, <2>1, GrowsAppended DEF OrderKept, Typed
  <2>6. QED BY <2>4, <2>5
<1>5. CASE Evict(ch, event)
  <2>1. PICK i \in LowAt(buffer) :
            /\ buffer' = SubSeq(buffer, 1, i - 1) \o SubSeq(buffer, i + 1, Len(buffer)) \o <<event>>
            /\ dropped' = [dropped EXCEPT ![buffer[i][1]] = @ + 1]
            /\ evicted' = [evicted EXCEPT ![buffer[i][1]] = @ + 1]
      BY <1>5 DEF Evict
  <2>2. produced' = [produced EXCEPT ![ch] = @ + 1]
      BY <1>5 DEF Evict
  <2> DEFINE t == Without(buffer, i)
  <2>3. i \in 1..Len(buffer) /\ buffer[i][1] \in Channels
      BY ElementOfSeq DEF LowAt, Typed, Events
  <2>4. t \in Seq(Events) /\ Len(t) = Len(buffer) - 1
      BY <2>3, WithoutIsShorter DEF Typed
  <2>5. buffer' = Append(t, event)
      BY <1>1, <2>1, <2>4, AppendIsConcat DEF Without
  <2>6. \A c \in Channels : Count(buffer, c) = Count(t, c) + IF buffer[i][1] = c THEN 1 ELSE 0
      BY <2>3, CountWithout DEF Typed
  <2>7. NumbersGrow(t, latest, emitted)
      BY <2>3, GrowsWithout DEF Typed, OrderKept
  <2>8. \A c \in Channels : Count(t, c) \in Nat
      BY <2>4, CountIsNat
  <2> HIDE DEF t
  <2>9. Len(buffer') <= QueueSize
      BY <1>1, <1>2, <2>4, <2>5, AppendProperties
  <2>10. \A c \in Channels : Count(buffer', c) = Count(t, c) + IF ch = c THEN 1 ELSE 0
      BY <1>1, <2>4, <2>5, CountOfAppend
  <2>11. Accounting'
    <3> SUFFICES ASSUME NEW c \in Channels
                 PROVE  /\ emitted'[c] = received'[c] + Count(buffer', c) + dropped'[c]
                        /\ produced'[c] = received'[c] + Count(buffer', c) + evicted'[c]
        BY <2>9 DEF Accounting
    <3> DEFINE displaced == buffer[i][1]
    <3>1. /\ emitted'[c] = emitted[c] + IF ch = c THEN 1 ELSE 0
          /\ produced'[c] = produced[c] + IF ch = c THEN 1 ELSE 0
          /\ received'[c] = received[c]
        BY <1>1, <2>2, OneMore DEF Typed
    <3>2. /\ displaced \in Channels
          /\ dropped' = [dropped EXCEPT ![displaced] = @ + 1]
          /\ evicted' = [evicted EXCEPT ![displaced] = @ + 1]
          /\ Count(buffer, c) = Count(t, c) + IF displaced = c THEN 1 ELSE 0
        BY <2>1, <2>3, <2>6
    <3> HIDE DEF displaced
    <3>3. /\ dropped'[c] = dropped[c] + IF displaced = c THEN 1 ELSE 0
          /\ evicted'[c] = evicted[c] + IF displaced = c THEN 1 ELSE 0
        BY <3>2, OneMore DEF Typed
    <3>4. /\ emitted[c] \in Nat /\ produced[c] \in Nat /\ received[c] \in Nat
          /\ dropped[c] \in Nat /\ evicted[c] \in Nat /\ Count(buffer, c) \in Nat
          /\ emitted[c] = received[c] + Count(buffer, c) + dropped[c]
          /\ produced[c] = received[c] + Count(buffer, c) + evicted[c]
        BY Sums
    <3>5. /\ Count(t, c) \in Nat
          /\ Count(buffer', c) = Count(t, c) + IF ch = c THEN 1 ELSE 0
        BY <2>8, <2>10
    <3>6. QED BY <3>1, <3>2, <3>3, <3>4, <3>5
  <2>12. OrderKept'
      BY <1>1, <2>4, <2>5, <2>7, GrowsAppended DEF OrderKept, Typed
  <2>13. QED BY <2>11, <2>12
<1>6. CASE Refuse(ch)
  <2>1. UNCHANGED <<buffer, produced, evicted>> /\ dropped' = [dropped EXCEPT ![ch] = @ + 1]
      BY <1>6 DEF Refuse
  <2>2. Accounting'
    <3> SUFFICES ASSUME NEW c \in Channels
                 PROVE  /\ emitted'[c] = received'[c] + Count(buffer', c) + dropped'[c]
                        /\ produced'[c] = received'[c] + Count(buffer', c) + evicted'[c]
        BY <1>2, <2>1 DEF Accounting
    <3>1. /\ emitted'[c] = emitted[c] + IF ch = c THEN 1 ELSE 0
          /\ dropped'[c] = dropped[c] + IF ch = c THEN 1 ELSE 0
        BY <1>1, <2>1, OneMore DEF Typed
    <3>2. /\ received'[c] = received[c] /\ produced'[c] = produced[c] /\ evicted'[c] = evicted[c]
          /\ Count(buffer', c) = Count(buffer, c)
        BY <1>1, <2>1
    <3>3. /\ emitted[c] \in Nat /\ produced[c] \in Nat /\ received[c] \in Nat
          /\ dropped[c] \in Nat /\ evicted[c] \in Nat /\ Count(buffer, c) \in Nat
          /\ emitted[c] = received[c] + Count(buffer, c) + dropped[c]
          /\ produced[c] = received[c] + Count(buffer, c) + evicted[c]
        BY Sums
    <3>4. QED BY <3>1, <3>2, <3>3
  <2>3. OrderKept'
    <3>1. \A c \in Channels : emitted[c] \in Nat /\ latest[c] \in Nat /\ emitted[c] <= emitted'[c]
        BY <1>1 DEF Typed
    <3>2. \A c \in Channels : \A i \in Of(buffer, c) : buffer[i][2] \in Nat
        BY ElementOfSeq DEF Typed, Events, Of
    <3>3. QED BY <1>1, <2>1, <3>1, <3>2 DEF OrderKept, NumbersGrow
  <2>4. QED BY <2>2, <2>3
<1>7. QED BY <1>4, <1>5, <1>6 DEF Emit

(* The pump takes a first part of the buffer.                              *)
LEMMA HandOnKeeps ==
    ASSUME Typed, Accounting, OrderKept, NEW k \in 0..Len(buffer),
           HandOn(SubSeq(buffer, 1, k)), buffer' = SubSeq(buffer, k + 1, Len(buffer)),
           UNCHANGED counts
    PROVE  Accounting' /\ OrderKept'
<1> DEFINE s == SubSeq(buffer, 1, k)
           last(ch) == CHOOSE i \in Of(s, ch) : \A j \in Of(s, ch) : j <= i
<1>1. Len(buffer) \in Nat /\ \A i \in 1..Len(buffer) : buffer[i] \in Events
    BY LenProperties, ElementOfSeq DEF Typed
<1>2. /\ s \in Seq(Events) /\ Len(s) = k
      /\ \A i \in 1..k : s[i] = buffer[i]
    BY <1>1, SubSeqProperties
<1>3. /\ Len(buffer') = Len(buffer) - k
      /\ \A i \in 1..Len(buffer) - k : buffer'[i] = buffer[k + i]
    BY <1>1, SubSeqProperties
<1>4. \A ch : /\ Count(buffer, ch) = Count(s, ch) + Count(buffer', ch)
              /\ Count(s, ch) \in Nat /\ Count(buffer', ch) \in Nat
    BY CountOfParts, CountIsNat DEF Typed
<1>5. /\ received' = [ch \in Channels |-> received[ch] + Count(s, ch)]
      /\ latest' = [ch \in Channels |-> IF Of(s, ch) = {} THEN latest[ch] ELSE s[last(ch)][2]]
    BY DEF HandOn
<1>6. \A ch \in Channels : Of(s, ch) # {} =>
            last(ch) \in Of(s, ch) /\ s[last(ch)][2] \in Nat
    BY <1>2, LastOfChannel
<1>7. UNCHANGED <<emitted, produced, dropped, evicted>>
    BY DEF counts
<1> HIDE DEF s, last
<1>8. Accounting'
  <2>1. Len(buffer') <= QueueSize
      BY <1>1, <1>3, MergeAssumption DEF Accounting
  <2> SUFFICES ASSUME NEW c \in Channels
               PROVE  /\ emitted'[c] = received'[c] + Count(buffer', c) + dropped'[c]
                      /\ produced'[c] = received'[c] + Count(buffer', c) + evicted'[c]
      BY <2>1 DEF Accounting
  <2>2. /\ emitted'[c] = emitted[c] /\ produced'[c] = produced[c]
        /\ dropped'[c] = dropped[c] /\ evicted'[c] = evicted[c]
        /\ received'[c] = received[c] + Count(s, c)
      BY <1>5, <1>7
  <2>3. /\ emitted[c] \in Nat /\ produced[c] \in Nat /\ received[c] \in Nat
        /\ dropped[c] \in Nat /\ evicted[c] \in Nat /\ Count(buffer, c) \in Nat
        /\ emitted[c] = received[c] + Count(buffer, c) + dropped[c]
        /\ produced[c] = received[c] + Count(buffer, c) + evicted[c]
      BY Sums
  <2>4. QED BY <1>4, <2>2, <2>3
<1>9. OrderKept'
  <2>1. \A ch \in Channels : \A i \in Of(buffer', ch) :
            i \in Nat /\ i > 0 /\ k + i \in Of(buffer, ch) /\ buffer'[i] = buffer[k + i]
      BY <1>1, <1>3 DEF Of
  <2>2. \A ch \in Channels : \A i \in Of(s, ch) :
            i \in 1..k /\ i \in Of(buffer, ch) /\ s[i] = buffer[i]
      BY <1>1, <1>2 DEF Of
  <2>3. \A ch \in Channels : \A i \in Of(buffer, ch) : buffer[i][2] \in Nat
      BY <1>1 DEF Of, Events
  <2> SUFFICES ASSUME NEW c \in Channels
               PROVE  /\ latest'[c] <= emitted'[c]
                      /\ \A i \in Of(buffer', c) :
                            latest'[c] < buffer'[i][2] /\ buffer'[i][2] <= emitted'[c]
                      /\ \A i, j \in Of(buffer', c) : i < j => buffer'[i][2] < buffer'[j][2]
      BY DEF OrderKept, NumbersGrow
  <2>4. /\ latest[c] <= emitted[c] /\ emitted[c] \in Nat /\ latest[c] \in Nat
        /\ \A i \in Of(buffer, c) : latest[c] < buffer[i][2] /\ buffer[i][2] <= emitted[c]
        /\ \A i, j \in Of(buffer, c) : i < j => buffer[i][2] < buffer[j][2]
      BY DEF OrderKept, NumbersGrow, Typed
  <2>5. ASSUME NEW i \in Of(buffer', c), NEW j \in Of(buffer', c), i < j
        PROVE  buffer'[i][2] < buffer'[j][2]
    <3>1. /\ k + i \in Of(buffer, c) /\ buffer'[i] = buffer[k + i]
          /\ k + j \in Of(buffer, c) /\ buffer'[j] = buffer[k + j]
        BY <2>1
    <3>2. k + i < k + j
        BY <2>1, <2>5
    <3>3. QED BY <2>4, <3>1, <3>2
  <2>6. CASE Of(s, c) = {}
    <3>1. latest'[c] = latest[c] /\ emitted'[c] = emitted[c]
        BY <1>5, <1>7, <2>6
    <3>2. ASSUME NEW i \in Of(buffer', c)
          PROVE  latest'[c] < buffer'[i][2] /\ buffer'[i][2] <= emitted'[c]
      <4>1. k + i \in Of(buffer, c) /\ buffer'[i] = buffer[k + i]
          BY <2>1
      <4>2. QED BY <2>4, <3>1, <4>1
    <3>3. latest'[c] <= emitted'[c]
        BY <2>4, <3>1
    <3>4. QED BY <2>5, <3>2, <3>3
  <2>7. CASE Of(s, c) # {}
    <3>1. latest'[c] = s[last(c)][2] /\ emitted'[c] = emitted[c]
        BY <1>5, <1>7, <2>7
    <3>2. last(c) \in 1..k /\ last(c) \in Of(buffer, c) /\ latest'[c] = buffer[last(c)][2]
        BY <1>6, <2>2, <2>7, <3>1
    <3>3. latest'[c] <= emitted'[c]
        BY <2>4, <3>1, <3>2
    <3>4. ASSUME NEW i \in Of(buffer', c)
          PROVE  latest'[c] < buffer'[i][2] /\ buffer'[i][2] <= emitted'[c]
      <4>1. k + i \in Of(buffer, c) /\ buffer'[i] = buffer[k + i] /\ i \in Nat /\ i > 0
          BY <2>1
      <4>2. \A x \in 1..k : x < k + i
          BY <4>1
      <4>3. QED BY <2>4, <3>1, <3>2, <4>1, <4>2
    <3>5. QED BY <2>5, <3>3, <3>4
  <2>8. QED BY <2>6, <2>7
<1>10. QED BY <1>8, <1>9

LEMMA EmitTyped ==
    ASSUME Typed, NEW ch \in Channels, Emit(ch)
    PROVE  Typed'
<1> DEFINE event == <<ch, emitted[ch] + 1>>
<1>1. event \in Events /\ <<event>> \in Seq(Events)
    BY DEF Typed, Events
<1>2. UNCHANGED <<received, latest>> /\ emitted' = [emitted EXCEPT ![ch] = @ + 1]
    BY DEF Emit, pumpVars, got
<1>3. CASE Admit(ch, event)
    BY <1>1, <1>2, <1>3, AppendProperties DEF Admit, Typed
<1>4. CASE Evict(ch, event)
  <2>1. PICK i \in LowAt(buffer) :
            /\ buffer' = Without(buffer, i) \o <<event>>
            /\ dropped' = [dropped EXCEPT ![buffer[i][1]] = @ + 1]
            /\ evicted' = [evicted EXCEPT ![buffer[i][1]] = @ + 1]
      BY <1>4 DEF Evict, Without
  <2>2. produced' = [produced EXCEPT ![ch] = @ + 1]
      BY <1>4 DEF Evict
  <2>3. Without(buffer, i) \in Seq(Events)
      BY WithoutIsShorter DEF LowAt, Typed
  <2>4. buffer' \in Seq(Events)
      BY <1>1, <2>1, <2>3, ConcatProperties
  <2> DEFINE displaced == buffer[i][1]
  <2>5. displaced \in Channels
      BY ElementOfSeq DEF LowAt, Typed, Events
  <2>6. /\ dropped' = [dropped EXCEPT ![displaced] = @ + 1]
        /\ evicted' = [evicted EXCEPT ![displaced] = @ + 1]
      BY <2>1
  <2> HIDE DEF displaced
  <2>7. dropped' \in [Channels -> Nat] /\ evicted' \in [Channels -> Nat]
      BY <2>5, <2>6 DEF Typed
  <2>8. produced' \in [Channels -> Nat] /\ emitted' \in [Channels -> Nat]
      BY <1>2, <2>2 DEF Typed
  <2>9. received' \in [Channels -> Nat] /\ latest' \in [Channels -> Nat]
      BY <1>2 DEF Typed
  <2>10. QED BY <2>4, <2>7, <2>8, <2>9 DEF Typed
<1>5. CASE Refuse(ch)
    BY <1>2, <1>5 DEF Refuse, Typed
<1>6. QED BY <1>3, <1>4, <1>5 DEF Emit

Ledger == Typed /\ Accounting /\ OrderKept

LEMMA LedgerUntouched ==
    ASSUME Ledger, UNCHANGED <<buffer, counts, received, latest>>
    PROVE  Ledger'
<1>1. UNCHANGED <<produced, dropped, emitted, evicted>>
    BY DEF counts
<1>2. Typed'
    BY <1>1 DEF Ledger, Typed
<1>3. Accounting'
    BY <1>1 DEF Ledger, Accounting, Count, Of
<1>4. OrderKept'
    BY <1>1 DEF Ledger, OrderKept
<1>5. QED BY <1>2, <1>3, <1>4 DEF Ledger

LEMMA LedgerHandedOn ==
    ASSUME Ledger, NEW k \in 0..Len(buffer), HandOn(SubSeq(buffer, 1, k)),
           buffer' = SubSeq(buffer, k + 1, Len(buffer)), UNCHANGED counts
    PROVE  Ledger'
<1>1. SubSeq(buffer, 1, k) \in Seq(Events) /\ buffer' \in Seq(Events)
    BY CountOfParts DEF Ledger, Typed
<1>2. received' \in [Channels -> Nat] /\ latest' \in [Channels -> Nat]
    BY <1>1, HandOnTyped DEF Ledger
<1>3. Typed'
    BY <1>1, <1>2 DEF Ledger, Typed, counts
<1>4. QED BY <1>3, HandOnKeeps DEF Ledger

LEMMA LedgerKept == Ledger /\ [Next]_vars => Ledger'
<1> SUFFICES ASSUME Ledger, [Next]_vars PROVE Ledger'
    OBVIOUS
<1>1. ASSUME NEW ch \in Channels, Worker(ch) PROVE Ledger'
  <2>1. CASE Emit(ch)
      BY <2>1, EmitTyped, EmitKeeps DEF Ledger
  <2>2. CASE BeginReading(ch) \/ EndReading(ch) \/ DeliverCancellation(ch) \/ EndUnwinding(ch)
      BY <2>2, LedgerUntouched
      DEF BeginReading, EndReading, DeliverCancellation, EndUnwinding, pumpVars, got
  <2>3. CASE ReaderStops(ch) \/ EndWorker(ch) \/ EndCutWorker(ch)
      BY <2>3, LedgerUntouched DEF ReaderStops, EndWorker, EndCutWorker, pumpVars, got
  <2>4. QED BY <1>1, <2>1, <2>2, <2>3 DEF Worker
<1>2. CASE Drain
  <2>1. Len(buffer) \in Nat /\ SubSeq(buffer, 1, Len(buffer)) = buffer
        /\ SubSeq(buffer, Len(buffer) + 1, Len(buffer)) = <<>>
      BY LenProperties, SubSeqFull, SubSeqEmpty DEF Ledger, Typed
  <2>2. HandOn(buffer) /\ buffer' = <<>> /\ UNCHANGED counts
      BY <1>2 DEF Drain
  <2>3. Len(buffer) \in 0..Len(buffer)
      BY <2>1
  <2>4. HandOn(SubSeq(buffer, 1, Len(buffer)))
      BY <2>1, <2>2
  <2>5. QED BY <2>1, <2>2, <2>3, <2>4, LedgerHandedOn
<1>3. CASE DispatchRaises
  <2>1. PICK k \in 1..Len(buffer) :
            /\ HandOn(SubSeq(buffer, 1, k))
            /\ buffer' = SubSeq(buffer, k + 1, Len(buffer))
      BY <1>3 DEF DispatchRaises
  <2>2. UNCHANGED counts
      BY <1>3 DEF DispatchRaises
  <2>3. k \in 0..Len(buffer)
      OBVIOUS
  <2>4. QED BY <2>1, <2>2, <2>3, LedgerHandedOn
<1>4. CASE Start \/ PumpIsCancelled \/ StopEnds \/ StopTimesOut \/ StopIsCancelled
    BY <1>4, LedgerUntouched
    DEF Start, PumpIsCancelled, StopEnds, StopTimesOut, StopIsCancelled, EndStop, got
<1>5. CASE UNCHANGED vars
    BY <1>5, LedgerUntouched DEF vars, pumpVars, got
<1>6. QED BY <1>1, <1>2, <1>3, <1>4, <1>5 DEF Next

LEMMA LedgerInitially == Init => Ledger
<1> SUFFICES ASSUME Init PROVE Ledger
    OBVIOUS
<1>1. buffer = <<>> /\ \A ch : Of(buffer, ch) = {} /\ Count(buffer, ch) = 0
    BY CountOfNone DEF Init
<1>2. Typed
    BY <1>1, EmptySeq DEF Init, Typed
<1>3. Len(buffer) <= QueueSize
    BY <1>1, MergeAssumption, EmptySeq
<1>4. Accounting
    BY <1>1, <1>3 DEF Init, Accounting
<1>5. OrderKept
    BY <1>1 DEF Init, OrderKept, NumbersGrow
<1>6. QED BY <1>2, <1>4, <1>5 DEF Ledger

(* For any channels, any buffer and any number of events: what was yielded *)
(* was handed on, waits or is counted as dropped, and the pump gets each   *)
(* channel in its order, whatever was evicted in between.                  *)
THEOREM EventsAreKept == Spec => []EventsAccounted
<1>1. Ledger => EventsAccounted
  <2>1. OrderKept => InOrder
      BY DEF OrderKept, NumbersGrow, InOrder
  <2>2. QED BY <2>1 DEF Ledger, EventsAccounted
<1>2. QED BY LedgerInitially, LedgerKept, <1>1, PTL DEF Spec

-----------------------------------------------------------------------------
(* The priority channels.                                                  *)

LEMMA EmitSparesPriority ==
    ASSUME Typed, NEW ch \in Channels, Emit(ch), NEW c \in Channels \cap Priority,
           dropped'[c] # dropped[c]
    PROVE  \A i \in 1..Len(buffer) : buffer[i][1] \in Priority
<1> DEFINE event == <<ch, emitted[ch] + 1>>
<1>1. CASE Admit(ch, event)
    BY <1>1 DEF Admit
<1>2. CASE Evict(ch, event)
  <2>1. PICK i \in LowAt(buffer) : dropped' = [dropped EXCEPT ![buffer[i][1]] = @ + 1]
      BY <1>2 DEF Evict
  <2>2. buffer[i][1] # c
      BY DEF LowAt
  <2>3. dropped'[c] = dropped[c]
      BY <2>1, <2>2 DEF Typed
  <2>4. QED BY <2>3
<1>3. CASE Refuse(ch)
  <2>1. dropped' = [dropped EXCEPT ![ch] = @ + 1]
      BY <1>3 DEF Refuse
  <2>2. c = ch
      BY <2>1 DEF Typed
  <2>3. LowAt(buffer) = {}
      BY <1>3, <2>2 DEF Refuse
  <2>4. QED BY <2>3 DEF LowAt
<1>4. QED BY <1>1, <1>2, <1>3 DEF Emit

LEMMA StepSparesPriority ==
    ASSUME Ledger, [Next]_vars, NEW c \in Channels \cap Priority, dropped'[c] # dropped[c]
    PROVE  \A i \in 1..Len(buffer) : buffer[i][1] \in Priority
<1>1. ASSUME NEW ch \in Channels, Worker(ch), ~Emit(ch) PROVE dropped' = dropped
    BY <1>1 DEF Worker, BeginReading, EndReading, DeliverCancellation, EndUnwinding, ReaderStops,
                EndWorker, EndCutWorker, counts
<1>2. CASE \/ Start \/ Drain \/ DispatchRaises \/ PumpIsCancelled
           \/ StopEnds \/ StopTimesOut \/ StopIsCancelled
    BY <1>2 DEF Start, Drain, DispatchRaises, PumpIsCancelled, StopEnds, StopTimesOut,
                StopIsCancelled, EndStop, counts
<1>3. CASE UNCHANGED vars
    BY <1>3 DEF vars, counts
<1>4. QED BY <1>1, <1>2, <1>3, EmitSparesPriority DEF Next, Ledger

(* Whoever is waiting or has to stop meanwhile: an event of a priority     *)
(* channel is lost only when the buffer holds nothing but such events.     *)
THEOREM PriorityIsSpared == Spec => PriorityIsKept
<1>1. Ledger /\ [Next]_vars =>
        [\A ch \in Channels \cap Priority :
            dropped'[ch] # dropped[ch] => \A i \in 1..Len(buffer) : buffer[i][1] \in Priority]_vars
    BY StepSparesPriority
<1>2. QED BY LedgerInitially, LedgerKept, <1>1, PTL DEF Spec, PriorityIsKept

-----------------------------------------------------------------------------
(* The readers that stop() leaves.                                         *)

Watched ==
    /\ worker \in [Channels -> Places]
    /\ reader \in [Channels -> ReaderSteps]
    /\ failures \in [Channels -> SUBSET Causes]
    /\ Reported

(* What a worker does: it starts a reader only from "created", and leaves  *)
(* one behind only by closing it.                                          *)
LEMMA WorkerKeepsWatch ==
    ASSUME Watched, NEW ch \in Channels, Worker(ch)
    PROVE  Watched'
<1> USE DEF Watched, Reported, Places, ReaderSteps, Causes, Goes, Close, Note
<1>1. CASE BeginReading(ch)
    BY <1>1 DEF BeginReading, noted, pumpVars
<1>2. CASE Emit(ch)
    BY <1>2 DEF Emit, noted, taskVars, pumpVars
<1>3. CASE EndReading(ch)
    BY <1>3 DEF EndReading, noted, pumpVars
<1>4. CASE DeliverCancellation(ch)
    BY <1>4 DEF DeliverCancellation, noted, pumpVars
<1>5. CASE EndUnwinding(ch)
    BY <1>5 DEF EndUnwinding, noted, pumpVars
<1>6. CASE ReaderStops(ch)
    BY <1>6 DEF ReaderStops, noted, pumpVars
<1>7. CASE EndWorker(ch)
  <2>1. /\ worker[ch] \in {"closing", "late"} /\ worker' = [worker EXCEPT ![ch] = "done"]
        /\ UNCHANGED <<reader, pump, stopper>>
      BY <1>7 DEF EndWorker, pumpVars
  <2>2. \/ UNCHANGED failures
        \/ \E what \in Causes : failures' = [failures EXCEPT ![ch] = @ \cup {what}]
      BY <1>7 DEF EndWorker, NoteClosing
  <2>3. /\ failures' \in [Channels -> SUBSET Causes]
        /\ \A c \in Channels : failures[c] \subseteq failures'[c]
    <3>1. CASE UNCHANGED failures
        BY <3>1
    <3>2. ASSUME NEW what \in Causes, failures' = [failures EXCEPT ![ch] = @ \cup {what}]
          PROVE  /\ failures' \in [Channels -> SUBSET Causes]
                 /\ \A c \in Channels : failures[c] \subseteq failures'[c]
      <4>1. failures[ch] \cup {what} \in SUBSET Causes
          OBVIOUS
      <4>2. \A c \in Channels :
                failures'[c] = IF c = ch THEN failures[c] \cup {what} ELSE failures[c]
          BY <3>2
      <4>3. failures' \in [Channels -> SUBSET Causes]
          BY <3>2, <4>1
      <4>4. \A c \in Channels : failures[c] \subseteq failures'[c]
          BY <4>2
      <4>5. QED BY <4>3, <4>4
    <3>3. QED BY <2>2, <3>1, <3>2
  <2>4. worker' \in [Channels -> Places] /\ reader' \in [Channels -> ReaderSteps]
      BY <2>1
  <2>5. Reported'
      BY <2>1, <2>3
  <2>6. QED BY <2>3, <2>4, <2>5
<1>8. CASE EndCutWorker(ch)
    BY <1>8 DEF EndCutWorker, noted, pumpVars
<1>9. QED BY <1>1, <1>2, <1>3, <1>4, <1>5, <1>6, <1>7, <1>8 DEF Worker

LEMMA StopKeepsWatch ==
    ASSUME Watched,
           Start \/ Drain \/ DispatchRaises \/ PumpIsCancelled \/ StopEnds \/ StopTimesOut
           \/ StopIsCancelled
    PROVE  Watched'
<1> USE DEF Watched, Reported, Places, ReaderSteps, Causes
<1>1. CASE Start
    BY <1>1 DEF Start, noted
<1>2. CASE Drain
    BY <1>2 DEF Drain, BeginStop, noted
<1>3. CASE DispatchRaises \/ PumpIsCancelled
    BY <1>3 DEF DispatchRaises, PumpIsCancelled, BeginStop, noted
<1>4. CASE StopEnds
    BY <1>4 DEF StopEnds, EndStop, noted
<1>5. CASE StopTimesOut
    BY <1>5 DEF StopTimesOut, EndStop
<1>6. CASE StopIsCancelled
    BY <1>6 DEF StopIsCancelled, noted, taskVars
<1>7. QED BY <1>1, <1>2, <1>3, <1>4, <1>5, <1>6

LEMMA WatchKept == Watched /\ [Next]_vars => Watched'
<1> SUFFICES ASSUME Watched, [Next]_vars PROVE Watched'
    OBVIOUS
<1>1. CASE UNCHANGED vars
    BY <1>1 DEF vars, noted, taskVars, pumpVars, Watched, Reported
<1>2. QED BY <1>1, WorkerKeepsWatch, StopKeepsWatch DEF Next

(* However many readers hang, wherever they hang and whoever is cancelled: *)
(* a stop() that has returned has told each of them, or reports it.        *)
THEOREM ReadersAreRemembered == Spec => []NoReaderForgotten
<1>1. Init => Watched
    BY DEF Init, Watched, Reported, Places, ReaderSteps, Causes
<1>2. Watched => NoReaderForgotten
    BY DEF Watched, Reported, NoReaderForgotten
<1>3. QED BY <1>1, <1>2, WatchKept, PTL DEF Spec

-----------------------------------------------------------------------------
(* A message is its chat and its number in it.                             *)
Messages == Chats \X (1..ChatLength)

(* What the pump got, and what it will still get from this page.           *)
Delivered == {delivered[i] : i \in 1..Len(delivered)}
Waiting == {page[i] : i \in 1..Len(page)}

(* The types, and where there is a chat and a page.                        *)
ReaderTypes ==
    /\ place \in ReaderPlaces
    /\ liveChat \in Chats \cup {NoChat}
    /\ place \in {"pacing", "listing", "listLater", "yielding"} => liveChat \in Chats
    /\ place \notin {"yielding", "over"} => page = <<>>
    /\ token \in {NoToken} \cup 0..ChatLength
    /\ posted \in [Chats -> 0..ChatLength]
    /\ page \in Seq(Messages)
    /\ seen \in Seq(Messages)
    /\ delivered \in Seq(Messages)
    /\ served \subseteq Messages
    /\ \A m \in served : m[2] <= posted[m[1]]

(* The memory is the end of what was yielded, as long as it may be.        *)
IsEndOf(s, t) ==
    /\ Len(s) = Least(Len(t), DedupCapacity)
    /\ \A k \in 1..Len(s) : s[k] = t[Len(t) - Len(s) + k]

(* Messages that are one chat's are as far apart in number as in place,    *)
(* and those of the chat being read come last.                             *)
Spaced ==
    \A i, j \in 1..Len(delivered) :
        /\ i <= j /\ delivered[i][1] = delivered[j][1] => delivered[j][2] >= delivered[i][2] + (j - i)
        /\ i <= j /\ delivered[i][1] = liveChat => delivered[j][1] = liveChat

(* Of the chat being read the server has shown all that it still repeats   *)
(* of the first top messages, and nothing after them.                      *)
Known(top) ==
    /\ token \in {NoToken, top}
    /\ liveChat \in Chats => top <= posted[liveChat]
    /\ \A n \in 1..ChatLength : <<liveChat, n>> \in served => n <= top
    /\ \A n \in 1..top : n > top - Replay => <<liveChat, n>> \in served

(* What was served is what was yielded or waits to be.                     *)
NothingSkipped ==
    place # "over" =>
        /\ served = Delivered \cup Waiting
        /\ \E top \in 0..ChatLength : Known(top)

(* The rest of a page: consecutive messages; what is after its first and   *)
(* was yielded leaves no gap, and is still remembered.                     *)
PageInv ==
    place = "yielding" /\ page # <<>> =>
        LET a == page[1][2] IN
        /\ \A i \in 1..Len(page) : page[i] = <<liveChat, a + i - 1>>
        /\ \A n, m \in 1..ChatLength :
            a <= n /\ n <= m /\ <<liveChat, m>> \in Delivered => <<liveChat, n>> \in Delivered
        /\ \A i \in 1..Len(delivered) :
            delivered[i][1] = liveChat /\ delivered[i][2] >= a => i > Len(delivered) - Len(seen)

(* The invariant of the messages, and then that of the waits.              *)
OnceInv == ReaderTypes /\ IsEndOf(seen, delivered) /\ Spaced /\ NothingSkipped /\ PageInv

(* While it waits, the rest of the wait makes up for what is missing.      *)
Paced ==
    /\ retries \in Nat /\ since \in Nat /\ pause \in Nat /\ nextWait \in Nat /\ advertised \in {0} \cup PollIntervals
    /\ place = "idle" => token = NoToken
    /\ token # NoToken => nextWait = advertised
    /\ place \in {"listing", "resolving", "resolveLater"} /\ token # NoToken => since >= advertised
    /\ place \in {"pacing", "listLater"} /\ token # NoToken => since + pause >= advertised

(* Where the sender writes is set where the chat is resolved, only.        *)
LEMMA TargetKept ==
    ASSUME TargetIsRead, [ReaderNext]_readerVars
    PROVE  TargetIsRead'
<1> USE DEF TargetIsRead, End, Resolve, Turn, cursor
<1>1. CASE BeginEvents \/ EndWait \/ StopReader \/ CloseEvents
    BY <1>1 DEF BeginEvents, EndWait, StopReader, CloseEvents
<1>2. CASE BackOff \/ GiveUp \/ NothingToRead
    BY <1>2 DEF BackOff, GiveUp, NothingToRead
<1>3. CASE RefuseToken \/ LoseChat \/ CloseChat
    BY <1>3 DEF RefuseToken, LoseChat, CloseChat
<1>4. CASE Page
    BY <1>4 DEF Page
<1>5. CASE \E c \in Chats : Resolved(c)
    BY <1>5 DEF Resolved
<1>6. CASE Yield \/ EndPage \/ TimePasses \/ \E c \in Chats : Post(c)
    BY <1>6 DEF Yield, EndPage, TimePasses, Post
<1>7. CASE UNCHANGED readerVars
    BY <1>7 DEF readerVars
<1>8. QED BY <1>1, <1>2, <1>3, <1>4, <1>5, <1>6, <1>7 DEF ReaderNext, ReaderStep, Answered

(* The sender writes to the chat that the reader reads, or to none.        *)
THEOREM TheTargetIsRead == ReaderSpec => []TargetIsRead
<1>1. ReaderInit => TargetIsRead
    BY DEF ReaderInit, TargetIsRead
<1>2. QED BY <1>1, TargetKept, PTL DEF ReaderSpec

-----------------------------------------------------------------------------
(* There is a longest wait.                                                *)
LEMMA LongestIsLongest ==
    LongestWait \in Nat /\ \A wait \in PollIntervals \cup {RetryMax} : wait <= LongestWait
<1> DEFINE waits == PollIntervals \cup {RetryMax}
<1>1. \E d \in waits : \A e \in waits : e <= d
    BY ReaderAssumption
<1>2. LongestWait \in waits /\ \A e \in waits : e <= LongestWait
    BY <1>1 DEF LongestWait
<1>3. QED BY <1>2, ReaderAssumption

(* A sum is enough when a part of it is.                                   *)
LEMMA SumIsEnough ==
    ASSUME NEW x \in Nat, NEW y \in Nat, NEW z \in Nat, x >= z \/ y >= z
    PROVE  x + y >= z
OBVIOUS

(* A repetition waits at least as long as it must.                         *)
LEMMA DelayIsLongEnough ==
    ASSUME NEW least \in Nat, retries \in Nat, NEW delay \in Delays(least)
    PROVE  delay \in Nat /\ delay >= least
<1> DEFINE step == Least(RetryBase * 2 ^ retries, RetryMax)
<1>1. step \in Int
    BY ReaderAssumption DEF Least
<1>2. PICK j \in 0..(step \div 4) : delay = Greatest(Least(step + j, RetryMax), least)
    BY DEF Delays
<1>3. Least(step + j, RetryMax) \in Int
    BY <1>1, <1>2, ReaderAssumption DEF Least
<1>4. QED BY <1>2, <1>3 DEF Greatest

(* Every step of the reader keeps the promise about its next request.      *)
LEMMA PacedKept ==
    ASSUME Paced, [ReaderNext]_readerVars
    PROVE  Paced'
<1> USE DEF Paced
<1>1. CASE BeginEvents \/ RefuseToken \/ LoseChat \/ CloseChat
    BY <1>1 DEF BeginEvents, RefuseToken, LoseChat, CloseChat, Resolve, End, cursor
<1>2. CASE GiveUp \/ NothingToRead \/ CloseEvents \/ StopReader
    BY <1>2 DEF GiveUp, NothingToRead, CloseEvents, StopReader, End, cursor
<1>3. CASE BackOff
  <2>1. retries' \in Nat /\ UNCHANGED <<token, nextWait, advertised>>
      BY <1>3 DEF BackOff, cursor
  <2>2. CASE place = "resolving"
    <3>1. pause' \in Nat /\ since' = since /\ place' = "resolveLater"
        BY <1>3, <2>2, DelayIsLongEnough DEF BackOff
    <3>2. QED BY <2>1, <2>2, <3>1
  <2>3. CASE place = "listing"
    <3>1. pause' \in Nat /\ pause' >= nextWait /\ since' = 0 /\ place' = "listLater"
        BY <1>3, <2>3, DelayIsLongEnough DEF BackOff
    <3>2. token' # NoToken => pause' >= advertised'
        BY <2>1, <3>1
    <3>3. since' \in Nat /\ pause' \in Nat /\ advertised' \in Nat
        BY <2>1, <3>1, ReaderAssumption
    <3>4. token' # NoToken => since' + pause' >= advertised'
        BY <3>2, <3>3, SumIsEnough
    <3>5. QED BY <2>1, <3>1, <3>3, <3>4
  <2>4. QED BY <1>3, <2>2, <2>3 DEF BackOff
<1>4. CASE Page
  <2>1. /\ place' \in {"yielding", "over"}
        /\ since' \in {0, since} /\ pause' \in {0, pause} /\ retries' = retries
        /\ \/ nextWait' \in PollIntervals /\ advertised' = nextWait'
           \/ UNCHANGED <<nextWait, advertised, token>>
      BY <1>4 DEF Page, End
  <2>2. /\ since' \in Nat /\ pause' \in Nat /\ nextWait' \in Nat /\ retries' \in Nat
        /\ advertised' \in {0} \cup PollIntervals
        /\ token' # NoToken => nextWait' = advertised'
    <3>1. since' \in Nat /\ pause' \in Nat /\ retries' \in Nat
        BY <2>1
    <3>2. CASE nextWait' \in PollIntervals /\ advertised' = nextWait'
        BY <3>1, <3>2, ReaderAssumption
    <3>3. CASE UNCHANGED <<nextWait, advertised, token>>
        BY <3>1, <3>3
    <3>4. QED BY <2>1, <3>2, <3>3
  <2>3. QED BY <2>1, <2>2
<1>5. CASE \E c \in Chats : Resolved(c)
    BY <1>5 DEF Resolved, Turn, End
<1>6. CASE EndWait
    BY <1>6 DEF EndWait, End, cursor
<1>7. CASE EndPage
  <2>1. CASE place' = "over"
      BY <1>7, <2>1 DEF EndPage, End, Turn, cursor
  <2>2. CASE place' # "over"
    <3>1. /\ token # NoToken /\ UNCHANGED <<token, nextWait, advertised, since>>
          /\ pause' = nextWait /\ retries' = 0
          /\ place' = IF nextWait = 0 THEN "listing" ELSE "pacing"
        BY <1>7, <2>2 DEF EndPage, End, Turn, cursor
    <3>2. since >= 0 /\ nextWait = advertised /\ since + nextWait >= advertised
        BY <3>1
    <3>3. since' + pause' >= advertised' /\ (nextWait = 0 => since' >= advertised')
        BY <3>1, <3>2
    <3>4. QED BY <3>1, <3>3
  <2>3. QED BY <2>1, <2>2
<1>8. CASE TimePasses
  <2>1. UNCHANGED <<place, token, nextWait, advertised, retries>> /\ pause' = pause - 1 /\ pause > 0
      BY <1>8 DEF TimePasses, cursor
  <2>2. since' = Least(since + 1, LongestWait)
      BY <1>8 DEF TimePasses
  <2>3. advertised \in Nat /\ advertised <= LongestWait
      BY LongestIsLongest, ReaderAssumption
  <2>4. pause' \in Nat /\ since' \in Nat /\ (since' = since + 1 \/ since' >= advertised)
        /\ (since >= advertised => since' >= advertised)
      BY <2>1, <2>2, <2>3, LongestIsLongest DEF Least
  <2>5. place \in {"pacing", "listLater"} /\ token # NoToken => since' + pause' >= advertised
    <3>1. CASE since' = since + 1
        BY <2>1, <3>1
    <3>2. CASE since' >= advertised
        BY <2>3, <2>4, <3>2, SumIsEnough
    <3>3. QED BY <2>4, <3>1, <3>2
  <2>6. QED BY <2>1, <2>3, <2>4, <2>5
<1>9. CASE Yield \/ (\E c \in Chats : Post(c)) \/ UNCHANGED readerVars
    BY <1>9 DEF Yield, Post, readerVars, cursor
<1>10. QED BY <1>1, <1>2, <1>3, <1>4, <1>5, <1>6, <1>7, <1>8, <1>9 DEF ReaderNext, ReaderStep, Answered

(* A request that goes on from a page comes no earlier than the server     *)
(* asked for, also when it is a repetition of one that failed.             *)
THEOREM NoPollIsEarly == ReaderSpec => NeverPollsEarly
<1>1. ReaderInit => Paced
  <2>1. LongestWait \in Nat
      BY LongestIsLongest
  <2>2. QED BY <2>1 DEF ReaderInit, Paced
<1>2. ASSUME Paced, [ReaderNext]_readerVars
      PROVE  [place' = "listing" /\ place # "listing" /\ token # NoToken => since >= advertised]_readerVars
  <2>1. SUFFICES ASSUME place' = "listing", place # "listing", token # NoToken, ReaderNext
                 PROVE  since >= advertised
      BY <1>2 DEF readerVars
  <2>2. CASE EndWait
      BY <1>2, <2>1, <2>2 DEF EndWait, Paced, End
  <2>3. CASE EndPage
    <3>1. nextWait = 0 /\ place = "yielding"
        BY <2>1, <2>3 DEF EndPage, End, Turn
    <3>2. QED BY <1>2, <2>1, <3>1, ReaderAssumption DEF Paced
  <2>4. CASE \E c \in Chats : Resolved(c)
      BY <1>2, <2>1, <2>4 DEF Resolved, Paced
  <2>5. ~(BeginEvents \/ StopReader \/ CloseEvents \/ \E c \in Chats : Post(c))
      BY <2>1 DEF BeginEvents, StopReader, CloseEvents, Post, Resolve, End
  <2>6. ~(BackOff \/ GiveUp \/ NothingToRead \/ RefuseToken \/ LoseChat \/ CloseChat)
      BY <2>1 DEF BackOff, GiveUp, NothingToRead, RefuseToken, LoseChat, CloseChat, Resolve, End
  <2>7. ~(Page \/ Yield \/ TimePasses)
      BY <2>1 DEF Page, Yield, TimePasses, End
  <2>8. QED BY <2>1, <2>2, <2>3, <2>4, <2>5, <2>6, <2>7 DEF ReaderNext, ReaderStep, Answered
<1>3. QED BY <1>1, <1>2, PacedKept, PTL DEF ReaderSpec, NeverPollsEarly

-----------------------------------------------------------------------------
(* One more message, and the memory is again the end of what was yielded.  *)
LEMMA MemoryKept ==
    ASSUME NEW S, seen \in Seq(S), delivered \in Seq(S), NEW x \in S, IsEndOf(seen, delivered)
    PROVE  Remember(x) \in Seq(S) /\ IsEndOf(Remember(x), Append(delivered, x))
<1> DEFINE l == Len(seen)
           n == Len(delivered)
           longer == Append(seen, x)
           more == Append(delivered, x)
<1>1. l \in Nat /\ n \in Nat /\ DedupCapacity \in Nat \ {0} /\ l = Least(n, DedupCapacity)
    BY ReaderAssumption DEF IsEndOf
<1>2. longer \in Seq(S) /\ Len(longer) = l + 1 /\ more \in Seq(S) /\ Len(more) = n + 1
    OBVIOUS
<1>3. ASSUME NEW k \in 1..(l + 1)
      PROVE  longer[k] = more[n - l + k]
  <2>1. CASE k = l + 1
    <3>1. n - l + k = n + 1
        BY <1>1, <2>1
    <3>2. QED BY <2>1, <3>1
  <2>2. CASE k \in 1..l
    <3>1. n - l + k \in 1..n
        BY <1>1, <2>2 DEF Least
    <3>2. longer[k] = seen[k] /\ more[n - l + k] = delivered[n - l + k]
        BY <2>2, <3>1
    <3>3. QED BY <2>2, <3>2 DEF IsEndOf
  <2>3. k = l + 1 \/ k \in 1..l
      BY <1>1
  <2>4. QED BY <2>1, <2>2, <2>3
<1>4. CASE l + 1 > DedupCapacity
  <2>1. Remember(x) = Tail(longer) /\ l = DedupCapacity /\ l <= n
      BY <1>1, <1>2, <1>4 DEF Remember, Least
  <2>2. longer # <<>>
      BY <1>1, <1>2
  <2>3. Tail(longer) \in Seq(S) /\ Len(Tail(longer)) = l
      BY <1>1, <1>2, <2>2
  <2>4. ASSUME NEW k \in 1..l PROVE Tail(longer)[k] = more[(n + 1) - l + k]
    <3>1. k + 1 \in 1..(l + 1) /\ n - l + (k + 1) = (n + 1) - l + k
        BY <1>1
    <3>2. Tail(longer)[k] = longer[k + 1]
        BY <1>1, <1>2, <2>2
    <3>3. QED BY <1>3, <3>1, <3>2
  <2>5. l = Least(n + 1, DedupCapacity)
      BY <1>1, <2>1 DEF Least
  <2>6. QED BY <1>2, <2>1, <2>3, <2>4, <2>5 DEF IsEndOf
<1>5. CASE ~(l + 1 > DedupCapacity)
  <2>1. Remember(x) = longer /\ l = n
      BY <1>1, <1>2, <1>5 DEF Remember, Least
  <2>2. l + 1 = Least(n + 1, DedupCapacity) /\ (n + 1) - (l + 1) = n - l
      BY <1>1, <1>5, <2>1 DEF Least
  <2>3. QED BY <1>2, <1>3, <2>1, <2>2 DEF IsEndOf
<1>6. QED BY <1>4, <1>5

(* A step that posts nothing takes nothing back.                           *)
LEMMA SameIsNoLess == OnceInv => \A d \in Chats : posted[d] <= posted[d]
<1>1. OnceInv => \A d \in Chats : posted[d] \in 0..ChatLength
    BY DEF OnceInv, ReaderTypes
<1>2. QED BY <1>1, ReaderAssumption

(* Steps that read nothing of a page.                                      *)
LEMMA NothingNew ==
    ASSUME OnceInv, UNCHANGED <<page, seen, served, delivered, liveChat>>,
           token' \in {token, NoToken}, place' \in ReaderPlaces,
           posted' \in [Chats -> 0..ChatLength],
           \A c \in Chats : posted[c] <= posted'[c],
           place' # "over" => /\ place # "over"
                              /\ place' = "yielding" => place = "yielding"
                              /\ place = "yielding" /\ place' # "yielding" => page = <<>>,
           place' \in {"pacing", "listing", "listLater", "yielding"} => liveChat \in Chats
    PROVE  OnceInv'
<1>1. ReaderTypes'
  <2>1. \A m \in served : m[2] <= posted'[m[1]]
    <3>1. ASSUME NEW m \in served PROVE m[2] <= posted'[m[1]]
      <4>1. m[1] \in Chats /\ m[2] \in Int /\ m[2] <= posted[m[1]]
          BY DEF OnceInv, ReaderTypes, Messages
      <4>2. posted[m[1]] \in Int /\ posted'[m[1]] \in Int /\ posted[m[1]] <= posted'[m[1]]
          BY <4>1 DEF OnceInv, ReaderTypes
      <4>3. QED BY <4>1, <4>2
    <3>2. QED BY <3>1
  <2>2. QED BY <2>1 DEF OnceInv, ReaderTypes
<1>2. IsEndOf(seen, delivered)' /\ Spaced'
    BY DEF OnceInv, IsEndOf, Spaced
<1>3. NothingSkipped'
  <2>1. SUFFICES ASSUME place' # "over" PROVE NothingSkipped'
      BY DEF NothingSkipped
  <2>2. PICK top \in 0..ChatLength : Known(top)
      BY <2>1 DEF OnceInv, NothingSkipped
  <2>3. liveChat \in Chats => top <= posted'[liveChat]
    <3>1. ASSUME liveChat \in Chats PROVE top <= posted'[liveChat]
      <4>1. top <= posted[liveChat] /\ posted[liveChat] <= posted'[liveChat]
          BY <2>2, <3>1 DEF Known
      <4>2. posted[liveChat] \in Int /\ posted'[liveChat] \in Int
          BY <3>1 DEF OnceInv, ReaderTypes
      <4>3. QED BY <4>1, <4>2
    <3>2. QED BY <3>1
  <2>4. Known(top)'
      BY <2>2, <2>3 DEF Known
  <2>5. QED BY <2>1, <2>4 DEF OnceInv, NothingSkipped, Delivered, Waiting
<1>4. PageInv'
    BY DEF OnceInv, PageInv, Delivered
<1>5. QED BY <1>1, <1>2, <1>3, <1>4 DEF OnceInv

LEMMA ResolvedKeeps ==
    ASSUME OnceInv, NEW c \in Chats, Resolved(c)
    PROVE  OnceInv'
<1>1. UNCHANGED <<page, seen, served, delivered, posted>> /\ place = "resolving"
    BY DEF Resolved, items
<1>2. CASE place' = "over"
  <2>1. UNCHANGED <<liveChat, token>>
      BY <1>2 DEF Resolved, Turn
  <2>2. \A d \in Chats : posted[d] <= posted'[d]
      BY <1>1, SameIsNoLess
  <2>3. QED BY <1>1, <1>2, <2>1, <2>2, NothingNew DEF OnceInv, ReaderTypes, ReaderPlaces
<1>3. CASE place' # "over"
  <2>1. /\ place' = "listing" /\ liveChat' = c /\ token' = NoToken
        /\ c = liveChat \/ \A m \in served : m[1] # c
      BY <1>3 DEF Resolved, Turn, End
  <2>2. CASE c = liveChat
    <3>1. \A d \in Chats : posted[d] <= posted'[d]
        BY <1>1, SameIsNoLess
    <3>2. QED BY <1>1, <2>1, <2>2, <3>1, NothingNew DEF OnceInv, ReaderTypes, ReaderPlaces
  <2>3. CASE \A m \in served : m[1] # c
    <3>1. page = <<>> /\ served = Delivered
      <4>1. page = <<>> /\ served = Delivered \cup Waiting
          BY <1>1 DEF OnceInv, ReaderTypes, NothingSkipped
      <4>2. QED BY <4>1 DEF Waiting
    <3>2. \A i \in 1..Len(delivered) : delivered[i][1] # c
        BY <2>3, <3>1 DEF Delivered
    <3>3. ReaderTypes' /\ IsEndOf(seen, delivered)' /\ PageInv'
        BY <1>1, <2>1, <3>1 DEF OnceInv, ReaderTypes, IsEndOf, PageInv, ReaderPlaces
    <3>4. Spaced'
        BY <1>1, <2>1, <3>2 DEF OnceInv, Spaced
    <3>5. Known(0)'
      <4>1. posted[c] \in 0..ChatLength
          BY DEF OnceInv, ReaderTypes
      <4>2. QED BY <1>1, <2>1, <2>3, <4>1, ReaderAssumption DEF Known
    <3>6. NothingSkipped'
        BY <1>1, <3>1, <3>5, ReaderAssumption DEF OnceInv, NothingSkipped, Delivered, Waiting
    <3>7. QED BY <3>3, <3>4, <3>6 DEF OnceInv
  <2>4. QED BY <2>1, <2>2, <2>3
<1>4. QED BY <1>2, <1>3

LEMMA YieldKeeps ==
    ASSUME OnceInv, Yield
    PROVE  OnceInv'
<1> DEFINE n == Len(delivered)
           h == Head(page)
           a == page[1][2]
<1>1. /\ place = "yielding" /\ page # <<>> /\ page' = Tail(page)
      /\ UNCHANGED <<place, liveChat, token, served, posted>>
    BY DEF Yield, cursor
<1>2. /\ page \in Seq(Messages) /\ seen \in Seq(Messages) /\ delivered \in Seq(Messages)
      /\ n \in Nat /\ liveChat \in Chats /\ Len(page) \in Nat /\ Len(page) >= 1
    BY <1>1 DEF OnceInv, ReaderTypes
<1>3. /\ h = page[1] /\ Tail(page) \in Seq(Messages) /\ Len(Tail(page)) = Len(page) - 1
      /\ \A i \in 1..(Len(page) - 1) : Tail(page)[i] = page[i + 1]
    BY <1>1, <1>2
<1>4. h = <<liveChat, a>> /\ h \in Messages /\ a \in 1..ChatLength
  <2>1. page[1] = <<liveChat, a + 1 - 1>>
      BY <1>1, <1>2 DEF OnceInv, PageInv
  <2>2. page[1] \in Messages
      BY <1>2
  <2>3. a \in 1..ChatLength
      BY <2>2 DEF Messages
  <2>4. a + 1 - 1 = a
      BY <2>3, ReaderAssumption
  <2>5. QED BY <1>3, <2>1, <2>2, <2>3, <2>4
<1>5. Waiting = {h} \cup Waiting'
  <2>1. ASSUME NEW x \in Waiting PROVE x \in {h} \cup Waiting'
    <3>1. PICK i \in 1..Len(page) : x = page[i]
        BY <2>1 DEF Waiting
    <3>2. CASE i = 1
        BY <1>3, <3>1, <3>2
    <3>3. CASE i # 1
      <4>1. i - 1 \in 1..(Len(page) - 1) /\ (i - 1) + 1 = i
          BY <1>2, <3>1, <3>3
      <4>2. Tail(page)[i - 1] = page[i]
          BY <1>3, <4>1
      <4>3. QED BY <1>1, <1>3, <3>1, <4>1, <4>2 DEF Waiting
    <3>4. QED BY <3>2, <3>3
  <2>2. ASSUME NEW x \in Waiting' PROVE x \in Waiting
    <3>1. PICK i \in 1..(Len(page) - 1) : x = page[i + 1]
        BY <1>1, <1>3, <2>2 DEF Waiting
    <3>2. i + 1 \in 1..Len(page)
        BY <1>2, <3>1
    <3>3. QED BY <3>1, <3>2 DEF Waiting
  <2>3. h \in Waiting
      BY <1>2, <1>3 DEF Waiting
  <2>4. QED BY <2>1, <2>2, <2>3
(* What is left of the page comes one after the other.                     *)
<1>6. \A i \in 1..Len(page') : page'[i] = <<liveChat, (a + 1) + i - 1>>
  <2>1. ASSUME NEW i \in 1..Len(page') PROVE page'[i] = <<liveChat, (a + 1) + i - 1>>
    <3>1. i \in 1..(Len(page) - 1) /\ i + 1 \in 1..Len(page)
        BY <1>1, <1>2, <1>3
    <3>2. page[i + 1] = <<liveChat, a + (i + 1) - 1>>
        BY <1>1, <3>1 DEF OnceInv, PageInv
    <3>3. a + (i + 1) - 1 = (a + 1) + i - 1
        BY <1>4, <3>1, ReaderAssumption
    <3>4. QED BY <1>1, <1>3, <3>1, <3>2, <3>3
  <2>2. QED BY <2>1
<1>7. page' # <<>> => page'[1][2] = a + 1
  <2>1. ASSUME page' # <<>> PROVE page'[1][2] = a + 1
    <3>1. 1 \in 1..Len(page')
        BY <1>1, <1>3, <2>1
    <3>2. page'[1] = <<liveChat, (a + 1) + 1 - 1>>
        BY <1>6, <3>1
    <3>3. (a + 1) + 1 - 1 = a + 1
        BY <1>4, ReaderAssumption
    <3>4. QED BY <3>2, <3>3
  <2>2. QED BY <2>1
<1>8. CASE \E i \in DOMAIN seen : seen[i] = h
  <2>1. UNCHANGED <<seen, delivered>>
      BY <1>8 DEF Yield
  <2>2. h \in Delivered
    <3>1. PICK i \in 1..Len(seen) : seen[i] = h
        BY <1>2, <1>8
    <3>2. n - Len(seen) + i \in 1..n /\ seen[i] = delivered[n - Len(seen) + i]
      <4>1. Len(seen) = Least(n, DedupCapacity) /\ seen[i] = delivered[n - Len(seen) + i]
          BY <3>1 DEF OnceInv, IsEndOf
      <4>2. Len(seen) \in Nat /\ Len(seen) <= n
          BY <1>2, <4>1, ReaderAssumption DEF Least
      <4>3. n - Len(seen) + i \in 1..n
          BY <1>2, <3>1, <4>2
      <4>4. QED BY <4>1, <4>3
    <3>3. QED BY <3>1, <3>2 DEF Delivered
  <2>3. ReaderTypes' /\ IsEndOf(seen, delivered)' /\ Spaced'
      BY <1>1, <1>2, <1>3, <2>1 DEF OnceInv, ReaderTypes, IsEndOf, Spaced
  <2>4. NothingSkipped'
    <3>1. Delivered' = Delivered /\ served' = Delivered' \cup Waiting'
        BY <1>1, <1>5, <2>1, <2>2 DEF OnceInv, NothingSkipped, Delivered
    <3>2. QED BY <1>1, <3>1 DEF OnceInv, NothingSkipped, Known
  <2>5. PageInv'
    <3>1. SUFFICES ASSUME page' # <<>> PROVE PageInv'
        BY DEF PageInv
    <3>2. /\ \A k, m \in 1..ChatLength :
              a <= k /\ k <= m /\ <<liveChat, m>> \in Delivered => <<liveChat, k>> \in Delivered
          /\ \A i \in 1..n : delivered[i][1] = liveChat /\ delivered[i][2] >= a => i > n - Len(seen)
        BY <1>1 DEF OnceInv, PageInv
    <3>3. \A k, m \in 1..ChatLength :
            a + 1 <= k /\ k <= m /\ <<liveChat, m>> \in Delivered => <<liveChat, k>> \in Delivered
        BY <1>4, <3>2, ReaderAssumption
    <3>4. \A i \in 1..n : delivered[i][1] = liveChat /\ delivered[i][2] >= a + 1 => i > n - Len(seen)
      <4>1. \A i \in 1..n : delivered[i][2] \in 1..ChatLength
          BY <1>2 DEF Messages
      <4>2. QED BY <1>4, <3>2, <4>1, ReaderAssumption
    <3>5. page'[1][2] = a + 1
        BY <1>7, <3>1
    <3>6. Delivered' = Delivered
        BY <2>1 DEF Delivered
    <3>7. QED BY <1>1, <1>6, <2>1, <3>3, <3>4, <3>5, <3>6 DEF PageInv
  <2>6. QED BY <2>3, <2>4, <2>5 DEF OnceInv
<1>9. CASE ~ \E i \in DOMAIN seen : seen[i] = h
  <2>1. seen' = Remember(h) /\ delivered' = Append(delivered, h)
      BY <1>9 DEF Yield
  <2>2. \A i \in 1..n : delivered[i][1] = liveChat => delivered[i][2] < a
    <3> SUFFICES ASSUME NEW i \in 1..n, delivered[i][1] = liveChat, ~(delivered[i][2] < a)
                 PROVE  FALSE
        OBVIOUS
    <3>1. /\ delivered[i] \in Messages /\ delivered[i][2] \in 1..ChatLength
          /\ delivered[i] = <<liveChat, delivered[i][2]>>
        BY <1>2 DEF Messages
    <3>2. a <= delivered[i][2]
        BY <1>4, <3>1, ReaderAssumption
    <3>3. <<liveChat, delivered[i][2]>> \in Delivered
        BY <3>1 DEF Delivered
    <3>4. h \in Delivered
      <4>1. \A k, m \in 1..ChatLength :
              a <= k /\ k <= m /\ <<liveChat, m>> \in Delivered => <<liveChat, k>> \in Delivered
          BY <1>1 DEF OnceInv, PageInv
      <4>2. a <= a
          BY <1>4, ReaderAssumption
      <4>3. <<liveChat, a>> \in Delivered
          BY <1>4, <3>1, <3>2, <3>3, <4>1, <4>2
      <4>4. QED BY <1>4, <4>3
    <3>5. PICK j \in 1..n : delivered[j] = h
        BY <3>4 DEF Delivered
    <3>6. delivered[j][1] = liveChat /\ delivered[j][2] >= a
        BY <1>4, <3>5, ReaderAssumption
    <3>7. j > n - Len(seen)
        BY <1>1, <3>6 DEF OnceInv, PageInv
    <3>8. j - (n - Len(seen)) \in 1..Len(seen) /\ n - Len(seen) + (j - (n - Len(seen))) = j
        BY <1>2, <3>7
    <3>9. seen[j - (n - Len(seen))] = h
        BY <3>5, <3>8 DEF OnceInv, IsEndOf
    <3>10. QED BY <1>2, <1>9, <3>8, <3>9
  <2>3. /\ delivered' \in Seq(Messages) /\ Len(delivered') = n + 1
        /\ \A i \in 1..n : delivered'[i] = delivered[i]
        /\ delivered'[n + 1] = h
      BY <1>2, <1>4, <2>1
  <2>4. seen' \in Seq(Messages) /\ IsEndOf(seen, delivered)'
      BY <1>2, <1>4, <2>1, MemoryKept DEF OnceInv
  <2>5. ReaderTypes'
      BY <1>1, <1>3, <2>3, <2>4 DEF OnceInv, ReaderTypes
  <2>6. Spaced'
    <3>1. ASSUME NEW i \in 1..(n + 1), NEW j \in 1..(n + 1), i <= j
          PROVE  /\ delivered'[i][1] = delivered'[j][1] =>
                        delivered'[j][2] >= delivered'[i][2] + (j - i)
                 /\ delivered'[i][1] = liveChat => delivered'[j][1] = liveChat
      <4>1. CASE j \in 1..n
        <5>1. i \in 1..n
            BY <1>2, <3>1, <4>1
        <5>2. QED BY <2>3, <3>1, <4>1, <5>1 DEF OnceInv, Spaced
      <4>2. CASE j = n + 1 /\ i = n + 1
        <5>1. delivered'[j] = h /\ delivered'[i] = h /\ j - i = 0 /\ h[2] = a /\ a + 0 = a
            BY <1>2, <1>4, <2>3, <4>2, ReaderAssumption
        <5>2. QED BY <1>4, <5>1, ReaderAssumption
      <4>3. CASE j = n + 1 /\ i \in 1..n
        <5>1. delivered'[j][1] = liveChat /\ delivered'[j][2] = a /\ delivered'[i] = delivered[i]
            BY <1>4, <2>3, <4>3
        <5>2. ASSUME delivered[i][1] = liveChat PROVE a >= delivered[i][2] + (j - i)
          <6>1. n \in 1..n /\ i <= n
              BY <1>2, <4>3
          <6>2. delivered[n][1] = liveChat /\ delivered[n][2] >= delivered[i][2] + (n - i)
              BY <4>3, <5>2, <6>1 DEF OnceInv, Spaced
          <6>3. delivered[n][2] < a
              BY <2>2, <6>1, <6>2
          <6>4. delivered[n][2] \in Int /\ delivered[i][2] \in Int
              BY <1>2, <4>3, <6>1 DEF Messages
          <6>5. QED BY <1>2, <1>4, <4>3, <6>2, <6>3, <6>4, ReaderAssumption
        <5>3. QED BY <5>1, <5>2
      <4>4. QED BY <1>2, <4>1, <4>2, <4>3
    <3>2. QED BY <1>1, <2>3, <3>1 DEF Spaced
  <2>7. Delivered' = Delivered \cup {h}
    <3>1. ASSUME NEW x PROVE x \in Delivered' <=> x \in Delivered \cup {h}
      <4>1. x \in Delivered' <=> \E i \in 1..(n + 1) : x = delivered'[i]
          BY <2>3 DEF Delivered
      <4>2. (\E i \in 1..(n + 1) : x = delivered'[i]) <=> x = h \/ \E i \in 1..n : x = delivered[i]
        <5>1. 1..(n + 1) = (1..n) \cup {n + 1}
            BY <1>2
        <5>2. QED BY <2>3, <5>1
      <4>3. QED BY <4>1, <4>2 DEF Delivered
    <3>2. QED BY <3>1
  <2>8. NothingSkipped'
    <3>1. served' = Delivered' \cup Waiting'
        BY <1>1, <1>5, <2>7 DEF OnceInv, NothingSkipped
    <3>2. QED BY <1>1, <3>1 DEF OnceInv, NothingSkipped, Known
  <2>9. PageInv'
    <3>1. SUFFICES ASSUME page' # <<>> PROVE PageInv'
        BY DEF PageInv
    <3>2. \A i \in 1..(n + 1) : delivered'[i][1] = liveChat => delivered'[i][2] < a + 1
      <4>1. ASSUME NEW i \in 1..(n + 1), delivered'[i][1] = liveChat
            PROVE  delivered'[i][2] < a + 1
        <5>1. CASE i = n + 1
            BY <1>4, <2>3, <5>1, ReaderAssumption
        <5>2. CASE i \in 1..n
          <6>1. delivered[i][2] < a /\ delivered[i][2] \in 1..ChatLength
              BY <1>2, <2>2, <2>3, <4>1, <5>2 DEF Messages
          <6>2. QED BY <1>4, <2>3, <5>2, <6>1, ReaderAssumption
        <5>3. QED BY <1>2, <5>1, <5>2
      <4>2. QED BY <4>1
    <3>3. \A m \in 1..ChatLength : a + 1 <= m => <<liveChat, m>> \notin Delivered'
      <4>1. ASSUME NEW m \in 1..ChatLength, a + 1 <= m, <<liveChat, m>> \in Delivered'
            PROVE  FALSE
        <5>1. PICK i \in 1..(n + 1) : delivered'[i] = <<liveChat, m>>
            BY <2>3, <4>1 DEF Delivered
        <5>2. m < a + 1
            BY <3>2, <5>1
        <5>3. QED BY <1>4, <4>1, <5>2, ReaderAssumption
      <4>2. QED BY <4>1
    <3>4. page'[1][2] = a + 1
        BY <1>7, <3>1
    <3>5. \A i \in 1..Len(delivered') : delivered'[i][2] \in Int
        BY <2>3 DEF Messages
    <3>6. \A k, m \in 1..ChatLength :
            a + 1 <= k /\ k <= m => <<liveChat, m>> \notin Delivered'
        BY <1>4, <3>3, ReaderAssumption
    <3>7. \A i \in 1..Len(delivered') :
            ~(delivered'[i][1] = liveChat /\ delivered'[i][2] >= a + 1)
        BY <1>4, <2>3, <3>2, <3>5, ReaderAssumption
    <3>8. QED BY <1>1, <1>6, <3>4, <3>6, <3>7 DEF PageInv
  <2>10. QED BY <2>4, <2>5, <2>6, <2>8, <2>9 DEF OnceInv
<1>10. QED BY <1>8, <1>9

(* A page begins within what the server repeats, so that what it repeats   *)
(* is still remembered.                                                    *)
LEMMA PageKeeps ==
    ASSUME OnceInv, Page
    PROVE  OnceInv'
<1> DEFINE n == Len(delivered)
           end == posted[liveChat]
<1>1. /\ place = "listing" /\ page = <<>> /\ liveChat \in Chats
      /\ UNCHANGED <<liveChat, seen, delivered, posted>>
    BY DEF Page, OnceInv, ReaderTypes
<1>2. /\ seen \in Seq(Messages) /\ delivered \in Seq(Messages) /\ n \in Nat
      /\ end \in 0..ChatLength /\ ChatLength \in Nat /\ Replay \in Nat
    BY <1>1, ReaderAssumption DEF OnceInv, ReaderTypes
<1>3. served = Delivered
  <2>1. served = Delivered \cup Waiting
      BY <1>1 DEF OnceInv, NothingSkipped
  <2>2. QED BY <1>1, <2>1 DEF Waiting
<1>4. PICK top \in 0..ChatLength : Known(top)
    BY <1>1 DEF OnceInv, NothingSkipped
<1>5. PICK first \in 1..(ChatLength + 1), last \in 0..ChatLength :
        /\ first <= last + 1 /\ last <= end
        /\ IF token = NoToken
           THEN first = Greatest(end - Replay, 0) + 1 /\ last = end
           ELSE first \in (token - Replay + 1)..(token + 1) /\ last >= token
        /\ \/ /\ token' \in {last, NoToken}
              /\ nextWait' \in PollIntervals
              /\ advertised' = nextWait'
              /\ page' = [i \in 1..(last - first + 1) |-> <<liveChat, first + i - 1>>]
              /\ served' = served \cup {<<liveChat, m>> : m \in first..last}
              /\ place' = "yielding"
              /\ since' = 0
              /\ UNCHANGED <<armed, ending, pause, published>>
           \/ /\ End("raised")
              /\ UNCHANGED <<token, nextWait, advertised, page, served, since>>
    BY DEF Page
<1>6. CASE place' = "over"
  <2>1. UNCHANGED <<token, page, served>>
      BY <1>5, <1>6
  <2>2. \A d \in Chats : posted[d] <= posted'[d]
      BY <1>1, SameIsNoLess
  <2>3. QED BY <1>1, <1>6, <2>1, <2>2, NothingNew DEF OnceInv, ReaderTypes, ReaderPlaces
<1>7. CASE place' # "over"
  <2>1. /\ token' \in {last, NoToken} /\ place' = "yielding"
        /\ page' = [i \in 1..(last - first + 1) |-> <<liveChat, first + i - 1>>]
        /\ served' = served \cup {<<liveChat, m>> : m \in first..last}
      BY <1>5, <1>7 DEF End
  <2>2. last >= top /\ first > top - Replay /\ last <= end
    <3>1. CASE token = NoToken
      <4>1. top <= end /\ last = end /\ first = Greatest(end - Replay, 0) + 1
          BY <1>1, <1>4, <1>5, <3>1 DEF Known
      <4>2. Greatest(end - Replay, 0) \in Int /\ Greatest(end - Replay, 0) >= end - Replay
          BY <1>2 DEF Greatest
      <4>3. QED BY <1>2, <4>1, <4>2
    <3>2. CASE token # NoToken
      <4>1. token = top /\ first \in (token - Replay + 1)..(token + 1) /\ last >= token /\ last <= end
          BY <1>4, <1>5, <3>2 DEF Known
      <4>2. QED BY <1>2, <4>1
    <3>3. QED BY <3>1, <3>2
  <2>3. \A k \in 1..last : k > last - Replay => k >= first \/ <<liveChat, k>> \in served
    <3>1. ASSUME NEW k \in 1..last, k > last - Replay, ~(k >= first)
          PROVE  <<liveChat, k>> \in served
      <4>1. CASE token = NoToken
        <5>1. first = Greatest(last - Replay, 0) + 1
            BY <1>5, <4>1
        <5>2. Greatest(last - Replay, 0) \in {last - Replay, 0}
            BY DEF Greatest
        <5>3. QED BY <1>2, <3>1, <5>1, <5>2
      <4>2. CASE token # NoToken
        <5>1. token = top /\ first <= top + 1
            BY <1>4, <1>5, <4>2 DEF Known
        <5>2. k \in 1..top /\ k > top - Replay
            BY <1>2, <2>2, <3>1, <5>1
        <5>3. QED BY <1>4, <5>2 DEF Known
      <4>3. QED BY <4>1, <4>2
    <3>2. QED BY <3>1
  <2>4. \A i \in 1..(last - first + 1) : first + i - 1 \in first..last
      BY <1>2
  <2>5. first..last \subseteq 1..ChatLength /\ last - first + 1 \in Nat
      BY <1>2, <1>5
  <2>6. page' \in Seq(Messages) /\ Len(page') = last - first + 1
    <3>1. \A i \in 1..(last - first + 1) : <<liveChat, first + i - 1>> \in Messages
        BY <1>1, <2>4, <2>5 DEF Messages
    <3>2. QED BY <2>1, <2>5, <3>1
  <2>7. Waiting' = {<<liveChat, m>> : m \in first..last}
    <3>1. ASSUME NEW m \in first..last PROVE <<liveChat, m>> \in Waiting'
      <4>1. m - first + 1 \in 1..(last - first + 1) /\ first + (m - first + 1) - 1 = m
          BY <1>2
      <4>2. page'[m - first + 1] = <<liveChat, m>>
          BY <2>1, <4>1
      <4>3. QED BY <2>6, <4>1, <4>2 DEF Waiting
    <3>2. ASSUME NEW x \in Waiting' PROVE x \in {<<liveChat, m>> : m \in first..last}
      <4>1. PICK i \in 1..(last - first + 1) : x = page'[i]
          BY <2>6, <3>2 DEF Waiting
      <4>2. x = <<liveChat, first + i - 1>>
          BY <2>1, <4>1
      <4>3. QED BY <2>4, <4>1, <4>2
    <3>3. QED BY <3>1, <3>2
  <2>8. ReaderTypes'
    <3>1. {<<liveChat, m>> : m \in first..last} \subseteq Messages
        BY <1>1, <2>5 DEF Messages
    <3>2. \A m \in served' : m[2] <= posted[m[1]]
      <4>1. ASSUME NEW m \in first..last PROVE m <= end
          BY <1>2, <2>2
      <4>2. QED BY <2>1, <4>1 DEF OnceInv, ReaderTypes
    <3>3. token' \in {NoToken} \cup 0..ChatLength
        BY <2>1
    <3>4. served' \subseteq Messages
        BY <2>1, <3>1 DEF OnceInv, ReaderTypes
    <3>5. QED BY <1>1, <2>1, <2>6, <3>2, <3>3, <3>4 DEF OnceInv, ReaderTypes, ReaderPlaces
  <2>9. IsEndOf(seen, delivered)' /\ Spaced' /\ Delivered' = Delivered
      BY <1>1 DEF OnceInv, IsEndOf, Spaced, Delivered
  <2>10. NothingSkipped'
    <3>1. served' = Delivered' \cup Waiting'
        BY <1>3, <2>1, <2>7, <2>9
    <3>2. \A k \in 1..ChatLength : <<liveChat, k>> \in served' => k <= last
      <4>1. ASSUME NEW k \in 1..ChatLength, <<liveChat, k>> \in served'
            PROVE  k <= last
        <5>1. CASE <<liveChat, k>> \in served
          <6>1. k <= top
              BY <1>4, <4>1, <5>1 DEF Known
          <6>2. QED BY <1>2, <2>2, <6>1
        <5>2. CASE k \in first..last
            BY <1>2, <5>2
        <5>3. QED BY <2>1, <4>1, <5>1, <5>2
      <4>2. QED BY <4>1
    <3>3. \A k \in 1..last : k > last - Replay => <<liveChat, k>> \in served'
      <4>1. ASSUME NEW k \in 1..last, k > last - Replay PROVE <<liveChat, k>> \in served'
        <5>1. CASE k >= first
          <6>1. k \in first..last
              BY <1>2, <5>1
          <6>2. QED BY <2>1, <6>1
        <5>2. CASE ~(k >= first)
            BY <2>1, <2>3, <4>1, <5>2
        <5>3. QED BY <5>1, <5>2
      <4>2. QED BY <4>1
    <3>4. Known(last)'
        BY <1>1, <2>1, <2>2, <3>2, <3>3 DEF Known
    <3>5. QED BY <3>1, <3>4 DEF NothingSkipped
  <2>11. PageInv'
    <3>1. SUFFICES ASSUME page' # <<>> PROVE PageInv'
        BY DEF PageInv
    <3>2. 1 \in 1..(last - first + 1) /\ first + 1 - 1 = first
        BY <1>2, <2>5, <2>6, <3>1
    <3>3. page'[1][2] = first
        BY <2>1, <3>2
    <3>4. \A k, m \in 1..ChatLength :
            first <= k /\ k <= m /\ <<liveChat, m>> \in Delivered => <<liveChat, k>> \in Delivered
      <4>1. ASSUME NEW k \in 1..ChatLength, NEW m \in 1..ChatLength,
                   first <= k, k <= m, <<liveChat, m>> \in Delivered
            PROVE  <<liveChat, k>> \in Delivered
        <5>1. m <= top
            BY <1>3, <1>4, <4>1 DEF Known
        <5>2. k \in 1..top /\ k > top - Replay
            BY <1>2, <2>2, <4>1, <5>1
        <5>3. QED BY <1>3, <1>4, <5>2 DEF Known
      <4>2. QED BY <4>1
    <3>5. \A i \in 1..n :
            delivered[i][1] = liveChat /\ delivered[i][2] >= first => i > n - Len(seen)
      <4>1. ASSUME NEW i \in 1..n, delivered[i][1] = liveChat, delivered[i][2] >= first
            PROVE  i > n - Len(seen)
        <5>1. n \in 1..n /\ i <= n
            BY <1>2
        <5>2. delivered[n][1] = liveChat /\ delivered[n][2] >= delivered[i][2] + (n - i)
            BY <4>1, <5>1 DEF OnceInv, Spaced
        <5>3. delivered[n][2] \in 1..ChatLength /\ delivered[i][2] \in 1..ChatLength
            BY <1>2, <5>1 DEF Messages
        <5>4. <<liveChat, delivered[n][2]>> \in served
          <6>1. delivered[n] = <<liveChat, delivered[n][2]>>
              BY <1>2, <5>1, <5>2 DEF Messages
          <6>2. QED BY <1>3, <5>1, <6>1 DEF Delivered
        <5>5. delivered[n][2] <= top
            BY <1>4, <5>3, <5>4 DEF Known
        <5>6. n - i < Replay
            BY <1>2, <2>2, <4>1, <5>2, <5>3, <5>5
        <5>7. Len(seen) = n \/ Len(seen) = DedupCapacity
            BY DEF OnceInv, IsEndOf, Least
        <5>8. QED BY <1>2, <5>6, <5>7, ReaderAssumption
      <4>2. QED BY <4>1
    <3>6. \A i \in 1..Len(page') : page'[i] = <<liveChat, first + i - 1>>
        BY <2>1, <2>6
    <3>7. QED BY <1>1, <2>9, <3>3, <3>4, <3>5, <3>6 DEF PageInv
  <2>12. QED BY <2>8, <2>9, <2>10, <2>11 DEF OnceInv
<1>8. QED BY <1>6, <1>7

LEMMA OnceKept ==
    ASSUME OnceInv, [ReaderNext]_readerVars
    PROVE  OnceInv'
<1>1. \A d \in Chats : posted[d] <= posted[d]
    BY SameIsNoLess
<1>2. place \in ReaderPlaces /\ posted \in [Chats -> 0..ChatLength]
    BY DEF OnceInv, ReaderTypes
<1>3. CASE BeginEvents \/ RefuseToken \/ LoseChat \/ CloseChat
  <2>1. UNCHANGED <<page, seen, served, delivered, liveChat, token, posted>>
      BY <1>3 DEF BeginEvents, RefuseToken, LoseChat, CloseChat, items, cursor
  <2>2. place \in {"idle", "listing"} /\ place' \in {"resolving", "over"}
      BY <1>3 DEF BeginEvents, RefuseToken, LoseChat, CloseChat, Resolve, End
  <2>3. QED BY <1>1, <1>2, <2>1, <2>2, NothingNew DEF ReaderPlaces
<1>4. CASE BackOff \/ GiveUp \/ NothingToRead
  <2>1. UNCHANGED <<page, seen, served, delivered, liveChat, token, posted>>
      BY <1>4 DEF BackOff, GiveUp, NothingToRead, items, cursor
  <2>2. \/ place = "listing" /\ place' \in {"listLater", "over"}
        \/ place = "resolving" /\ place' \in {"resolveLater", "over"}
      BY <1>4 DEF BackOff, GiveUp, NothingToRead, End
  <2>3. place = "listing" => liveChat \in Chats
      BY DEF OnceInv, ReaderTypes
  <2>4. QED BY <1>1, <1>2, <2>1, <2>2, <2>3, NothingNew DEF ReaderPlaces
<1>5. CASE EndWait \/ CloseEvents
  <2>1. UNCHANGED <<page, seen, served, delivered, liveChat, token, posted>>
      BY <1>5 DEF EndWait, CloseEvents, items, cursor
  <2>2. /\ place # "over"
        /\ \/ place' = "over"
           \/ place \in {"pacing", "listLater"} /\ place' = "listing"
           \/ place = "resolveLater" /\ place' = "resolving"
      BY <1>5 DEF EndWait, CloseEvents, End
  <2>3. place \in {"pacing", "listLater"} => liveChat \in Chats
      BY DEF OnceInv, ReaderTypes
  <2>4. QED BY <1>1, <1>2, <2>1, <2>2, <2>3, NothingNew DEF ReaderPlaces
<1>6. CASE EndPage
  <2>1. UNCHANGED <<page, seen, served, delivered, liveChat, token, posted>>
      BY <1>6 DEF EndPage, items, cursor
  <2>2. place = "yielding" /\ page = <<>> /\ place' \in {"listing", "pacing", "over"}
      BY <1>6 DEF EndPage, End, Turn
  <2>3. liveChat \in Chats
      BY <2>2 DEF OnceInv, ReaderTypes
  <2>4. QED BY <1>1, <1>2, <2>1, <2>2, <2>3, NothingNew DEF ReaderPlaces
<1>7. CASE StopReader \/ TimePasses \/ UNCHANGED readerVars
  <2>1. UNCHANGED <<page, seen, served, delivered, liveChat, token, posted, place>>
      BY <1>7 DEF StopReader, TimePasses, readerVars, items, cursor
  <2>2. place \in {"pacing", "listing", "listLater", "yielding"} => liveChat \in Chats
      BY DEF OnceInv, ReaderTypes
  <2>3. QED BY <1>1, <1>2, <2>1, <2>2, NothingNew
<1>8. ASSUME NEW c \in Chats, Post(c) PROVE OnceInv'
  <2>1. UNCHANGED <<page, seen, served, delivered, liveChat, token, place>>
      BY <1>8 DEF Post, items, cursor
  <2>2. posted' = [posted EXCEPT ![c] = @ + 1] /\ posted[c] < ChatLength
      BY <1>8 DEF Post
  <2>3. posted' \in [Chats -> 0..ChatLength] /\ \A d \in Chats : posted[d] <= posted'[d]
      BY <1>2, <2>2, ReaderAssumption
  <2>4. place \in {"pacing", "listing", "listLater", "yielding"} => liveChat \in Chats
      BY DEF OnceInv, ReaderTypes
  <2>5. QED BY <1>2, <2>1, <2>3, <2>4, NothingNew
<1>9. CASE Page \/ Yield \/ \E c \in Chats : Resolved(c)
    BY <1>9, PageKeeps, YieldKeeps, ResolvedKeeps
<1>10. QED BY <1>3, <1>4, <1>5, <1>6, <1>7, <1>8, <1>9 DEF ReaderNext, ReaderStep, Answered

(* Whatever the server repeats, however often the chat is resolved again   *)
(* and wherever the reader is stopped: each message is yielded once and in *)
(* its order, and none of a page is left out.                              *)
THEOREM MessagesComeOnce == ReaderSpec => []EachMessageOnce
<1>1. ReaderInit => OnceInv
  <2> SUFFICES ASSUME ReaderInit PROVE OnceInv
      OBVIOUS
  <2>1. Len(seen) = 0 /\ Len(delivered) = 0 /\ Len(page) = 0
      BY DEF ReaderInit
  <2>2. ReaderTypes
    <3>1. <<>> \in Seq(Messages)
        OBVIOUS
    <3>2. QED BY <3>1, ReaderAssumption DEF ReaderInit, ReaderTypes, ReaderPlaces
  <2>3. IsEndOf(seen, delivered) /\ Spaced /\ PageInv
      BY <2>1, ReaderAssumption DEF ReaderInit, IsEndOf, Spaced, PageInv, Least
  <2>4. NothingSkipped
    <3>1. Known(0)
        BY ReaderAssumption DEF ReaderInit, Known
    <3>2. QED BY <2>1, <3>1, ReaderAssumption DEF ReaderInit, NothingSkipped, Delivered, Waiting
  <2>5. QED BY <2>2, <2>3, <2>4 DEF OnceInv
<1>2. OnceInv => EachMessageOnce
  <2> SUFFICES ASSUME OnceInv PROVE EachMessageOnce
      OBVIOUS
  <2>1. ASSUME NEW i \in DOMAIN delivered, NEW j \in DOMAIN delivered,
               i < j, delivered[i][1] = delivered[j][1]
        PROVE  delivered[i][2] < delivered[j][2]
    <3>1. delivered \in Seq(Messages)
        BY DEF OnceInv, ReaderTypes
    <3>2. i \in 1..Len(delivered) /\ j \in 1..Len(delivered)
        BY <3>1
    <3>3. delivered[i][2] \in Int /\ delivered[j][2] \in Int
        BY <3>1, <3>2 DEF Messages
    <3>4. i <= j
        BY <2>1, <3>2
    <3>5. delivered[j][2] >= delivered[i][2] + (j - i)
        BY <2>1, <3>2, <3>4 DEF OnceInv, Spaced
    <3>6. QED BY <2>1, <3>2, <3>3, <3>5
  <2>2. ASSUME place # "over", NEW m \in served
        PROVE  \/ \E i \in DOMAIN delivered : delivered[i] = m
               \/ \E i \in DOMAIN page : page[i] = m
    <3>1. m \in Delivered \/ m \in Waiting
        BY <2>2 DEF OnceInv, NothingSkipped
    <3>2. DOMAIN delivered = 1..Len(delivered) /\ DOMAIN page = 1..Len(page)
        BY DEF OnceInv, ReaderTypes
    <3>3. QED BY <3>1, <3>2 DEF Delivered, Waiting
  <2>3. QED BY <2>1, <2>2 DEF EachMessageOnce
<1>3. QED BY <1>1, <1>2, OnceKept, PTL DEF ReaderSpec
=============================================================================
