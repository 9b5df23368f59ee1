------------------------- MODULE PerceptionProofs ---------------------------
(***************************************************************************)
(* Theorems about the local perceptions: VideoPerception and               *)
(* AudioPerception, for any size of image, padding, limit of an utterance  *)
(* and number of voices, and PerceptionQueue, for any channels, capacity   *)
(* and number of events.                                                   *)
(*                                                                         *)
(* What the recursion of Bounded and the sum of the library compute is     *)
(* shown by a least counterexample.  A frame is told apart from the last   *)
(* one tried (ReferenceInv).  The ring of the detector and the utterance   *)
(* under way are the end of what was heard (VadInv), the segments that are *)
(* left are the last ones (SegmentsInv), and until somebody is pinned who  *)
(* was called the streamer still is (StreamerInv).                         *)
(*                                                                         *)
(* The ledger of the queue rests on what a worker is doing: inflight       *)
(* counts exactly the running worker.  The order of the writes rests on    *)
(* threads: a channel has one thread that may still act, and it is the one *)
(* on record.                                                              *)
(***************************************************************************)
EXTENDS PerceptionQueue, VideoPerception, AudioPerception, OrderingProofs, SequenceTheorems

(* The sizes of images.                                                    *)
Sides == (Nat \ {0}) \X (Nat \ {0})

(* How _bounded_size goes on from a size, when f tells what it makes of    *)
(* the smaller ones.                                                       *)
Onward(f, s) ==
    IF Within(s) THEN s
    ELSE IF s[1] >= s[2] /\ s[1] > 1 THEN f[<<s[1] - 1, s[2]>>]
    ELSE IF s[2] > 1 THEN f[<<s[1], s[2] - 1>>]
    ELSE s

(* Those up to a number, and the functions that go on as they ought to.    *)
SidesUpTo(n) == {s \in Sides : s[1] + s[2] <= n}
Follows(f, n) == f = [s \in SidesUpTo(n) |-> Onward(f, s)]

(* A size goes on to one that is smaller by one.                           *)
LEMMA SidesShrink ==
    ASSUME NEW s \in Sides, NEW f, NEW g,
           \A t \in Sides : t[1] + t[2] = s[1] + s[2] - 1 => f[t] = g[t]
    PROVE  Onward(f, s) = Onward(g, s)
<1>1. s[1] \in Nat \ {0} /\ s[2] \in Nat \ {0}
    BY DEF Sides
<1>2. CASE s[1] > 1 /\ s[1] >= s[2]
  <2> DEFINE t == <<s[1] - 1, s[2]>>
  <2>1. t \in Sides /\ t[1] + t[2] = s[1] + s[2] - 1
      BY <1>1, <1>2 DEF Sides
  <2>2. QED BY <1>2, <2>1 DEF Onward
<1>3. CASE s[2] > 1 /\ ~(s[1] > 1 /\ s[1] >= s[2])
  <2> DEFINE t == <<s[1], s[2] - 1>>
  <2>1. t \in Sides /\ t[1] + t[2] = s[1] + s[2] - 1
      BY <1>1, <1>3 DEF Sides
  <2>2. QED BY <1>3, <2>1 DEF Onward
<1>4. CASE ~(s[2] > 1) /\ ~(s[1] > 1 /\ s[1] >= s[2])
    BY <1>4 DEF Onward
<1>5. QED BY <1>2, <1>3, <1>4

(* There is such a function for each number, ...                           *)
LEMMA FollowsExists == \A n \in Nat : \E f : Follows(f, n)
<1> DEFINE T == {n \in Nat : ~ \E f : Follows(f, n)}
<1> SUFFICES ASSUME T # {} PROVE FALSE
    OBVIOUS
<1>1. PICK n \in T : \A m \in T : n <= m
    BY LeastOfNats
<1>2. CASE n = 0
  <2> DEFINE f == [s \in SidesUpTo(0) |-> s]
  <2>1. SidesUpTo(0) = {}
      BY DEF SidesUpTo, Sides
  <2>2. Follows(f, 0)
      BY <2>1 DEF Follows
  <2>3. QED BY <1>2, <2>2
<1>3. CASE n # 0
  <2>1. n - 1 \in Nat /\ n - 1 \notin T
      BY <1>1, <1>3
  <2>2. PICK g : Follows(g, n - 1)
      BY <2>1
  <2> DEFINE f == [s \in SidesUpTo(n) |-> Onward(g, s)]
  <2>3. ASSUME NEW t \in SidesUpTo(n - 1) PROVE f[t] = g[t]
    <3>1. t \in SidesUpTo(n)
        BY <2>1 DEF SidesUpTo, Sides
    <3>2. g[t] = Onward(g, t)
        BY <2>2 DEF Follows
    <3>3. QED BY <3>1, <3>2
  <2> HIDE DEF f
  <2>4. ASSUME NEW s \in SidesUpTo(n) PROVE Onward(f, s) = Onward(g, s)
    <3>1. s \in Sides /\ s[1] \in Nat /\ s[2] \in Nat /\ s[1] + s[2] <= n
        BY DEF SidesUpTo, Sides
    <3>2. \A t \in Sides : t[1] + t[2] = s[1] + s[2] - 1 => t \in SidesUpTo(n - 1)
        BY <2>1, <3>1 DEF SidesUpTo, Sides
    <3>3. \A t \in Sides : t[1] + t[2] = s[1] + s[2] - 1 => f[t] = g[t]
        BY <2>3, <3>2
    <3>4. QED BY <3>1, <3>3, SidesShrink
  <2>5. Follows(f, n)
      BY <2>4 DEF Follows, f
  <2>6. QED BY <2>5
<1>4. QED BY <1>2, <1>3

(* ... and they agree where they are both defined.                         *)
LEMMA FollowsIsUnique ==
    ASSUME NEW m \in Nat, NEW n \in Nat, m <= n, NEW f, Follows(f, m), NEW g, Follows(g, n)
    PROVE  \A s \in SidesUpTo(m) : f[s] = g[s]
<1> DEFINE T == {k \in Nat : \E s \in SidesUpTo(m) : s[1] + s[2] = k /\ f[s] # g[s]}
<1> SUFFICES ASSUME T # {} PROVE FALSE
    BY DEF SidesUpTo, Sides
<1>1. PICK k \in T : \A l \in T : k <= l
    BY LeastOfNats
<1>2. PICK s \in SidesUpTo(m) : s[1] + s[2] = k /\ f[s] # g[s]
    BY <1>1
<1>3. s \in Sides /\ s[1] \in Nat \ {0} /\ s[2] \in Nat \ {0} /\ s[1] + s[2] <= m /\ s \in SidesUpTo(n)
    BY DEF SidesUpTo, Sides
<1>4. ASSUME NEW t \in Sides, t[1] + t[2] = s[1] + s[2] - 1 PROVE f[t] = g[t]
  <2>1. t \in SidesUpTo(m) /\ t[1] + t[2] = k - 1
      BY <1>2, <1>3, <1>4 DEF SidesUpTo
  <2>2. k - 1 \in Nat /\ k - 1 \notin T
      BY <1>1, <1>2, <1>3
  <2>3. QED BY <2>1, <2>2
<1>5. Onward(f, s) = Onward(g, s)
    BY <1>3, <1>4, SidesShrink
<1>6. f[s] = Onward(f, s) /\ g[s] = Onward(g, s)
    BY <1>3 DEF Follows
<1>7. QED BY <1>2, <1>5, <1>6

(* Hence Bounded is what its recursion says.                               *)
LEMMA BoundedGoesOn == \A s \in Sides : Bounded[s] = Onward(Bounded, s)
<1> DEFINE upTo(n) == CHOOSE f : Follows(f, n)
           F == [s \in Sides |-> upTo(s[1] + s[2])[s]]
<1>1. \A n \in Nat : Follows(upTo(n), n)
    BY FollowsExists
<1> HIDE DEF upTo
<1>2. ASSUME NEW s \in Sides PROVE F[s] = Onward(F, s)
  <2> DEFINE n == s[1] + s[2]
             g == upTo(n)
  <2>1. n \in Nat /\ n - 1 \in Nat /\ s \in SidesUpTo(n)
      BY DEF SidesUpTo, Sides
  <2>2. F[s] = g[s] /\ g[s] = Onward(g, s)
      BY <1>1, <2>1 DEF Follows
  <2>3. \A t \in Sides : F[t] = upTo(t[1] + t[2])[t]
      OBVIOUS
  <2> HIDE DEF F
  <2>4. ASSUME NEW t \in Sides, t[1] + t[2] = s[1] + s[2] - 1 PROVE F[t] = g[t]
    <3>1. t[1] + t[2] = n - 1
        BY <2>4 DEF Sides, n
    <3> HIDE DEF n
    <3>2. F[t] = upTo(n - 1)[t] /\ t \in SidesUpTo(n - 1)
      <4>1. F[t] = upTo(t[1] + t[2])[t]
          BY <2>3
      <4>2. t[1] + t[2] <= n - 1
          BY <2>1, <3>1
      <4>3. QED BY <3>1, <4>1, <4>2 DEF SidesUpTo
    <3>3. upTo(n - 1)[t] = upTo(n)[t]
      <4>1. Follows(upTo(n - 1), n - 1) /\ Follows(upTo(n), n) /\ n - 1 <= n
          BY <1>1, <2>1
      <4>2. QED BY <2>1, <3>2, <4>1, FollowsIsUnique
    <3>4. QED BY <3>2, <3>3
  <2> HIDE DEF g, n
  <2>5. Onward(F, s) = Onward(g, s)
      BY <2>4, SidesShrink
  <2>6. QED BY <2>2, <2>5
<1>3. F = [s \in Sides |-> Onward(F, s)]
    BY <1>2
<1> HIDE DEF F
<1>4. Bounded = CHOOSE f : f = [s \in Sides |-> Onward(f, s)]
    BY DEF Bounded, Onward, Sides
<1>5. Bounded = [s \in Sides |-> Onward(Bounded, s)]
    BY <1>3, <1>4
<1>6. QED BY <1>5

(* The image always fits.                                                  *)
LEMMA BoundedFits == \A s \in Sides : Within(Bounded[s])
<1> DEFINE T == {k \in Nat : \E s \in Sides : s[1] + s[2] = k /\ ~Within(Bounded[s])}
<1> SUFFICES ASSUME T # {} PROVE FALSE
    BY DEF Sides
<1>1. PICK k \in T : \A l \in T : k <= l
    BY LeastOfNats
<1>2. PICK s \in Sides : s[1] + s[2] = k /\ ~Within(Bounded[s])
    BY <1>1
<1>3. s[1] \in Nat \ {0} /\ s[2] \in Nat \ {0} /\ s = <<s[1], s[2]>>
    BY DEF Sides
<1>4. ASSUME NEW t \in Sides, t[1] + t[2] = k - 1 PROVE Within(Bounded[t])
  <2>1. k - 1 \in Nat /\ k - 1 \notin T
      BY <1>1, <1>2, <1>3
  <2>2. QED BY <1>4, <2>1
<1>5. Bounded[s] = Onward(Bounded, s)
    BY BoundedGoesOn
<1>6. CASE Within(s)
    BY <1>2, <1>5, <1>6 DEF Onward
<1>7. CASE ~Within(s) /\ s[1] > 1 /\ s[1] >= s[2]
  <2> DEFINE t == <<s[1] - 1, s[2]>>
  <2>1. t \in Sides /\ t[1] + t[2] = k - 1
      BY <1>2, <1>3, <1>7 DEF Sides
  <2>2. Bounded[s] = Bounded[t]
      BY <1>5, <1>7 DEF Onward
  <2>3. QED BY <1>2, <1>4, <2>1, <2>2
<1>8. CASE ~Within(s) /\ s[2] > 1 /\ ~(s[1] > 1 /\ s[1] >= s[2])
  <2> DEFINE t == <<s[1], s[2] - 1>>
  <2>1. t \in Sides /\ t[1] + t[2] = k - 1
      BY <1>2, <1>3, <1>8 DEF Sides
  <2>2. Bounded[s] = Bounded[t]
      BY <1>5, <1>8 DEF Onward
  <2>3. QED BY <1>2, <1>4, <2>1, <2>2
<1>9. CASE ~Within(s) /\ ~(s[2] > 1) /\ ~(s[1] > 1 /\ s[1] >= s[2])
  <2>1. s[1] = 1 /\ s[2] = 1
      BY <1>3, <1>9
  <2>2. MaxEdge \in Nat \ {0} /\ MaxPixels \in Nat \ {0}
      BY VideoAssumption
  <2>3. Within(s)
      BY <2>1, <2>2 DEF Within
  <2>4. QED BY <1>9, <2>3
<1>10. QED BY <1>6, <1>7, <1>8, <1>9

-----------------------------------------------------------------------------
(* What an inference comes to, and what is kept of it.                     *)
Outcomes == {"text", "nothing", "error"}
Captions == [frame : 1..MaxFrames, of : 1..MaxFrames, shows : Scenes, fate : {"written", "refused", "dropped"}]

(* The types, and that a frame is being perceived once one was seen.       *)
VideoTypes ==
    /\ captioner \in {"none", "ready", "broken"}
    /\ seen \in 0..MaxFrames
    /\ sampled \in Nat /\ skipped \in Nat /\ captioned \in Nat /\ empty \in Nat /\ videoFailed \in Nat
    /\ perceiver \in {"idle", "captioning", "joining"}
    /\ perceiver # "idle" => seen # 0
    /\ scene \in Scenes
    /\ frameCancelled \in BOOLEAN
    /\ reference \in Scenes \cup {-1}
    /\ tried \in Seq(Scenes)
    /\ captions \in Seq(Captions)

(* One inference at most has the model; the one that is joined was begun.  *)
ThreadsInv ==
    /\ busy \in BOOLEAN
    /\ alive \in SUBSET (1..MaxFrames)
    /\ inference \in [1..MaxFrames -> {"none", "working"} \cup Outcomes]
    /\ busy <=> alive # {}
    /\ \A m, n \in alive : m = n
    /\ \A n \in 1..MaxFrames : inference[n] = "working" => n \in alive
    /\ perceiver = "joining" => inference[seen] # "none"
    /\ Within(imageSize)

(* Each sampled frame is counted once; each caption is of its own frame,   *)
(* and only that of a job that was cancelled, the last, can be dropped.    *)
CountsInv ==
    /\ sampled = skipped + captioned + empty + videoFailed + (IF perceiver = "idle" THEN 0 ELSE 1)
    /\ Len(captions) = captioned
    /\ \A i \in 1..Len(captions) : captions[i].frame = captions[i].of
    /\ \A i \in 1..Len(captions) : captions[i].fate = "dropped" =>
        frameCancelled /\ perceiver = "idle" /\ i = Len(captions) /\ captions[i].frame = seen

(* Between two frames the reference is what was asked about last.          *)
ReferenceInv ==
    /\ \A i \in 1..(Len(tried) - 1) : Differs(tried[i], tried[i + 1])
    /\ tried # <<>> => ~Differs(scene, tried[Len(tried)])
    /\ perceiver # "idle" => tried # <<>> /\ scene = tried[Len(tried)]
    /\ perceiver = "idle" => IF tried = <<>> THEN reference = -1 ELSE reference = tried[Len(tried)]

(* The inductive invariant of the video perceiver.                         *)
VideoInv == VideoTypes /\ ThreadsInv /\ CountsInv /\ ReferenceInv

(* No scene differs from itself, and two differ from each other.           *)
LEMMA DiffersIsSymmetric ==
    ASSUME NEW a \in Scenes, NEW b \in Scenes
    PROVE  ~Differs(a, a) /\ (Differs(a, b) <=> Differs(b, a))
<1>1. Change \in Nat /\ a \in Int /\ b \in Int
    BY VideoAssumption DEF Scenes
<1>2. QED BY <1>1 DEF Differs

(* The invariant holds initially ...                                       *)
LEMMA VideoInitially == VideoInit => VideoInv
<1> SUFFICES ASSUME VideoInit PROVE VideoInv
    OBVIOUS
<1>1. MaxScene \in Nat /\ MaxFrames \in Nat /\ 0 \in Scenes /\ 0 \in 0..MaxFrames
    BY VideoAssumption DEF Scenes
<1>2. <<>> \in Seq(Scenes) /\ <<>> \in Seq(Captions) /\ Len(<<>>) = 0
    OBVIOUS
<1>3. VideoTypes
    BY <1>1, <1>2 DEF VideoInit, VideoTypes
<1>4. Within(<<1, 1>>)
    BY VideoAssumption DEF Within
<1>5. ThreadsInv
    BY <1>4 DEF VideoInit, ThreadsInv
<1>6. CountsInv /\ ReferenceInv
    BY <1>2 DEF VideoInit, CountsInv, ReferenceInv
<1>7. QED BY <1>3, <1>5, <1>6 DEF VideoInv

(* A frame is seen.                                                        *)
LEMMA SeeFrameKeeps ==
    ASSUME VideoInv, NEW shown \in Scenes, SeeFrame(shown)
    PROVE  VideoInv'
<1> DEFINE chosen == seen % SampleEvery = 0
           new == reference = -1 \/ Differs(shown, reference)
<1>1. /\ perceiver = "idle" /\ ~frameCancelled /\ seen < MaxFrames /\ seen' = seen + 1
      /\ sampled' = sampled + (IF chosen THEN 1 ELSE 0)
      /\ skipped' = skipped + (IF chosen /\ ~new THEN 1 ELSE 0)
      /\ perceiver' = IF chosen /\ new THEN "captioning" ELSE "idle"
      /\ scene' = IF chosen THEN shown ELSE scene
      /\ reference' = reference
      /\ tried' = IF chosen /\ new THEN Append(tried, shown) ELSE tried
      /\ UNCHANGED <<captioner, captioned, empty, videoFailed, busy, inference, alive, frameCancelled, captions, imageSize>>
    BY DEF SeeFrame, KeptReference, threadVars
<1> HIDE DEF chosen
<1>2. VideoTypes /\ ThreadsInv /\ CountsInv /\ ReferenceInv
    BY DEF VideoInv
<1>3. VideoTypes'
  <2>1. seen' \in 0..MaxFrames /\ seen' # 0 /\ sampled' \in Nat /\ skipped' \in Nat
      BY <1>1, <1>2, VideoAssumption DEF VideoTypes
  <2>2. tried' \in Seq(Scenes)
      BY <1>1, <1>2 DEF VideoTypes
  <2>3. QED BY <1>1, <1>2, <2>1, <2>2 DEF VideoTypes
<1>4. ThreadsInv'
    BY <1>1, <1>2 DEF ThreadsInv
<1>5. CountsInv'
    BY <1>1, <1>2 DEF CountsInv, VideoTypes
<1>6. ReferenceInv'
  <2>1. tried \in Seq(Scenes) /\ Len(tried) \in Nat /\ scene \in Scenes /\ (tried # <<>> => Len(tried) > 0)
      BY <1>2 DEF VideoTypes
  <2>2. CASE chosen /\ new
    <3> DEFINE n == Len(tried)
    <3>1. /\ Len(tried') = n + 1 /\ tried'[n + 1] = shown /\ tried' # <<>>
          /\ \A i \in 1..n : tried'[i] = tried[i]
        BY <1>1, <2>1, <2>2
    <3>2. scene' = shown /\ perceiver' # "idle" /\ ~Differs(shown, shown)
        BY <1>1, <2>2, DiffersIsSymmetric
    <3>3. ASSUME NEW i \in 1..n PROVE Differs(tried'[i], tried'[i + 1])
      <4>1. CASE i = n
        <5>1. tried # <<>> /\ reference = tried[n] /\ reference \in Scenes
            BY <1>1, <1>2, <2>1, <4>1 DEF ReferenceInv
        <5>2. Differs(shown, reference)
          <6>1. reference # -1
              BY <5>1 DEF Scenes
          <6>2. QED BY <2>2, <6>1
        <5>3. Differs(reference, shown)
            BY <5>1, <5>2, DiffersIsSymmetric
        <5>4. QED BY <3>1, <4>1, <5>1, <5>3
      <4>2. CASE i # n
        <5>1. i \in 1..(n - 1) /\ i + 1 \in 1..n
            BY <2>1, <4>2
        <5>2. Differs(tried[i], tried[i + 1])
            BY <1>2, <5>1 DEF ReferenceInv
        <5>3. QED BY <3>1, <5>1, <5>2
      <4>3. QED BY <4>1, <4>2
    <3>4. n + 1 - 1 = n
        BY <2>1
    <3>5. QED BY <3>1, <3>2, <3>3, <3>4 DEF ReferenceInv
  <2>3. CASE chosen /\ ~new
    <3>1. tried' = tried /\ perceiver' = "idle" /\ scene' = shown /\ reference' = reference
        BY <1>1, <2>3
    <3>2. tried # <<>> => ~Differs(shown, tried[Len(tried)])
        BY <1>1, <1>2, <2>3 DEF ReferenceInv
    <3>3. QED BY <1>1, <1>2, <3>1, <3>2 DEF ReferenceInv
  <2>4. CASE ~chosen
    <3>1. tried' = tried /\ perceiver' = "idle" /\ scene' = scene /\ reference' = reference
        BY <1>1, <2>4
    <3>2. QED BY <1>1, <1>2, <3>1 DEF ReferenceInv
  <2>5. QED BY <2>2, <2>3, <2>4
<1>7. QED BY <1>3, <1>4, <1>5, <1>6 DEF VideoInv

(* A frame is done with, and its caption describes itself.                 *)
LEMMA ConcludeKeeps ==
    ASSUME VideoInv, perceiver # "idle", NEW outcome \in Outcomes, NEW described,
           outcome = "text" => described = seen,
           Conclude(outcome, described),
           UNCHANGED <<captioner, tried>>
    PROVE  VideoTypes' /\ CountsInv' /\ ReferenceInv' /\ perceiver' = "idle" /\ seen' = seen
<1>1. /\ perceiver' = "idle" /\ reference' = scene
      /\ captioned' = captioned + (IF outcome = "text" THEN 1 ELSE 0)
      /\ empty' = empty + (IF outcome = "nothing" THEN 1 ELSE 0)
      /\ videoFailed' = videoFailed + (IF outcome = "error" THEN 1 ELSE 0)
      /\ UNCHANGED <<seen, sampled, skipped, scene, frameCancelled, captioner, tried>>
    BY DEF Conclude
<1>2. VideoTypes /\ CountsInv /\ ReferenceInv
    BY DEF VideoInv
<1>3. /\ captions' \in Seq(Captions)
      /\ Len(captions') = Len(captions) + (IF outcome = "text" THEN 1 ELSE 0)
      /\ \A i \in 1..Len(captions') : captions'[i].frame = captions'[i].of
      /\ \A i \in 1..Len(captions') : captions'[i].fate = "dropped" =>
            frameCancelled' /\ i = Len(captions') /\ captions'[i].frame = seen'
  <2>1. captions \in Seq(Captions) /\ Len(captions) \in Nat
        /\ \A i \in 1..Len(captions) : captions[i].frame = captions[i].of /\ captions[i].fate # "dropped"
      BY <1>2 DEF VideoTypes, CountsInv
  <2>2. CASE outcome = "text"
    <3>1. PICK fate \in IF frameCancelled THEN {"dropped"} ELSE {"written", "refused"} :
            captions' = Append(captions, [frame |-> seen, of |-> described, shows |-> scene, fate |-> fate])
        BY <2>2 DEF Conclude
    <3> DEFINE caption == [frame |-> seen, of |-> seen, shows |-> scene, fate |-> fate]
    <3>2. captions' = Append(captions, caption)
        BY <2>2, <3>1
    <3>3. caption \in Captions /\ caption.frame = seen /\ caption.of = seen /\ (caption.fate = "dropped" => frameCancelled)
      <4>1. seen \in 1..MaxFrames /\ scene \in Scenes /\ fate \in {"written", "refused", "dropped"}
          BY <1>2 DEF VideoTypes
      <4>2. fate = "dropped" => frameCancelled
          OBVIOUS
      <4>3. QED BY <4>1, <4>2 DEF Captions
    <3> HIDE DEF caption
    <3>4. /\ captions' \in Seq(Captions) /\ Len(captions') = Len(captions) + 1
          /\ captions'[Len(captions) + 1] = caption
          /\ \A i \in 1..Len(captions) : captions'[i] = captions[i]
        BY <2>1, <3>2, <3>3
    <3>5. QED BY <1>1, <2>1, <2>2, <3>3, <3>4
  <2>3. CASE outcome # "text"
    <3>1. captions' = captions
        BY <2>3 DEF Conclude
    <3>2. QED BY <2>1, <2>3, <3>1
  <2>4. QED BY <2>2, <2>3
<1>6. captioned' \in Nat /\ empty' \in Nat /\ videoFailed' \in Nat
    BY <1>1, <1>2 DEF VideoTypes
<1>7. VideoTypes'
    BY <1>1, <1>2, <1>3, <1>6 DEF VideoTypes
<1>8. CountsInv'
  <2>1. sampled' = skipped' + captioned' + empty' + videoFailed'
      BY <1>1, <1>2 DEF CountsInv, VideoTypes, Outcomes
  <2>2. QED BY <1>1, <1>2, <1>3, <2>1 DEF CountsInv, VideoTypes
<1>9. ReferenceInv'
    BY <1>1, <1>2 DEF ReferenceInv
<1>10. QED BY <1>1, <1>7, <1>8, <1>9

(* ... and every step keeps it.                                            *)
LEMMA VideoStepwise == VideoInv /\ [VideoNext]_videoVars => VideoInv'
<1> SUFFICES ASSUME VideoInv, [VideoNext]_videoVars PROVE VideoInv'
    OBVIOUS
<1>1. VideoTypes /\ ThreadsInv /\ CountsInv /\ ReferenceInv
    BY DEF VideoInv
<1>2. \A size \in Sizes : Within(Bounded[size])
  <2>1. \A size \in Sizes : size \in Sides
      BY VideoAssumption DEF Sizes, Sides
  <2>2. QED BY <2>1, BoundedFits
<1>3. ASSUME perceiver # "idle", NEW outcome \in Outcomes, NEW described,
             outcome = "text" => described = seen, Conclude(outcome, described),
             UNCHANGED <<captioner, tried, busy, inference, alive>>, Within(imageSize')
      PROVE  VideoInv'
  <2>1. VideoTypes' /\ CountsInv' /\ ReferenceInv' /\ perceiver' = "idle" /\ seen' = seen
      BY <1>3, ConcludeKeeps
  <2>2. ThreadsInv'
      BY <1>1, <1>3, <2>1 DEF ThreadsInv
  <2>3. QED BY <2>1, <2>2 DEF VideoInv
<1>4. ASSUME NEW shown \in Scenes, SeeFrame(shown) PROVE VideoInv'
    BY <1>4, SeeFrameKeeps
<1>5. CASE LoadCaptioner
  <2>1. captioner' \in {"none", "ready", "broken"}
        /\ UNCHANGED <<statVars, threadVars, frameVars, captions, tried, imageSize>>
      BY <1>5 DEF LoadCaptioner
  <2>2. QED BY <1>1, <2>1
        DEF VideoInv, VideoTypes, ThreadsInv, CountsInv, ReferenceInv, statVars, threadVars, frameVars
<1>6. CASE CaptionerIsBroken \/ ModelIsBusy \/ JoinTimesOut
  <2>1. /\ perceiver # "idle" /\ Conclude("error", 0)
        /\ UNCHANGED <<captioner, tried, busy, inference, alive, imageSize>>
      BY <1>6 DEF CaptionerIsBroken, ModelIsBusy, JoinTimesOut, threadVars
  <2>2. "error" \in Outcomes /\ "error" # "text" /\ Within(imageSize')
      BY <1>1, <2>1 DEF Outcomes, ThreadsInv
  <2>3. QED BY <1>3, <2>1, <2>2
<1>7. ASSUME NEW outcome \in Outcomes, AskServer(outcome) PROVE VideoInv'
  <2>1. /\ perceiver # "idle" /\ Conclude(outcome, seen)
        /\ UNCHANGED <<captioner, tried, busy, inference, alive>>
      BY <1>7 DEF AskServer, threadVars
  <2>2. Within(imageSize')
      BY <1>2, <1>7 DEF AskServer
  <2>3. QED BY <1>3, <2>1, <2>2
<1>8. CASE BeginInference
  <2>1. /\ perceiver = "captioning" /\ ~busy /\ busy' = TRUE
        /\ inference' = [inference EXCEPT ![seen] = "working"]
        /\ alive' = alive \cup {seen} /\ perceiver' = "joining"
        /\ UNCHANGED <<captioner, statVars, scene, reference, frameCancelled, captions, tried>>
      BY <1>8 DEF BeginInference
  <2>2. Within(imageSize')
      BY <1>2, <1>8 DEF BeginInference
  <2>3. seen \in 1..MaxFrames /\ alive = {} /\ seen' = seen
      BY <1>1, <2>1 DEF VideoTypes, ThreadsInv, statVars
  <2>4. alive' = {seen} /\ inference'[seen] = "working"
        /\ \A n \in 1..MaxFrames : n # seen => inference'[n] = inference[n]
      BY <1>1, <2>1, <2>3 DEF ThreadsInv
  <2>5. inference' \in [1..MaxFrames -> {"none", "working"} \cup Outcomes]
      BY <1>1, <2>1, <2>3 DEF ThreadsInv
  <2>6. ThreadsInv'
      BY <1>1, <2>1, <2>2, <2>3, <2>4, <2>5 DEF ThreadsInv
  <2>7. VideoTypes' /\ CountsInv' /\ ReferenceInv'
      BY <1>1, <2>1 DEF VideoTypes, CountsInv, ReferenceInv, statVars
  <2>8. QED BY <2>6, <2>7 DEF VideoInv
<1>9. ASSUME NEW n \in 1..MaxFrames, NEW outcome \in Outcomes, InferenceReturns(n, outcome)
      PROVE  VideoInv'
  <2>1. /\ inference[n] = "working" /\ inference' = [inference EXCEPT ![n] = outcome]
        /\ UNCHANGED <<captioner, statVars, busy, alive, frameVars, captions, tried, imageSize>>
      BY <1>9 DEF InferenceReturns
  <2>2. VideoTypes' /\ CountsInv' /\ ReferenceInv'
      BY <1>1, <2>1 DEF VideoTypes, CountsInv, ReferenceInv, statVars, frameVars
  <2>3. ThreadsInv'
      BY <1>1, <2>1 DEF ThreadsInv, Outcomes, statVars, frameVars
  <2>4. QED BY <2>2, <2>3 DEF VideoInv
<1>10. ASSUME NEW n \in 1..MaxFrames, ReleaseModel(n) PROVE VideoInv'
  <2>1. /\ n \in alive /\ inference[n] # "working" /\ busy' = FALSE /\ alive' = alive \ {n}
        /\ UNCHANGED <<captioner, statVars, inference, frameVars, captions, tried, imageSize>>
      BY <1>10 DEF ReleaseModel
  <2>2. VideoTypes' /\ CountsInv' /\ ReferenceInv'
      BY <1>1, <2>1 DEF VideoTypes, CountsInv, ReferenceInv, statVars, frameVars
  <2>3. ThreadsInv'
      BY <1>1, <2>1 DEF ThreadsInv, statVars, frameVars
  <2>4. QED BY <2>2, <2>3 DEF VideoInv
<1>11. CASE JoinEnds
  <2>1. /\ perceiver = "joining" /\ seen \notin alive /\ Conclude(inference[seen], seen)
        /\ UNCHANGED <<captioner, tried, busy, inference, alive, imageSize>>
      BY <1>11 DEF JoinEnds, ItsResult, threadVars
  <2>2. seen \in 1..MaxFrames /\ Within(imageSize')
      BY <1>1, <2>1 DEF VideoTypes, ThreadsInv
  <2>3. inference[seen] \in Outcomes
      BY <1>1, <2>1, <2>2 DEF ThreadsInv
  <2>4. QED BY <1>3, <2>1, <2>2, <2>3
<1>12. CASE CancelFrame
  <2>1. /\ perceiver # "idle" /\ frameCancelled' = TRUE
        /\ UNCHANGED <<captioner, statVars, threadVars, perceiver, scene, reference, captions, tried, imageSize>>
      BY <1>12 DEF CancelFrame
  <2>2. VideoTypes' /\ ThreadsInv' /\ CountsInv' /\ ReferenceInv'
      BY <1>1, <2>1 DEF VideoTypes, ThreadsInv, CountsInv, ReferenceInv, statVars, threadVars
  <2>3. QED BY <2>2 DEF VideoInv
<1>13. CASE UNCHANGED videoVars
    BY <1>1, <1>13 DEF VideoInv, VideoTypes, ThreadsInv, CountsInv, ReferenceInv,
                       videoVars, statVars, threadVars, frameVars
<1>14. QED BY <1>4, <1>5, <1>6, <1>7, <1>8, <1>9, <1>10, <1>11, <1>12, <1>13 DEF VideoNext, Outcomes

(* Each frame is told apart, captioned by itself, and counted.             *)
THEOREM FramesDescribed == VideoSpec => []FramesAreDescribed
<1>1. VideoInv => FramesAreDescribed
    BY DEF VideoInv, ThreadsInv, CountsInv, ReferenceInv, FramesAreDescribed, InferenceIsOwned, FramesAreAccounted
<1>2. QED BY VideoInitially, VideoStepwise, <1>1, PTL DEF VideoSpec

-----------------------------------------------------------------------------
(* The sum of a function as the library folds it: an element is chosen,    *)
(* and what is left is summed.                                             *)
Chosen(s) == CHOOSE x \in s : TRUE
SumFrom(g, c, s) == IF s = {} THEN 0 ELSE c[Chosen(s)] + g[s \ {Chosen(s)}]
PartsUpTo(D, n) == {s \in SUBSET D : Cardinality(s) <= n}
SumsUpTo(g, c, D, n) == g = [s \in PartsUpTo(D, n) |-> SumFrom(g, c, s)]
Sums(g, c) == g = [s \in SUBSET DOMAIN c |-> SumFrom(g, c, s)]

(* Finite sets become smaller by one.                                      *)
LEMMA ChosenIsIn ==
    ASSUME NEW D, IsFiniteSet(D), NEW s \in SUBSET D, s # {}
    PROVE  /\ Chosen(s) \in s
           /\ Cardinality(s) \in Nat \ {0} /\ IsFiniteSet(s)
           /\ \A x \in s : s \ {x} \in SUBSET D /\ Cardinality(s \ {x}) = Cardinality(s) - 1
<1>1. Chosen(s) \in s
    BY DEF Chosen
<1>2. IsFiniteSet(s)
    BY FS_Subset
<1>3. Cardinality(s) \in Nat /\ Cardinality(s) # 0
    BY <1>2, FS_CardinalityType, FS_EmptySet
<1>4. \A x \in s : Cardinality(s \ {x}) = Cardinality(s) - 1
    BY <1>2, FS_RemoveElement
<1>5. QED BY <1>1, <1>2, <1>3, <1>4

(* There is a function that sums the sets up to a size, ...                *)
LEMMA SumsUpToExist ==
    ASSUME NEW c, NEW D, IsFiniteSet(D)
    PROVE  \A n \in Nat : \E g : SumsUpTo(g, c, D, n)
<1> DEFINE T == {n \in Nat : ~ \E g : SumsUpTo(g, c, D, n)}
<1> SUFFICES ASSUME T # {} PROVE FALSE
    OBVIOUS
<1>1. PICK n \in T : \A m \in T : n <= m
    BY LeastOfNats
<1>2. CASE n = 0
  <2> DEFINE g == [s \in PartsUpTo(D, 0) |-> 0]
  <2>1. ASSUME NEW s \in PartsUpTo(D, 0) PROVE s = {}
    <3>1. s \in SUBSET D /\ Cardinality(s) <= 0
        BY DEF PartsUpTo
    <3>2. QED BY <3>1, ChosenIsIn
  <2>2. SumsUpTo(g, c, D, 0)
      BY <2>1 DEF SumsUpTo, SumFrom
  <2>3. QED BY <1>2, <2>2
<1>3. CASE n # 0
  <2>1. n - 1 \in Nat /\ n - 1 \notin T
      BY <1>1, <1>3
  <2>2. PICK g : SumsUpTo(g, c, D, n - 1)
      BY <2>1
  <2> DEFINE f == [s \in PartsUpTo(D, n) |-> SumFrom(g, c, s)]
  <2>3. ASSUME NEW t \in PartsUpTo(D, n - 1) PROVE f[t] = g[t]
    <3>1. t \in PartsUpTo(D, n)
      <4>1. t \in SUBSET D /\ Cardinality(t) <= n - 1 /\ Cardinality(t) \in Nat
          BY FS_Subset, FS_CardinalityType DEF PartsUpTo
      <4>2. Cardinality(t) <= n
          BY <2>1, <4>1
      <4>3. QED BY <4>1, <4>2 DEF PartsUpTo
    <3>2. g[t] = SumFrom(g, c, t)
        BY <2>2 DEF SumsUpTo
    <3>3. QED BY <3>1, <3>2
  <2> HIDE DEF f
  <2>4. ASSUME NEW s \in PartsUpTo(D, n) PROVE SumFrom(f, c, s) = SumFrom(g, c, s)
    <3>1. CASE s = {}
        BY <3>1 DEF SumFrom
    <3>2. CASE s # {}
      <4> DEFINE t == s \ {Chosen(s)}
      <4>1. s \in SUBSET D /\ Cardinality(s) <= n
          BY DEF PartsUpTo
      <4>2. t \in SUBSET D /\ Cardinality(t) = Cardinality(s) - 1 /\ Cardinality(s) \in Nat
          BY <3>2, <4>1, ChosenIsIn
      <4>3. Cardinality(t) <= n - 1
          BY <2>1, <4>1, <4>2
      <4>4. t \in PartsUpTo(D, n - 1)
          BY <4>2, <4>3 DEF PartsUpTo
      <4>5. f[t] = g[t]
          BY <2>3, <4>4
      <4>6. QED BY <3>2, <4>5 DEF SumFrom
    <3>3. QED BY <3>1, <3>2
  <2>5. SumsUpTo(f, c, D, n)
      BY <2>4 DEF SumsUpTo, f
  <2>6. QED BY <2>5
<1>4. QED BY <1>2, <1>3

(* ... hence one that sums all, and the library has it.                    *)
LEMMA SumIsFolded ==
    ASSUME NEW c, IsFiniteSet(DOMAIN c)
    PROVE  \E g : Sums(g, c) /\ SumFunction(c) = g[DOMAIN c]
<1> DEFINE D == DOMAIN c
           n == Cardinality(D)
<1>1. n \in Nat
    BY FS_CardinalityType
<1>2. PartsUpTo(D, n) = SUBSET D
    BY FS_Subset DEF PartsUpTo
<1>3. \E g : Sums(g, c)
  <2>1. PICK g : SumsUpTo(g, c, D, n)
      BY <1>1, SumsUpToExist
  <2>2. QED BY <1>2, <2>1 DEF SumsUpTo, Sums
<1> DEFINE it == CHOOSE g : g = [s \in SUBSET DOMAIN c |-> SumFrom(g, c, s)]
<1>4. SumFunction(c) = it[D]
    BY DEF SumFunction, SumFunctionOnSet, FoldFunctionOnSet, MapThenFoldSet, SumFrom, Chosen
<1>5. Sums(it, c)
    BY <1>3 DEF Sums
<1>6. QED BY <1>4, <1>5

(* A function of finitely many numbers.                                    *)
IsCount(c) == IsFiniteSet(DOMAIN c) /\ \A x \in DOMAIN c : c[x] \in Nat

(* Whichever element is taken out first.                                   *)
AddsUp(g, c) ==
    /\ g[{}] = 0
    /\ \A s \in SUBSET DOMAIN c : g[s] \in Nat
    /\ \A s \in SUBSET DOMAIN c : \A y \in s : g[s] = c[y] + g[s \ {y}]

(* A sum is any of its terms and the sum of the others.                    *)
LEMMA SumByElement ==
    ASSUME NEW c, IsCount(c), NEW g, Sums(g, c)
    PROVE  AddsUp(g, c)
<1> DEFINE D == DOMAIN c
<1>1. IsFiniteSet(D) /\ \A s \in SUBSET D : g[s] = SumFrom(g, c, s)
    BY DEF Sums, IsCount
<1>2. \A s \in SUBSET D : s # {} => g[s] = c[Chosen(s)] + g[s \ {Chosen(s)}]
    BY <1>1 DEF SumFrom
<1>3. g[{}] = 0
    BY <1>1 DEF SumFrom
<1> HIDE DEF D
<1>4. \A s \in SUBSET D : g[s] \in Nat
  <2> DEFINE T == {k \in Nat : \E s \in SUBSET D : Cardinality(s) = k /\ g[s] \notin Nat}
  <2>1. ASSUME T # {} PROVE FALSE
    <3>1. PICK k \in T : \A l \in T : k <= l
        BY <2>1, LeastOfNats
    <3>2. PICK s \in SUBSET D : Cardinality(s) = k /\ g[s] \notin Nat
        BY <3>1
    <3>3. s # {}
        BY <1>3, <3>2
    <3> DEFINE t == s \ {Chosen(s)}
    <3>4. t \in SUBSET D /\ Cardinality(t) = k - 1 /\ k \in Nat \ {0} /\ Chosen(s) \in D
        BY <1>1, <3>2, <3>3, ChosenIsIn
    <3>5. k - 1 \in Nat /\ k - 1 \notin T
        BY <3>1, <3>4
    <3>6. g[t] \in Nat
        BY <3>4, <3>5
    <3>7. c[Chosen(s)] \in Nat
        BY <3>4 DEF IsCount, D
    <3>8. g[s] = c[Chosen(s)] + g[t]
        BY <1>2, <3>3
    <3>9. QED BY <3>2, <3>6, <3>7, <3>8
  <2>2. \A s \in SUBSET D : Cardinality(s) \in Nat
      BY <1>1, FS_Subset, FS_CardinalityType
  <2>3. QED BY <2>1, <2>2
<1>5. \A s \in SUBSET D : \A y \in s : g[s] = c[y] + g[s \ {y}]
  <2> DEFINE T == {k \in Nat : \E s \in SUBSET D : Cardinality(s) = k /\ \E y \in s : g[s] # c[y] + g[s \ {y}]}
  <2>1. ASSUME T # {} PROVE FALSE
    <3>1. PICK k \in T : \A l \in T : k <= l
        BY <2>1, LeastOfNats
    <3>2. PICK s \in SUBSET D : Cardinality(s) = k /\ \E y \in s : g[s] # c[y] + g[s \ {y}]
        BY <3>1
    <3>3. PICK y \in s : g[s] # c[y] + g[s \ {y}]
        BY <3>2
    <3> DEFINE x == Chosen(s)
               withoutX == s \ {x}
               withoutY == s \ {y}
               neither == withoutX \ {y}
    <3>4. s # {} /\ x \in s /\ k \in Nat \ {0}
          /\ withoutX \in SUBSET D /\ Cardinality(withoutX) = k - 1
          /\ withoutY \in SUBSET D /\ Cardinality(withoutY) = k - 1
        BY <1>1, <3>2, ChosenIsIn
    <3>5. g[s] = c[x] + g[withoutX]
        BY <1>2, <3>4
    <3>6. x # y
        BY <3>3, <3>5
    <3>7. y \in withoutX /\ x \in withoutY /\ withoutY \ {x} = neither
        BY <3>4, <3>6
    <3> HIDE DEF x, withoutX, withoutY, neither
    <3>8. k - 1 \in Nat /\ k - 1 \notin T
        BY <3>1, <3>4
    <3>9. g[withoutX] = c[y] + g[neither] /\ g[withoutY] = c[x] + g[neither]
      <4>1. \A t \in SUBSET D : Cardinality(t) = k - 1 => \A z \in t : g[t] = c[z] + g[t \ {z}]
          BY <3>8
      <4>2. QED BY <3>4, <3>7, <4>1 DEF neither
    <3>10. c[x] \in Nat /\ c[y] \in Nat /\ g[neither] \in Nat
      <4>1. x \in D /\ y \in D /\ neither \in SUBSET D
          BY <3>3, <3>4 DEF neither
      <4>2. QED BY <1>4, <4>1 DEF IsCount, D
    <3>11. g[s] = c[y] + g[withoutY]
        BY <3>5, <3>9, <3>10
    <3>12. QED BY <3>3, <3>11 DEF withoutY
  <2>2. \A s \in SUBSET D : Cardinality(s) \in Nat
      BY <1>1, FS_Subset, FS_CardinalityType
  <2>3. QED BY <2>1, <2>2
<1>6. QED BY <1>3, <1>4, <1>5 DEF D, AddsUp

(* The sum over a set depends on the values there alone.                   *)
LEMMA SameSum ==
    ASSUME NEW c, IsCount(c), NEW g, Sums(g, c), NEW d, IsCount(d), NEW h, Sums(h, d),
           NEW D, D \in SUBSET DOMAIN c, D \in SUBSET DOMAIN d, \A x \in D : c[x] = d[x]
    PROVE  g[D] = h[D]
<1>1. IsFiniteSet(D)
    BY FS_Subset DEF IsCount
<1>2. g[{}] = 0 /\ h[{}] = 0
    BY SumByElement DEF AddsUp
<1>3. \A s \in SUBSET D : \A y \in s : g[s] = c[y] + g[s \ {y}] /\ h[s] = d[y] + h[s \ {y}]
  <2>1. AddsUp(g, c) /\ AddsUp(h, d)
      BY SumByElement
  <2>2. \A s \in SUBSET DOMAIN c : \A y \in s : g[s] = c[y] + g[s \ {y}]
      BY <2>1, Zenon DEF AddsUp
  <2>3. \A s \in SUBSET DOMAIN d : \A y \in s : h[s] = d[y] + h[s \ {y}]
      BY <2>1, Zenon DEF AddsUp
  <2>4. \A s \in SUBSET D : s \in SUBSET DOMAIN c /\ s \in SUBSET DOMAIN d
      OBVIOUS
  <2>5. QED BY <2>2, <2>3, <2>4, Zenon
<1> DEFINE T == {k \in Nat : \E s \in SUBSET D : Cardinality(s) = k /\ g[s] # h[s]}
<1>4. ASSUME T # {} PROVE FALSE
  <2>1. PICK k \in T : \A l \in T : k <= l
      BY <1>4, LeastOfNats
  <2>2. PICK s \in SUBSET D : Cardinality(s) = k /\ g[s] # h[s]
      BY <2>1
  <2>3. s # {}
      BY <1>2, <2>2
  <2> DEFINE x == Chosen(s)
             t == s \ {x}
  <2>4. t \in SUBSET D /\ Cardinality(t) = k - 1 /\ k \in Nat \ {0} /\ x \in s
      BY <1>1, <2>2, <2>3, ChosenIsIn
  <2>5. k - 1 \in Nat /\ k - 1 \notin T
      BY <2>1, <2>4
  <2>6. g[t] = h[t]
      BY <2>4, <2>5
  <2>7. g[s] = c[x] + g[t] /\ h[s] = d[x] + h[t]
      BY <1>3, <2>4
  <2>8. c[x] = d[x]
      BY <2>4
  <2>9. QED BY <2>2, <2>6, <2>7, <2>8
<1>5. Cardinality(D) \in Nat /\ D \in SUBSET D
    BY <1>1, FS_CardinalityType
<1>6. QED BY <1>4, <1>5

(* One more term, and more of a term.                                      *)
LEMMA SumGrows ==
    ASSUME NEW c \in Seq(Nat), NEW n \in Nat
    PROVE  /\ SumFunction(<<>>) = 0
           /\ SumFunction(c) \in Nat
           /\ SumFunction(Append(c, n)) = SumFunction(c) + n
           /\ \A i \in 1..Len(c) : SumFunction([c EXCEPT ![i] = @ + n]) = SumFunction(c) + n
<1>1. \A s \in Seq(Nat) : IsCount(s) /\ DOMAIN s = 1..Len(s)
    BY FS_Interval DEF IsCount
<1>2. PICK g : Sums(g, c) /\ SumFunction(c) = g[1..Len(c)]
    BY <1>1, SumIsFolded DEF IsCount
<1>3. SumFunction(<<>>) = 0
  <2>1. <<>> \in Seq(Nat) /\ DOMAIN <<>> = {}
      BY <1>1
  <2>2. PICK h : Sums(h, <<>>) /\ SumFunction(<<>>) = h[{}]
      BY <1>1, <2>1, SumIsFolded DEF IsCount
  <2>3. QED BY <1>1, <2>1, <2>2, SumByElement DEF AddsUp
<1>4. SumFunction(c) \in Nat
    BY <1>1, <1>2, SumByElement DEF AddsUp
<1>5. SumFunction(Append(c, n)) = SumFunction(c) + n
  <2> DEFINE d == Append(c, n)
             m == Len(c)
  <2>1. d \in Seq(Nat) /\ Len(d) = m + 1 /\ d[m + 1] = n /\ m \in Nat /\ \A i \in 1..m : d[i] = c[i]
      OBVIOUS
  <2> HIDE DEF d
  <2>2. PICK h : Sums(h, d) /\ SumFunction(d) = h[1..(m + 1)]
      BY <1>1, <2>1, SumIsFolded DEF IsCount
  <2>3. (1..(m + 1)) \ {m + 1} = 1..m /\ m + 1 \in 1..(m + 1) /\ 1..(m + 1) \in SUBSET DOMAIN d
      BY <1>1, <2>1
  <2>4. h[1..(m + 1)] = d[m + 1] + h[1..m]
    <3>1. AddsUp(h, d)
        BY <1>1, <2>1, <2>2, SumByElement
    <3>2. \A y \in 1..(m + 1) : h[1..(m + 1)] = d[y] + h[(1..(m + 1)) \ {y}]
        BY <2>3, <3>1, Zenon DEF AddsUp
    <3>3. QED BY <2>3, <3>2
  <2>5. h[1..m] = g[1..m]
    <3>1. 1..m \in SUBSET DOMAIN c /\ 1..m \in SUBSET DOMAIN d /\ \A x \in 1..m : c[x] = d[x]
        BY <1>1, <2>1
    <3>2. IsCount(c) /\ IsCount(d)
        BY <1>1, <2>1
    <3>3. g[1..m] = h[1..m]
        BY <1>2, <2>2, <3>1, <3>2, SameSum
    <3>4. QED BY <3>3
  <2>6. QED BY <1>2, <1>4, <2>1, <2>2, <2>4, <2>5 DEF d
<1>6. ASSUME NEW i \in 1..Len(c) PROVE SumFunction([c EXCEPT ![i] = @ + n]) = SumFunction(c) + n
  <2> DEFINE d == [c EXCEPT ![i] = @ + n]
             D == 1..Len(c)
  <2>1. d \in Seq(Nat) /\ Len(d) = Len(c) /\ d[i] = c[i] + n /\ \A j \in D : j # i => d[j] = c[j]
      OBVIOUS
  <2> HIDE DEF d
  <2>2. PICK h : Sums(h, d) /\ SumFunction(d) = h[D]
      BY <1>1, <2>1, SumIsFolded DEF IsCount
  <2>3. h[D] = d[i] + h[D \ {i}] /\ g[D] = c[i] + g[D \ {i}]
    <3>1. AddsUp(h, d) /\ AddsUp(g, c)
        BY <1>1, <1>2, <2>1, <2>2, SumByElement
    <3>2. D \in SUBSET DOMAIN c /\ D \in SUBSET DOMAIN d /\ i \in D
        BY <1>1, <2>1
    <3> HIDE DEF D
    <3>3. QED BY <3>1, <3>2, Zenon DEF AddsUp
  <2>4. g[D \ {i}] = h[D \ {i}]
    <3>1. D \ {i} \in SUBSET DOMAIN c /\ D \ {i} \in SUBSET DOMAIN d /\ \A x \in D \ {i} : c[x] = d[x]
        BY <1>1, <2>1
    <3>2. IsCount(c) /\ IsCount(d)
        BY <1>1, <2>1
    <3> HIDE DEF D
    <3>3. QED BY <1>2, <2>2, <3>1, <3>2, SameSum
  <2>5. c[i] \in Nat /\ g[D \ {i}] \in Nat
      BY <1>1, <1>2, SumByElement DEF AddsUp
  <2>6. QED BY <1>2, <1>4, <2>1, <2>2, <2>3, <2>4, <2>5 DEF d
<1>7. QED BY <1>3, <1>4, <1>5, <1>6

-----------------------------------------------------------------------------
(* The types.                                                              *)
Frames == [frame : Nat, ts : Int, at : Nat]
RingFrames == [frame : Frames, speech : BOOLEAN]
Fates == {"written", "refused", "dropped"}
Words == [segment : Nat, cluster : Nat, label : {"streamer", "altro", "?"}, fate : Fates]
Deciding == {"freezing", "choosing", "labelling", "comparing"}

(* The types of the state.                                                 *)
AudioTypes ==
    /\ captured \in Nat /\ heard \in Nat /\ nextFrameTs \in Int
    /\ waiting \in Seq(Nat)
    /\ toHear \in Seq(Frames) /\ voiced \in Seq(Frames)
    /\ ring \in Seq(RingFrames)
    /\ triggered \in BOOLEAN
    /\ uttered \in Seq(Seq(Frames))
    /\ step \in {"idle", "hearing", "transcribing"} \cup Deciding
    /\ todo \in Seq(Nat)
    /\ chunkCancelled \in BOOLEAN
    /\ said \in Seq(Words)
    /\ passed \in Nat
    /\ clusters \in Seq(Nat)
    /\ lastCluster \in Nat
    /\ clustered \in Nat /\ unknown \in Nat /\ seconds \in Nat

(* The frames of a sequence are those up to one, none left out.            *)
UpTo(u, last) == \A i \in 1..Len(u) : u[i].frame = last - Len(u) + i
RingUpTo(r, last) == \A i \in 1..Len(r) : r[i].frame.frame = last - Len(r) + i

(* What UtterancesAreWhole says of one utterance and of all.               *)
WholeUtterance(u) ==
    /\ Len(u) \in Padding..Larger(Padding, MaxUtterance)
    /\ \A i \in 1..(Len(u) - 1) : u[i + 1].frame = u[i].frame + 1
Utterances(us) ==
    \A k \in 1..Len(us) : /\ WholeUtterance(us[k])
                          /\ k > 1 => us[k][1].frame > Last(us[k - 1]).frame
EndOf(us) == IF us = <<>> THEN 0 ELSE Last(Last(us)).frame

(* What the ring holds after n frames of which the last utterance took     *)
(* those up to end.                                                        *)
Quiet(r, n, end) ==
    /\ Len(r) = IF n - end < Padding THEN n - end ELSE Padding
    /\ ~RingIsReady(r, TRUE)

(* The detector: its ring and the utterance under way end with the frame   *)
(* that was heard last, after the end of the last utterance.               *)
VadInv ==
    /\ step = "hearing" <=> toHear # <<>>
    /\ \A i \in 1..Len(toHear) : toHear[i].frame = heard + i
    /\ Len(ring) <= Padding /\ RingUpTo(ring, heard)
    /\ Utterances(uttered)
    /\ EndOf(uttered) \in 0..heard
    /\ triggered => /\ Len(voiced) \in Padding..(MaxUtterance - 1)
                    /\ UpTo(voiced, heard)
                    /\ heard - Len(voiced) >= EndOf(uttered)
    /\ ~triggered => voiced = <<>> /\ Quiet(ring, heard, EndOf(uttered))

(* The segments that are left are the last ones.                           *)
SegmentsInv ==
    /\ step = "idle" => todo = <<>>
    /\ step \in {"transcribing"} \cup Deciding => todo # <<>>
    /\ \A i \in 1..Len(todo) : todo[i] = Len(uttered) - Len(todo) + i
    /\ Len(said) + passed + Len(todo) = Len(uttered)
    /\ \A k \in 1..Len(said) : said[k].segment <= Len(uttered) - Len(todo)
    /\ \A k \in 1..(Len(said) - 1) : said[k].segment < said[k + 1].segment

(* The clusterer counts what it was asked about.                           *)
ClustersInv ==
    /\ clustered + unknown = Len(said) + (IF step \in Deciding THEN 1 ELSE 0)
    /\ SumFunction(clusters) = seconds

(* Until the operator marks somebody, who was called the streamer is.      *)
StreamerInv ==
    /\ step \in Deciding => lastCluster # 0
    /\ marking = "pinned" => pins # {}
    /\ \A k \in 1..Len(said) : said[k].label = "streamer" =>
        said[k].cluster # 0 /\ (pins = {} => said[k].cluster = streamer)
    /\ step = "choosing" /\ pins = {} => streamer = 0

(* What is dropped without a word is the rest of a job that is cancelled.  *)
FatesInv ==
    \A k \in 1..Len(said) : said[k].fate = "dropped" =>
        chunkCancelled /\ \A j \in k..Len(said) : said[j].fate = "dropped"

(* The inductive invariant of the audio perceiver, but for the fates,      *)
(* which nothing else rests on.                                            *)
AudioInv == AudioTypes /\ VadInv /\ SegmentsInv /\ ClustersInv /\ StreamerInv

(* The constants are positive.                                             *)
LEMMA AudioConstants ==
    /\ FrameUnits \in Nat \ {0} /\ Padding \in Nat \ {0} /\ MaxUtterance \in Nat \ {0} /\ MaxUtterance >= Padding - 1
BY AudioAssumption

(* An empty ring has what was heard since now.                             *)
LEMMA QuietAtFirst == \A n \in Nat : Quiet(<<>>, n, n) /\ RingUpTo(<<>>, n)
<1>1. Len(<<>>) = 0 /\ 0 # Padding /\ 0 < Padding
    BY AudioConstants
<1>2. QED BY <1>1 DEF Quiet, RingUpTo, RingIsReady

(* The invariant holds initially.                                          *)
LEMMA AudioInitially == AudioInit => AudioInv
<1> SUFFICES ASSUME AudioInit PROVE AudioInv
    OBVIOUS
<1>1. \A X : <<>> \in Seq(X)
    OBVIOUS
<1>2. Len(<<>>) = 0 /\ SumFunction(<<>>) = 0
  <2>1. <<>> \in Seq(Nat) /\ 0 \in Nat
      OBVIOUS
  <2>2. QED BY <2>1, SumGrows
<1>3. AudioTypes
  <2>1. /\ waiting \in Seq(Nat) /\ toHear \in Seq(Frames) /\ voiced \in Seq(Frames) /\ ring \in Seq(RingFrames)
        /\ uttered \in Seq(Seq(Frames)) /\ todo \in Seq(Nat) /\ said \in Seq(Words) /\ clusters \in Seq(Nat)
    <3>1. /\ <<>> \in Seq(Nat) /\ <<>> \in Seq(Frames) /\ <<>> \in Seq(RingFrames)
          /\ <<>> \in Seq(Seq(Frames)) /\ <<>> \in Seq(Words)
        BY <1>1, Zenon
    <3>2. QED BY <3>1, Zenon DEF AudioInit
  <2>2. /\ captured \in Nat /\ heard \in Nat /\ nextFrameTs \in Int /\ triggered \in BOOLEAN
        /\ chunkCancelled \in BOOLEAN
        /\ step \in {"idle", "hearing", "transcribing"} \cup Deciding
    <3>1. triggered \in BOOLEAN /\ chunkCancelled \in BOOLEAN
        BY Zenon DEF AudioInit
    <3>2. captured \in Nat /\ heard \in Nat /\ nextFrameTs \in Int
        BY DEF AudioInit
    <3>3. step \in {"idle", "hearing", "transcribing"} \cup Deciding
        BY DEF AudioInit
    <3>4. QED BY <3>1, <3>2, <3>3
  <2>3. /\ passed \in Nat /\ lastCluster \in Nat /\ clustered \in Nat /\ unknown \in Nat /\ seconds \in Nat
      BY DEF AudioInit
  <2>4. QED BY <2>1, <2>2, <2>3 DEF AudioTypes
<1>4. VadInv
  <2>1. EndOf(uttered) = 0 /\ Utterances(uttered)
      BY <1>2 DEF AudioInit, EndOf, Utterances
  <2>2. Len(ring) <= Padding /\ RingUpTo(ring, heard) /\ Quiet(ring, heard, EndOf(uttered))
      BY <1>2, <2>1, QuietAtFirst, AudioConstants DEF AudioInit
  <2>3. QED BY <1>2, <2>1, <2>2 DEF AudioInit, VadInv
<1>5. SegmentsInv /\ ClustersInv /\ StreamerInv
    BY <1>2 DEF AudioInit, SegmentsInv, ClustersInv, StreamerInv, Deciding
<1>6. QED BY <1>3, <1>4, <1>5 DEF AudioInv

-----------------------------------------------------------------------------
(* The whole frames of n units begin within them.                          *)
LEMMA WholeFrames ==
    ASSUME NEW n \in Nat, NEW f \in Nat \ {0}
    PROVE  /\ n \div f \in Nat /\ (n \div f) * f \in 0..n
           /\ \A i \in 1..(n \div f) : (i - 1) * f + 1 \in 1..n
<1> DEFINE q == n \div f
<1>1. q \in Nat /\ q * f \in Nat /\ q * f <= n
    OBVIOUS
<1> HIDE DEF q
<1>2. ASSUME NEW i \in 1..q PROVE (i - 1) * f + 1 \in 1..n
  <2>1. i - 1 \in Nat /\ q - i \in Nat
      BY <1>1
  <2>2. (i - 1) * f \in Nat /\ (q - i) * f \in Nat
      BY <2>1
  <2>3. q * f = (i - 1) * f + f + (q - i) * f
      BY <1>1, <2>1
  <2>4. QED BY <1>1, <2>2, <2>3
<1>3. QED BY <1>1, <1>2 DEF q

(* BeginChunk.                                                             *)
LEMMA ChunkKeeps ==
    ASSUME AudioInv, NEW units \in ChunkSizes, BeginChunk(units)
    PROVE  AudioInv'
<1> DEFINE data == waiting \o [i \in 1..units |-> captured + i - 1]
           frames == Len(data) \div FrameUnits
           first == IF nextFrameTs = -1 THEN captured ELSE nextFrameTs
           new == [i \in 1..frames |-> [frame |-> heard + i,
                                        ts |-> first + (i - 1) * FrameUnits,
                                        at |-> data[(i - 1) * FrameUnits + 1]]]
<1>1. AudioTypes /\ VadInv /\ SegmentsInv /\ ClustersInv /\ StreamerInv
    BY DEF AudioInv
<1>2. /\ step = "idle" /\ captured' = captured + units
      /\ waiting' = SubSeq(data, frames * FrameUnits + 1, Len(data))
      /\ toHear' = new
      /\ nextFrameTs' = first + frames * FrameUnits
      /\ step' = IF frames > 0 THEN "hearing" ELSE "idle"
      /\ UNCHANGED <<ring, voiced, triggered, heard, uttered, todo, chunkCancelled, said, passed, clusterVars, streamer, markVars>>
    BY DEF BeginChunk
<1>3. units \in Nat /\ FrameUnits \in Nat \ {0}
    BY AudioAssumption
<1>4. data \in Seq(Nat)
  <2>1. [i \in 1..units |-> captured + i - 1] \in Seq(Nat)
    <3>1. \A i \in 1..units : captured + i - 1 \in Nat
        BY <1>1 DEF AudioTypes
    <3>2. QED BY <1>3, <3>1
  <2>2. QED BY <1>1, <2>1, ConcatProperties DEF AudioTypes
<1> HIDE DEF data
<1>5. /\ frames \in Nat /\ frames * FrameUnits \in 0..Len(data)
      /\ \A i \in 1..frames : (i - 1) * FrameUnits + 1 \in 1..Len(data)
  <2>1. Len(data) \in Nat
      BY <1>4
  <2>2. QED BY <1>3, <2>1, WholeFrames
<1> HIDE DEF frames
<1>6. first \in Int /\ nextFrameTs' \in Int
  <2>1. first \in Int
      BY <1>1 DEF AudioTypes
  <2>2. QED BY <1>2, <1>5, <2>1
<1> HIDE DEF first
<1>7. \A i \in 1..frames : data[(i - 1) * FrameUnits + 1] \in Nat /\ first + (i - 1) * FrameUnits \in Int /\ heard + i \in Nat
  <2> SUFFICES ASSUME NEW i \in 1..frames
               PROVE  data[(i - 1) * FrameUnits + 1] \in Nat /\ first + (i - 1) * FrameUnits \in Int /\ heard + i \in Nat
      OBVIOUS
  <2>1. data[(i - 1) * FrameUnits + 1] \in Nat
      BY <1>4, <1>5
  <2>2. (i - 1) * FrameUnits \in Int
      BY <1>3, <1>5
  <2>3. QED BY <1>1, <1>5, <1>6, <2>1, <2>2 DEF AudioTypes
<1>8. /\ new \in Seq(Frames) /\ Len(new) = frames
      /\ \A i \in 1..frames : new[i].frame = heard + i
  <2>1. \A i \in 1..frames : new[i] \in Frames /\ new[i].frame = heard + i
      BY <1>7 DEF Frames
  <2>2. QED BY <1>5, <2>1
<1>9. waiting' \in Seq(Nat)
    BY <1>2, <1>4, <1>5
<1> HIDE DEF new
<1>10. AudioTypes'
  <2>1. captured' \in Nat /\ toHear' \in Seq(Frames) /\ step' \in {"idle", "hearing", "transcribing"} \cup Deciding
    <3>1. captured \in Nat
        BY <1>1 DEF AudioTypes
    <3>2. captured' = captured + units /\ toHear' = new /\ step' \in {"idle", "hearing"}
        BY <1>2
    <3>3. QED BY <1>3, <1>8, <3>1, <3>2
  <2>2. UNCHANGED <<ring, voiced, triggered, heard, uttered, todo, chunkCancelled, said, passed, clusterVars, streamer, markVars>>
      BY <1>2
  <2>3. QED BY <1>1, <1>6, <1>9, <2>1, <2>2 DEF AudioTypes, clusterVars
<1>11. VadInv'
  <2>1. step' = "hearing" <=> toHear' # <<>>
      BY <1>2, <1>5, <1>8
  <2>2. \A i \in 1..Len(toHear') : toHear'[i].frame = heard' + i
      BY <1>2, <1>8
  <2>3. QED BY <1>1, <1>2, <2>1, <2>2 DEF VadInv
<1>12. SegmentsInv' /\ ClustersInv' /\ StreamerInv'
    BY <1>1, <1>2 DEF SegmentsInv, ClustersInv, StreamerInv, Deciding, clusterVars, markVars
<1>13. QED BY <1>10, <1>11, <1>12 DEF AudioInv

-----------------------------------------------------------------------------
(* The ring has one more frame, or one for another.                        *)
LEMMA PushedKeeps ==
    ASSUME AudioTypes, VadInv, step = "hearing", NEW speech \in BOOLEAN
    PROVE  /\ Pushed(Head(toHear), speech) \in Seq(RingFrames)
           /\ Len(Pushed(Head(toHear), speech)) = IF Len(ring) < Padding THEN Len(ring) + 1 ELSE Padding
           /\ RingUpTo(Pushed(Head(toHear), speech), heard + 1)
<1> DEFINE next == [frame |-> Head(toHear), speech |-> speech]
           all == Append(ring, next)
           n == Len(ring)
<1>1. Head(toHear) \in Frames /\ Head(toHear).frame = heard + 1 /\ heard \in Nat
  <2>1. toHear \in Seq(Frames) /\ heard \in Nat
      BY DEF AudioTypes
  <2>2. toHear # <<>> /\ \A i \in 1..Len(toHear) : toHear[i].frame = heard + i
      BY DEF VadInv
  <2>3. 1 \in 1..Len(toHear) /\ Head(toHear) = toHear[1]
      BY <2>1, <2>2
  <2>4. QED BY <2>1, <2>2, <2>3
<1>2. next \in RingFrames /\ next.frame.frame = heard + 1
    BY <1>1 DEF RingFrames
<1>3. ring \in Seq(RingFrames) /\ n \in Nat /\ n <= Padding /\ Padding \in Nat \ {0}
      /\ \A i \in 1..n : ring[i].frame.frame = heard - n + i
    BY AudioConstants DEF AudioTypes, VadInv, RingUpTo
<1> HIDE DEF next
<1>4. all \in Seq(RingFrames) /\ Len(all) = n + 1
      /\ (\A i \in 1..n : all[i] = ring[i]) /\ all[n + 1] = next
    BY <1>2, <1>3
<1>5. \A i \in 1..(n + 1) : all[i].frame.frame = ((heard + 1) - (n + 1)) + i
  <2>1. \A i \in 1..n : all[i].frame.frame = (heard - n) + i
      BY <1>3, <1>4
  <2>2. all[n + 1].frame.frame = heard + 1
      BY <1>2, <1>4
  <2>3. heard \in Nat /\ n \in Nat
      BY <1>1, <1>3
  <2> HIDE DEF all, n
  <2>4. QED BY <2>1, <2>2, <2>3
<1>6. Pushed(Head(toHear), speech) = IF Len(all) > Padding THEN Tail(all) ELSE all
    BY DEF Pushed, next
<1> HIDE DEF all, n
<1>7. CASE n < Padding
  <2>1. Pushed(Head(toHear), speech) = all
      BY <1>3, <1>4, <1>6, <1>7
  <2>2. RingUpTo(all, heard + 1)
      BY <1>1, <1>3, <1>4, <1>5 DEF RingUpTo
  <2>3. QED BY <1>4, <1>7, <2>1, <2>2 DEF n
<1>8. CASE ~(n < Padding)
  <2>1. n = Padding /\ Pushed(Head(toHear), speech) = Tail(all)
      BY <1>3, <1>4, <1>6, <1>8
  <2>2. Tail(all) \in Seq(RingFrames) /\ Len(Tail(all)) = n /\ \A i \in 1..n : Tail(all)[i] = all[i + 1]
      BY <1>3, <1>4
  <2>3. \A i \in 1..n : Tail(all)[i].frame.frame = ((heard + 1) - n) + i
      BY <1>1, <1>3, <1>5, <2>2
  <2>4. RingUpTo(Tail(all), heard + 1)
      BY <2>2, <2>3 DEF RingUpTo
  <2>5. QED BY <1>8, <2>1, <2>2, <2>4 DEF n
<1>9. QED BY <1>7, <1>8

(* HearFrame's definitions, as functions of what it reads.                 *)
Begins(speech) == ~triggered /\ RingIsReady(Pushed(Head(toHear), speech), TRUE)
Spoken(speech) ==
    IF triggered THEN Append(voiced, Head(toHear))
    ELSE IF Begins(speech) THEN voiced \o [i \in 1..Padding |-> Pushed(Head(toHear), speech)[i].frame] ELSE voiced

(* What is spoken so far is a run of frames up to this one.                *)
LEMMA SpokenIsRun ==
    ASSUME AudioTypes, VadInv, step = "hearing", NEW speech \in BOOLEAN, triggered \/ Begins(speech)
    PROVE  /\ Spoken(speech) \in Seq(Frames)
           /\ Len(Spoken(speech)) \in Padding..Larger(Padding, MaxUtterance)
           /\ UpTo(Spoken(speech), heard + 1)
           /\ (heard + 1) - Len(Spoken(speech)) >= EndOf(uttered)
<1>1. /\ Head(toHear) \in Frames /\ Head(toHear).frame = heard + 1 /\ heard \in Nat
      /\ voiced \in Seq(Frames) /\ EndOf(uttered) \in 0..heard /\ ring \in Seq(RingFrames) /\ triggered \in BOOLEAN
      /\ Len(ring) \in Nat
  <2>1. Head(toHear) \in Frames /\ Head(toHear).frame = heard + 1
    <3>1. toHear \in Seq(Frames)
        BY DEF AudioTypes
    <3>2. toHear # <<>> /\ \A i \in 1..Len(toHear) : toHear[i].frame = heard + i
        BY DEF VadInv
    <3>3. QED BY <3>1, <3>2
  <2>2. heard \in Nat /\ voiced \in Seq(Frames) /\ ring \in Seq(RingFrames) /\ triggered \in BOOLEAN
      BY Zenon DEF AudioTypes
  <2>3. EndOf(uttered) \in 0..heard
      BY Zenon DEF VadInv
  <2>4. Len(ring) \in Nat
      BY <2>2
  <2>5. QED BY <2>1, <2>2, <2>3, <2>4
<1>2. Padding \in Nat \ {0} /\ MaxUtterance \in Nat \ {0}
    BY AudioConstants
<1>3. CASE triggered
  <2>1. Spoken(speech) = Append(voiced, Head(toHear))
      BY <1>3 DEF Spoken
  <2>2. Len(voiced) \in Padding..(MaxUtterance - 1) /\ UpTo(voiced, heard) /\ heard - Len(voiced) >= EndOf(uttered)
      BY <1>3 DEF VadInv
  <2> DEFINE s == Append(voiced, Head(toHear))
  <2>3. /\ s \in Seq(Frames) /\ Len(s) = Len(voiced) + 1 /\ s[Len(voiced) + 1] = Head(toHear)
        /\ \A i \in 1..Len(voiced) : s[i] = voiced[i]
      BY <1>1
  <2>4. UpTo(s, heard + 1)
    <3>1. \A i \in 1..Len(voiced) : s[i].frame = ((heard + 1) - (Len(voiced) + 1)) + i
        BY <1>1, <2>2, <2>3 DEF UpTo
    <3>2. s[Len(voiced) + 1].frame = ((heard + 1) - (Len(voiced) + 1)) + (Len(voiced) + 1)
        BY <1>1, <2>3
    <3>3. \A i \in 1..(Len(voiced) + 1) : s[i].frame = ((heard + 1) - (Len(voiced) + 1)) + i
        BY <1>1, <2>2, <3>1, <3>2
    <3>4. QED BY <2>3, <3>3 DEF UpTo
  <2>5. Len(s) \in Padding..Larger(Padding, MaxUtterance) /\ (heard + 1) - Len(s) >= EndOf(uttered)
      BY <1>1, <1>2, <2>2, <2>3 DEF Larger
  <2>6. QED BY <2>1, <2>3, <2>4, <2>5
<1>4. CASE ~triggered
  <2> DEFINE held == Pushed(Head(toHear), speech)
             s == [i \in 1..Padding |-> held[i].frame]
  <2>1. held \in Seq(RingFrames) /\ RingUpTo(held, heard + 1)
        /\ Len(held) = IF Len(ring) < Padding THEN Len(ring) + 1 ELSE Padding
      BY PushedKeeps
  <2>2. voiced = <<>> /\ Len(ring) = IF heard - EndOf(uttered) < Padding THEN heard - EndOf(uttered) ELSE Padding
      BY <1>4 DEF VadInv, Quiet
  <2>3. Begins(speech) /\ Len(held) = Padding
      BY <1>4 DEF Begins, RingIsReady
  <2>4. (heard + 1) - Padding >= EndOf(uttered)
      BY <1>1, <1>2, <2>1, <2>2, <2>3
  <2> HIDE DEF held
  <2>5. \A i \in 1..Padding : held[i] \in RingFrames /\ held[i].frame.frame = ((heard + 1) - Padding) + i
    <3>1. \A i \in 1..Padding : held[i] \in RingFrames
        BY <1>2, <2>1, <2>3
    <3>2. QED BY <2>1, <2>3, <3>1 DEF RingUpTo
  <2>6. \A i \in 1..Padding : s[i] \in Frames /\ s[i].frame = ((heard + 1) - Padding) + i
      BY <2>5 DEF RingFrames
  <2>7. s \in Seq(Frames) /\ Len(s) = Padding
    <3>1. \A i \in 1..Padding : held[i].frame \in Frames
        BY <2>6
    <3>2. QED BY <1>2, <3>1
  <2>8. Spoken(speech) = <<>> \o s
      BY <1>4, <2>2, <2>3 DEF Spoken, held
  <2> HIDE DEF s
  <2>9. Spoken(speech) = s
      BY <2>7, <2>8, ConcatEmptySeq
  <2>10. UpTo(s, heard + 1)
    <3>1. \A i \in 1..Len(s) : s[i].frame = ((heard + 1) - Len(s)) + i
        BY <2>6, <2>7
    <3>2. QED BY <3>1 DEF UpTo
  <2>11. Padding \in Padding..Larger(Padding, MaxUtterance)
      BY <1>2 DEF Larger
  <2>12. QED BY <2>4, <2>7, <2>9, <2>10, <2>11
<1>5. QED BY <1>1, <1>3, <1>4

-----------------------------------------------------------------------------
(* An utterance that is the end of what was heard since the last one.      *)
LEMMA UtteranceIsAdded ==
    ASSUME NEW us \in Seq(Seq(Frames)), Utterances(us), NEW u \in Seq(Frames), NEW n \in Nat,
           EndOf(us) \in Nat,
           Len(u) \in Padding..Larger(Padding, MaxUtterance), UpTo(u, n), n - Len(u) >= EndOf(us)
    PROVE  Utterances(Append(us, u)) /\ EndOf(Append(us, u)) = n
<1> DEFINE all == Append(us, u)
           m == Len(us)
<1>1. /\ all \in Seq(Seq(Frames)) /\ Len(all) = m + 1 /\ m \in Nat /\ all[m + 1] = u
      /\ \A k \in 1..m : all[k] = us[k]
    OBVIOUS
<1>2. Padding \in Nat \ {0} /\ Len(u) \in Nat \ {0}
    BY AudioConstants
<1>3. \A i \in 1..Len(u) : u[i].frame = (n - Len(u)) + i
    BY DEF UpTo
<1>4. WholeUtterance(u)
  <2>1. \A i \in 1..(Len(u) - 1) : u[i].frame = (n - Len(u)) + i /\ u[i + 1].frame = (n - Len(u)) + (i + 1)
      BY <1>2, <1>3
  <2>2. \A i \in 1..(Len(u) - 1) : u[i + 1].frame = u[i].frame + 1
      BY <1>2, <2>1
  <2>3. QED BY <2>2 DEF WholeUtterance
<1>5. u[1].frame = n - Len(u) + 1 /\ Last(u).frame = n
    BY <1>2, <1>3 DEF Last
<1> HIDE DEF all
<1>6. EndOf(all) = n
    BY <1>1, <1>5 DEF EndOf, Last
<1>7. m > 0 => u[1].frame > Last(us[m]).frame
  <2> HAVE m > 0
  <2>1. us # <<>> /\ EndOf(us) = Last(us[m]).frame
      BY DEF EndOf, Last
  <2>2. QED BY <1>2, <1>5, <2>1
<1> HIDE DEF m
<1>8. ASSUME NEW k \in 1..(m + 1) PROVE WholeUtterance(all[k]) /\ (k > 1 => all[k][1].frame > Last(all[k - 1]).frame)
  <2>1. CASE k \in 1..m
    <3>1. all[k] = us[k] /\ (k > 1 => all[k - 1] = us[k - 1])
        BY <1>1, <2>1
    <3>2. WholeUtterance(us[k]) /\ (k > 1 => us[k][1].frame > Last(us[k - 1]).frame)
        BY <2>1 DEF Utterances, m
    <3>3. QED BY <3>1, <3>2
  <2>2. CASE k = m + 1
    <3>1. all[k] = u /\ (k > 1 => m > 0 /\ all[k - 1] = us[m])
        BY <1>1, <2>2
    <3>2. QED BY <1>4, <1>7, <3>1
  <2>3. QED BY <1>1, <2>1, <2>2
<1>9. Utterances(all)
    BY <1>1, <1>8 DEF Utterances
<1>10. QED BY <1>6, <1>9 DEF all

(* HearFrame: the detector, and whether a segment is added ...             *)
LEMMA FrameKeepsVad ==
    ASSUME AudioTypes, VadInv, NEW speech \in BOOLEAN, HearFrame(speech)
    PROVE  /\ VadInv'
           /\ heard' \in Nat /\ toHear' \in Seq(Frames) /\ voiced' \in Seq(Frames) /\ ring' \in Seq(RingFrames)
           /\ triggered' \in BOOLEAN /\ uttered' \in Seq(Seq(Frames))
           /\ \/ UNCHANGED <<todo, uttered>>
              \/ todo' = Append(todo, Len(uttered')) /\ Len(uttered') = Len(uttered) + 1
<1> DEFINE held == Pushed(Head(toHear), speech)
           begins == Begins(speech)
           spoken == Spoken(speech)
           full == (triggered \/ begins) /\ Len(spoken) >= MaxUtterance
           ends == full \/ (triggered /\ RingIsReady(held, FALSE))
<1>1. /\ step = "hearing"
      /\ heard' = heard + 1
      /\ toHear' = Tail(toHear)
      /\ triggered' = ((triggered \/ begins) /\ ~ends)
      /\ voiced' = IF ends THEN <<>> ELSE spoken
      /\ ring' = KeptRing(held, begins, full, ends)
      /\ uttered' = IF ends THEN Append(uttered, spoken) ELSE uttered
      /\ todo' = IF ends THEN Append(todo, Len(uttered')) ELSE todo
      /\ step' = IF toHear' # <<>> THEN "hearing" ELSE IF todo' # <<>> THEN "transcribing" ELSE "idle"
    BY DEF HearFrame, Begins, Spoken
<1>2. /\ held \in Seq(RingFrames)
      /\ Len(held) = IF Len(ring) < Padding THEN Len(ring) + 1 ELSE Padding
      /\ RingUpTo(held, heard + 1)
    BY <1>1, PushedKeeps
<1>3. (triggered \/ begins) =>
        /\ spoken \in Seq(Frames)
        /\ Len(spoken) \in Padding..Larger(Padding, MaxUtterance)
        /\ UpTo(spoken, heard + 1)
        /\ (heard + 1) - Len(spoken) >= EndOf(uttered)
    BY <1>1, SpokenIsRun
<1>4. ends => triggered \/ begins
    OBVIOUS
<1>5. ~triggered /\ ~begins => spoken = voiced /\ ~RingIsReady(held, TRUE)
    BY DEF Begins, Spoken
<1>6. /\ heard \in Nat /\ toHear \in Seq(Frames) /\ voiced \in Seq(Frames) /\ ring \in Seq(RingFrames)
      /\ uttered \in Seq(Seq(Frames)) /\ todo \in Seq(Nat)
    BY Zenon DEF AudioTypes
<1>7. /\ toHear # <<>> /\ \A i \in 1..Len(toHear) : toHear[i].frame = heard + i
      /\ Len(ring) <= Padding /\ Utterances(uttered) /\ EndOf(uttered) \in 0..heard
    BY <1>1 DEF VadInv
<1>8. ~triggered => voiced = <<>> /\ Len(ring) = IF heard - EndOf(uttered) < Padding THEN heard - EndOf(uttered) ELSE Padding
    BY DEF VadInv, Quiet
<1>9. Padding \in Nat \ {0} /\ MaxUtterance \in Nat \ {0} /\ Len(ring) \in Nat
    BY <1>6, AudioConstants
<1>10. Len(held) \in Nat /\ Len(held) <= Padding
    BY <1>2, <1>7, <1>9
<1> HIDE DEF held, begins, spoken
<1>11. /\ heard' \in Nat /\ toHear' \in Seq(Frames)
       /\ \A i \in 1..Len(toHear') : toHear'[i].frame = heard' + i
  <2> DEFINE rest == Tail(toHear)
             k == Len(toHear)
  <2>1. rest \in Seq(Frames) /\ Len(rest) = k - 1 /\ k \in Nat
        /\ \A i \in 1..(k - 1) : rest[i] = toHear[i + 1] /\ i + 1 \in 1..k
      BY <1>6, <1>7
  <2>2. \A i \in 1..(k - 1) : rest[i].frame = heard + (i + 1)
      BY <1>7, <2>1
  <2>3. heard \in Nat /\ heard' = heard + 1 /\ toHear' = rest
      BY <1>1, <1>6
  <2> HIDE DEF rest, k
  <2>4. \A i \in 1..Len(rest) : rest[i].frame = heard' + i
      BY <2>1, <2>2, <2>3
  <2>5. QED BY <2>1, <2>3, <2>4
<1>12. step' = "hearing" <=> toHear' # <<>>
    BY <1>1
<1>13. heard \in Nat /\ heard' = heard + 1
    BY <1>1, <1>6
<1>14. CASE ends
  <2>1. /\ triggered' = FALSE /\ voiced' = <<>> /\ ring' = <<>> /\ uttered' = Append(uttered, spoken)
        /\ todo' = Append(todo, Len(uttered'))
      BY <1>1, <1>14 DEF KeptRing
  <2>2. Utterances(uttered') /\ EndOf(uttered') = heard + 1
    <3>1. heard + 1 \in Nat /\ EndOf(uttered) \in Nat
        BY <1>6, <1>7
    <3>2. QED BY <1>3, <1>4, <1>6, <1>7, <1>14, <2>1, <3>1, UtteranceIsAdded
  <2>3. Quiet(<<>>, heard', EndOf(uttered')) /\ RingUpTo(<<>>, heard')
      BY <1>1, <1>11, <2>2, QuietAtFirst
  <2>4. Len(ring') <= Padding
      BY <1>9, <2>1
  <2>5. EndOf(uttered') \in 0..heard'
      BY <1>13, <2>2
  <2>6. VadInv'
      BY <1>11, <1>12, <2>1, <2>2, <2>3, <2>4, <2>5 DEF VadInv
  <2>7. uttered' \in Seq(Seq(Frames)) /\ Len(uttered') = Len(uttered) + 1
    <3>1. spoken \in Seq(Frames)
        BY <1>3, <1>4, <1>14
    <3>2. uttered \in Seq(Seq(Frames))
        BY <1>6
    <3>3. QED BY <2>1, <3>1, <3>2
  <2>8. voiced' \in Seq(Frames) /\ ring' \in Seq(RingFrames) /\ triggered' \in BOOLEAN
    <3>1. <<>> \in Seq(Frames) /\ <<>> \in Seq(RingFrames)
        OBVIOUS
    <3>2. QED BY <2>1, <3>1
  <2>9. QED BY <1>11, <2>1, <2>6, <2>7, <2>8
<1>15. CASE ~ends /\ (triggered \/ begins)
  <2>1. /\ triggered' = TRUE /\ voiced' = spoken /\ ring' \in {held, <<>>} /\ uttered' = uttered /\ todo' = todo
      BY <1>1, <1>15 DEF KeptRing
  <2>2. Len(spoken) \in Padding..(MaxUtterance - 1)
    <3>1. Len(spoken) \in Padding..Larger(Padding, MaxUtterance) /\ ~(Len(spoken) >= MaxUtterance)
        BY <1>3, <1>15
    <3>2. QED BY <1>9, <3>1 DEF Larger
  <2>3. ring' \in Seq(RingFrames) /\ Len(ring') <= Padding /\ RingUpTo(ring', heard')
    <3>1. <<>> \in Seq(RingFrames) /\ Len(<<>>) = 0
        OBVIOUS
    <3>2. RingUpTo(<<>>, heard')
        BY <1>11, QuietAtFirst
    <3>3. ring' = held => ring' \in Seq(RingFrames) /\ Len(ring') <= Padding /\ RingUpTo(ring', heard')
        BY <1>2, <1>10, <1>13
    <3>4. ring' = <<>> => ring' \in Seq(RingFrames) /\ Len(ring') <= Padding /\ RingUpTo(ring', heard')
        BY <1>9, <3>1, <3>2
    <3>5. QED BY <2>1, <3>3, <3>4
  <2>4. EndOf(uttered') \in 0..heard'
    <3>1. EndOf(uttered) \in 0..heard
        BY <1>7
    <3>2. QED BY <1>13, <2>1, <3>1
  <2>5. VadInv'
    <3>1. UpTo(voiced', heard') /\ heard' - Len(voiced') >= EndOf(uttered')
        BY <1>3, <1>15, <1>13, <2>1
    <3>2. Len(voiced') \in Padding..(MaxUtterance - 1) /\ Utterances(uttered')
        BY <1>7, <2>1, <2>2
    <3>3. QED BY <1>11, <1>12, <2>1, <2>3, <2>4, <3>1, <3>2 DEF VadInv
  <2>6. QED BY <1>3, <1>6, <1>11, <1>15, <2>1, <2>3, <2>5
<1>16. CASE ~triggered /\ ~begins
  <2>1. ~ends /\ triggered' = FALSE /\ voiced' = voiced /\ ring' = held /\ uttered' = uttered /\ todo' = todo
      BY <1>1, <1>4, <1>5, <1>16 DEF KeptRing
  <2>2. Len(held) = IF (heard + 1) - EndOf(uttered) < Padding THEN (heard + 1) - EndOf(uttered) ELSE Padding
      BY <1>2, <1>6, <1>7, <1>8, <1>9, <1>16
  <2>3. Quiet(held, heard + 1, EndOf(uttered))
      BY <1>5, <1>16, <2>2 DEF Quiet
  <2>4. EndOf(uttered') \in 0..heard'
    <3>1. EndOf(uttered) \in 0..heard
        BY <1>7
    <3>2. QED BY <1>13, <2>1, <3>1
  <2>5. VadInv'
    <3>1. Len(ring') <= Padding /\ RingUpTo(ring', heard') /\ Quiet(ring', heard', EndOf(uttered'))
        BY <1>2, <1>10, <1>13, <2>1, <2>3
    <3>2. voiced' = <<>> /\ Utterances(uttered')
        BY <1>7, <1>8, <1>16, <2>1
    <3>3. QED BY <1>11, <1>12, <2>1, <2>4, <3>1, <3>2 DEF VadInv
  <2>6. QED BY <1>2, <1>6, <1>11, <2>1, <2>5
<1>17. QED BY <1>14, <1>15, <1>16

-----------------------------------------------------------------------------
(* ... and the rest.                                                       *)
LEMMA FrameKeeps ==
    ASSUME AudioInv, NEW speech \in BOOLEAN, HearFrame(speech)
    PROVE  AudioInv'
<1>1. AudioTypes /\ VadInv /\ SegmentsInv /\ ClustersInv /\ StreamerInv
    BY Zenon DEF AudioInv
<1>2. /\ VadInv'
      /\ heard' \in Nat /\ toHear' \in Seq(Frames) /\ voiced' \in Seq(Frames) /\ ring' \in Seq(RingFrames)
      /\ triggered' \in BOOLEAN /\ uttered' \in Seq(Seq(Frames))
    BY <1>1, FrameKeepsVad
<1>3. UNCHANGED <<todo, uttered>> \/ (todo' = Append(todo, Len(uttered')) /\ Len(uttered') = Len(uttered) + 1)
    BY <1>1, FrameKeepsVad
<1>4. /\ step = "hearing"
      /\ step' = IF toHear' # <<>> THEN "hearing" ELSE IF todo' # <<>> THEN "transcribing" ELSE "idle"
      /\ UNCHANGED <<captured, waiting, nextFrameTs, chunkCancelled, said, passed, clusterVars, streamer, markVars>>
    BY Zenon DEF HearFrame
<1>5. todo \in Seq(Nat) /\ uttered \in Seq(Seq(Frames)) /\ Len(todo) \in Nat /\ Len(uttered) \in Nat
  <2>1. todo \in Seq(Nat) /\ uttered \in Seq(Seq(Frames))
      BY <1>1, Zenon DEF AudioTypes
  <2>2. QED BY <2>1
<1>6. step' \in {"idle", "hearing", "transcribing"} /\ step' \notin Deciding /\ step \notin Deciding
    BY <1>4 DEF Deciding
<1>7. AudioTypes'
  <2>1. todo' \in Seq(Nat)
    <3>1. CASE UNCHANGED <<todo, uttered>>
        BY <1>5, <3>1
    <3>2. CASE todo' = Append(todo, Len(uttered')) /\ Len(uttered') = Len(uttered) + 1
        BY <1>5, <3>2
    <3>3. QED BY <1>3, <3>1, <3>2
  <2>2. step' \in {"idle", "hearing", "transcribing"} \cup Deciding
      BY <1>6
  <2>3. QED BY <1>1, <1>2, <1>4, <2>1, <2>2, Zenon DEF AudioTypes, clusterVars
<1>8. SegmentsInv'
  <2>1. /\ step' = "idle" => todo' = <<>>
        /\ step' \in {"transcribing"} \cup Deciding => todo' # <<>>
      BY <1>4, <1>6
  <2>2. /\ \A i \in 1..Len(todo) : todo[i] = Len(uttered) - Len(todo) + i
        /\ Len(said) + passed + Len(todo) = Len(uttered)
        /\ \A k \in 1..Len(said) : said[k].segment <= Len(uttered) - Len(todo)
        /\ \A k \in 1..(Len(said) - 1) : said[k].segment < said[k + 1].segment
      BY <1>1 DEF SegmentsInv
  <2>3. CASE UNCHANGED <<todo, uttered>>
      BY <1>4, <2>1, <2>2, <2>3 DEF SegmentsInv
  <2>4. CASE todo' = Append(todo, Len(uttered')) /\ Len(uttered') = Len(uttered) + 1
    <3>1. /\ Len(todo') = Len(todo) + 1
          /\ (\A i \in 1..Len(todo) : todo'[i] = todo[i]) /\ todo'[Len(todo) + 1] = Len(uttered) + 1
        BY <1>5, <2>4
    <3>2. Len(uttered') - Len(todo') = Len(uttered) - Len(todo)
        BY <1>5, <2>4, <3>1
    <3>3. \A i \in 1..Len(todo') : todo'[i] = Len(uttered') - Len(todo') + i
      <4>1. \A i \in 1..Len(todo) : todo'[i] = Len(uttered') - Len(todo') + i
        <5>1. \A i \in 1..Len(todo) : todo[i] = Len(uttered) - Len(todo) + i
            BY <2>2
        <5>2. QED BY <1>5, <2>4, <3>1, <5>1
      <4>2. todo'[Len(todo) + 1] = Len(uttered') - Len(todo') + (Len(todo) + 1)
          BY <1>5, <2>4, <3>1
      <4>3. Len(todo') = Len(todo) + 1 /\ Len(todo) \in Nat
          BY <1>5, <3>1
      <4>4. QED BY <4>1, <4>2, <4>3
    <3>4. Len(said) \in Nat /\ passed \in Nat
      <4>1. said \in Seq(Words) /\ passed \in Nat
          BY <1>1, Zenon DEF AudioTypes
      <4>2. QED BY <4>1
    <3>5. Len(said') + passed' + Len(todo') = Len(uttered')
      <4>1. said' = said /\ passed' = passed
          BY <1>4
      <4>2. Len(said) + passed + Len(todo) = Len(uttered)
          BY <2>2
      <4>3. Len(todo') = Len(todo) + 1 /\ Len(uttered') = Len(uttered) + 1 /\ Len(todo) \in Nat /\ Len(uttered) \in Nat
          BY <1>5, <2>4, <3>1
      <4>4. QED BY <3>4, <4>1, <4>2, <4>3
    <3>6. QED BY <1>4, <2>1, <2>2, <3>2, <3>3, <3>5 DEF SegmentsInv
  <2>5. QED BY <1>3, <2>3, <2>4
<1>9. ClustersInv'
    BY <1>1, <1>4, <1>6 DEF ClustersInv, clusterVars
<1>10. StreamerInv'
  <2>1. step' # "choosing"
      BY <1>4
  <2>2. QED BY <1>1, <1>4, <1>6, <2>1, Zenon DEF StreamerInv, clusterVars, markVars
<1>11. QED BY <1>2, <1>7, <1>8, <1>9, <1>10, Zenon DEF AudioInv

-----------------------------------------------------------------------------
(* What a step that hears nothing needs to keep of the detector's part.    *)
LEMMA VadIsKept ==
    ASSUME AudioTypes, VadInv, UNCHANGED vadVars, step # "hearing", step' # "hearing"
    PROVE  VadInv'
<1>1. UNCHANGED <<ring, voiced, triggered, toHear, heard, uttered>>
    BY DEF vadVars
<1>2. QED BY <1>1 DEF VadInv

(* LoseChunk.                                                              *)
LEMMA ChunkIsLost ==
    ASSUME AudioInv, NEW units \in ChunkSizes, LoseChunk(units)
    PROVE  AudioInv'
<1>1. AudioTypes /\ VadInv /\ SegmentsInv /\ ClustersInv /\ StreamerInv
    BY Zenon DEF AudioInv
<1>2. /\ captured' = captured + units
      /\ UNCHANGED <<waiting, nextFrameTs, ring, voiced, triggered, toHear, heard, uttered,
                     chunkVars, clusterVars, streamer, markVars>>
    BY Zenon DEF LoseChunk
<1>3. captured' \in Nat
  <2>1. captured \in Nat /\ units \in Nat
      BY <1>1, AudioAssumption DEF AudioTypes
  <2>2. QED BY <1>2, <2>1
<1>4. AudioTypes'
    BY <1>1, <1>2, <1>3, Zenon DEF AudioTypes, chunkVars, clusterVars
<1>5. VadInv'
    BY <1>1, <1>2 DEF VadInv, chunkVars
<1>6. SegmentsInv' /\ ClustersInv' /\ StreamerInv'
    BY <1>1, <1>2 DEF SegmentsInv, ClustersInv, StreamerInv, chunkVars, clusterVars, markVars
<1>7. QED BY <1>4, <1>5, <1>6, Zenon DEF AudioInv

-----------------------------------------------------------------------------
(* The first of the segments is done with: it is the one after all that    *)
(* were said or passed over.                                               *)
LEMMA NextIsTaken ==
    ASSUME AudioTypes, SegmentsInv, todo # <<>>
    PROVE  /\ Head(todo) \in 1..Len(uttered) /\ Head(todo) = Len(uttered) - Len(todo) + 1
           /\ Tail(todo) \in Seq(Nat) /\ Len(Tail(todo)) = Len(todo) - 1
           /\ \A i \in 1..Len(Tail(todo)) : Tail(todo)[i] = Len(uttered) - Len(Tail(todo)) + i
           /\ \A k \in 1..Len(said) : said[k].segment < Head(todo)
           /\ Len(todo) \in Nat \ {0} /\ Len(uttered) \in Nat /\ Len(said) \in Nat /\ passed \in Nat
<1>1. todo \in Seq(Nat) /\ uttered \in Seq(Seq(Frames)) /\ said \in Seq(Words) /\ passed \in Nat
    BY Zenon DEF AudioTypes
<1>2. /\ \A i \in 1..Len(todo) : todo[i] = Len(uttered) - Len(todo) + i
      /\ Len(said) + passed + Len(todo) = Len(uttered)
      /\ \A k \in 1..Len(said) : said[k].segment <= Len(uttered) - Len(todo)
    BY Zenon DEF SegmentsInv
<1>3. Len(todo) \in Nat \ {0} /\ Len(uttered) \in Nat /\ Len(said) \in Nat
    BY <1>1
<1>4. Head(todo) = Len(uttered) - Len(todo) + 1 /\ Head(todo) \in 1..Len(uttered)
  <2>1. Head(todo) = todo[1]
      BY <1>1
  <2>2. todo[1] = Len(uttered) - Len(todo) + 1
      BY <1>2, <1>3
  <2>3. QED BY <1>1, <1>2, <1>3, <2>1, <2>2
<1>5. /\ Tail(todo) \in Seq(Nat) /\ Len(Tail(todo)) = Len(todo) - 1
      /\ \A i \in 1..(Len(todo) - 1) : Tail(todo)[i] = todo[i + 1]
    BY <1>1
<1>6. \A i \in 1..Len(Tail(todo)) : Tail(todo)[i] = Len(uttered) - Len(Tail(todo)) + i
  <2>1. \A i \in 1..(Len(todo) - 1) : todo[i + 1] = Len(uttered) - Len(todo) + (i + 1)
      BY <1>2, <1>3
  <2>2. QED BY <1>3, <1>5, <2>1
<1>7. \A k \in 1..Len(said) : said[k].segment < Head(todo)
  <2>1. \A k \in 1..Len(said) : said[k].segment \in Nat
    <3>1. \A k \in 1..Len(said) : said[k] \in Words
        BY <1>1
    <3>2. QED BY <3>1 DEF Words
  <2>2. QED BY <1>2, <1>3, <1>4, <2>1
<1>8. QED BY <1>1, <1>3, <1>4, <1>5, <1>6, <1>7

(* The rest of one thing is empty.                                         *)
LEMMA EmptyTail ==
    ASSUME NEW s \in Seq(Nat), s # <<>>
    PROVE  Tail(s) = <<>> <=> ~(Len(s) > 1)
<1> DEFINE t == Tail(s)
<1>1. t \in Seq(Nat) /\ Len(t) = Len(s) - 1 /\ Len(s) \in Nat
    OBVIOUS
<1> HIDE DEF t
<1>2. t = <<>> <=> Len(t) = 0
    BY <1>1
<1>3. t = <<>> <=> ~(Len(s) > 1)
    BY <1>1, <1>2
<1>4. QED BY <1>3 DEF t

(* A word about the first segment; when the store refuses it there is none *)
(* about the others ...                                                    *)
LEMMA WordIsSaid ==
    ASSUME AudioTypes, SegmentsInv, step \in {"transcribing"} \cup Deciding, NEW label \in {"streamer", "altro", "?"}, Say(label),
           UNCHANGED uttered
    PROVE  /\ SegmentsInv' /\ said' \in Seq(Words) /\ todo' \in Seq(Nat) /\ passed' \in Nat /\ chunkCancelled' = chunkCancelled
           /\ step' \in {"idle", "hearing", "transcribing"} \cup Deciding
           /\ step' # "hearing" /\ step' \notin Deciding /\ Len(said') = Len(said) + 1 /\ Len(said) \in Nat
           /\ \A k \in 1..Len(said) : said'[k] = said[k]
           /\ said'[Len(said) + 1].label = label
           /\ said'[Len(said) + 1].cluster = IF label = "?" THEN 0 ELSE lastCluster
<1> DEFINE n == Len(said)
<1>1. todo # <<>>
    BY Zenon DEF SegmentsInv
<1>2. /\ Head(todo) \in 1..Len(uttered) /\ Head(todo) = Len(uttered) - Len(todo) + 1
      /\ Tail(todo) \in Seq(Nat) /\ Len(Tail(todo)) = Len(todo) - 1
      /\ \A i \in 1..Len(Tail(todo)) : Tail(todo)[i] = Len(uttered) - Len(Tail(todo)) + i
      /\ \A k \in 1..Len(said) : said[k].segment < Head(todo)
      /\ Len(todo) \in Nat \ {0} /\ Len(uttered) \in Nat /\ n \in Nat /\ passed \in Nat
    BY <1>1, NextIsTaken
<1>3. uttered' = uttered /\ chunkCancelled' = chunkCancelled
    BY DEF Say
<1>4. PICK fate \in Fates :
        /\ said' = Append(said, [segment |-> Head(todo), label |-> label, fate |-> fate,
                                 cluster |-> IF label = "?" THEN 0 ELSE lastCluster])
        /\ IF fate = "refused"
           THEN step' = "idle" /\ passed' = passed + Len(todo) - 1 /\ todo' = <<>>
           ELSE NextSegment /\ todo' = Tail(todo) /\ UNCHANGED passed
    BY DEF Say, Fates
<1> DEFINE word == [segment |-> Head(todo), label |-> label, fate |-> fate,
                    cluster |-> IF label = "?" THEN 0 ELSE lastCluster]
<1>5. word \in Words /\ word.segment = Head(todo) /\ word.label = label /\ word.cluster = IF label = "?" THEN 0 ELSE lastCluster
  <2>1. lastCluster \in Nat /\ Head(todo) \in Nat
      BY <1>2 DEF AudioTypes
  <2>2. QED BY <2>1 DEF Words
<1>6. said \in Seq(Words) /\ said' = Append(said, word)
    BY <1>4, Zenon DEF AudioTypes
<1> HIDE DEF word
<1>7. /\ said' \in Seq(Words) /\ Len(said') = n + 1 /\ said'[n + 1] = word
      /\ \A k \in 1..n : said'[k] = said[k]
    BY <1>5, <1>6
<1>8. /\ Len(todo') <= Len(todo) - 1 /\ Len(todo') \in Nat /\ todo' \in Seq(Nat)
      /\ passed' \in Nat /\ passed' + Len(todo') = passed + Len(todo) - 1
      /\ \A i \in 1..Len(todo') : todo'[i] = Len(uttered) - Len(todo') + i
      /\ step' = IF todo' = <<>> THEN "idle" ELSE "transcribing"
  <2>1. CASE fate = "refused"
    <3>1. step' = "idle" /\ passed' = passed + Len(todo) - 1 /\ todo' = <<>> /\ Len(todo') = 0
        BY <1>4, <2>1
    <3>2. QED BY <1>2, <3>1
  <2>2. CASE fate # "refused"
    <3>1. todo' = Tail(todo) /\ passed' = passed /\ step' = IF Len(todo) > 1 THEN "transcribing" ELSE "idle"
        BY <1>4, <2>2 DEF NextSegment
    <3>2. Tail(todo) = <<>> <=> ~(Len(todo) > 1)
      <4>1. todo \in Seq(Nat)
          BY Zenon DEF AudioTypes
      <4>2. QED BY <1>1, <4>1, EmptyTail
    <3>3. step' = IF todo' = <<>> THEN "idle" ELSE "transcribing"
        BY <3>1, <3>2
    <3>4. Len(todo') = Len(todo) - 1 /\ todo' \in Seq(Nat) /\ \A i \in 1..Len(todo') : todo'[i] = Len(uttered) - Len(todo') + i
        BY <1>2, <3>1
    <3>5. QED BY <1>2, <3>1, <3>3, <3>4
  <2>3. QED BY <2>1, <2>2
<1>9. /\ step' \in {"idle", "hearing", "transcribing"} \cup Deciding
      /\ step' # "hearing" /\ step' \notin Deciding
    BY <1>8 DEF Deciding
<1>10. SegmentsInv'
  <2>1. /\ step' = "idle" => todo' = <<>>
        /\ step' \in {"transcribing"} \cup Deciding => todo' # <<>>
      BY <1>8, <1>9
  <2>2. \A i \in 1..Len(todo') : todo'[i] = Len(uttered') - Len(todo') + i
      BY <1>3, <1>8
  <2>3. Len(said') + passed' + Len(todo') = Len(uttered')
    <3>1. Len(said) + passed + Len(todo) = Len(uttered)
        BY Zenon DEF SegmentsInv
    <3>2. Len(said') = n + 1 /\ uttered' = uttered
        BY <1>3, <1>7
    <3>3. Len(todo) \in Nat /\ Len(uttered) \in Nat /\ n \in Nat /\ passed \in Nat
        BY <1>2
    <3>4. Len(todo') \in Nat /\ passed' \in Nat /\ passed' + Len(todo') = passed + Len(todo) - 1
        BY <1>8
    <3> HIDE DEF n
    <3>5. n + passed + Len(todo) = Len(uttered)
        BY <3>1 DEF n
    <3>6. QED BY <3>2, <3>3, <3>4, <3>5
  <2>4. \A k \in 1..(n + 1) : said'[k].segment \in Nat
    <3>1. \A k \in 1..(n + 1) : said'[k] \in Words
        BY <1>2, <1>7
    <3>2. QED BY <3>1 DEF Words
  <2>5. \A k \in 1..n : said'[k].segment < Head(todo)
      BY <1>2, <1>7
  <2>6. said'[n + 1].segment = Head(todo) /\ Head(todo) <= Len(uttered') - Len(todo')
      BY <1>2, <1>3, <1>5, <1>7, <1>8
  <2>7. \A k \in 1..Len(said') : said'[k].segment <= Len(uttered') - Len(todo')
    <3>1. \A k \in 1..(n + 1) : said'[k].segment <= Head(todo)
      <4> SUFFICES ASSUME NEW k \in 1..(n + 1)
                   PROVE  said'[k].segment <= Head(todo)
          OBVIOUS
      <4>1. said'[k].segment \in Nat /\ Head(todo) \in Nat
          BY <2>4, <2>6
      <4>2. k \in 1..n \/ k = n + 1
        <5>1. n \in Nat
            BY <1>2
        <5>2. QED BY <5>1
      <4>3. QED BY <2>5, <2>6, <4>1, <4>2
    <3>2. Len(uttered') - Len(todo') \in Int /\ Head(todo) \in Int
        BY <1>2, <1>3, <1>8
    <3>3. QED BY <1>7, <2>4, <2>6, <3>1, <3>2
  <2>8. \A k \in 1..(Len(said') - 1) : said'[k].segment < said'[k + 1].segment
    <3>1. ASSUME NEW k \in 1..n, k # n PROVE said'[k].segment < said'[k + 1].segment
      <4>1. k \in 1..(n - 1) /\ k + 1 \in 1..n
          BY <1>2, <3>1
      <4>2. said[k].segment < said[k + 1].segment
          BY <4>1, Zenon DEF SegmentsInv
      <4>3. QED BY <1>7, <4>1, <4>2
    <3>2. \A k \in 1..n : k = n => said'[k].segment < said'[k + 1].segment
        BY <2>5, <2>6
    <3>3. QED BY <1>2, <1>7, <3>1, <3>2
  <2>9. QED BY <2>1, <2>2, <2>3, <2>7, <2>8 DEF SegmentsInv
<1>11. QED BY <1>2, <1>3, <1>5, <1>7, <1>8, <1>9, <1>10

-----------------------------------------------------------------------------
(* ... or none of them, or of them all.                                    *)
LEMMA SegmentsArePassed ==
    ASSUME AudioTypes, SegmentsInv, step = "transcribing", UNCHANGED <<uttered, said>>,
           \/ NextSegment /\ passed' = passed + 1 /\ todo' = Tail(todo)
           \/ step' = "idle" /\ passed' = passed + Len(todo) /\ todo' = <<>>
    PROVE  /\ SegmentsInv' /\ passed' \in Nat /\ todo' \in Seq(Nat)
           /\ step' \in {"idle", "hearing", "transcribing"} \cup Deciding
           /\ step' # "hearing" /\ step' \notin Deciding
<1> DEFINE n == Len(said)
<1>1. todo # <<>>
    BY Zenon DEF SegmentsInv
<1>2. /\ Head(todo) \in 1..Len(uttered) /\ Head(todo) = Len(uttered) - Len(todo) + 1
      /\ Tail(todo) \in Seq(Nat) /\ Len(Tail(todo)) = Len(todo) - 1
      /\ \A i \in 1..Len(Tail(todo)) : Tail(todo)[i] = Len(uttered) - Len(Tail(todo)) + i
      /\ \A k \in 1..Len(said) : said[k].segment < Head(todo)
      /\ Len(todo) \in Nat \ {0} /\ Len(uttered) \in Nat /\ n \in Nat /\ passed \in Nat
    BY <1>1, NextIsTaken
<1>3. todo \in Seq(Nat) /\ said \in Seq(Words)
    BY Zenon DEF AudioTypes
<1>4. /\ Len(said) + passed + Len(todo) = Len(uttered)
      /\ \A k \in 1..(Len(said) - 1) : said[k].segment < said[k + 1].segment
    BY Zenon DEF SegmentsInv
<1>5. \A k \in 1..n : said[k].segment \in Nat
  <2>1. \A k \in 1..n : said[k] \in Words
      BY <1>3
  <2>2. QED BY <2>1 DEF Words
<1>6. CASE NextSegment /\ passed' = passed + 1 /\ todo' = Tail(todo)
  <2>1. step' = (IF Len(todo) > 1 THEN "transcribing" ELSE "idle") /\ passed' = passed + 1 /\ todo' = Tail(todo)
        /\ uttered' = uttered /\ said' = said
      BY <1>6 DEF NextSegment
  <2>2. Tail(todo) = <<>> <=> ~(Len(todo) > 1)
      BY <1>1, <1>3, EmptyTail
  <2>3. /\ step' \in {"idle", "hearing", "transcribing"} \cup Deciding
        /\ step' # "hearing" /\ step' \notin Deciding
      BY <2>1 DEF Deciding
  <2>4. /\ step' = "idle" => todo' = <<>>
        /\ step' \in {"transcribing"} \cup Deciding => todo' # <<>>
      BY <2>1, <2>2, <2>3
  <2>5. \A i \in 1..Len(todo') : todo'[i] = Len(uttered') - Len(todo') + i
      BY <1>2, <2>1
  <2>6. Len(said') + passed' + Len(todo') = Len(uttered') /\ passed' \in Nat /\ todo' \in Seq(Nat)
    <3>1. n \in Nat /\ passed \in Nat /\ Len(todo) \in Nat /\ Len(uttered) \in Nat /\ Len(Tail(todo)) = Len(todo) - 1
          /\ Tail(todo) \in Seq(Nat)
        BY <1>2
    <3>2. QED BY <1>4, <2>1, <3>1
  <2>7. \A k \in 1..Len(said') : said'[k].segment <= Len(uttered') - Len(todo')
    <3>1. Len(uttered) - Len(Tail(todo)) = Head(todo)
        BY <1>2
    <3>2. \A k \in 1..n : said[k].segment <= Head(todo)
        BY <1>2, <1>5
    <3>3. QED BY <2>1, <3>1, <3>2
  <2>8. QED BY <1>4, <2>1, <2>3, <2>4, <2>5, <2>6, <2>7 DEF SegmentsInv
<1>7. CASE step' = "idle" /\ passed' = passed + Len(todo) /\ todo' = <<>>
  <2>1. /\ step' \in {"idle", "hearing", "transcribing"} \cup Deciding
        /\ step' # "hearing" /\ step' \notin Deciding /\ uttered' = uttered /\ said' = said
      BY <1>7 DEF Deciding
  <2>2. todo' = <<>> /\ Len(todo') = 0 /\ todo' \in Seq(Nat)
      BY <1>7
  <2>3. Len(said') + passed' + Len(todo') = Len(uttered') /\ passed' \in Nat
    <3>1. n \in Nat /\ passed \in Nat /\ Len(todo) \in Nat /\ Len(uttered) \in Nat
        BY <1>2
    <3>2. QED BY <1>4, <1>7, <2>1, <2>2, <3>1
  <2>4. \A k \in 1..Len(said') : said'[k].segment <= Len(uttered') - Len(todo')
    <3>1. Head(todo) <= Len(uttered) /\ Head(todo) \in Nat /\ Len(uttered) - Len(todo') = Len(uttered)
        BY <1>2, <2>2
    <3>2. \A k \in 1..n : said[k].segment <= Len(uttered)
        BY <1>2, <1>5, <3>1
    <3>3. QED BY <2>1, <3>1, <3>2
  <2>5. step' \notin {"transcribing"} \cup Deciding
      BY <1>7 DEF Deciding
  <2>6. \A i \in 1..Len(todo') : todo'[i] = Len(uttered') - Len(todo') + i
      BY <2>2
  <2>7. QED BY <1>4, <2>1, <2>2, <2>3, <2>4, <2>5, <2>6 DEF SegmentsInv
<1>8. QED BY <1>6, <1>7

-----------------------------------------------------------------------------
(* ChunkFails and NothingSaid.                                             *)
LEMMA SegmentsPassedKeep ==
    ASSUME AudioInv, ChunkFails \/ NothingSaid
    PROVE  AudioInv'
<1>1. AudioTypes /\ VadInv /\ SegmentsInv /\ ClustersInv /\ StreamerInv
    BY Zenon DEF AudioInv
<1>2. step = "transcribing" /\ UNCHANGED <<vadVars, chunkCancelled, said, clusterVars, streamer, markVars>>
    BY Zenon DEF ChunkFails, NothingSaid
<1>3. \/ NextSegment /\ passed' = passed + 1 /\ todo' = Tail(todo)
      \/ step' = "idle" /\ passed' = passed + Len(todo) /\ todo' = <<>>
    BY Zenon DEF ChunkFails, NothingSaid
<1>4. uttered' = uttered /\ said' = said
    BY <1>2 DEF vadVars
<1>5. /\ SegmentsInv' /\ passed' \in Nat /\ todo' \in Seq(Nat)
      /\ step' \in {"idle", "hearing", "transcribing"} \cup Deciding
      /\ step' # "hearing" /\ step' \notin Deciding
    BY <1>1, <1>2, <1>3, <1>4, SegmentsArePassed
<1>6. step # "hearing" /\ step \notin Deciding
    BY <1>2 DEF Deciding
<1>7. AudioTypes'
    BY <1>1, <1>2, <1>4, <1>5, Zenon DEF AudioTypes, vadVars, clusterVars
<1>8. VadInv'
    BY <1>1, <1>2, <1>5, <1>6, VadIsKept
<1>9. ClustersInv'
    BY <1>1, <1>2, <1>4, <1>5, <1>6 DEF ClustersInv, clusterVars
<1>10. StreamerInv'
  <2>1. step' # "choosing"
      BY <1>5 DEF Deciding
  <2>2. QED BY <1>1, <1>2, <1>4, <1>5, <2>1, Zenon DEF StreamerInv, clusterVars, markVars
<1>11. QED BY <1>5, <1>7, <1>8, <1>9, <1>10, Zenon DEF AudioInv

-----------------------------------------------------------------------------
(* A word that is about nobody, or says of the last cluster what the pins  *)
(* or the choice say.                                                      *)
LEMMA WordKeeps ==
    ASSUME AudioInv, NEW label \in {"streamer", "altro", "?"}, Say(label),
           step \in {"transcribing"} \cup Deciding,
           UNCHANGED <<vadVars, clusters, lastCluster, clustered, seconds, streamer, markVars>>,
           label = "streamer" => step \in Deciding /\ (pins # {} \/ lastCluster = streamer),
           unknown' = IF step \in Deciding THEN unknown ELSE unknown + 1
    PROVE  AudioInv'
<1>1. AudioTypes /\ VadInv /\ SegmentsInv /\ ClustersInv /\ StreamerInv
    BY Zenon DEF AudioInv
<1>2. /\ uttered' = uttered /\ clusters' = clusters /\ lastCluster' = lastCluster
      /\ clustered' = clustered /\ seconds' = seconds /\ streamer' = streamer /\ pins' = pins /\ marking' = marking
    BY DEF vadVars, markVars
<1>3. /\ SegmentsInv' /\ said' \in Seq(Words) /\ todo' \in Seq(Nat) /\ passed' \in Nat /\ chunkCancelled' = chunkCancelled
      /\ step' \in {"idle", "hearing", "transcribing"} \cup Deciding
      /\ step' # "hearing" /\ step' \notin Deciding /\ Len(said') = Len(said) + 1 /\ Len(said) \in Nat
      /\ \A k \in 1..Len(said) : said'[k] = said[k]
      /\ said'[Len(said) + 1].label = label
      /\ said'[Len(said) + 1].cluster = IF label = "?" THEN 0 ELSE lastCluster
    BY <1>1, <1>2, WordIsSaid
<1>4. clustered \in Nat /\ unknown \in Nat /\ seconds \in Nat /\ unknown' \in Nat
  <2>1. clustered \in Nat /\ unknown \in Nat /\ seconds \in Nat
      BY <1>1, Zenon DEF AudioTypes
  <2>2. QED BY <2>1
<1>5. step # "hearing"
    BY DEF Deciding
<1>6. AudioTypes'
    BY <1>1, <1>2, <1>3, <1>4, Zenon DEF AudioTypes, vadVars
<1>7. VadInv'
    BY <1>1, <1>3, <1>5, VadIsKept
<1>8. ClustersInv'
  <2>1. clustered + unknown = Len(said) + (IF step \in Deciding THEN 1 ELSE 0) /\ SumFunction(clusters) = seconds
      BY <1>1, Zenon DEF ClustersInv
  <2>2. clustered' + unknown' = Len(said')
    <3>1. CASE step \in Deciding
      <4>1. unknown' = unknown /\ clustered + unknown = Len(said) + 1
          BY <2>1, <3>1
      <4>2. QED BY <1>2, <1>3, <4>1
    <3>2. CASE step \notin Deciding
      <4>1. unknown' = unknown + 1 /\ clustered + unknown = Len(said) + 0
          BY <2>1, <3>2
      <4>2. QED BY <1>2, <1>3, <1>4, <4>1
    <3>3. QED BY <3>1, <3>2
  <2>3. SumFunction(clusters') = seconds'
      BY <1>2, <2>1
  <2>4. Len(said') = Len(said') + (IF step' \in Deciding THEN 1 ELSE 0)
      BY <1>3
  <2>5. QED BY <2>2, <2>3, <2>4, Zenon DEF ClustersInv
<1>9. StreamerInv'
  <2>1. step' # "choosing"
      BY <1>3 DEF Deciding
  <2>2. \A k \in 1..Len(said) : said'[k].label = "streamer" =>
            said'[k].cluster # 0 /\ (pins' = {} => said'[k].cluster = streamer')
      BY <1>1, <1>2, <1>3, Zenon DEF StreamerInv
  <2>3. said'[Len(said) + 1].label = "streamer" =>
            said'[Len(said) + 1].cluster # 0 /\ (pins' = {} => said'[Len(said) + 1].cluster = streamer')
    <3>1. step \in Deciding => lastCluster # 0
        BY <1>1, Zenon DEF StreamerInv
    <3>2. QED BY <1>2, <1>3, <3>1
  <2>4. \A k \in 1..Len(said') : k \in 1..Len(said) \/ k = Len(said) + 1
      BY <1>3
  <2>5. \A k \in 1..Len(said') : said'[k].label = "streamer" =>
            said'[k].cluster # 0 /\ (pins' = {} => said'[k].cluster = streamer')
      BY <2>2, <2>3, <2>4, Zenon
  <2>6. marking' = "pinned" => pins' # {}
      BY <1>1, <1>2, Zenon DEF StreamerInv
  <2>7. QED BY <1>3, <2>1, <2>5, <2>6, Zenon DEF StreamerInv
<1>10. QED BY <1>3, <1>6, <1>7, <1>8, <1>9, Zenon DEF AudioInv

(* AssignNobody, LookAtStreamer, and LookAtPins when it finds a pin.       *)
LEMMA WordsKeep ==
    ASSUME AudioInv, AssignNobody \/ LookAtStreamer \/ (LookAtPins /\ lastCluster \in pins)
    PROVE  AudioInv'
<1>1. CASE AssignNobody
  <2>1. /\ step = "transcribing" /\ unknown' = unknown + 1 /\ Say("?")
        /\ UNCHANGED <<vadVars, clusters, lastCluster, clustered, seconds, streamer, markVars>>
      BY <1>1, Zenon DEF AssignNobody
  <2>2. step \in {"transcribing"} \cup Deciding /\ step \notin Deciding
      BY <2>1 DEF Deciding
  <2>3. unknown' = IF step \in Deciding THEN unknown ELSE unknown + 1
      BY <2>1, <2>2
  <2>4. "?" \in {"streamer", "altro", "?"} /\ "?" # "streamer"
      OBVIOUS
  <2>5. QED BY <2>1, <2>2, <2>3, <2>4, WordKeeps
<1>2. CASE LookAtStreamer
  <2> DEFINE label == IF lastCluster = streamer THEN "streamer" ELSE "altro"
  <2>1. step = "comparing" /\ Say(label) /\ UNCHANGED <<vadVars, clusterVars, streamer, markVars>>
      BY <1>2, Zenon DEF LookAtStreamer
  <2>2. step \in {"transcribing"} \cup Deciding /\ step \in Deciding
      BY <2>1 DEF Deciding
  <2>3. /\ unknown' = IF step \in Deciding THEN unknown ELSE unknown + 1
        /\ UNCHANGED <<vadVars, clusters, lastCluster, clustered, seconds, streamer, markVars>>
      BY <2>1, <2>2 DEF clusterVars
  <2>4. label \in {"streamer", "altro", "?"} /\ (label = "streamer" => lastCluster = streamer)
      OBVIOUS
  <2> HIDE DEF label
  <2>5. QED BY <2>1, <2>2, <2>3, <2>4, WordKeeps
<1>3. CASE LookAtPins /\ lastCluster \in pins
  <2>1. step = "labelling" /\ Say("streamer") /\ UNCHANGED <<vadVars, clusterVars, streamer, markVars>>
      BY <1>3, Zenon DEF LookAtPins
  <2>2. step \in {"transcribing"} \cup Deciding /\ step \in Deciding
      BY <2>1 DEF Deciding
  <2>3. /\ unknown' = IF step \in Deciding THEN unknown ELSE unknown + 1
        /\ UNCHANGED <<vadVars, clusters, lastCluster, clustered, seconds, streamer, markVars>>
      BY <2>1, <2>2 DEF clusterVars
  <2>4. "streamer" \in {"streamer", "altro", "?"} /\ pins # {}
      BY <1>3
  <2>5. QED BY <2>1, <2>2, <2>3, <2>4, WordKeeps
<1>4. QED BY <1>1, <1>2, <1>3

-----------------------------------------------------------------------------
(* The steps on the way to the word, which take no segment.                *)
LEMMA OnTheWay ==
    ASSUME AudioInv, step \in {"transcribing"} \cup Deciding, step' \in Deciding,
           UNCHANGED <<vadVars, todo, said, passed>>
    PROVE  SegmentsInv' /\ VadInv' /\ step' \in {"idle", "hearing", "transcribing"} \cup Deciding
<1>1. AudioTypes /\ VadInv /\ SegmentsInv
    BY Zenon DEF AudioInv
<1>2. uttered' = uttered /\ todo' = todo /\ said' = said /\ passed' = passed
    BY DEF vadVars
<1>3. step # "hearing" /\ step' # "hearing" /\ step' # "idle"
    BY DEF Deciding
<1>4. SegmentsInv'
    BY <1>1, <1>2, <1>3, Zenon DEF SegmentsInv
<1>5. VadInv'
    BY <1>1, <1>3, VadIsKept
<1>6. QED BY <1>4, <1>5

(* Assign.                                                                 *)
LEMMA AssignKeeps ==
    ASSUME AudioInv, NEW cluster \in 1..(Len(clusters) + 1), Assign(cluster)
    PROVE  AudioInv'
<1> DEFINE duration == Len(uttered[Head(todo)])
<1>1. AudioTypes /\ VadInv /\ SegmentsInv /\ ClustersInv /\ StreamerInv
    BY Zenon DEF AudioInv
<1>2. /\ step = "transcribing"
      /\ clusters' = IF cluster > Len(clusters) THEN Append(clusters, duration)
                     ELSE [clusters EXCEPT ![cluster] = @ + duration]
      /\ clustered' = clustered + 1
      /\ seconds' = seconds + duration
      /\ lastCluster' = cluster
      /\ step' = "freezing"
      /\ UNCHANGED <<vadVars, todo, chunkCancelled, said, passed, unknown, streamer, markVars>>
    BY Zenon DEF Assign
<1>3. duration \in Nat
  <2>1. todo # <<>>
      BY <1>1, <1>2, Zenon DEF SegmentsInv
  <2>2. Head(todo) \in 1..Len(uttered)
      BY <1>1, <2>1, NextIsTaken
  <2>3. uttered \in Seq(Seq(Frames))
      BY <1>1, Zenon DEF AudioTypes
  <2>4. uttered[Head(todo)] \in Seq(Frames)
      BY <2>2, <2>3, ElementOfSeq
  <2>5. QED BY <2>4
<1> HIDE DEF duration
<1>4. clusters \in Seq(Nat) /\ clustered \in Nat /\ unknown \in Nat /\ seconds \in Nat /\ Len(clusters) \in Nat
  <2>1. clusters \in Seq(Nat) /\ clustered \in Nat /\ unknown \in Nat /\ seconds \in Nat
      BY <1>1, Zenon DEF AudioTypes
  <2>2. QED BY <2>1
<1>5. clusters' \in Seq(Nat) /\ SumFunction(clusters') = SumFunction(clusters) + duration
  <2>1. CASE cluster > Len(clusters)
    <3>1. clusters' = Append(clusters, duration)
        BY <1>2, <2>1
    <3>2. Append(clusters, duration) \in Seq(Nat)
        BY <1>3, <1>4
    <3>3. QED BY <1>3, <1>4, <3>1, <3>2, SumGrows
  <2>2. CASE ~(cluster > Len(clusters))
    <3>1. clusters' = [clusters EXCEPT ![cluster] = @ + duration] /\ cluster \in 1..Len(clusters)
        BY <1>2, <1>4, <2>2
    <3>2. [clusters EXCEPT ![cluster] = @ + duration] \in Seq(Nat)
      <4>1. clusters[cluster] + duration \in Nat
          BY <1>3, <1>4, <3>1
      <4>2. QED BY <1>4, <3>1, <4>1
    <3>3. QED BY <1>3, <1>4, <3>1, <3>2, SumGrows
  <2>3. QED BY <2>1, <2>2
<1>6. step \in {"transcribing"} \cup Deciding /\ step \notin Deciding /\ step' \in Deciding /\ step' # "choosing"
    BY <1>2 DEF Deciding
<1>7. SegmentsInv' /\ VadInv' /\ step' \in {"idle", "hearing", "transcribing"} \cup Deciding
    BY <1>2, <1>6, OnTheWay
<1>8. AudioTypes'
  <2>1. lastCluster' \in Nat /\ clustered' \in Nat /\ seconds' \in Nat
      BY <1>2, <1>3, <1>4
  <2>2. QED BY <1>1, <1>2, <1>5, <1>7, <2>1, Zenon DEF AudioTypes, vadVars
<1>9. ClustersInv'
  <2>1. clustered + unknown = Len(said) + 0 /\ SumFunction(clusters) = seconds
      BY <1>1, <1>6 DEF ClustersInv
  <2>2. said' = said /\ unknown' = unknown /\ Len(said) \in Nat
    <3>1. said \in Seq(Words)
        BY <1>1, Zenon DEF AudioTypes
    <3>2. QED BY <1>2, <3>1
  <2>3. clustered' + unknown' = Len(said') + 1
      BY <1>2, <1>4, <2>1, <2>2
  <2>4. SumFunction(clusters') = seconds'
      BY <1>2, <1>5, <2>1
  <2>5. QED BY <1>6, <2>3, <2>4 DEF ClustersInv
<1>10. StreamerInv'
  <2>1. lastCluster' # 0
      BY <1>2, <1>4
  <2>2. QED BY <1>1, <1>2, <1>6, <2>1, Zenon DEF StreamerInv, markVars
<1>11. QED BY <1>7, <1>8, <1>9, <1>10, Zenon DEF AudioInv

(* CheckFreeze, ChooseStreamer, and LookAtPins when it finds no pin.       *)
LEMMA ChoiceKeeps ==
    ASSUME AudioInv, CheckFreeze \/ ChooseStreamer \/ (LookAtPins /\ lastCluster \notin pins)
    PROVE  AudioInv'
<1>1. AudioTypes /\ VadInv /\ SegmentsInv /\ ClustersInv /\ StreamerInv
    BY Zenon DEF AudioInv
<1>2. UNCHANGED <<vadVars, todo, chunkCancelled, said, passed, clusterVars, markVars>>
    BY Zenon DEF CheckFreeze, ChooseStreamer, LookAtPins
<1>3. /\ step \in Deciding /\ step' \in Deciding
      /\ step' = "choosing" => pins = {} /\ streamer = 0 /\ streamer' = streamer
      /\ streamer' = streamer \/ step = "choosing"
  <2>1. CASE CheckFreeze
      BY <2>1 DEF CheckFreeze, MayFreeze, Deciding
  <2>2. CASE ChooseStreamer
      BY <2>2 DEF ChooseStreamer, Deciding
  <2>3. CASE LookAtPins /\ lastCluster \notin pins
      BY <2>3 DEF LookAtPins, Deciding
  <2>4. QED BY <2>1, <2>2, <2>3
<1>4. SegmentsInv' /\ VadInv' /\ step' \in {"idle", "hearing", "transcribing"} \cup Deciding
    BY <1>2, <1>3, OnTheWay
<1>5. AudioTypes'
    BY <1>1, <1>2, <1>4, Zenon DEF AudioTypes, vadVars, clusterVars
<1>6. ClustersInv'
    BY <1>1, <1>2, <1>3 DEF ClustersInv, clusterVars
<1>7. StreamerInv'
  <2>1. pins' = pins /\ marking' = marking /\ said' = said /\ lastCluster' = lastCluster
      BY <1>2 DEF markVars, clusterVars
  <2>2. /\ step \in Deciding => lastCluster # 0
        /\ marking = "pinned" => pins # {}
        /\ \A k \in 1..Len(said) : said[k].label = "streamer" =>
            said[k].cluster # 0 /\ (pins = {} => said[k].cluster = streamer)
        /\ step = "choosing" /\ pins = {} => streamer = 0
      BY <1>1, Zenon DEF StreamerInv
  <2>3. ASSUME NEW k \in 1..Len(said), said[k].label = "streamer"
        PROVE  said[k].cluster # 0 /\ (pins = {} => said[k].cluster = streamer')
    <3>1. said[k].cluster # 0 /\ (pins = {} => said[k].cluster = streamer)
        BY <2>2, <2>3, Zenon
    <3>2. CASE streamer' = streamer
        BY <3>1, <3>2
    <3>3. CASE step = "choosing"
        BY <2>2, <3>1, <3>3
    <3>4. QED BY <1>3, <3>2, <3>3
  <2>4. step' \in Deciding => lastCluster' # 0
      BY <1>3, <2>1, <2>2, Zenon
  <2>5. marking' = "pinned" => pins' # {}
      BY <2>1, <2>2, Zenon
  <2>6. step' = "choosing" /\ pins' = {} => streamer' = 0
      BY <1>3, <2>1
  <2>7. \A k \in 1..Len(said') : said'[k].label = "streamer" =>
            said'[k].cluster # 0 /\ (pins' = {} => said'[k].cluster = streamer')
      BY <2>1, <2>3, Zenon
  <2>8. QED BY <2>4, <2>5, <2>6, <2>7, Zenon DEF StreamerInv
<1>8. QED BY <1>4, <1>5, <1>6, <1>7, Zenon DEF AudioInv

(* The operator: from the first mark on somebody is pinned.                *)
LEMMA MarkKeeps ==
    ASSUME AudioInv, Mark \/ MarkReturns
    PROVE  AudioInv'
<1>1. AudioTypes /\ VadInv /\ SegmentsInv /\ ClustersInv /\ StreamerInv
    BY Zenon DEF AudioInv
<1>2. UNCHANGED <<vadVars, chunkVars, clusterVars>>
    BY Zenon DEF Mark, MarkReturns
<1>3. pins' # {}
    BY <1>1 DEF Mark, MarkReturns, StreamerInv
<1>4. AudioTypes'
    BY <1>1, <1>2, Zenon DEF AudioTypes, vadVars, chunkVars, clusterVars
<1>5. VadInv'
    BY <1>1, <1>2 DEF VadInv, vadVars, chunkVars
<1>6. SegmentsInv' /\ ClustersInv'
    BY <1>1, <1>2 DEF SegmentsInv, ClustersInv, vadVars, chunkVars, clusterVars
<1>7. StreamerInv'
    BY <1>1, <1>2, <1>3, Zenon DEF StreamerInv, chunkVars, clusterVars
<1>8. QED BY <1>4, <1>5, <1>6, <1>7, Zenon DEF AudioInv

(* DetectorFails: what the chunk has given goes with it.                   *)
LEMMA DetectorFailsKeeps ==
    ASSUME AudioInv, DetectorFails
    PROVE  AudioInv'
<1>1. AudioTypes /\ VadInv /\ SegmentsInv /\ ClustersInv /\ StreamerInv
    BY Zenon DEF AudioInv
<1>2. /\ step = "hearing" /\ toHear' = <<>> /\ passed' = passed + Len(todo) /\ todo' = <<>> /\ step' = "idle"
      /\ UNCHANGED <<captured, waiting, nextFrameTs, ring, voiced, triggered, heard, uttered,
                     chunkCancelled, said, clusterVars, streamer, markVars>>
    BY Zenon DEF DetectorFails
<1>3. /\ todo \in Seq(Nat) /\ Len(todo) \in Nat /\ uttered \in Seq(Seq(Frames)) /\ Len(uttered) \in Nat
      /\ said \in Seq(Words) /\ Len(said) \in Nat /\ passed \in Nat
  <2>1. todo \in Seq(Nat) /\ uttered \in Seq(Seq(Frames)) /\ said \in Seq(Words) /\ passed \in Nat
      BY <1>1, Zenon DEF AudioTypes
  <2>2. QED BY <2>1
<1>4. \A X : <<>> \in Seq(X)
    OBVIOUS
<1>5. step' \in {"idle", "hearing", "transcribing"} \cup Deciding /\ step' \notin Deciding /\ step \notin Deciding
    BY <1>2 DEF Deciding
<1>6. AudioTypes'
  <2>1. passed' \in Nat
      BY <1>2, <1>3
  <2>2. toHear' \in Seq(Frames) /\ todo' \in Seq(Nat)
      BY <1>2, <1>4, Zenon
  <2>3. QED BY <1>1, <1>2, <1>5, <2>1, <2>2, Zenon DEF AudioTypes, clusterVars
<1>7. VadInv'
  <2>1. step' # "hearing" /\ \A i \in 1..Len(toHear') : toHear'[i].frame = heard' + i
      BY <1>2
  <2>2. QED BY <1>1, <1>2, <2>1 DEF VadInv
<1>8. SegmentsInv'
  <2>1. step' = "idle" /\ step' \notin {"transcribing"} \cup Deciding /\ todo' = <<>> /\ Len(todo') = 0
      BY <1>2, <1>5
  <2>2. Len(said) + passed + Len(todo) = Len(uttered)
      BY <1>1, Zenon DEF SegmentsInv
  <2>3. Len(said') + passed' + Len(todo') = Len(uttered')
      BY <1>2, <1>3, <2>1, <2>2
  <2>4. \A k \in 1..Len(said') : said'[k].segment <= Len(uttered') - Len(todo')
    <3>1. ASSUME NEW k \in 1..Len(said) PROVE said[k].segment <= Len(uttered)
      <4>1. said[k].segment <= Len(uttered) - Len(todo)
          BY <1>1, Zenon DEF SegmentsInv
      <4>2. said[k].segment \in Nat
        <5>1. said[k] \in Words
            BY <1>3
        <5>2. QED BY <5>1 DEF Words
      <4>3. QED BY <1>3, <4>1, <4>2
    <3>2. Len(uttered') - Len(todo') = Len(uttered) /\ said' = said
        BY <1>2, <1>3, <2>1
    <3>3. QED BY <3>1, <3>2
  <2>5. \A i \in 1..Len(todo') : todo'[i] = Len(uttered') - Len(todo') + i
      BY <2>1
  <2>6. \A k \in 1..(Len(said') - 1) : said'[k].segment < said'[k + 1].segment
      BY <1>1, <1>2, Zenon DEF SegmentsInv
  <2>7. QED BY <2>1, <2>3, <2>4, <2>5, <2>6, Zenon DEF SegmentsInv
<1>9. ClustersInv'
    BY <1>1, <1>2, <1>5 DEF ClustersInv, clusterVars
<1>10. StreamerInv'
  <2>1. step' # "choosing"
      BY <1>2
  <2>2. QED BY <1>1, <1>2, <1>5, <2>1, Zenon DEF StreamerInv, clusterVars, markVars
<1>11. QED BY <1>6, <1>7, <1>8, <1>9, <1>10, Zenon DEF AudioInv

(* CancelChunk.                                                            *)
LEMMA CancelChunkKeeps ==
    ASSUME AudioInv, CancelChunk
    PROVE  AudioInv'
<1>1. AudioTypes /\ VadInv /\ SegmentsInv /\ ClustersInv /\ StreamerInv
    BY Zenon DEF AudioInv
<1>2. /\ chunkCancelled' = TRUE
      /\ UNCHANGED <<vadVars, step, todo, said, passed, clusterVars, streamer, markVars>>
    BY Zenon DEF CancelChunk
<1>3. AudioTypes'
    BY <1>1, <1>2, Zenon DEF AudioTypes, vadVars, clusterVars
<1>4. VadInv'
    BY <1>1, <1>2 DEF VadInv, vadVars
<1>5. SegmentsInv' /\ ClustersInv' /\ StreamerInv'
    BY <1>1, <1>2 DEF SegmentsInv, ClustersInv, StreamerInv, vadVars, clusterVars, markVars
<1>6. QED BY <1>3, <1>4, <1>5, Zenon DEF AudioInv

(* Nothing changes.                                                        *)
LEMMA AudioStutters == AudioInv /\ UNCHANGED audioVars => AudioInv'
<1> SUFFICES ASSUME AudioInv, UNCHANGED audioVars PROVE AudioInv'
    OBVIOUS
<1>1. UNCHANGED <<vadVars, chunkVars, clusterVars, streamer, markVars>>
    BY DEF audioVars
<1>2. AudioTypes /\ VadInv /\ SegmentsInv /\ ClustersInv /\ StreamerInv
    BY Zenon DEF AudioInv
<1>3. AudioTypes' /\ VadInv'
    BY <1>1, <1>2, Zenon DEF AudioTypes, VadInv, vadVars, chunkVars, clusterVars
<1>4. SegmentsInv' /\ ClustersInv' /\ StreamerInv'
    BY <1>1, <1>2, Zenon DEF SegmentsInv, ClustersInv, StreamerInv, vadVars, chunkVars, clusterVars, markVars
<1>5. QED BY <1>3, <1>4, Zenon DEF AudioInv

(* Every step keeps the invariant.                                         *)
LEMMA AudioStepKeeps == AudioInv /\ [AudioNext]_audioVars => AudioInv'
<1> SUFFICES ASSUME AudioInv, [AudioNext]_audioVars PROVE AudioInv'
    OBVIOUS
<1>1. ASSUME NEW units \in ChunkSizes, LoseChunk(units) \/ BeginChunk(units) PROVE AudioInv'
    BY <1>1, ChunkIsLost, ChunkKeeps
<1>2. ASSUME NEW speech \in BOOLEAN, HearFrame(speech) PROVE AudioInv'
    BY <1>2, FrameKeeps
<1>3. ASSUME ChunkFails \/ NothingSaid \/ DetectorFails \/ CancelChunk PROVE AudioInv'
    BY <1>3, SegmentsPassedKeep, DetectorFailsKeeps, CancelChunkKeeps
<1>4. ASSUME NEW cluster \in 1..(Len(clusters) + 1), Assign(cluster) PROVE AudioInv'
    BY <1>4, AssignKeeps
<1>5. ASSUME CheckFreeze \/ ChooseStreamer PROVE AudioInv'
    BY <1>5, ChoiceKeeps
<1>6. ASSUME AssignNobody \/ LookAtStreamer PROVE AudioInv'
    BY <1>6, WordsKeep
<1>7. ASSUME LookAtPins PROVE AudioInv'
    BY <1>7, WordsKeep, ChoiceKeeps
<1>8. ASSUME Mark \/ MarkReturns PROVE AudioInv'
    BY <1>8, MarkKeeps
<1>9. ASSUME UNCHANGED audioVars PROVE AudioInv'
    BY <1>9, AudioStutters
<1>10. QED BY <1>1, <1>2, <1>3, <1>4, <1>5, <1>6, <1>7, <1>8, <1>9, Zenon DEF AudioNext

(* What was made stays as it was, and one more has the fate that the token *)
(* of the job gives it.                                                    *)
LEMMA FatesStep == AudioInv /\ FatesInv /\ [AudioNext]_audioVars => FatesInv'
<1> SUFFICES ASSUME AudioInv, FatesInv, [AudioNext]_audioVars PROVE FatesInv'
    OBVIOUS
<1>1. said \in Seq(Words) /\ chunkCancelled \in BOOLEAN /\ Len(said) \in Nat
  <2>1. said \in Seq(Words) /\ chunkCancelled \in BOOLEAN
      BY Zenon DEF AudioInv, AudioTypes
  <2>2. QED BY <2>1
<1>2. ASSUME said' = said, chunkCancelled => chunkCancelled' PROVE FatesInv'
    BY <1>2, Zenon DEF FatesInv
<1>3. ASSUME NEW label, Say(label) PROVE FatesInv'
  <2> DEFINE n == Len(said)
  <2>1. PICK fate \in IF chunkCancelled THEN {"dropped"} ELSE {"written", "refused"} :
            /\ said' = Append(said, [segment |-> Head(todo), label |-> label, fate |-> fate,
                                     cluster |-> IF label = "?" THEN 0 ELSE lastCluster])
            /\ chunkCancelled' = chunkCancelled
      BY <1>3, Zenon DEF Say
  <2>2. /\ Len(said') = n + 1 /\ said'[n + 1].fate = fate
        /\ \A k \in 1..n : said'[k] = said[k]
      BY <1>1, <2>1
  <2>3. fate = "dropped" <=> chunkCancelled
      BY <2>1
  <2>4. ASSUME NEW k \in 1..(n + 1), said'[k].fate = "dropped"
        PROVE  chunkCancelled' /\ \A j \in k..(n + 1) : said'[j].fate = "dropped"
    <3>1. CASE k = n + 1
      <4>1. fate = "dropped"
          BY <2>2, <2>4, <3>1
      <4>2. \A j \in k..(n + 1) : j = n + 1
          BY <1>1, <3>1
      <4>3. QED BY <2>1, <2>2, <2>3, <4>1, <4>2
    <3>2. CASE k \in 1..n
      <4>1. chunkCancelled /\ \A j \in k..n : said[j].fate = "dropped"
          BY <2>2, <2>4, <3>2 DEF FatesInv
      <4>2. \A j \in k..(n + 1) : (j \in k..n /\ j \in 1..n) \/ j = n + 1
          BY <1>1, <3>2
      <4>3. said'[n + 1].fate = "dropped"
          BY <2>2, <2>3, <4>1
      <4>4. QED BY <2>1, <2>2, <4>1, <4>2, <4>3
    <3>3. QED BY <1>1, <3>1, <3>2
  <2>5. QED BY <2>2, <2>4 DEF FatesInv
<1>4. \/ \E label : Say(label)
      \/ said' = said /\ (chunkCancelled => chunkCancelled')
  <2>1. ASSUME NEW units \in ChunkSizes, LoseChunk(units) \/ BeginChunk(units)
        PROVE  said' = said /\ chunkCancelled' = chunkCancelled
      BY <2>1 DEF LoseChunk, BeginChunk, chunkVars
  <2>2. ASSUME NEW speech \in BOOLEAN, HearFrame(speech) PROVE said' = said /\ chunkCancelled' = chunkCancelled
      BY <2>2, Zenon DEF HearFrame
  <2>3. ASSUME NEW cluster \in 1..(Len(clusters) + 1), Assign(cluster)
        PROVE  said' = said /\ chunkCancelled' = chunkCancelled
      BY <2>3, Zenon DEF Assign
  <2>4. ASSUME DetectorFails \/ ChunkFails \/ NothingSaid \/ CheckFreeze \/ ChooseStreamer \/ Mark \/ MarkReturns
        PROVE  said' = said /\ chunkCancelled' = chunkCancelled
      BY <2>4 DEF DetectorFails, ChunkFails, NothingSaid, CheckFreeze, ChooseStreamer, Mark, MarkReturns, chunkVars
  <2>5. ASSUME CancelChunk PROVE said' = said /\ chunkCancelled'
      BY <2>5, Zenon DEF CancelChunk
  <2>6. ASSUME AssignNobody \/ LookAtStreamer PROVE \E label : Say(label)
      BY <2>6, Zenon DEF AssignNobody, LookAtStreamer
  <2>7. ASSUME LookAtPins PROVE (\E label : Say(label)) \/ (said' = said /\ chunkCancelled' = chunkCancelled)
      BY <2>7, Zenon DEF LookAtPins
  <2>8. ASSUME UNCHANGED audioVars PROVE said' = said /\ chunkCancelled' = chunkCancelled
      BY <2>8 DEF audioVars, chunkVars
  <2>9. QED BY <2>1, <2>2, <2>3, <2>4, <2>5, <2>6, <2>7, <2>8, Zenon DEF AudioNext
<1>5. QED BY <1>2, <1>3, <1>4

(* What the invariant says of utterances and voices.                       *)
LEMMA WhatAudioInvSays == AudioInv /\ FatesInv => SpeechIsAccounted
<1> SUFFICES ASSUME AudioInv, FatesInv PROVE SpeechIsAccounted
    OBVIOUS
<1>1. AudioTypes /\ VadInv /\ SegmentsInv /\ ClustersInv /\ StreamerInv
    BY Zenon DEF AudioInv
<1>2. UtterancesAreWhole
  <2>1. ASSUME NEW k \in 1..Len(uttered)
        PROVE  /\ Len(uttered[k]) \in Padding..Larger(Padding, MaxUtterance)
               /\ \A i \in 1..(Len(uttered[k]) - 1) : uttered[k][i + 1].frame = uttered[k][i].frame + 1
               /\ k > 1 => uttered[k][1].frame > Last(uttered[k - 1]).frame
      BY <1>1, Zenon DEF VadInv, Utterances, WholeUtterance
  <2>2. triggered => Last(voiced).frame = heard
    <3>1. ASSUME triggered PROVE Last(voiced).frame = heard
      <4>1. Len(voiced) \in Padding..(MaxUtterance - 1) /\ UpTo(voiced, heard)
          BY <1>1, <3>1, Zenon DEF VadInv
      <4>2. Len(voiced) \in 1..Len(voiced) /\ Len(voiced) \in Nat
          BY <4>1, AudioConstants
      <4>3. voiced[Len(voiced)].frame = (heard - Len(voiced)) + Len(voiced)
          BY <4>1, <4>2, Zenon DEF UpTo
      <4>4. heard \in Nat
          BY <1>1, Zenon DEF AudioTypes
      <4>5. QED BY <4>2, <4>3, <4>4 DEF Last
    <3>2. QED BY <3>1
  <2>3. ~triggered => /\ Len(ring) = IF heard - EndOf(uttered) < Padding THEN heard - EndOf(uttered) ELSE Padding
                      /\ ~RingIsReady(ring, TRUE)
      BY <1>1, Zenon DEF VadInv, Quiet
  <2>4. QED BY <2>1, <2>2, <2>3, Zenon DEF UtterancesAreWhole, EndOf
<1>3. VoicesAreAccounted
  <2>1. /\ Len(said) + passed + Len(todo) = Len(uttered)
        /\ \A k \in 1..(Len(said) - 1) : said[k].segment < said[k + 1].segment
      BY <1>1, Zenon DEF SegmentsInv
  <2>2. /\ clustered + unknown =
            Len(said) + (IF step \in {"freezing", "choosing", "labelling", "comparing"} THEN 1 ELSE 0)
        /\ SumFunction(clusters) = seconds
      BY <1>1, Zenon DEF ClustersInv, Deciding
  <2>3. pins = {} => {said[k].cluster : k \in {k \in 1..Len(said) : said[k].label = "streamer"}} \subseteq {streamer}
      BY <1>1 DEF StreamerInv
  <2>4. QED BY <2>1, <2>2, <2>3, Zenon DEF VoicesAreAccounted, FatesInv
<1>4. QED BY <1>2, <1>3 DEF SpeechIsAccounted

(* Every utterance is whole, each segment has its perception or a reason   *)
(* why not, only a job that is cancelled loses one without a word, and the *)
(* clusterer counts and names as it ought to.                              *)
THEOREM SpeechAccounted == AudioSpec => []SpeechIsAccounted
<1>1. AudioInit => FatesInv
  <2>1. Len(<<>>) = 0
      OBVIOUS
  <2>2. QED BY <2>1 DEF AudioInit, FatesInv
<1>2. AudioSpec => []AudioInv
    BY AudioInitially, AudioStepKeeps, PTL DEF AudioSpec
<1>3. AudioSpec => []FatesInv
    BY <1>1, <1>2, FatesStep, PTL DEF AudioSpec
<1>4. QED BY <1>2, <1>3, WhatAudioInvSays, PTL

-----------------------------------------------------------------------------
(* What the worker, its token, its thread and its future say together.     *)
Tasks ==
    /\ \A ch \in Channels :
        /\ inflight[ch] = IF worker[ch] = "running" THEN 1 ELSE 0
        /\ worker[ch] = "running" =>
            tokens[ch] \in Jobs /\ tokens[ch][1] = ch /\ threads[ch] = tokens[ch]
        /\ worker[ch] \in {"none", "waiting"} => threads[ch] = NoJob
    /\ \A job \in Jobs :
        /\ future[job] \in {"result", "exception"} => thread[job] = "gone"
        /\ thread[job] \notin {"none", "gone"} => threads[job[1]] = job

(* The events wait in the order of their submission, after every event     *)
(* already taken.                                                          *)
QueueOrder ==
    /\ \A ch \in Channels : \A i \in 1..Len(queues[ch]) :
        /\ queues[ch][i] <= submitted[ch]
        /\ \A j \in 1..Len(queues[ch]) : i < j => queues[ch][i] < queues[ch][j]
    /\ \A job \in Jobs : thread[job] # "none" =>
        /\ job[2] <= submitted[job[1]]
        /\ \A i \in 1..Len(queues[job[1]]) : job[2] < queues[job[1]][i]

(* What is in the store was written by a thread, and before the event of   *)
(* any thread that may still write.                                        *)
StoreOrder ==
    /\ \A k \in 1..Len(store) : thread[store[k]] # "none"
    /\ \A job \in Jobs : thread[job] \in {"working", "writing"} =>
        \A k \in 1..Len(store) : store[k][1] = job[1] => store[k][2] < job[2]
    /\ WrittenInOrder

(* What stop() has done so far.                                            *)
Stopping ==
    /\ stopper = "idle" /\ ~running => \A ch \in Channels : worker[ch] = "none"
    /\ cancelling <=> stopper \in {"waiting", "stopped"}
    /\ stopper # "stopped" => \A ch \in Channels : abandoned[ch] = 0
    /\ stopper \in {"waiting", "stopped"} /\ ~interrupted =>
        \A ch \in Channels : queues[ch] = <<>>
    /\ stopper = "stopped" /\ ~interrupted => \A ch \in Channels : worker[ch] = "ended"

IInv ==
    /\ TypeOK
    /\ Tasks
    /\ Ledger
    /\ LatestFrameWins
    /\ QueueOrder
    /\ StoreOrder
    /\ Stopping
    /\ AbandonedThreadsAreCounted

(* The types of one channel's part of the state.                           *)
LEMMA ChannelTypes ==
    ASSUME TypeOK, NEW ch \in Channels
    PROVE  /\ queues[ch] \in Seq(1..MaxEvents)
           /\ Len(queues[ch]) \in Nat
           /\ unfinished[ch] \in Nat
           /\ inflight[ch] \in Nat
           /\ submitted[ch] \in Nat
           /\ processed[ch] \in Nat
           /\ failed[ch] \in Nat
           /\ cancelled[ch] \in Nat
           /\ dropped[ch] \in Nat
<1>1. queues[ch] \in Seq(1..MaxEvents) /\ Len(queues[ch]) \in Nat
    BY DEF TypeOK
<1>2. inflight[ch] \in 0..1
    BY DEF TypeOK
<1>3. unfinished[ch] \in Nat /\ submitted[ch] \in Nat
    BY DEF TypeOK
<1>4. processed[ch] \in Nat /\ failed[ch] \in Nat
    BY DEF TypeOK
<1>5. cancelled[ch] \in Nat /\ dropped[ch] \in Nat
    BY DEF TypeOK
<1>6. QED BY <1>1, <1>2, <1>3, <1>4, <1>5

LEMMA SettledType ==
    ASSUME TypeOK, NEW ch \in Channels
    PROVE  Settled(ch) \in Nat /\ Pending(ch) \in Nat
<1>1. QED BY ChannelTypes DEF Settled, Pending

(* A step of one channel keeps the ledger when it settles and queues as    *)
(* many events as it takes and submits.                                    *)
LEMMA LedgerStep ==
    ASSUME TypeOK, Ledger, NEW ch \in Channels, NEW new \in Int, NEW settled \in Int,
           \A c \in Channels : c # ch =>
                /\ submitted'[c] = submitted[c] /\ Settled(c)' = Settled(c)
                /\ Pending(c)' = Pending(c) /\ unfinished'[c] = unfinished[c],
           submitted'[ch] = submitted[ch] + new,
           Settled(ch)' = Settled(ch) + settled,
           Pending(ch)' = Pending(ch) + (new - settled),
           unfinished'[ch] = unfinished[ch] + (new - settled)
    PROVE  Ledger'
<1>1. ASSUME NEW c \in Channels, c # ch
      PROVE  submitted'[c] = Settled(c)' + Pending(c)' /\ unfinished'[c] = Pending(c)'
    BY <1>1 DEF Ledger
<1>2. submitted[ch] = Settled(ch) + Pending(ch) /\ unfinished[ch] = Pending(ch)
    BY DEF Ledger
<1>3. Settled(ch) \in Nat /\ Pending(ch) \in Nat
    BY SettledType
<1>4. submitted'[ch] = Settled(ch)' + Pending(ch)'
    BY <1>2, <1>3
<1>5. unfinished'[ch] = Pending(ch)'
    BY <1>2, <1>3
<1>6. QED BY <1>1, <1>4, <1>5 DEF Ledger

LEMMA StartIInv ==
    ASSUME IInv, Start
    PROVE  IInv'
<1> USE DEF IInv
<1>1. TypeOK'
    BY DEF TypeOK, Ledger, Tasks, Pending, Start, queueVars, jobVars, stats
<1>2. Tasks'
  <2>1. \A ch \in Channels : worker[ch] = "none" /\ inflight[ch] = 0 /\ threads[ch] = NoJob
      BY DEF Tasks, Stopping, Start
  <2>2. QED BY <2>1 DEF Tasks, Jobs, Start, jobVars
<1>3. Ledger'
    BY DEF TypeOK, Ledger, Settled, Pending, Start, queueVars, jobVars, stats
<1>4. LatestFrameWins'
    BY DEF TypeOK, LatestFrameWins, Start, queueVars, jobVars, stats
<1>5. QueueOrder'
    BY DEF TypeOK, QueueOrder, Jobs, Start, queueVars, jobVars, stats
<1>6. StoreOrder'
    BY DEF TypeOK, StoreOrder, QueueOrder, Jobs, WrittenInOrder, Start, queueVars, jobVars, stats
<1>7. Stopping'
    BY DEF TypeOK, Stopping, Ledger, Pending, Start, queueVars, jobVars, stats
<1>8. AbandonedThreadsAreCounted'
    BY DEF TypeOK, AbandonedThreadsAreCounted, Live, Tasks, Stopping, Jobs, Start, queueVars, jobVars, stats
<1>9. QED BY <1>1, <1>2, <1>3, <1>4, <1>5, <1>6, <1>7, <1>8

LEMMA SubmitIInv ==
    ASSUME IInv, NEW ch \in Channels, Submit(ch)
    PROVE  IInv'
<1> USE DEF IInv
<1>a. /\ Kept(ch) \in Seq(1..MaxEvents)
      /\ Kept(ch) = <<>> \/ Kept(ch) = queues[ch]
      /\ Len(Kept(ch)) \in Nat /\ Len(queues[ch]) \in Nat
      /\ Len(Kept(ch)) <= Len(queues[ch]) /\ Len(queues[ch]) <= Capacity
  <2>1. queues[ch] \in Seq(1..MaxEvents) /\ Len(queues[ch]) \in Nat /\ Len(queues[ch]) <= Capacity
      BY DEF TypeOK
  <2>2. Kept(ch) = <<>> \/ Kept(ch) = queues[ch]
      BY DEF Kept
  <2>3. CASE Kept(ch) = <<>>
    <3>1. Kept(ch) \in Seq(1..MaxEvents) /\ Len(Kept(ch)) = 0
        BY <2>3
    <3>2. QED BY <2>1, <2>3, <3>1
  <2>4. CASE Kept(ch) = queues[ch]
      BY <2>1, <2>4
  <2>5. QED BY <2>2, <2>3, <2>4
<1>b. /\ submitted[ch] \in Nat /\ submitted[ch] < MaxEvents
      /\ submitted' = [submitted EXCEPT ![ch] = submitted[ch] + 1]
      /\ queues' = [queues EXCEPT ![ch] =
                        IF Len(Kept(ch)) < Capacity THEN Append(Kept(ch), submitted[ch] + 1)
                        ELSE Kept(ch)]
      /\ unfinished' = [unfinished EXCEPT ![ch] =
                            unfinished[ch] - (Len(queues[ch]) - Len(Kept(ch)))
                                + (IF Len(Kept(ch)) < Capacity THEN 1 ELSE 0)]
      /\ dropped' = [dropped EXCEPT ![ch] =
                            dropped[ch] + (Len(queues[ch]) - Len(Kept(ch)))
                                + (IF Len(Kept(ch)) < Capacity THEN 0 ELSE 1)]
    BY DEF TypeOK, Submit
<1>c. /\ unfinished[ch] \in Int /\ inflight[ch] \in Int /\ processed[ch] \in Int
      /\ failed[ch] \in Int /\ cancelled[ch] \in Int /\ dropped[ch] \in Int
    BY ChannelTypes
<1>1. TypeOK'
  <2>1. /\ queues'[ch] \in Seq(1..MaxEvents)
        /\ Len(queues'[ch]) <= Capacity
    <3>1. submitted[ch] + 1 \in 1..MaxEvents
        BY <1>b, QueueAssumption
    <3>2. /\ Append(Kept(ch), submitted[ch] + 1) \in Seq(1..MaxEvents)
          /\ Len(Append(Kept(ch), submitted[ch] + 1)) = Len(Kept(ch)) + 1
        BY <1>a, <3>1
    <3>3. queues'[ch] = IF Len(Kept(ch)) < Capacity
                        THEN Append(Kept(ch), submitted[ch] + 1) ELSE Kept(ch)
        BY <1>b DEF TypeOK
    <3>4. Capacity \in Nat
        BY QueueAssumption
    <3>5. CASE Len(Kept(ch)) < Capacity
      <4>1. queues'[ch] = Append(Kept(ch), submitted[ch] + 1)
          BY <3>3, <3>5
      <4>2. Len(Kept(ch)) + 1 <= Capacity
          BY <1>a, <3>4, <3>5
      <4>3. QED BY <3>2, <4>1, <4>2
    <3>6. CASE ~(Len(Kept(ch)) < Capacity)
      <4>1. queues'[ch] = Kept(ch)
          BY <3>3, <3>6
      <4>2. Len(Kept(ch)) <= Capacity
          BY <1>a, <3>4
      <4>3. QED BY <1>a, <4>1, <4>2
    <3>7. QED BY <3>5, <3>6
  <2>2. /\ queues' \in [Channels -> Seq(1..MaxEvents)]
        /\ \A c \in Channels : Len(queues'[c]) <= Capacity
      BY <2>1, <1>b DEF TypeOK
  <2>3. /\ submitted' \in [Channels -> Nat]
        /\ dropped' \in [Channels -> Nat]
    <3>1. /\ dropped \in [Channels -> Nat] /\ submitted \in [Channels -> Nat]
          /\ dropped[ch] \in Nat
        BY DEF TypeOK
    <3>2. dropped[ch] + (Len(queues[ch]) - Len(Kept(ch)))
            + (IF Len(Kept(ch)) < Capacity THEN 0 ELSE 1) \in Nat
        BY <1>a, <3>1
    <3>3. QED BY <1>b, <3>1, <3>2
  <2>4. unfinished' \in [Channels -> Nat]
    <3>1. unfinished[ch] - (Len(queues[ch]) - Len(Kept(ch)))
            + (IF Len(Kept(ch)) < Capacity THEN 1 ELSE 0) \in Nat
      <4>1. unfinished[ch] = Len(queues[ch]) + inflight[ch] /\ inflight[ch] \in 0..1
          BY DEF TypeOK, Ledger, Pending
      <4>2. QED BY <1>a, <4>1
    <3>2. QED BY <1>b, <3>1 DEF TypeOK
  <2>5. UNCHANGED <<processed, failed, cancelled, abandoned, cleanupFailures>>
      BY DEF Submit
  <2>6. UNCHANGED <<jobVars, stopVars, worker, store>>
      BY DEF Submit
  <2>7. QED BY <2>2, <2>3, <2>4, <2>5, <2>6 DEF TypeOK, jobVars, stopVars
<1>2. Tasks'
    BY DEF TypeOK, Tasks, Jobs, Submit, Kept, jobVars, stopVars
<1>3. Ledger'
  <2>1. UNCHANGED <<processed, failed, cancelled, inflight>>
      BY DEF Submit, jobVars
  <2>2. ASSUME NEW c \in Channels, c # ch
        PROVE  /\ submitted'[c] = submitted[c] /\ Settled(c)' = Settled(c)
               /\ Pending(c)' = Pending(c) /\ unfinished'[c] = unfinished[c]
      BY <2>1, <2>2, <1>b DEF TypeOK, Settled, Pending
  <2>3. PICK settled \in Int :
            /\ dropped'[ch] = dropped[ch] + settled
            /\ Len(queues'[ch]) = Len(queues[ch]) + (1 - settled)
            /\ unfinished'[ch] = unfinished[ch] + (1 - settled)
    <3>1. Len(queues[ch]) - Len(Kept(ch)) \in Int
        BY <1>a
    <3>2. PICK drained \in Int : drained = Len(queues[ch]) - Len(Kept(ch))
        BY <3>1
    <3>3. \A u, d \in Int :
            u + d + 0 = u + d /\ u - d + 1 = u + (1 - d) /\ u - d + 0 = u + (1 - (d + 1))
        OBVIOUS
    <3>4. CASE Len(Kept(ch)) < Capacity
      <4>1. queues'[ch] = Append(Kept(ch), submitted[ch] + 1) /\ submitted[ch] + 1 \in 1..MaxEvents
          BY <1>b, <3>4, QueueAssumption DEF TypeOK
      <4>2. Len(queues'[ch]) = Len(queues[ch]) + (1 - drained)
          BY <1>a, <3>2, <4>1
      <4>3. dropped'[ch] = dropped[ch] + drained + 0
          BY <1>b, <3>2, <3>4 DEF TypeOK
      <4>4. unfinished'[ch] = unfinished[ch] - drained + 1
          BY <1>b, <3>2, <3>4 DEF TypeOK
      <4>5. dropped'[ch] = dropped[ch] + drained /\ unfinished'[ch] = unfinished[ch] + (1 - drained)
          BY <1>c, <3>3, <4>3, <4>4
      <4>6. QED BY <4>2, <4>5
    <3>5. CASE ~(Len(Kept(ch)) < Capacity)
      <4>1. drained + 1 \in Int
          BY <3>2
      <4>2. queues'[ch] = Kept(ch)
          BY <1>b, <3>5 DEF TypeOK
      <4>3. Len(queues'[ch]) = Len(queues[ch]) + (1 - (drained + 1))
          BY <1>a, <3>2, <4>2
      <4>4. dropped'[ch] = dropped[ch] + drained + 1
          BY <1>b, <3>2, <3>5 DEF TypeOK
      <4>5. unfinished'[ch] = unfinished[ch] - drained + 0
          BY <1>b, <3>2, <3>5 DEF TypeOK
      <4>6. dropped'[ch] = dropped[ch] + (drained + 1)
          BY <1>c, <4>4
      <4>7. unfinished'[ch] = unfinished[ch] + (1 - (drained + 1))
          BY <1>c, <3>3, <4>5
      <4>8. QED BY <4>1, <4>3, <4>6, <4>7
    <3>6. QED BY <3>4, <3>5
  <2>4. Settled(ch)' = Settled(ch) + settled
    <3>1. \A p, f, c, d, q \in Int : p + f + c + (d + q) = (p + f + c + d) + q
        OBVIOUS
    <3>2. processed[ch] + failed[ch] + cancelled[ch] + (dropped[ch] + settled)
            = (processed[ch] + failed[ch] + cancelled[ch] + dropped[ch]) + settled
        BY <1>c, <2>3, <3>1
    <3>3. QED BY <2>1, <2>3, <3>2 DEF Settled
  <2>5. Pending(ch)' = Pending(ch) + (1 - settled)
    <3>1. \A l, i, d \in Int : (l + d) + i = (l + i) + d
        OBVIOUS
    <3>2. Len(queues[ch]) \in Int /\ 1 - settled \in Int
        BY <1>a, <2>3
    <3>3. (Len(queues[ch]) + (1 - settled)) + inflight[ch]
            = (Len(queues[ch]) + inflight[ch]) + (1 - settled)
        BY <1>c, <3>1, <3>2
    <3>4. QED BY <2>1, <2>3, <3>3 DEF Pending
  <2>6. submitted'[ch] = submitted[ch] + 1
      BY <1>b DEF TypeOK
  <2>7. QED BY <2>2, <2>3, <2>4, <2>5, <2>6, LedgerStep
<1>4. LatestFrameWins'
  <2>1. ASSUME NEW c \in Channels, c # ch
        PROVE  queues'[c] = queues[c] /\ submitted'[c] = submitted[c]
      BY <2>1, <1>b DEF TypeOK
  <2>2. ASSUME ch = Video PROVE queues'[ch] = <<submitted'[ch]>>
      BY <2>2, <1>b, QueueAssumption DEF TypeOK, Kept
  <2>3. QED BY <2>1, <2>2 DEF LatestFrameWins
<1>5. QueueOrder'
  <2>1. ASSUME NEW c \in Channels, c # ch
        PROVE  queues'[c] = queues[c] /\ submitted'[c] = submitted[c]
      BY <2>1, <1>b DEF TypeOK
  <2>2. ASSUME NEW i \in 1..Len(queues'[ch])
        PROVE  \/ i \in 1..Len(queues[ch]) /\ queues'[ch][i] = queues[ch][i]
               \/ /\ i = Len(Kept(ch)) + 1 /\ i = Len(queues'[ch])
                  /\ queues'[ch][i] = submitted[ch] + 1
    <3>1. CASE Len(Kept(ch)) < Capacity
      <4>1. queues'[ch] = Append(Kept(ch), submitted[ch] + 1)
          BY <1>b, <3>1 DEF TypeOK
      <4>2. i \in 1..(Len(Kept(ch)) + 1)
          BY <2>2, <4>1, <1>a
      <4>3. CASE i = Len(Kept(ch)) + 1
          BY <4>1, <4>3, <1>a
      <4>4. CASE i \in 1..Len(Kept(ch))
        <5>1. queues'[ch][i] = Kept(ch)[i]
            BY <4>1, <4>4, <1>a
        <5>2. Kept(ch) = queues[ch]
            BY <4>4, <1>a
        <5>3. QED BY <5>1, <5>2, <4>4
      <4>5. QED BY <4>2, <4>3, <4>4, <1>a
    <3>2. CASE ~(Len(Kept(ch)) < Capacity)
      <4>1. queues'[ch] = Kept(ch)
          BY <1>b, <3>2 DEF TypeOK
      <4>2. QED BY <2>2, <4>1, <1>a
    <3>3. QED BY <3>1, <3>2
  <2>3. submitted'[ch] = submitted[ch] + 1 /\ submitted[ch] \in Nat
      BY <1>b DEF TypeOK
  <2>4. ASSUME NEW i \in 1..Len(queues'[ch])
        PROVE  /\ queues'[ch][i] <= submitted'[ch]
               /\ \A j \in 1..Len(queues'[ch]) : i < j => queues'[ch][i] < queues'[ch][j]
    <3>0. \A j \in 1..Len(queues[ch]) : queues[ch][j] \in 1..MaxEvents
      <4>1. queues[ch] \in Seq(1..MaxEvents)
          BY DEF TypeOK
      <4>2. QED BY <4>1, ElementOfSeq
    <3>1. \A j \in 1..Len(queues[ch]) :
            /\ queues[ch][j] \in Nat
            /\ queues[ch][j] <= submitted[ch]
            /\ \A k \in 1..Len(queues[ch]) : j < k => queues[ch][j] < queues[ch][k]
        BY <3>0, QueueAssumption DEF QueueOrder
    <3>2. queues'[ch][i] <= submitted'[ch]
        BY <2>2, <2>3, <3>1, QueueAssumption
    <3>3. ASSUME NEW j \in 1..Len(queues'[ch]), i < j
          PROVE  queues'[ch][i] < queues'[ch][j]
      <4>1. Len(queues'[ch]) \in Nat
          BY <1>a, <1>b DEF TypeOK
      <4>2. i \in 1..Len(queues[ch]) /\ queues'[ch][i] = queues[ch][i]
          BY <2>2, <3>3, <4>1
      <4>3. QED BY <2>2, <2>3, <3>1, <3>3, <4>2, QueueAssumption
    <3>4. QED BY <3>2, <3>3
  <2>5. ASSUME NEW job \in Jobs, thread[job] # "none", job[1] = ch
        PROVE  /\ job[2] <= submitted'[ch]
               /\ \A i \in 1..Len(queues'[ch]) : job[2] < queues'[ch][i]
    <3>1. /\ job[2] \in Nat /\ job[2] <= submitted[ch]
          /\ \A i \in 1..Len(queues[ch]) : job[2] < queues[ch][i]
        BY <2>5, QueueAssumption DEF QueueOrder, Jobs
    <3>2. QED BY <2>2, <2>3, <3>1
  <2>6. thread' = thread
      BY DEF Submit, jobVars
  <2>7. QED BY <2>1, <2>4, <2>5, <2>6 DEF QueueOrder, Jobs
<1>6. StoreOrder'
    BY DEF TypeOK, StoreOrder, QueueOrder, Jobs, WrittenInOrder, Submit, Kept, jobVars, stopVars
<1>7. Stopping'
    BY DEF TypeOK, Stopping, Ledger, Pending, Submit, Kept, jobVars, stopVars
<1>8. AbandonedThreadsAreCounted'
    BY DEF TypeOK, AbandonedThreadsAreCounted, Live, Tasks, Stopping, Jobs, Submit, Kept, jobVars, stopVars
<1>9. QED BY <1>1, <1>2, <1>3, <1>4, <1>5, <1>6, <1>7, <1>8

(* A job is a channel and the number of an event.                          *)
LEMMA JobParts ==
    ASSUME NEW job \in Jobs
    PROVE  job # NoJob /\ job[1] \in Channels /\ job[2] \in 1..MaxEvents /\ job[2] \in Nat
<1>1. PICK ch \in Channels, n \in 1..MaxEvents : job = <<ch, n>>
    BY DEF Jobs
<1>2. job # NoJob
    BY <1>1 DEF NoJob
<1>3. QED BY <1>1, <1>2, QueueAssumption

LEMMA TakeJobIInv ==
    ASSUME IInv, NEW ch \in Channels, TakeJob(ch)
    PROVE  IInv'
<1> USE DEF IInv
<1>a. /\ queues[ch] \in Seq(1..MaxEvents) /\ queues[ch] # <<>> /\ Len(queues[ch]) \in Nat
      /\ Len(queues[ch]) >= 1
      /\ Tail(queues[ch]) \in Seq(1..MaxEvents)
      /\ Len(Tail(queues[ch])) = Len(queues[ch]) - 1
      /\ Head(queues[ch]) = queues[ch][1]
      /\ queues[ch][1] \in 1..MaxEvents
  <2>1. queues[ch] \in Seq(1..MaxEvents) /\ queues[ch] # <<>>
      BY DEF TypeOK, TakeJob
  <2>2. Len(queues[ch]) \in Nat /\ Len(queues[ch]) >= 1
      BY <2>1, EmptySeq
  <2>3. /\ Tail(queues[ch]) \in Seq(1..MaxEvents)
        /\ Len(Tail(queues[ch])) = Len(queues[ch]) - 1
      BY <2>1, HeadTailProperties
  <2>4. Head(queues[ch]) = queues[ch][1]
      BY <2>1
  <2>5. queues[ch][1] \in 1..MaxEvents
    <3>1. 1 \in 1..Len(queues[ch])
        BY <2>2
    <3>2. QED BY <2>1, <3>1, ElementOfSeq
  <2>6. QED BY <2>1, <2>2, <2>3, <2>4, <2>5
<1>b. \A i \in 1..Len(Tail(queues[ch])) :
        i + 1 \in 1..Len(queues[ch]) /\ Tail(queues[ch])[i] = queues[ch][i + 1]
    BY <1>a
<1>c. PICK job \in Jobs : job = <<ch, Head(queues[ch])>>
    BY <1>a DEF Jobs
<1>d. job[1] = ch /\ job[2] = queues[ch][1] /\ job # NoJob
    BY <1>a, <1>c, JobParts
<1>e. /\ worker[ch] = "waiting" /\ ~cancelling
      /\ queues' = [queues EXCEPT ![ch] = Tail(queues[ch])]
      /\ inflight' = [inflight EXCEPT ![ch] = inflight[ch] + 1]
      /\ tokens' = [tokens EXCEPT ![ch] = job]
      /\ threads' = [threads EXCEPT ![ch] = job]
      /\ thread' = [thread EXCEPT ![job] = "working"]
      /\ future' = [future EXCEPT ![job] = "pending"]
      /\ worker' = [worker EXCEPT ![ch] = "running"]
      /\ UNCHANGED <<unfinished, cancelledIds, stats, stopVars, store, submitted>>
    BY <1>c DEF TakeJob, TypeOK
<1>f. inflight[ch] = 0 /\ threads[ch] = NoJob
    BY <1>e DEF Tasks
<1>1. TypeOK'
  <2>1. queues' \in [Channels -> Seq(1..MaxEvents)]
      BY <1>a, <1>e DEF TypeOK
  <2>2. \A c \in Channels : Len(queues'[c]) <= Capacity
      BY <1>a, <1>e, QueueAssumption DEF TypeOK
  <2>3. inflight' \in [Channels -> 0..1]
      BY <1>e, <1>f DEF TypeOK
  <2>4. /\ tokens' \in [Channels -> Jobs \cup {NoJob}]
        /\ threads' \in [Channels -> Jobs \cup {NoJob}]
      BY <1>e DEF TypeOK
  <2>5. /\ thread' \in [Jobs -> Live \cup {"none", "returned", "raised", "gone"}]
        /\ future' \in [Jobs -> {"none", "pending", "result", "exception", "cancelled"}]
        /\ worker' \in [Channels -> {"none", "waiting", "running", "ended"}]
      BY <1>e DEF TypeOK, Live
  <2>6. QED BY <1>e, <2>1, <2>2, <2>3, <2>4, <2>5 DEF TypeOK, stats, stopVars
<1>2. Tasks'
  <2>1. ASSUME NEW c \in Channels
        PROVE  /\ inflight'[c] = IF worker'[c] = "running" THEN 1 ELSE 0
               /\ worker'[c] = "running" =>
                    tokens'[c] \in Jobs /\ tokens'[c][1] = c /\ threads'[c] = tokens'[c]
               /\ worker'[c] \in {"none", "waiting"} => threads'[c] = NoJob
    <3>1. CASE c = ch
        BY <3>1, <1>d, <1>e, <1>f DEF TypeOK
    <3>2. CASE c # ch
        BY <3>2, <1>e DEF TypeOK, Tasks
    <3>3. QED BY <3>1, <3>2
  <2>2. ASSUME NEW j \in Jobs
        PROVE  /\ future'[j] \in {"result", "exception"} => thread'[j] = "gone"
               /\ thread'[j] \notin {"none", "gone"} => threads'[j[1]] = j
    <3>1. CASE j = job
        BY <3>1, <1>d, <1>e DEF TypeOK
    <3>2. CASE j # job
      <4>1. j # NoJob /\ j[1] \in Channels
          BY JobParts
      <4>2. future'[j] = future[j] /\ thread'[j] = thread[j]
          BY <3>2, <1>e DEF TypeOK
      <4>3. thread[j] \notin {"none", "gone"} => threads[j[1]] = j /\ j[1] # ch
          BY <4>1, <1>f DEF Tasks
      <4>4. j[1] # ch => threads'[j[1]] = threads[j[1]]
          BY <4>1, <1>e DEF TypeOK
      <4>5. QED BY <4>2, <4>3, <4>4 DEF Tasks
    <3>3. QED BY <3>1, <3>2
  <2>3. QED BY <2>1, <2>2 DEF Tasks
<1>3. Ledger'
  <2>1. ASSUME NEW c \in Channels
        PROVE  /\ submitted'[c] = submitted[c] /\ Settled(c)' = Settled(c)
               /\ unfinished'[c] = unfinished[c]
               /\ Pending(c)' = Pending(c)
    <3>1. UNCHANGED <<submitted, Settled(c), unfinished>>
        BY <1>e DEF stats, Settled
    <3>2. CASE c = ch
      <4>1. Len(queues'[ch]) = Len(queues[ch]) - 1 /\ inflight'[ch] = 1
          BY <1>a, <1>e, <1>f DEF TypeOK
      <4>2. QED BY <1>a, <1>f, <3>1, <3>2, <4>1 DEF Pending
    <3>3. CASE c # ch
        BY <3>1, <3>3, <1>e DEF TypeOK, Pending
    <3>4. QED BY <3>2, <3>3
  <2>2. QED BY <2>1 DEF Ledger
<1>4. LatestFrameWins'
  <2>1. ASSUME NEW c \in Channels, c # ch PROVE queues'[c] = queues[c]
      BY <2>1, <1>e DEF TypeOK
  <2>2. ASSUME ch = Video PROVE queues'[ch] = <<>>
    <3>1. queues[ch] = <<submitted[ch]>>
        BY <1>a, <2>2 DEF LatestFrameWins
    <3>2. QED BY <3>1, <1>e DEF TypeOK
  <2>3. submitted' = submitted
      BY <1>e
  <2>4. QED BY <2>1, <2>2, <2>3 DEF LatestFrameWins
<1>5. QueueOrder'
  <2>1. ASSUME NEW c \in Channels, c # ch PROVE queues'[c] = queues[c]
      BY <2>1, <1>e DEF TypeOK
  <2>2. queues'[ch] = Tail(queues[ch]) /\ submitted' = submitted
      BY <1>e DEF TypeOK
  <2>3. \A i \in 1..Len(queues[ch]) :
            /\ queues[ch][i] <= submitted[ch]
            /\ \A j \in 1..Len(queues[ch]) : i < j => queues[ch][i] < queues[ch][j]
      BY DEF QueueOrder
  <2>4. ASSUME NEW i \in 1..Len(queues'[ch])
        PROVE  /\ queues'[ch][i] <= submitted'[ch]
               /\ queues[ch][1] < queues'[ch][i]
               /\ \A j \in 1..Len(queues'[ch]) : i < j => queues'[ch][i] < queues'[ch][j]
    <3>1. i \in 1..Len(Tail(queues[ch])) /\ queues'[ch][i] = queues[ch][i + 1]
        BY <1>b, <2>2
    <3>2. i + 1 \in 1..Len(queues[ch]) /\ 1 \in 1..Len(queues[ch]) /\ 1 < i + 1
        BY <1>a, <1>b, <3>1
    <3>3. queues[ch][i + 1] <= submitted[ch] /\ queues[ch][1] < queues[ch][i + 1]
        BY <2>3, <3>2
    <3>4. ASSUME NEW j \in 1..Len(queues'[ch]), i < j
          PROVE  queues[ch][i + 1] < queues'[ch][j]
      <4>1. j + 1 \in 1..Len(queues[ch]) /\ queues'[ch][j] = queues[ch][j + 1] /\ i + 1 < j + 1
          BY <1>b, <2>2, <3>4
      <4>2. QED BY <2>3, <3>2, <4>1
    <3>5. QED BY <2>2, <3>1, <3>3, <3>4
  <2>5. ASSUME NEW j \in Jobs, thread'[j] # "none"
        PROVE  /\ j[2] <= submitted'[j[1]]
               /\ \A i \in 1..Len(queues'[j[1]]) : j[2] < queues'[j[1]][i]
    <3>1. CASE j = job
      <4>1. 1 \in 1..Len(queues[ch])
          BY <1>a
      <4>2. queues[ch][1] <= submitted[ch]
          BY <2>3, <4>1
      <4>3. QED BY <1>d, <2>2, <2>4, <3>1, <4>2
    <3>2. CASE j # job
      <4>1. thread[j] # "none"
          BY <1>e, <2>5, <3>2 DEF TypeOK
      <4>2. /\ j[2] <= submitted[j[1]]
            /\ \A i \in 1..Len(queues[j[1]]) : j[2] < queues[j[1]][i]
          BY <4>1 DEF QueueOrder
      <4>3. CASE j[1] = ch
        <5>1. \A i \in 1..Len(queues'[ch]) : j[2] < queues'[ch][i]
          <6>1. ASSUME NEW i \in 1..Len(queues'[ch]) PROVE j[2] < queues'[ch][i]
            <7>1. i + 1 \in 1..Len(queues[ch]) /\ queues'[ch][i] = queues[ch][i + 1]
                BY <1>b, <2>2
            <7>2. QED BY <4>2, <4>3, <7>1
          <6>2. QED BY <6>1
        <5>2. QED BY <2>2, <4>2, <4>3, <5>1
      <4>4. CASE j[1] # ch
          BY <2>1, <2>2, <4>2, <4>4, JobParts
      <4>5. QED BY <4>3, <4>4
    <3>3. QED BY <3>1, <3>2
  <2>6. QED BY <2>1, <2>2, <2>3, <2>4, <2>5 DEF QueueOrder
<1>6. StoreOrder'
  <2>1. store' = store /\ store \in Seq(Jobs)
      BY <1>e DEF TypeOK
  <2>2. \A k \in 1..Len(store) : store[k] \in Jobs
      BY <2>1, ElementOfSeq
  <2>3. \A j \in Jobs : thread[j] # "none" => thread'[j] # "none"
      BY <1>e DEF TypeOK
  <2>4. ASSUME NEW j \in Jobs, thread'[j] \in {"working", "writing"},
               NEW k \in 1..Len(store), store[k][1] = j[1]
        PROVE  store[k][2] < j[2]
    <3>1. CASE j = job
      <4>1. thread[store[k]] # "none"
          BY DEF StoreOrder
      <4>2. 1 \in 1..Len(queues[ch])
          BY <1>a
      <4>3. QED BY <1>d, <2>2, <2>4, <3>1, <4>1, <4>2 DEF QueueOrder
    <3>2. CASE j # job
      <4>1. thread'[j] = thread[j]
          BY <1>e, <3>2 DEF TypeOK
      <4>2. QED BY <2>4, <4>1 DEF StoreOrder
    <3>3. QED BY <3>1, <3>2
  <2>5. WrittenInOrder'
      BY <2>1 DEF StoreOrder, WrittenInOrder
  <2>6. \A k \in 1..Len(store) : thread'[store[k]] # "none"
      BY <2>2, <2>3 DEF StoreOrder
  <2>7. QED BY <2>1, <2>4, <2>5, <2>6 DEF StoreOrder
<1>7. Stopping'
    BY <1>e DEF TypeOK, Stopping, stats, stopVars
<1>8. AbandonedThreadsAreCounted'
    BY <1>e DEF AbandonedThreadsAreCounted, Stopping, stopVars
<1>9. QED BY <1>1, <1>2, <1>3, <1>4, <1>5, <1>6, <1>7, <1>8

(* Threads that only go on leave the order of the store as it is.          *)
LEMMA StoreOrderKept ==
    ASSUME TypeOK, StoreOrder, store' = store,
           \A j \in Jobs :
                /\ thread[j] # "none" => thread'[j] # "none"
                /\ thread'[j] \in {"working", "writing"} => thread[j] \in {"working", "writing"}
    PROVE  StoreOrder'
<1>1. \A k \in 1..Len(store) : store[k] \in Jobs
  <2>1. store \in Seq(Jobs)
      BY DEF TypeOK
  <2>2. QED BY <2>1, ElementOfSeq
<1>2. \A k \in 1..Len(store') : thread'[store'[k]] # "none"
    BY <1>1 DEF StoreOrder
<1>3. ASSUME NEW j \in Jobs, thread'[j] \in {"working", "writing"},
             NEW k \in 1..Len(store'), store'[k][1] = j[1]
      PROVE  store'[k][2] < j[2]
    BY <1>3 DEF StoreOrder
<1>4. WrittenInOrder'
    BY DEF StoreOrder, WrittenInOrder
<1>5. QED BY <1>2, <1>3, <1>4 DEF StoreOrder

LEMMA CheckTokenIInv ==
    ASSUME IInv, NEW job \in Jobs, CheckToken(job)
    PROVE  IInv'
<1> USE DEF IInv
<1>1. TypeOK'
    BY DEF TypeOK, Ledger, Tasks, Pending, CheckToken, queueVars, stats, stopVars, Live
<1>2. Tasks'
    BY DEF TypeOK, Tasks, Jobs, CheckToken, queueVars, stats, stopVars, Live
<1>3. Ledger'
    BY DEF TypeOK, Ledger, Settled, Pending, CheckToken, queueVars, stats, stopVars, Live
<1>4. LatestFrameWins'
    BY DEF TypeOK, LatestFrameWins, CheckToken, queueVars, stats, stopVars, Live
<1>5. QueueOrder'
    BY DEF TypeOK, QueueOrder, Jobs, CheckToken, queueVars, stats, stopVars, Live
<1>6. StoreOrder'
  <2>1. \A j \in Jobs :
            /\ thread[j] # "none" => thread'[j] # "none"
            /\ thread'[j] \in {"working", "writing"} => thread[j] \in {"working", "writing"}
      BY DEF TypeOK, CheckToken, Live
  <2>2. store' = store
      BY DEF CheckToken
  <2>3. QED BY <2>1, <2>2, StoreOrderKept
<1>7. Stopping'
    BY DEF TypeOK, Stopping, Ledger, Pending, CheckToken, queueVars, stats, stopVars, Live
<1>8. AbandonedThreadsAreCounted'
    BY DEF TypeOK, AbandonedThreadsAreCounted, Live, Tasks, Stopping, Jobs, CheckToken, queueVars, stats, stopVars
<1>9. QED BY <1>1, <1>2, <1>3, <1>4, <1>5, <1>6, <1>7, <1>8

LEMMA WritePerceptionIInv ==
    ASSUME IInv, NEW job \in Jobs, WritePerception(job)
    PROVE  IInv'
<1> USE DEF IInv
<1>1. TypeOK'
    BY DEF TypeOK, Ledger, Tasks, Pending, WritePerception, queueVars, stats, stopVars, Live
<1>2. Tasks'
    BY DEF TypeOK, Tasks, Jobs, WritePerception, queueVars, stats, stopVars, Live
<1>3. Ledger'
    BY DEF TypeOK, Ledger, Settled, Pending, WritePerception, queueVars, stats, stopVars, Live
<1>4. LatestFrameWins'
    BY DEF TypeOK, LatestFrameWins, WritePerception, queueVars, stats, stopVars, Live
<1>5. QueueOrder'
    BY DEF TypeOK, QueueOrder, Jobs, WritePerception, queueVars, stats, stopVars, Live
<1>6. StoreOrder'
  <2>1. /\ store \in Seq(Jobs) /\ Len(store) \in Nat
        /\ \A k \in 1..Len(store) : store[k] \in Jobs
    <3>1. store \in Seq(Jobs)
        BY DEF TypeOK
    <3>2. QED BY <3>1, ElementOfSeq, LenProperties
  <2>2. /\ Len(store') = Len(store) + 1
        /\ store'[Len(store) + 1] = job
        /\ \A k \in 1..Len(store) : store'[k] = store[k]
      BY <2>1, AppendProperties DEF WritePerception
  <2>3. \A k \in 1..Len(store') :
            \/ k \in 1..Len(store) /\ store'[k] = store[k]
            \/ k = Len(store) + 1 /\ store'[k] = job
    <3>1. ASSUME NEW k \in 1..Len(store')
          PROVE  k \in 1..Len(store) \/ k = Len(store) + 1
      <4>1. k \in 1..(Len(store) + 1)
          BY <2>2
      <4>2. QED BY <2>1, <4>1
    <3>2. QED BY <2>2, <3>1
  <2>4. /\ thread[job] = "writing" /\ thread'[job] = "written"
        /\ \A j \in Jobs : j # job => thread'[j] = thread[j]
      BY DEF WritePerception, TypeOK
  <2>5. \A k \in 1..Len(store') : thread'[store'[k]] # "none"
      BY <2>1, <2>3, <2>4 DEF StoreOrder
  <2>6. ASSUME NEW j \in Jobs, thread'[j] \in {"working", "writing"},
               NEW k \in 1..Len(store'), store'[k][1] = j[1]
        PROVE  store'[k][2] < j[2]
    <3>1. j # job /\ thread[j] \in {"working", "writing"}
        BY <2>4, <2>6
    <3>2. j[1] # job[1]
        BY <2>4, <3>1 DEF Tasks
    <3>3. k \in 1..Len(store) /\ store'[k] = store[k]
        BY <2>3, <2>6, <3>2
    <3>4. QED BY <2>6, <3>1, <3>3 DEF StoreOrder
  <2>7. ASSUME NEW i \in 1..Len(store'), NEW j \in 1..Len(store'), i < j,
               store'[i][1] = store'[j][1]
        PROVE  store'[i][2] < store'[j][2]
    <3>1. i \in 1..Len(store) /\ store'[i] = store[i]
        BY <2>1, <2>2, <2>3, <2>7
    <3>2. CASE j \in 1..Len(store)
        BY <2>2, <2>7, <3>1, <3>2 DEF StoreOrder, WrittenInOrder
    <3>3. CASE store'[j] = job
        BY <2>4, <2>7, <3>1, <3>3 DEF StoreOrder
    <3>4. QED BY <2>3, <3>2, <3>3
  <2>8. QED BY <2>5, <2>6, <2>7 DEF StoreOrder, WrittenInOrder
<1>7. Stopping'
    BY DEF TypeOK, Stopping, Ledger, Pending, WritePerception, queueVars, stats, stopVars, Live
<1>8. AbandonedThreadsAreCounted'
    BY DEF TypeOK, AbandonedThreadsAreCounted, Live, Tasks, Stopping, Jobs, WritePerception, queueVars, stats, stopVars
<1>9. QED BY <1>1, <1>2, <1>3, <1>4, <1>5, <1>6, <1>7, <1>8

LEMMA EndThreadIInv ==
    ASSUME IInv, NEW job \in Jobs, EndThread(job)
    PROVE  IInv'
<1> USE DEF IInv
<1>1. TypeOK'
  <2>1. thread' \in [Jobs -> Live \cup {"none", "returned", "raised", "gone"}]
      BY DEF TypeOK, EndThread
  <2>2. QED BY <2>1 DEF TypeOK, EndThread, queueVars, stats, stopVars
<1>2. Tasks'
    BY DEF TypeOK, Tasks, Jobs, EndThread, queueVars, stats, stopVars, Live
<1>3. Ledger'
    BY DEF TypeOK, Ledger, Settled, Pending, EndThread, queueVars, stats, stopVars, Live
<1>4. LatestFrameWins'
    BY DEF TypeOK, LatestFrameWins, EndThread, queueVars, stats, stopVars, Live
<1>5. QueueOrder'
    BY DEF TypeOK, QueueOrder, Jobs, EndThread, queueVars, stats, stopVars, Live
<1>6. StoreOrder'
  <2>1. \A j \in Jobs :
            /\ thread[j] # "none" => thread'[j] # "none"
            /\ thread'[j] \in {"working", "writing"} => thread[j] \in {"working", "writing"}
      BY DEF TypeOK, EndThread, Live
  <2>2. store' = store
      BY DEF EndThread
  <2>3. QED BY <2>1, <2>2, StoreOrderKept
<1>7. Stopping'
    BY DEF TypeOK, Stopping, Ledger, Pending, EndThread, queueVars, stats, stopVars, Live
<1>8. AbandonedThreadsAreCounted'
    BY DEF TypeOK, AbandonedThreadsAreCounted, Live, Tasks, Stopping, Jobs, EndThread, queueVars, stats, stopVars
<1>9. QED BY <1>1, <1>2, <1>3, <1>4, <1>5, <1>6, <1>7, <1>8

LEMMA CompleteIInv ==
    ASSUME IInv, NEW job \in Jobs, Complete(job)
    PROVE  IInv'
<1> USE DEF IInv
<1>1. TypeOK'
    BY DEF TypeOK, Ledger, Tasks, Pending, Complete, queueVars, stats, stopVars, Live
<1>2. Tasks'
    BY DEF TypeOK, Tasks, Jobs, Complete, queueVars, stats, stopVars, Live
<1>3. Ledger'
    BY DEF TypeOK, Ledger, Settled, Pending, Complete, queueVars, stats, stopVars, Live
<1>4. LatestFrameWins'
    BY DEF TypeOK, LatestFrameWins, Complete, queueVars, stats, stopVars, Live
<1>5. QueueOrder'
    BY DEF TypeOK, QueueOrder, Jobs, Complete, queueVars, stats, stopVars, Live
<1>6. StoreOrder'
  <2>1. \A j \in Jobs :
            /\ thread[j] # "none" => thread'[j] # "none"
            /\ thread'[j] \in {"working", "writing"} => thread[j] \in {"working", "writing"}
      BY DEF TypeOK, Complete, Live
  <2>2. store' = store
      BY DEF Complete
  <2>3. QED BY <2>1, <2>2, StoreOrderKept
<1>7. Stopping'
    BY DEF TypeOK, Stopping, Ledger, Pending, Complete, queueVars, stats, stopVars, Live
<1>8. AbandonedThreadsAreCounted'
    BY DEF TypeOK, AbandonedThreadsAreCounted, Live, Tasks, Stopping, Jobs, Complete, queueVars, stats, stopVars
<1>9. QED BY <1>1, <1>2, <1>3, <1>4, <1>5, <1>6, <1>7, <1>8

(* A job is settled: what was pending is through.                          *)
LEMMA LedgerSettles ==
    ASSUME TypeOK, Ledger, NEW ch \in Channels,
           UNCHANGED <<queues, submitted, dropped>>,
           \A c \in Channels : c # ch =>
                /\ processed'[c] = processed[c] /\ failed'[c] = failed[c]
                /\ cancelled'[c] = cancelled[c]
                /\ inflight'[c] = inflight[c] /\ unfinished'[c] = unfinished[c],
           \/ /\ processed'[ch] = processed[ch] + 1 /\ failed'[ch] = failed[ch]
              /\ cancelled'[ch] = cancelled[ch]
           \/ /\ processed'[ch] = processed[ch] /\ failed'[ch] = failed[ch] + 1
              /\ cancelled'[ch] = cancelled[ch]
           \/ /\ processed'[ch] = processed[ch] /\ failed'[ch] = failed[ch]
              /\ cancelled'[ch] = cancelled[ch] + 1,
           inflight'[ch] = inflight[ch] - 1,
           unfinished'[ch] = unfinished[ch] - 1
    PROVE  Ledger'
<1>1. ASSUME NEW c \in Channels, c # ch
      PROVE  submitted'[c] = Settled(c)' + Pending(c)' /\ unfinished'[c] = Pending(c)'
    BY <1>1 DEF Ledger, Settled, Pending
<1>2. /\ processed[ch] \in Int /\ failed[ch] \in Int /\ cancelled[ch] \in Int
      /\ dropped[ch] \in Int
    BY ChannelTypes
<1>3. Len(queues[ch]) \in Int /\ inflight[ch] \in Int
    BY ChannelTypes
<1>4. Settled(ch)' = Settled(ch) + 1
  <2>1. \A p, f, c, d \in Int : /\ (p + 1) + f + c + d = (p + f + c + d) + 1
                                /\ p + (f + 1) + c + d = (p + f + c + d) + 1
                                /\ p + f + (c + 1) + d = (p + f + c + d) + 1
      OBVIOUS
  <2>2. /\ (processed[ch] + 1) + failed[ch] + cancelled[ch] + dropped[ch] = Settled(ch) + 1
        /\ processed[ch] + (failed[ch] + 1) + cancelled[ch] + dropped[ch] = Settled(ch) + 1
        /\ processed[ch] + failed[ch] + (cancelled[ch] + 1) + dropped[ch] = Settled(ch) + 1
      BY <1>2, <2>1 DEF Settled
  <2>3. Settled(ch)' = processed'[ch] + failed'[ch] + cancelled'[ch] + dropped[ch]
      BY DEF Settled
  <2>4. QED BY <2>2, <2>3
<1>5. Pending(ch)' = Pending(ch) - 1
  <2>1. Pending(ch)' = Len(queues[ch]) + (inflight[ch] - 1)
      BY DEF Pending
  <2>2. QED BY <1>3, <2>1 DEF Pending
<1>6. submitted[ch] = Settled(ch) + Pending(ch) /\ unfinished[ch] = Pending(ch)
    BY DEF Ledger
<1>7. Settled(ch) \in Nat /\ Pending(ch) \in Nat
    BY SettledType
<1>8. submitted'[ch] = Settled(ch)' + Pending(ch)' /\ unfinished'[ch] = Pending(ch)'
    BY <1>4, <1>5, <1>6, <1>7
<1>9. QED BY <1>1, <1>8 DEF Ledger

LEMMA SettleJobIInv ==
    ASSUME IInv, NEW ch \in Channels, SettleJob(ch)
    PROVE  IInv'
<1> USE DEF IInv
<1>a. PICK job \in Jobs :
        /\ job = tokens[ch] /\ job[1] = ch /\ threads[ch] = job
        /\ worker[ch] = "running" /\ inflight[ch] = 1 /\ thread[job] = "gone"
  <2>1. worker[ch] = "running" /\ future[tokens[ch]] \in {"result", "exception"}
      BY DEF SettleJob
  <2>2. /\ tokens[ch] \in Jobs /\ tokens[ch][1] = ch /\ threads[ch] = tokens[ch]
        /\ inflight[ch] = 1
      BY <2>1 DEF Tasks
  <2>3. QED BY <2>1, <2>2 DEF Tasks
<1>b. /\ ~cancelling
      /\ \/ /\ processed' = [processed EXCEPT ![ch] = processed[ch] + 1]
            /\ UNCHANGED failed
         \/ /\ failed' = [failed EXCEPT ![ch] = failed[ch] + 1]
            /\ UNCHANGED processed
      /\ cancelledIds' = cancelledIds \ {job}
      /\ tokens' = [tokens EXCEPT ![ch] = NoJob]
      /\ threads' = [threads EXCEPT ![ch] = NoJob]
      /\ inflight' = [inflight EXCEPT ![ch] = inflight[ch] - 1]
      /\ unfinished' = [unfinished EXCEPT ![ch] = unfinished[ch] - 1]
      /\ worker' = [worker EXCEPT ![ch] = "waiting"]
      /\ UNCHANGED <<queues, thread, future, cancelled, dropped, abandoned, cleanupFailures,
                     stopVars, store, submitted>>
    BY <1>a DEF SettleJob, TypeOK
<1>1. TypeOK'
  <2>1. inflight' \in [Channels -> 0..1]
      BY <1>a, <1>b DEF TypeOK
  <2>2. unfinished' \in [Channels -> Nat]
    <3>1. unfinished[ch] = Len(queues[ch]) + 1
        BY <1>a DEF Ledger, Pending
    <3>2. unfinished[ch] - 1 \in Nat
        BY <3>1, ChannelTypes
    <3>3. QED BY <1>b, <3>2 DEF TypeOK
  <2>3. processed' \in [Channels -> Nat] /\ failed' \in [Channels -> Nat]
    <3>1. processed[ch] + 1 \in Nat /\ failed[ch] + 1 \in Nat
        BY ChannelTypes
    <3>2. processed \in [Channels -> Nat] /\ failed \in [Channels -> Nat]
        BY DEF TypeOK
    <3>3. QED BY <1>b, <3>1, <3>2
  <2>4. /\ tokens' \in [Channels -> Jobs \cup {NoJob}]
        /\ threads' \in [Channels -> Jobs \cup {NoJob}]
        /\ worker' \in [Channels -> {"none", "waiting", "running", "ended"}]
        /\ cancelledIds' \subseteq Jobs
      BY <1>b DEF TypeOK
  <2>5. QED BY <1>b, <2>1, <2>2, <2>3, <2>4 DEF TypeOK, stopVars
<1>2. Tasks'
  <2>1. ASSUME NEW c \in Channels
        PROVE  /\ inflight'[c] = IF worker'[c] = "running" THEN 1 ELSE 0
               /\ worker'[c] = "running" =>
                    tokens'[c] \in Jobs /\ tokens'[c][1] = c /\ threads'[c] = tokens'[c]
               /\ worker'[c] \in {"none", "waiting"} => threads'[c] = NoJob
    <3>1. CASE c = ch
        BY <3>1, <1>a, <1>b DEF TypeOK
    <3>2. CASE c # ch
        BY <3>2, <1>b DEF TypeOK, Tasks
    <3>3. QED BY <3>1, <3>2
  <2>2. ASSUME NEW j \in Jobs, thread[j] \notin {"none", "gone"}
        PROVE  threads'[j[1]] = j
    <3>1. threads[j[1]] = j /\ j # job /\ j[1] \in Channels
        BY <1>a, <2>2, JobParts DEF Tasks
    <3>2. j[1] # ch
        BY <1>a, <3>1
    <3>3. QED BY <1>b, <3>1, <3>2 DEF TypeOK
  <2>3. thread' = thread /\ future' = future
      BY <1>b
  <2>4. QED BY <2>1, <2>2, <2>3 DEF Tasks
<1>3. Ledger'
  <2>1. ASSUME NEW c \in Channels, c # ch
        PROVE  /\ processed'[c] = processed[c] /\ failed'[c] = failed[c]
               /\ inflight'[c] = inflight[c] /\ unfinished'[c] = unfinished[c]
      BY <1>b, <2>1 DEF TypeOK
  <2>2. \/ processed'[ch] = processed[ch] + 1 /\ failed'[ch] = failed[ch]
        \/ processed'[ch] = processed[ch] /\ failed'[ch] = failed[ch] + 1
      BY <1>b DEF TypeOK
  <2>3. inflight'[ch] = inflight[ch] - 1 /\ unfinished'[ch] = unfinished[ch] - 1
      BY <1>b DEF TypeOK
  <2>4. QED BY <1>b, <2>1, <2>2, <2>3, LedgerSettles
<1>4. LatestFrameWins'
    BY <1>b DEF LatestFrameWins
<1>5. QueueOrder'
    BY <1>b DEF QueueOrder
<1>6. StoreOrder'
    BY <1>b, StoreOrderKept
<1>7. Stopping'
    BY <1>a, <1>b DEF TypeOK, Stopping, stopVars
<1>8. AbandonedThreadsAreCounted'
    BY <1>b DEF AbandonedThreadsAreCounted, stopVars
<1>9. QED BY <1>1, <1>2, <1>3, <1>4, <1>5, <1>6, <1>7, <1>8

(* A worker that waits for an event ends; one in a job settles it as       *)
(* cancelled and keeps its thread on record.                               *)
LEMMA CancelWorkerIInv ==
    ASSUME IInv, NEW ch \in Channels, CancelWorker(ch)
    PROVE  IInv'
<1> USE DEF IInv
<1>a. /\ cancelling
      /\ worker' = [worker EXCEPT ![ch] = "ended"]
      /\ UNCHANGED <<queues, threads, thread, future, processed, failed, dropped, abandoned,
                     cleanupFailures, stopVars, store, submitted>>
    BY DEF CancelWorker, jobVars
<1>b. \/ /\ worker[ch] = "waiting" /\ inflight[ch] = 0
         /\ UNCHANGED <<cancelledIds, cancelled, tokens, inflight, unfinished>>
      \/ /\ worker[ch] = "running" /\ inflight[ch] = 1 /\ tokens[ch] \in Jobs
         /\ cancelledIds' = cancelledIds \cup {tokens[ch]}
         /\ cancelled' = [cancelled EXCEPT ![ch] = cancelled[ch] + 1]
         /\ tokens' = [tokens EXCEPT ![ch] = NoJob]
         /\ inflight' = [inflight EXCEPT ![ch] = inflight[ch] - 1]
         /\ unfinished' = [unfinished EXCEPT ![ch] = unfinished[ch] - 1]
    BY DEF CancelWorker, jobVars, TypeOK, Tasks
<1>1. TypeOK'
  <2>1. worker' \in [Channels -> {"none", "waiting", "running", "ended"}]
      BY <1>a DEF TypeOK
  <2>2. inflight' \in [Channels -> 0..1]
    <3>1. inflight \in [Channels -> 0..1]
        BY DEF TypeOK
    <3>2. inflight' = inflight \/ inflight' = [inflight EXCEPT ![ch] = 0]
        BY <1>b
    <3>3. QED BY <3>1, <3>2
  <2>3. unfinished' \in [Channels -> Nat]
    <3>1. CASE inflight[ch] = 0
        BY <1>b, <3>1 DEF TypeOK
    <3>2. CASE inflight[ch] = 1
      <4>1. unfinished[ch] = Len(queues[ch]) + 1
          BY <3>2 DEF Ledger, Pending
      <4>2. unfinished[ch] - 1 \in Nat
          BY <4>1, ChannelTypes
      <4>3. QED BY <1>b, <4>2 DEF TypeOK
    <3>3. QED BY <1>b, <3>1, <3>2
  <2>4. cancelled' \in [Channels -> Nat]
    <3>1. cancelled[ch] + 1 \in Nat /\ cancelled \in [Channels -> Nat]
        BY ChannelTypes DEF TypeOK
    <3>2. QED BY <1>b, <3>1
  <2>5. tokens' \in [Channels -> Jobs \cup {NoJob}] /\ cancelledIds' \subseteq Jobs
      BY <1>b DEF TypeOK
  <2>6. QED BY <1>a, <2>1, <2>2, <2>3, <2>4, <2>5 DEF TypeOK, stopVars
<1>2. Tasks'
  <2>1. ASSUME NEW c \in Channels
        PROVE  /\ inflight'[c] = IF worker'[c] = "running" THEN 1 ELSE 0
               /\ worker'[c] = "running" =>
                    tokens'[c] \in Jobs /\ tokens'[c][1] = c /\ threads'[c] = tokens'[c]
               /\ worker'[c] \in {"none", "waiting"} => threads'[c] = NoJob
    <3>1. CASE c = ch
      <4>1. worker'[c] = "ended"
          BY <1>a, <3>1 DEF TypeOK
      <4>2. inflight'[c] = 0
          BY <1>b, <3>1 DEF TypeOK
      <4>3. QED BY <4>1, <4>2
    <3>2. CASE c # ch
      <4>1. worker'[c] = worker[c] /\ threads'[c] = threads[c]
          BY <1>a, <3>2 DEF TypeOK
      <4>2. inflight'[c] = inflight[c] /\ tokens'[c] = tokens[c]
          BY <1>b, <3>2 DEF TypeOK
      <4>3. QED BY <4>1, <4>2 DEF Tasks
    <3>3. QED BY <3>1, <3>2
  <2>2. QED BY <1>a, <2>1 DEF Tasks
<1>3. Ledger'
  <2>1. CASE worker[ch] = "waiting"
    <3>1. UNCHANGED <<submitted, processed, failed, cancelled, dropped, queues, inflight, unfinished>>
        BY <1>a, <1>b, <2>1
    <3>2. QED BY <3>1 DEF Ledger, Settled, Pending
  <2>2. CASE worker[ch] = "running"
    <3>1. /\ cancelled' = [cancelled EXCEPT ![ch] = cancelled[ch] + 1]
          /\ inflight' = [inflight EXCEPT ![ch] = inflight[ch] - 1]
          /\ unfinished' = [unfinished EXCEPT ![ch] = unfinished[ch] - 1]
        BY <1>b, <2>2
    <3>2. ASSUME NEW c \in Channels, c # ch
          PROVE  /\ cancelled'[c] = cancelled[c]
                 /\ inflight'[c] = inflight[c] /\ unfinished'[c] = unfinished[c]
        BY <3>1, <3>2 DEF TypeOK
    <3>3. /\ cancelled'[ch] = cancelled[ch] + 1
          /\ inflight'[ch] = inflight[ch] - 1 /\ unfinished'[ch] = unfinished[ch] - 1
        BY <3>1 DEF TypeOK
    <3>4. QED BY <1>a, <3>2, <3>3, LedgerSettles
  <2>3. QED BY <1>b, <2>1, <2>2
<1>4. LatestFrameWins'
    BY <1>a DEF LatestFrameWins
<1>5. QueueOrder'
    BY <1>a DEF QueueOrder
<1>6. StoreOrder'
    BY <1>a, StoreOrderKept
<1>7. Stopping'
    BY <1>a DEF TypeOK, Stopping, stopVars
<1>8. AbandonedThreadsAreCounted'
    BY <1>a DEF AbandonedThreadsAreCounted, stopVars
<1>9. QED BY <1>1, <1>2, <1>3, <1>4, <1>5, <1>6, <1>7, <1>8

LEMMA StopBeginsIInv ==
    ASSUME IInv, StopBegins
    PROVE  IInv'
<1> USE DEF IInv
<1>1. TypeOK'
    BY DEF TypeOK, Ledger, Tasks, Pending, StopBegins, queueVars, jobVars, stats
<1>2. Tasks'
    BY DEF TypeOK, Tasks, Jobs, StopBegins, queueVars, jobVars, stats
<1>3. Ledger'
    BY DEF TypeOK, Ledger, Settled, Pending, StopBegins, queueVars, jobVars, stats
<1>4. LatestFrameWins'
    BY DEF TypeOK, LatestFrameWins, StopBegins, queueVars, jobVars, stats
<1>5. QueueOrder'
    BY DEF TypeOK, QueueOrder, Jobs, StopBegins, queueVars, jobVars, stats
<1>6. StoreOrder'
    BY DEF TypeOK, StoreOrder, QueueOrder, Jobs, WrittenInOrder, StopBegins, queueVars, jobVars, stats
<1>7. Stopping'
    BY DEF TypeOK, Stopping, Ledger, Pending, StopBegins, queueVars, jobVars, stats
<1>8. AbandonedThreadsAreCounted'
    BY DEF TypeOK, AbandonedThreadsAreCounted, Live, Tasks, Stopping, Jobs, StopBegins, queueVars, jobVars, stats
<1>9. QED BY <1>1, <1>2, <1>3, <1>4, <1>5, <1>6, <1>7, <1>8

LEMMA StopJoinedIInv ==
    ASSUME IInv, StopJoined
    PROVE  IInv'
<1> USE DEF IInv
<1>1. TypeOK'
    BY DEF TypeOK, Ledger, Tasks, Pending, StopJoined, CancelTasks, queueVars, stats
<1>2. Tasks'
    BY DEF TypeOK, Tasks, Jobs, StopJoined, CancelTasks, queueVars, stats
<1>3. Ledger'
    BY DEF TypeOK, Ledger, Settled, Pending, StopJoined, CancelTasks, queueVars, stats
<1>4. LatestFrameWins'
    BY DEF TypeOK, LatestFrameWins, StopJoined, CancelTasks, queueVars, stats
<1>5. QueueOrder'
    BY DEF TypeOK, QueueOrder, Jobs, StopJoined, CancelTasks, queueVars, stats
<1>6. StoreOrder'
    BY DEF TypeOK, StoreOrder, QueueOrder, Jobs, WrittenInOrder, StopJoined, CancelTasks, queueVars, stats
<1>7. Stopping'
  <2>1. ASSUME NEW ch \in Channels PROVE queues[ch] = <<>>
    <3>1. Len(queues[ch]) + inflight[ch] = 0
        BY DEF StopJoined, Ledger, Pending
    <3>2. Len(queues[ch]) = 0
        BY <3>1, ChannelTypes
    <3>3. QED BY <3>2, ChannelTypes, EmptySeq
  <2>2. QED BY <2>1 DEF TypeOK, Stopping, StopJoined, CancelTasks, queueVars, stats
<1>8. AbandonedThreadsAreCounted'
    BY DEF TypeOK, AbandonedThreadsAreCounted, Live, Tasks, Stopping, Jobs, StopJoined, CancelTasks, queueVars, stats
<1>9. QED BY <1>1, <1>2, <1>3, <1>4, <1>5, <1>6, <1>7, <1>8

LEMMA StopTimesOutIInv ==
    ASSUME IInv, StopTimesOut
    PROVE  IInv'
<1> USE DEF IInv
<1>1. TypeOK'
  <2>1. ASSUME NEW ch \in Channels
        PROVE  /\ cancelled[ch] + Len(queues[ch]) \in Nat
               /\ cleanupFailures[ch] + (IF Pending(ch) > 0 THEN 1 ELSE 0) \in Nat
               /\ unfinished[ch] - Len(queues[ch]) \in Nat
    <3>1. cancelled[ch] + Len(queues[ch]) \in Nat
        BY ChannelTypes
    <3>2. cleanupFailures[ch] \in Nat
        BY DEF TypeOK
    <3>3. unfinished[ch] = Len(queues[ch]) + inflight[ch]
        BY DEF Ledger, Pending
    <3>4. unfinished[ch] - Len(queues[ch]) \in Nat
        BY <3>3, ChannelTypes
    <3>5. QED BY <3>1, <3>2, <3>4
  <2>2. /\ cancelled' \in [Channels -> Nat]
        /\ cleanupFailures' \in [Channels -> Nat]
        /\ unfinished' \in [Channels -> Nat]
      BY <2>1 DEF StopTimesOut
  <2>3. /\ queues' \in [Channels -> Seq(1..MaxEvents)]
        /\ \A ch \in Channels : Len(queues'[ch]) <= Capacity
      BY QueueAssumption DEF StopTimesOut
  <2>4. cancelledIds' \subseteq Jobs
    <3>1. ASSUME NEW ch \in Channels, inflight[ch] > 0 PROVE tokens[ch] \in Jobs
        BY <3>1 DEF Tasks
    <3>2. QED BY <3>1 DEF StopTimesOut, TypeOK
  <2>5. future' \in [Jobs -> {"none", "pending", "result", "exception", "cancelled"}]
      BY DEF StopTimesOut, CancelTasks, TypeOK
  <2>6. QED BY <2>2, <2>3, <2>4, <2>5 DEF TypeOK, StopTimesOut, CancelTasks
<1>2. Tasks'
    BY DEF TypeOK, Tasks, Jobs, StopTimesOut, CancelTasks
<1>3. Ledger'
  <2>1. ASSUME NEW ch \in Channels
        PROVE  submitted'[ch] = Settled(ch)' + Pending(ch)' /\ unfinished'[ch] = Pending(ch)'
    <3>1. /\ Len(queues'[ch]) = 0
          /\ cancelled'[ch] = cancelled[ch] + Len(queues[ch])
          /\ unfinished'[ch] = unfinished[ch] - Len(queues[ch])
          /\ UNCHANGED <<inflight, processed, failed, dropped, submitted>>
        BY DEF StopTimesOut, CancelTasks
    <3>2. Settled(ch)' = Settled(ch) + Len(queues[ch])
      <4>1. \A p, f, c, d, q \in Int : p + f + (c + q) + d = (p + f + c + d) + q
          OBVIOUS
      <4>2. /\ processed[ch] \in Int /\ failed[ch] \in Int /\ cancelled[ch] \in Int
            /\ dropped[ch] \in Int /\ Len(queues[ch]) \in Int
          BY ChannelTypes
      <4>3. processed[ch] + failed[ch] + (cancelled[ch] + Len(queues[ch])) + dropped[ch]
                = (processed[ch] + failed[ch] + cancelled[ch] + dropped[ch]) + Len(queues[ch])
          BY <4>1, <4>2
      <4>4. QED BY <3>1, <4>3 DEF Settled
    <3>3. Pending(ch)' = 0 + inflight[ch]
        BY <3>1 DEF Pending
    <3>4. /\ submitted[ch] = Settled(ch) + (Len(queues[ch]) + inflight[ch])
          /\ unfinished[ch] = Len(queues[ch]) + inflight[ch]
        BY DEF Ledger, Pending
    <3>5. /\ Settled(ch) \in Int /\ Len(queues[ch]) \in Int /\ inflight[ch] \in Int
        BY SettledType, ChannelTypes
    <3>6. QED BY <3>1, <3>2, <3>3, <3>4, <3>5
  <2>2. QED BY <2>1 DEF Ledger
<1>4. LatestFrameWins'
    BY DEF TypeOK, LatestFrameWins, StopTimesOut, CancelTasks
<1>5. QueueOrder'
    BY DEF TypeOK, QueueOrder, Jobs, StopTimesOut, CancelTasks
<1>6. StoreOrder'
    BY DEF TypeOK, StoreOrder, QueueOrder, Jobs, WrittenInOrder, StopTimesOut, CancelTasks
<1>7. Stopping'
    BY DEF TypeOK, Stopping, Ledger, Pending, StopTimesOut, CancelTasks
<1>8. AbandonedThreadsAreCounted'
    BY DEF TypeOK, AbandonedThreadsAreCounted, Live, Tasks, Stopping, Jobs, StopTimesOut, CancelTasks
<1>9. QED BY <1>1, <1>2, <1>3, <1>4, <1>5, <1>6, <1>7, <1>8

LEMMA StopInterruptedIInv ==
    ASSUME IInv, StopInterrupted
    PROVE  IInv'
<1> USE DEF IInv
<1>1. TypeOK'
  <2>1. CASE stopper = "joining"
    <3>1. CancelTasks /\ UNCHANGED <<queueVars, cancelledIds, stats>>
        BY <2>1 DEF StopInterrupted
    <3>2. future' \in [Jobs -> {"none", "pending", "result", "exception", "cancelled"}]
        BY <3>1 DEF CancelTasks, TypeOK
    <3>3. QED BY <3>1, <3>2 DEF TypeOK, StopInterrupted, CancelTasks, queueVars, stats
  <2>2. CASE stopper = "waiting"
      BY <2>2 DEF TypeOK, StopInterrupted, queueVars, jobVars, stats
  <2>3. QED BY <2>1, <2>2 DEF StopInterrupted
<1>2. Tasks'
  <2>1. CASE stopper = "joining"
    <3>1. CancelTasks
        BY <2>1 DEF StopInterrupted
    <3>2. QED BY <3>1 DEF Tasks, CancelTasks
  <2>2. CASE stopper = "waiting"
      BY <2>2 DEF Tasks, StopInterrupted, jobVars
  <2>3. QED BY <2>1, <2>2 DEF StopInterrupted
<1>3. Ledger'
    BY DEF TypeOK, Ledger, Settled, Pending, StopInterrupted, CancelTasks, queueVars, jobVars, stats
<1>4. LatestFrameWins'
    BY DEF TypeOK, LatestFrameWins, StopInterrupted, CancelTasks, queueVars, jobVars, stats
<1>5. QueueOrder'
    BY DEF TypeOK, QueueOrder, Jobs, StopInterrupted, CancelTasks, queueVars, jobVars, stats
<1>6. StoreOrder'
    BY DEF TypeOK, StoreOrder, QueueOrder, Jobs, WrittenInOrder, StopInterrupted, CancelTasks, queueVars, jobVars, stats
<1>7. Stopping'
    BY DEF TypeOK, Stopping, Ledger, Pending, StopInterrupted, CancelTasks, queueVars, jobVars, stats
<1>8. AbandonedThreadsAreCounted'
    BY DEF TypeOK, AbandonedThreadsAreCounted, Live, Tasks, Stopping, Jobs, StopInterrupted, CancelTasks, queueVars, jobVars, stats
<1>9. QED BY <1>1, <1>2, <1>3, <1>4, <1>5, <1>6, <1>7, <1>8

LEMMA StopEndsIInv ==
    ASSUME IInv, StopEnds
    PROVE  IInv'
<1> USE DEF IInv
<1>1. TypeOK'
  <2>1. PICK living \in SUBSET Channels :
            /\ abandoned' = [ch \in Channels |-> abandoned[ch] + (IF ch \in living THEN 1 ELSE 0)]
            /\ cleanupFailures' = [ch \in Channels |->
                                    cleanupFailures[ch] + (IF ch \in living THEN 1 ELSE 0)]
      BY DEF StopEnds
  <2>2. ASSUME NEW ch \in Channels
        PROVE  /\ abandoned[ch] + (IF ch \in living THEN 1 ELSE 0) \in Nat
               /\ cleanupFailures[ch] + (IF ch \in living THEN 1 ELSE 0) \in Nat
    <3>1. abandoned[ch] \in Nat /\ cleanupFailures[ch] \in Nat
        BY DEF TypeOK
    <3>2. QED BY <3>1
  <2>3. abandoned' \in [Channels -> Nat] /\ cleanupFailures' \in [Channels -> Nat]
      BY <2>1, <2>2
  <2>4. QED BY <2>3 DEF TypeOK, StopEnds, queueVars, jobVars
<1>2. Tasks'
    BY DEF TypeOK, Tasks, Jobs, StopEnds, queueVars, jobVars
<1>3. Ledger'
    BY DEF TypeOK, Ledger, Settled, Pending, StopEnds, queueVars, jobVars
<1>4. LatestFrameWins'
    BY DEF TypeOK, LatestFrameWins, StopEnds, queueVars, jobVars
<1>5. QueueOrder'
    BY DEF TypeOK, QueueOrder, Jobs, StopEnds, queueVars, jobVars
<1>6. StoreOrder'
    BY DEF TypeOK, StoreOrder, QueueOrder, Jobs, WrittenInOrder, StopEnds, queueVars, jobVars
<1>7. Stopping'
    BY DEF TypeOK, Stopping, Ledger, Pending, StopEnds, queueVars, jobVars
<1>8. AbandonedThreadsAreCounted'
  <2>1. PICK living \in SUBSET Channels :
            /\ \A ch \in Channels :
                IF threads[ch] = NoJob \/ thread[threads[ch]] = "gone" THEN ch \notin living
                ELSE thread[threads[ch]] \in Live => ch \in living
            /\ abandoned' = [ch \in Channels |-> abandoned[ch] + (IF ch \in living THEN 1 ELSE 0)]
            /\ cleanupFailures' = [ch \in Channels |->
                                    cleanupFailures[ch] + (IF ch \in living THEN 1 ELSE 0)]
      BY DEF StopEnds
  <2>2. ASSUME NEW job \in Jobs, thread[job] \in Live
        PROVE  abandoned'[job[1]] = 1 /\ cleanupFailures'[job[1]] > 0
    <3>1. threads[job[1]] = job /\ job # NoJob /\ job[1] \in Channels
        BY <2>2, JobParts DEF Tasks, Live
    <3>2. job[1] \in living
        BY <2>1, <2>2, <3>1 DEF Live
    <3>3. abandoned[job[1]] = 0 /\ cleanupFailures[job[1]] \in Nat
        BY <3>1 DEF Stopping, StopEnds, TypeOK
    <3>4. /\ abandoned'[job[1]] = abandoned[job[1]] + 1
          /\ cleanupFailures'[job[1]] = cleanupFailures[job[1]] + 1
        BY <2>1, <3>1, <3>2
    <3>5. QED BY <3>3, <3>4
  <2>3. thread' = thread
      BY DEF StopEnds, jobVars
  <2>4. QED BY <2>2, <2>3 DEF AbandonedThreadsAreCounted
<1>9. QED BY <1>1, <1>2, <1>3, <1>4, <1>5, <1>6, <1>7, <1>8

LEMMA InitIInv == Init => IInv
<1> SUFFICES ASSUME Init PROVE IInv
    OBVIOUS
<1>1. TypeOK
  <2>1. <<>> \in Seq(1..MaxEvents) /\ Len(<<>>) = 0 /\ <<>> \in Seq(Jobs)
      OBVIOUS
  <2>2. Len(<<>>) <= Capacity
      BY <2>1, QueueAssumption
  <2>3. /\ queues \in [Channels -> Seq(1..MaxEvents)]
        /\ \A ch \in Channels : Len(queues[ch]) <= Capacity
        /\ store \in Seq(Jobs)
      BY <2>1, <2>2 DEF Init
  <2>4. /\ unfinished \in [Channels -> Nat] /\ inflight \in [Channels -> 0..1]
        /\ processed \in [Channels -> Nat] /\ failed \in [Channels -> Nat]
        /\ cancelled \in [Channels -> Nat] /\ dropped \in [Channels -> Nat]
        /\ abandoned \in [Channels -> Nat] /\ cleanupFailures \in [Channels -> Nat]
        /\ submitted \in [Channels -> Nat]
      BY DEF Init
  <2>5. /\ tokens \in [Channels -> Jobs \cup {NoJob}]
        /\ threads \in [Channels -> Jobs \cup {NoJob}]
        /\ worker \in [Channels -> {"none", "waiting", "running", "ended"}]
        /\ thread \in [Jobs -> Live \cup {"none", "returned", "raised", "gone"}]
        /\ future \in [Jobs -> {"none", "pending", "result", "exception", "cancelled"}]
      BY DEF Init
  <2>6. /\ running \in BOOLEAN /\ cancelling \in BOOLEAN /\ interrupted \in BOOLEAN
        /\ stopper \in {"idle", "joining", "waiting", "stopped"}
        /\ cancelledIds \subseteq Jobs
      BY DEF Init
  <2>7. QED BY <2>3, <2>4, <2>5, <2>6 DEF TypeOK
<1>2. Tasks
    BY DEF Init, Tasks, Jobs
<1>3. Ledger
  <2>1. ASSUME NEW ch \in Channels
        PROVE  Settled(ch) = 0 /\ Pending(ch) = 0 /\ submitted[ch] = 0 /\ unfinished[ch] = 0
    <3>1. queues[ch] = <<>> /\ inflight[ch] = 0 /\ submitted[ch] = 0 /\ unfinished[ch] = 0
        BY DEF Init
    <3>2. /\ processed[ch] = 0 /\ failed[ch] = 0
          /\ cancelled[ch] = 0 /\ dropped[ch] = 0
        BY DEF Init
    <3>3. QED BY <3>1, <3>2 DEF Settled, Pending
  <2>2. ASSUME NEW ch \in Channels
        PROVE  submitted[ch] = Settled(ch) + Pending(ch) /\ unfinished[ch] = Pending(ch)
    <3>1. Settled(ch) = 0 /\ Pending(ch) = 0 /\ submitted[ch] = 0 /\ unfinished[ch] = 0
        BY <2>1
    <3>2. QED BY <3>1
  <2>3. QED BY <2>2 DEF Ledger
<1>4. LatestFrameWins
    BY DEF Init, LatestFrameWins
<1>5. QueueOrder
    BY DEF Init, QueueOrder
<1>6. StoreOrder
    BY DEF Init, StoreOrder, WrittenInOrder
<1>7. Stopping
    BY DEF Init, Stopping
<1>8. AbandonedThreadsAreCounted
    BY DEF Init, AbandonedThreadsAreCounted
<1>9. QED BY <1>1, <1>2, <1>3, <1>4, <1>5, <1>6, <1>7, <1>8 DEF IInv

LEMMA StutterIInv == IInv /\ UNCHANGED vars => IInv'
<1> SUFFICES ASSUME IInv, UNCHANGED vars PROVE IInv'
    OBVIOUS
<1> USE DEF IInv, vars, queueVars, jobVars, stats, stopVars
<1>1. TypeOK'
    BY DEF TypeOK
<1>2. Tasks'
    BY DEF Tasks
<1>3. Ledger'
    BY DEF Ledger, Settled, Pending
<1>4. LatestFrameWins'
    BY DEF LatestFrameWins
<1>5. QueueOrder'
    BY DEF QueueOrder
<1>6. StoreOrder'
    BY DEF StoreOrder, WrittenInOrder
<1>7. Stopping'
    BY DEF Stopping
<1>8. AbandonedThreadsAreCounted'
    BY DEF AbandonedThreadsAreCounted
<1>9. QED BY <1>1, <1>2, <1>3, <1>4, <1>5, <1>6, <1>7, <1>8

LEMMA NextIInv == IInv /\ [Next]_vars => IInv'
<1> SUFFICES ASSUME IInv, [Next]_vars PROVE IInv'
    OBVIOUS
<1>1. CASE Start
    BY <1>1, StartIInv
<1>2. ASSUME NEW ch \in Channels, Submit(ch) PROVE IInv'
    BY <1>2, SubmitIInv
<1>3. ASSUME NEW ch \in Channels, TakeJob(ch) PROVE IInv'
    BY <1>3, TakeJobIInv
<1>4. ASSUME NEW ch \in Channels, SettleJob(ch) PROVE IInv'
    BY <1>4, SettleJobIInv
<1>5. ASSUME NEW ch \in Channels, CancelWorker(ch) PROVE IInv'
    BY <1>5, CancelWorkerIInv
<1>6. ASSUME NEW job \in Jobs, CheckToken(job) PROVE IInv'
    BY <1>6, CheckTokenIInv
<1>7. ASSUME NEW job \in Jobs, WritePerception(job) PROVE IInv'
    BY <1>7, WritePerceptionIInv
<1>8. ASSUME NEW job \in Jobs, EndThread(job) PROVE IInv'
    BY <1>8, EndThreadIInv
<1>9. ASSUME NEW job \in Jobs, Complete(job) PROVE IInv'
    BY <1>9, CompleteIInv
<1>10. CASE StopBegins
    BY <1>10, StopBeginsIInv
<1>11. CASE StopJoined
    BY <1>11, StopJoinedIInv
<1>12. CASE StopTimesOut
    BY <1>12, StopTimesOutIInv
<1>13. CASE StopInterrupted
    BY <1>13, StopInterruptedIInv
<1>14. CASE StopEnds
    BY <1>14, StopEndsIInv
<1>15. CASE UNCHANGED vars
    BY <1>15, StutterIInv
<1>16. QED BY <1>1, <1>2, <1>3, <1>4, <1>5, <1>6, <1>7, <1>8, <1>9, <1>10, <1>11, <1>12, <1>13,
              <1>14, <1>15 DEF Next

(* The inductive invariant holds in every reachable state.                 *)
THEOREM Inductive == Spec => []IInv
<1>1. QED BY InitIInv, NextIInv, PTL DEF Spec

(* Types, and no queue over its capacity (submit(),                        *)
(* perception_queue.py).                                                   *)
THEOREM TypeCorrect == Spec => []TypeOK
<1>1. IInv => TypeOK
    BY DEF IInv
<1>2. QED BY <1>1, Inductive, PTL

(* However many events, and whatever is dropped, fails, times out or is    *)
(* cancelled: the counters of _MutableChannelStats and the work left add   *)
(* up to what was submitted, and join() waits for exactly the work left.   *)
THEOREM LedgerHolds == Spec => []Ledger
<1>1. IInv => Ledger
    BY DEF IInv
<1>2. QED BY <1>1, Inductive, PTL

(* After an uninterrupted stop() every queue is empty and no job is in     *)
(* flight.                                                                 *)
THEOREM NothingIsLeft == Spec => []NothingLeftBehind
<1>1. ASSUME IInv PROVE NothingLeftBehind
  <2>1. ASSUME NEW ch \in Channels, stopper = "stopped", ~interrupted PROVE Pending(ch) = 0
    <3>1. queues[ch] = <<>> /\ worker[ch] = "ended"
        BY <1>1, <2>1 DEF IInv, Stopping
    <3>2. inflight[ch] = 0
        BY <1>1, <3>1 DEF IInv, Tasks
    <3>3. QED BY <3>1, <3>2 DEF Pending
  <2>2. QED BY <2>1 DEF NothingLeftBehind
<1>2. QED BY <1>1, Inductive, PTL

(* stop() reports every processor thread it leaves running.                *)
THEOREM AbandonedCounted == Spec => []AbandonedThreadsAreCounted
<1>1. IInv => AbandonedThreadsAreCounted
    BY DEF IInv
<1>2. QED BY <1>1, Inductive, PTL

(* The threads of a channel append in the order of its events.             *)
THEOREM OrderKept == Spec => []WrittenInOrder
<1>1. IInv => WrittenInOrder
    BY DEF IInv, StoreOrder
<1>2. QED BY <1>1, Inductive, PTL

(* A video frame that waits is the newest submitted.                       *)
THEOREM LatestFrame == Spec => []LatestFrameWins
<1>1. IInv => LatestFrameWins
    BY DEF IInv
<1>2. QED BY <1>1, Inductive, PTL

(* What the operator is told of a queue adds up, in all three respects.    *)
THEOREM EventsAccounted == Spec => []EveryEventAccounted
<1>1. Ledger /\ NothingLeftBehind /\ AbandonedThreadsAreCounted => EveryEventAccounted
    BY DEF EveryEventAccounted
<1>2. QED BY <1>1, LedgerHolds, NothingIsLeft, AbandonedCounted, PTL

(* Both orders that the store and the video worker rely on.                *)
THEOREM OrderIsFresh == Spec => []FreshAndInOrder
<1>1. WrittenInOrder /\ LatestFrameWins => FreshAndInOrder
    BY DEF FreshAndInOrder
<1>2. QED BY <1>1, OrderKept, LatestFrame, PTL

=============================================================================
