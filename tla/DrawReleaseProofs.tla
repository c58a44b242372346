------------------------- MODULE DrawReleaseProofs -------------------------
(***************************************************************************)
(* What holds of the draw-release mail for any calendar, any way of        *)
(* putting draws in buckets and buckets in weeks, and any number of        *)
(* overlapping sweeps, retractions and restarts.                           *)
(***************************************************************************)
EXTENDS DrawRelease, TLAPS

\* A task tells something, of its own bucket, that is stamped already.
Letters ==
    \A l \in letter : /\ l.draws # {} /\ l.draws \subseteq notified
                      /\ \A d \in l.draws : BucketFor[d] = l.bucket

Shape == ReleaseTypeOK /\ Letters

\* A sweep starts a task for a bucket it has read in full, and stamps what it read of
\* the buckets of which nothing is missing.
LEMMA StampFacts ==
    ASSUME Shape, NEW w \in Sweepers, SweepStamps(w)
    PROVE  /\ letter \subseteq letter'
           /\ \A l \in letter' \ letter :
                 /\ l \in Letter /\ ~l.claimed
                 /\ l.draws # {} /\ l.draws \subseteq notified'
                 /\ \A d \in l.draws : BucketFor[d] = l.bucket
                 /\ l.draws = Siblings(l.bucket) /\ Siblings(l.bucket) \subseteq ready[w]
           /\ notified \subseteq notified' /\ notified' \subseteq notified \cup ready[w]
           /\ \A d \in notified' \ notified :
                 Siblings(BucketFor[d]) \subseteq ready[w] \cup notified
<1> DEFINE whole == {b \in {BucketFor[d] : d \in ready[w]} : Holding(w, b) = {}}
           told  == {b \in whole : ~TooLate(w, b)}
           In(B) == {d \in ready[w] : BucketFor[d] \in B}
           new   == {[by |-> w, bucket |-> b, draws |-> In({b}), claimed |-> FALSE] : b \in told}
<1>1. notified' = notified \cup In(whole) /\ letter' = letter \cup new
  BY DEF SweepStamps, Stamped
<1>2. ready[w] \subseteq known /\ known \subseteq Calendar
  BY DEF Shape, ReleaseTypeOK
<1>3. ASSUME NEW b \in told
      PROVE  /\ b \in Buckets /\ In({b}) # {} /\ In({b}) \subseteq notified'
             /\ In({b}) = Siblings(b) /\ Siblings(b) \subseteq ready[w]
  <2>1. In({b}) # {} /\ b \in Buckets
    BY <1>2 DEF Buckets
  <2>2. In({b}) \subseteq In(whole)
    OBVIOUS
  <2>3. Siblings(b) \subseteq ready[w]
    BY DEF Holding, TooLate
  <2>4. In({b}) = Siblings(b)
    BY <1>2, <2>3 DEF Siblings
  <2>5. QED
    BY <1>1, <2>1, <2>2, <2>3, <2>4
<1>4. ASSUME NEW l \in letter' \ letter
      PROVE  /\ l \in Letter /\ ~l.claimed
             /\ l.draws # {} /\ l.draws \subseteq notified'
             /\ \A d \in l.draws : BucketFor[d] = l.bucket
             /\ l.draws = Siblings(l.bucket) /\ Siblings(l.bucket) \subseteq ready[w]
  <2>1. PICK b \in told : l = [by |-> w, bucket |-> b, draws |-> In({b}), claimed |-> FALSE]
    BY <1>1
  <2>2. l \in Letter
    BY <1>2, <1>3, <2>1 DEF Letter
  <2>3. QED
    BY <1>3, <2>1, <2>2
<1>5. ASSUME NEW d \in notified' \ notified
      PROVE  Siblings(BucketFor[d]) \subseteq ready[w] \cup notified
  BY <1>1 DEF Holding
<1>6. QED
  BY <1>1, <1>4, <1>5

\* A sweep that stamps the first draws of a bucket tells them.
LEMMA StampTells ==
    ASSUME Shape, NEW w \in Sweepers, SweepStamps(w), NEW e \in notified' \ notified,
           Siblings(BucketFor[e]) \cap notified = {}
    PROVE  \E l \in letter' : e \in l.draws
<1> DEFINE b     == BucketFor[e]
           whole == {c \in {BucketFor[d] : d \in ready[w]} : Holding(w, c) = {}}
           In(B) == {d \in ready[w] : BucketFor[d] \in B}
<1>1. b \in whole /\ e \in In({b})
  BY DEF SweepStamps, Stamped
<1>2. ~TooLate(w, b)
  BY DEF TooLate
<1>3. [by |-> w, bucket |-> b, draws |-> In({b}), claimed |-> FALSE] \in letter'
  BY <1>1, <1>2 DEF SweepStamps
<1>4. QED
  BY <1>1, <1>3

\* A claim keeps a task as it was, without the draws that were claimed before.
LEMMA ClaimFacts ==
    ASSUME Shape, NEW l \in letter, ClaimRows(l)
    PROVE  /\ claims' = claims \cup (l.draws \ claims)
           /\ \A k \in letter' :
                 \/ k \in letter /\ k # l
                 \/ /\ k.bucket = l.bucket /\ k.by = l.by /\ k.claimed
                    /\ k.draws = l.draws \ claims /\ k.draws # {} /\ k \in Letter
<1>1. letter' = (letter \ {l}) \cup
                 IF l.draws \ claims = {} THEN {}
                 ELSE {[l EXCEPT !.draws = l.draws \ claims, !.claimed = TRUE]}
  BY DEF ClaimRows, Unclaimed
<1>2. l \in Letter
  BY DEF Shape, ReleaseTypeOK
<1>3. ASSUME NEW k, k = [l EXCEPT !.draws = l.draws \ claims, !.claimed = TRUE]
      PROVE  /\ k.bucket = l.bucket /\ k.by = l.by /\ k.claimed
             /\ k.draws = l.draws \ claims /\ k \in Letter
  BY <1>2, <1>3 DEF Letter
<1>4. QED
  BY <1>1, <1>3 DEF ClaimRows, Unclaimed

LEMMA ShapeInit == ReleaseInit => Shape
BY ReleaseAssumption DEF ReleaseInit, Shape, ReleaseTypeOK, Letters

LEMMA ShapeStep == Shape /\ [ReleaseNext]_releaseVars => Shape'
<1> SUFFICES ASSUME Shape, [ReleaseNext]_releaseVars PROVE Shape'
  OBVIOUS
<1> USE DEF pages, sent, Letters
<1>1. ASSUME NEW d \in Calendar, AddDraw(d) PROVE Shape'
  BY <1>1 DEF AddDraw, Shape, ReleaseTypeOK
<1>2. ASSUME NEW d \in Calendar, Released(d) \/ Retracted(d) \/ Cooled(d) PROVE Shape'
  BY <1>2, ReleaseAssumption DEF Released, Retracted, Cooled, Shape, ReleaseTypeOK
<1>3. ASSUME NEW w \in Sweepers, SweepReads(w) PROVE Shape'
  BY <1>3 DEF SweepReads, Shape, ReleaseTypeOK
<1>4. ASSUME NEW w \in Sweepers, SweepStamps(w) PROVE Shape'
  <2>1. letter' \subseteq Letter /\ notified' \subseteq known /\ Letters'
    BY <1>4, StampFacts DEF Shape, ReleaseTypeOK
  <2>2. ready' \in [Sweepers -> SUBSET known]
    BY <1>4 DEF SweepStamps, Shape, ReleaseTypeOK
  <2>3. claims \subseteq notified'
    BY <1>4, StampFacts DEF Shape, ReleaseTypeOK
  <2>4. UNCHANGED <<pages, claims, crashes, sent>>
    BY <1>4 DEF SweepStamps
  <2>5. QED
    BY <2>1, <2>2, <2>3, <2>4 DEF Shape, ReleaseTypeOK
<1>5. ASSUME NEW l \in letter, ClaimRows(l) PROVE Shape'
  <2>1. UNCHANGED <<pages, notified, ready, crashes, sent>>
    BY <1>5 DEF ClaimRows
  <2>2. claims' \subseteq notified
    BY <1>5, ClaimFacts DEF Shape, ReleaseTypeOK
  <2>3. letter' \subseteq Letter
    BY <1>5, ClaimFacts DEF Shape, ReleaseTypeOK
  <2>4. Letters'
    BY <1>5, <2>1, ClaimFacts DEF Shape
  <2>5. QED
    BY <2>1, <2>2, <2>3, <2>4 DEF Shape, ReleaseTypeOK
<1>6. ASSUME NEW l \in letter, SendRelease(l) PROVE Shape'
  <2>1. \A n \in 0 .. 2 : OneMore(n) \in 0 .. 2
    BY DEF OneMore
  <2>2. mails' \in [Buckets -> 0 .. 2] /\ pushes' \in [Weeks -> 0 .. 2]
    BY <1>6, <2>1 DEF SendRelease, Shape, ReleaseTypeOK
  <2>3. QED
    BY <1>6, <2>2 DEF SendRelease, Shape, ReleaseTypeOK
<1>7. CASE ReleaseRestart
  BY <1>7, ReleaseAssumption DEF ReleaseRestart, Shape, ReleaseTypeOK
<1>8. CASE UNCHANGED releaseVars
  BY <1>8 DEF releaseVars, Shape, ReleaseTypeOK
<1>9. QED
  BY <1>1, <1>2, <1>3, <1>4, <1>5, <1>6, <1>7, <1>8
     DEF ReleaseNext, SweepReleases, CarryRelease

LEMMA ShapeHolds == ReleaseSpec => []Shape
BY ShapeInit, ShapeStep, PTL DEF ReleaseSpec

\* Stamps, tasks and claims keep their shape.
THEOREM ReleaseTypes == ReleaseSpec => []ReleaseTypeOK
<1>1. Shape => ReleaseTypeOK
  BY DEF Shape
<1>2. QED
  BY <1>1, ShapeHolds, PTL

\* "It waits for every draw in that week": a task that is started has every draw its
\* bucket holds at that moment.
THEOREM NoHalfWeekIsAnnounced == ReleaseSpec => WholeWeek
<1> DEFINE Fresh == \A l \in letter' \ letter : ~l.claimed => l.draws = Siblings(l.bucket)
<1>1. Shape /\ [ReleaseNext]_releaseVars => [Fresh]_releaseVars
  <2> SUFFICES ASSUME Shape, ReleaseNext PROVE Fresh
    OBVIOUS
  <2>1. ASSUME NEW w \in Sweepers, SweepStamps(w) PROVE Fresh
    BY <2>1, StampFacts
  <2>2. ASSUME NEW l \in letter, ClaimRows(l) PROVE Fresh
    BY <2>2, ClaimFacts
  <2>3. ASSUME letter' \subseteq letter PROVE Fresh
    BY <2>3
  <2>4. QED
    BY <2>1, <2>2, <2>3
       DEF ReleaseNext, SweepReleases, CarryRelease, AddDraw, Released, Retracted, Cooled,
           SweepReads, SendRelease, ReleaseRestart
<1>2. QED
  BY <1>1, ShapeHolds, PTL DEF ReleaseSpec, WholeWeek

-----------------------------------------------------------------------------
(* One mail for a bucket.  Two tasks of one bucket come of two sweeps that *)
(* overlapped: then both read the whole bucket, and the claim of either    *)
(* leaves the other nothing.                                               *)

Told(b) == \E d \in claims : BucketFor[d] = b

\* Tasks of one bucket that have not claimed yet have the same draws, and nothing to
\* claim once another has claimed.
Agree ==
    \A l \in letter : ~l.claimed =>
        /\ \A k \in letter : k.bucket = l.bucket /\ ~k.claimed => k.draws = l.draws
        /\ Told(l.bucket) => l.draws \subseteq claims

\* So will the task of a sweep that still holds a bucket another has stamped.
Ahead ==
    \A w \in Sweepers, b \in Buckets :
        Siblings(b) \subseteq ready[w] /\ Siblings(b) \cap notified # {} =>
            /\ \A l \in letter : l.bucket = b /\ ~l.claimed => l.draws = Siblings(b)
            /\ Told(b) => Siblings(b) \subseteq claims
            /\ \A d \in Siblings(b) : d \in claims \/ \E l \in letter : d \in l.draws

\* A mail needs a claim, and there is one task at most that may send it.
Once ==
    /\ \A l \in letter : l.claimed =>
          /\ l.draws \subseteq claims /\ mails[l.bucket] = 0
          /\ \A k \in letter : k.bucket = l.bucket /\ k.claimed => k = l
    /\ \A b \in Buckets : mails[b] # 0 => mails[b] = 1 /\ Told(b)
    /\ \A v \in Weeks : pushes[v] # 0 =>
          pushes[v] = 1 /\ \E b \in Buckets : WeekFor[b] = v /\ mails[b] # 0

OneBatch == Agree /\ Ahead /\ Once

\* What is claimed is known and stamped.
LEMMA ToldFacts ==
    ASSUME Shape, NEW b
    PROVE  /\ Told(b) => Siblings(b) \cap notified # {}
           /\ \A l \in letter : ~l.claimed => l.bucket \in Buckets /\ l.draws \subseteq Siblings(l.bucket)
           /\ \A l \in letter : l.draws \subseteq Siblings(l.bucket)
           /\ \A l \in letter : Siblings(l.bucket) \cap notified # {}
BY DEF Shape, ReleaseTypeOK, Letters, Told, Siblings, Letter

LEMMA OneBatchStamps ==
    ASSUME Shape, OneBatch, NEW v \in Sweepers, SweepStamps(v) PROVE OneBatch'
<1>1. UNCHANGED <<known, claims, mails, pushes>> /\ ready' = [ready EXCEPT ![v] = {}]
  BY DEF SweepStamps, pages, sent
<1>2. \A b : Siblings(b)' = Siblings(b) /\ Told(b)' = Told(b)
  BY <1>1 DEF Siblings, Told
<1>3. ASSUME NEW l \in letter', l \notin letter
      PROVE  /\ ~l.claimed /\ l.bucket \in Buckets /\ l.draws = Siblings(l.bucket)
             /\ Siblings(l.bucket) \subseteq ready[v]
  BY <1>3, StampFacts DEF Letter
\* What the new task finds in its bucket has its draws already.
<1>4. ASSUME NEW l \in letter', l \notin letter
      PROVE  /\ \A k \in letter' : k.bucket = l.bucket /\ ~k.claimed => k.draws = l.draws
             /\ Told(l.bucket) => l.draws \subseteq claims
  <2>1. Told(l.bucket) => l.draws \subseteq claims
    BY <1>3, <1>4, ToldFacts DEF OneBatch, Ahead
  <2>2. ASSUME NEW k \in letter', k.bucket = l.bucket, ~k.claimed PROVE k.draws = l.draws
    <3>1. CASE k \in letter
      BY <1>3, <1>4, <2>2, <3>1, ToldFacts DEF OneBatch, Ahead
    <3>2. CASE k \notin letter
      BY <1>3, <1>4, <2>2, <3>2
    <3>3. QED
      BY <3>1, <3>2
  <2>3. QED
    BY <2>1, <2>2
<1>5. Agree'
  <2> SUFFICES ASSUME NEW l \in letter', ~l.claimed
               PROVE  /\ \A k \in letter' : k.bucket = l.bucket /\ ~k.claimed => k.draws = l.draws
                      /\ Told(l.bucket) => l.draws \subseteq claims
    BY <1>1, <1>2 DEF Agree
  <2>1. CASE l \notin letter
    BY <1>4, <2>1
  <2>2. CASE l \in letter
    <3>1. Told(l.bucket) => l.draws \subseteq claims
      BY <2>2 DEF OneBatch, Agree
    <3>2. ASSUME NEW k \in letter', k.bucket = l.bucket, ~k.claimed PROVE k.draws = l.draws
      BY <1>4, <2>2, <3>2, StampFacts DEF OneBatch, Agree
    <3>3. QED
      BY <3>1, <3>2
  <2>3. QED
    BY <2>1, <2>2
<1>6. Ahead'
  <2> SUFFICES ASSUME NEW w \in Sweepers, NEW b \in Buckets,
                      Siblings(b) \subseteq ready'[w], Siblings(b) \cap notified' # {}
               PROVE  /\ \A l \in letter' : l.bucket = b /\ ~l.claimed => l.draws = Siblings(b)
                      /\ Told(b) => Siblings(b) \subseteq claims
                      /\ \A d \in Siblings(b) : d \in claims \/ \E l \in letter' : d \in l.draws
    BY <1>1, <1>2 DEF Ahead, Buckets
  <2>1. w # v /\ ready'[w] = ready[w]
    BY <1>1 DEF Shape, ReleaseTypeOK
  <2>2. Told(b) => Siblings(b) \subseteq claims
    BY <2>1, ToldFacts DEF OneBatch, Ahead
  <2>3. ASSUME NEW l \in letter', l.bucket = b, ~l.claimed PROVE l.draws = Siblings(b)
    <3>1. CASE l \in letter
      BY <2>1, <2>3, <3>1, ToldFacts DEF OneBatch, Ahead
    <3>2. CASE l \notin letter
      BY <1>3, <2>3, <3>2
    <3>3. QED
      BY <3>1, <3>2
  <2>4. ASSUME NEW d \in Siblings(b) PROVE d \in claims \/ \E l \in letter' : d \in l.draws
    <3>1. CASE Siblings(b) \cap notified # {}
      BY <2>1, <3>1, StampFacts DEF OneBatch, Ahead
    \* The other sweep stamped the bucket whole, and told it.
    <3>2. CASE Siblings(b) \cap notified = {}
      <4>1. PICK e \in Siblings(b) : e \in notified' \ notified /\ BucketFor[e] = b
        BY <3>2 DEF Siblings
      <4>2. PICK l \in letter' : e \in l.draws
        BY <3>2, <4>1, StampTells
      <4>3. l \notin letter
        BY <4>1, <4>2 DEF Shape, Letters
      <4>4. l.bucket = b
        BY <4>1, <4>2, <4>3, StampFacts
      <4>5. QED
        BY <1>3, <4>3, <4>4
    <3>3. QED
      BY <3>1, <3>2
  <2>5. QED
    BY <2>2, <2>3, <2>4
<1>7. Once'
  <2>1. \A l \in letter' : l.claimed => l \in letter
    BY <1>3
  <2>2. QED
    BY <1>1, <1>2, <2>1 DEF OneBatch, Once, Weeks, Buckets
<1>8. QED
  BY <1>5, <1>6, <1>7 DEF OneBatch

LEMMA OneBatchClaims ==
    ASSUME Shape, OneBatch, NEW l \in letter, ClaimRows(l) PROVE OneBatch'
<1>1. UNCHANGED <<known, notified, ready, mails, pushes>> /\ ~l.claimed
  BY DEF ClaimRows, pages, sent
<1>2. claims' = claims \cup l.draws
  BY ClaimFacts
<1>3. \A b : Siblings(b)' = Siblings(b) /\ (Told(b)' <=> Told(b) \/ b = l.bucket)
  BY <1>1, <1>2 DEF Siblings, Told, Shape, Letters
<1>4. \A k \in letter' : ~k.claimed => k \in letter /\ k # l
  BY ClaimFacts
<1>5. Agree'
  BY <1>1, <1>2, <1>3, <1>4 DEF OneBatch, Agree
<1>6. Ahead'
  <2> SUFFICES ASSUME NEW w \in Sweepers, NEW b \in Buckets,
                      Siblings(b) \subseteq ready[w], Siblings(b) \cap notified # {}
               PROVE  /\ \A k \in letter' : k.bucket = b /\ ~k.claimed => k.draws = Siblings(b)
                      /\ Told(b)' => Siblings(b) \subseteq claims'
                      /\ \A d \in Siblings(b) : d \in claims' \/ \E k \in letter' : d \in k.draws
    BY <1>1, <1>3 DEF Ahead, Buckets
  <2>1. \A k \in letter' : k.bucket = b /\ ~k.claimed => k.draws = Siblings(b)
    BY <1>4 DEF OneBatch, Ahead
  <2>2. b = l.bucket => l.draws = Siblings(b)
    BY <1>1 DEF OneBatch, Ahead
  <2>3. letter \ {l} \subseteq letter'
    BY DEF ClaimRows
  <2>4. \A d \in Siblings(b) : d \in claims' \/ \E k \in letter' : d \in k.draws
    BY <1>2, <2>3 DEF OneBatch, Ahead
  <2>5. QED
    BY <1>2, <1>3, <2>1, <2>2, <2>4 DEF OneBatch, Ahead
<1>7. Once'
  <2>1. ASSUME NEW k \in letter', k \notin letter \/ k = l
        PROVE  /\ k.bucket = l.bucket /\ k.draws = l.draws \ claims /\ k.draws # {}
               /\ ~Told(l.bucket) /\ k.draws \subseteq claims'
    BY <1>1, <1>2, <2>1, ClaimFacts DEF OneBatch, Agree
  <2>2. ASSUME NEW k \in letter', k.claimed
        PROVE  k.draws \subseteq claims' /\ mails[k.bucket] = 0
    <3>1. CASE k \in letter /\ k # l
      BY <1>2, <2>2, <3>1 DEF OneBatch, Once
    <3>2. CASE k \notin letter \/ k = l
      <4>1. l.bucket \in Buckets
        BY DEF Shape, ReleaseTypeOK, Letter
      <4>2. QED
        BY <2>1, <3>2, <4>1 DEF OneBatch, Once
    <3>3. QED
      BY <3>1, <3>2
  \* Two claimed tasks of one bucket: neither is l, which found it claimed.
  <2>3. ASSUME NEW k \in letter', k.claimed, NEW j \in letter', j.claimed, j.bucket = k.bucket
        PROVE  j = k
    <3>1. \A i \in letter : i.claimed => Told(i.bucket)
      BY DEF OneBatch, Once, Told, Shape, Letters
    <3>2. CASE (k \in letter /\ k # l) /\ (j \in letter /\ j # l)
      BY <2>3, <3>2 DEF OneBatch, Once
    <3>3. CASE (k \notin letter \/ k = l) /\ (j \in letter /\ j # l)
      BY <2>1, <2>3, <3>1, <3>3
    <3>4. CASE (j \notin letter \/ j = l) /\ (k \in letter /\ k # l)
      BY <2>1, <2>3, <3>1, <3>4
    <3>5. CASE (k \notin letter \/ k = l) /\ (j \notin letter \/ j = l)
      BY <1>1, <2>3, <3>5 DEF ClaimRows
    <3>6. QED
      BY <3>2, <3>3, <3>4, <3>5
  <2>4. QED
    BY <1>1, <1>3, <2>2, <2>3 DEF OneBatch, Once, Weeks, Buckets
<1>8. QED
  BY <1>5, <1>6, <1>7 DEF OneBatch

LEMMA OneBatchSends ==
    ASSUME Shape, OneBatch, NEW l \in letter, SendRelease(l) PROVE OneBatch'
<1> DEFINE week   == WeekFor[l.bucket]
           others == {d \in notified \ l.draws : WeekFor[BucketFor[d]] = week}
<1>1. /\ UNCHANGED <<known, notified, ready, claims>> /\ l.claimed /\ letter' = letter \ {l}
      /\ mails' = [mails EXCEPT ![l.bucket] = OneMore(@)]
      /\ pushes' = IF others = {} THEN [pushes EXCEPT ![week] = OneMore(@)] ELSE pushes
  BY DEF SendRelease, pages
<1>2. l.bucket \in Buckets /\ week \in Weeks
  BY DEF Shape, ReleaseTypeOK, Letter, Weeks
<1>3. mails[l.bucket] = 0 /\ Told(l.bucket)
  BY <1>1 DEF OneBatch, Once, Told, Shape, Letters
<1>4. \A b : Siblings(b)' = Siblings(b) /\ Told(b)' = Told(b)
  BY <1>1 DEF Siblings, Told
<1>5. Agree' /\ Ahead'
  BY <1>1, <1>4 DEF OneBatch, Agree, Ahead, Once, Buckets
<1>6. mails'[l.bucket] = 1 /\ \A b \in Buckets : b # l.bucket => mails'[b] = mails[b]
  BY <1>1, <1>2, <1>3 DEF Shape, ReleaseTypeOK, OneMore
<1>7. \A k \in letter' : k.claimed => k \in letter /\ k.bucket # l.bucket /\ k.bucket \in Buckets
  BY <1>1 DEF OneBatch, Once, Shape, ReleaseTypeOK, Letter
\* A week that has had its push has a draw stamped that is not of this task.
<1>8. others = {} => pushes[week] = 0
  <2> SUFFICES ASSUME pushes[week] # 0 PROVE others # {}
    OBVIOUS
  <2>1. PICK b \in Buckets : WeekFor[b] = week /\ mails[b] # 0
    BY <1>2 DEF OneBatch, Once
  <2>2. PICK d \in claims : BucketFor[d] = b
    BY <2>1 DEF OneBatch, Once, Told
  <2>3. d \in others
    BY <1>3, <2>1, <2>2 DEF Shape, ReleaseTypeOK, Letters
  <2>4. QED
    BY <2>3
<1>9. \A v \in Weeks : \/ pushes'[v] = pushes[v]
                       \/ v = week /\ pushes'[v] = 1
  BY <1>1, <1>2, <1>8 DEF Shape, ReleaseTypeOK, OneMore
<1>10. Once'
  BY <1>1, <1>2, <1>3, <1>4, <1>6, <1>7, <1>9 DEF OneBatch, Once, Weeks, Buckets
<1>11. QED
  BY <1>5, <1>10 DEF OneBatch

LEMMA OneBatchStep == Shape /\ OneBatch /\ [ReleaseNext]_releaseVars => OneBatch'
<1> SUFFICES ASSUME Shape, OneBatch, [ReleaseNext]_releaseVars PROVE OneBatch'
  OBVIOUS
<1> USE DEF pages, sent, OneBatch, Agree, Ahead, Once, Told, Siblings
<1>1. ASSUME NEW d \in Calendar, AddDraw(d) PROVE OneBatch'
  BY <1>1 DEF AddDraw, Shape, ReleaseTypeOK
<1>2. ASSUME NEW d \in Calendar, Released(d) \/ Retracted(d) \/ Cooled(d) PROVE OneBatch'
  BY <1>2 DEF Released, Retracted, Cooled
<1>3. ASSUME NEW w \in Sweepers, SweepReads(w) PROVE OneBatch'
  BY <1>3 DEF SweepReads, Shape, ReleaseTypeOK
<1>4. CASE ReleaseRestart
  BY <1>4 DEF ReleaseRestart
<1>5. CASE UNCHANGED releaseVars
  BY <1>5 DEF releaseVars
<1>6. QED
  BY <1>1, <1>2, <1>3, <1>4, <1>5, OneBatchStamps, OneBatchClaims, OneBatchSends
     DEF ReleaseNext, SweepReleases, CarryRelease

LEMMA OneBatchInit == ReleaseInit => OneBatch
BY DEF ReleaseInit, OneBatch, Agree, Ahead, Once

\* "Exactly one draw-release email per week": one mail for each bucket and one push for
\* each week, whatever the overlap of sweeps, the retractions and the restarts.
THEOREM ExactlyOneMail == ReleaseSpec => []OneMailPerWeek
<1>1. Shape /\ OneBatch => OneMailPerWeek
  BY DEF OneBatch, Once, OneMailPerWeek, Shape, ReleaseTypeOK
<1>2. QED
  BY <1>1, OneBatchInit, OneBatchStep, ShapeHolds, PTL DEF ReleaseSpec

-----------------------------------------------------------------------------
(* A release is an item of an outbox.                                      *)

ReleaseNews == INSTANCE Outbox WITH Items <- Calendar, state <- ReleaseItem

InLetter(d) == \E l \in letter : d \in l.draws
Taken(d)    == \E l \in letter : l.claimed /\ d \in l.draws

\* Where an item stands, by the four things that decide it.
Stands(d) ==
    /\ Taken(d) => ReleaseItem[d] = "claimed" /\ d \in claims
    /\ ~Taken(d) /\ (d \in claims \/ (d \in notified /\ ~InLetter(d)))
          => ReleaseItem[d] = "closed"
    /\ ~Taken(d) /\ d \notin claims /\ d \in notified /\ InLetter(d)
          => ReleaseItem[d] = "waiting"
    /\ ~Taken(d) /\ d \notin claims /\ d \notin notified
          => ReleaseItem[d] = IF out[d] # "no" THEN "waiting" ELSE "idle"
    /\ InLetter(d) \/ d \in claims => d \in notified

LEMMA ItemStands ==
    /\ Shape /\ OneBatch => \A d \in Calendar : Stands(d)
    /\ Shape' /\ OneBatch' => \A d \in Calendar : Stands(d)'
BY DEF Stands, ReleaseItem, Taken, InLetter, OneBatch, Once, Shape, ReleaseTypeOK, Letters

\* What may become of an item, seen by those four.
LEMMA ItemMoves ==
    ASSUME NEW d \in Calendar, Stands(d), Stands(d)',
           \/ UNCHANGED <<Taken(d), InLetter(d), d \in claims, d \in notified, out[d]>>
           \/ /\ d \notin notified /\ d \notin claims /\ ~Taken(d) /\ ~InLetter(d)
              /\ d \notin claims' /\ ~Taken(d)'
           \/ d \notin claims /\ ~Taken(d) /\ d \in notified /\ InLetter(d) /\ d \in notified'
           \/ d \in claims /\ d \in claims' /\ (Taken(d)' => Taken(d))
           \/ d \in notified /\ ~InLetter(d) /\ d \in notified' /\ ~InLetter(d)' /\ ~Taken(d)'
    PROVE  ReleaseItem'[d] # ReleaseItem[d] =>
               <<ReleaseItem[d], ReleaseItem'[d]>> \in ReleaseNews!Moves
BY DEF Stands, ReleaseNews!Moves, ReleaseNews!Open

LEMMA ItemStep ==
    ASSUME Shape, OneBatch, Shape', OneBatch', [ReleaseNext]_releaseVars, NEW d \in Calendar
    PROVE  ReleaseItem'[d] # ReleaseItem[d] =>
               <<ReleaseItem[d], ReleaseItem'[d]>> \in ReleaseNews!Moves
<1>0. /\ Stands(d) /\ Stands(d)'
      /\ Taken(d) => InLetter(d) /\ d \in claims
      /\ InLetter(d) \/ d \in claims => d \in notified
  BY ItemStands DEF Stands, Taken, InLetter
\* Most steps start no task and claim nothing.
<1>1. ASSUME letter' \subseteq letter, claims' = claims, notified' = notified
      PROVE  ReleaseItem'[d] # ReleaseItem[d] =>
                 <<ReleaseItem[d], ReleaseItem'[d]>> \in ReleaseNews!Moves
  <2>1. (Taken(d)' => Taken(d)) /\ (InLetter(d)' => InLetter(d))
    BY <1>1 DEF Taken, InLetter
  <2>2. QED
    BY <1>0, <1>1, <2>1, ItemMoves
<1>2. ASSUME NEW w \in Sweepers, SweepStamps(w)
      PROVE  ReleaseItem'[d] # ReleaseItem[d] =>
                 <<ReleaseItem[d], ReleaseItem'[d]>> \in ReleaseNews!Moves
  <2>1. claims' = claims /\ notified \subseteq notified'
    BY <1>2, StampFacts DEF SweepStamps
  <2>2. Taken(d)' => Taken(d)
    BY <1>2, StampFacts DEF Taken
  \* What was lost or not told is in no new task.
  <2>3. d \in notified /\ d \notin claims /\ ~InLetter(d) => ~InLetter(d)'
    <3> SUFFICES ASSUME d \in notified, d \notin claims, ~InLetter(d),
                        NEW l \in letter', d \in l.draws
                 PROVE  FALSE
      BY DEF InLetter
    <3>1. l \notin letter
      BY DEF InLetter
    <3>2. l.bucket \in Buckets /\ d \in Siblings(l.bucket) /\ Siblings(l.bucket) \subseteq ready[w]
      BY <1>2, <3>1, StampFacts DEF Letter
    <3>3. QED
      BY <3>2 DEF OneBatch, Ahead, InLetter
  <2>4. QED
    BY <1>0, <2>1, <2>2, <2>3, ItemMoves
<1>3. ASSUME NEW l \in letter, ClaimRows(l)
      PROVE  ReleaseItem'[d] # ReleaseItem[d] =>
                 <<ReleaseItem[d], ReleaseItem'[d]>> \in ReleaseNews!Moves
  <2>1. notified' = notified /\ claims' = claims \cup l.draws
    BY <1>3, ClaimFacts DEF ClaimRows
  <2>2. InLetter(d)' => InLetter(d)
    BY <1>3, ClaimFacts DEF InLetter
  <2>3. d \in claims => (Taken(d)' => Taken(d))
    BY <1>3, ClaimFacts DEF Taken
  <2>4. Taken(d)' => InLetter(d)'
    BY DEF Taken, InLetter
  <2>5. ~InLetter(d) /\ d \notin claims => d \notin claims'
    BY <2>1 DEF InLetter
  <2>6. QED
    BY <1>0, <2>1, <2>2, <2>3, <2>4, <2>5, ItemMoves
<1>4. QED
  BY <1>1, <1>2, <1>3
     DEF ReleaseNext, SweepReleases, CarryRelease, AddDraw, Released, Retracted, Cooled,
         SweepReads, SendRelease, ReleaseRestart, releaseVars, pages, sent

\* The release mail implements the outbox: a draw that is claimed is never offered again,
\* and one that was lost or suppressed is not told later.
THEOREM ReleasesAreAnOutbox == ReleaseSpec => ReleaseNews!OutboxSpec
<1>1. ReleaseInit => ReleaseNews!OutboxInit
  BY DEF ReleaseInit, ReleaseNews!OutboxInit, ReleaseItem
<1>2. Shape /\ OneBatch /\ Shape' /\ OneBatch' /\ [ReleaseNext]_releaseVars
          => [ReleaseNews!OutboxNext]_ReleaseItem
  <2> SUFFICES ASSUME Shape, OneBatch, Shape', OneBatch', [ReleaseNext]_releaseVars
               PROVE  ReleaseNews!OutboxNext
    OBVIOUS
  <2>1. DOMAIN ReleaseItem' = Calendar
    BY DEF ReleaseItem
  <2>2. QED
    BY <2>1, ItemStep DEF ReleaseNews!OutboxNext
<1>3. QED
  BY <1>1, <1>2, ShapeHolds, OneBatchInit, OneBatchStep, PTL
     DEF ReleaseSpec, ReleaseNews!OutboxSpec
=============================================================================
