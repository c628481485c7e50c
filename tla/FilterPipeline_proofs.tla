------------------------ MODULE FilterPipeline_proofs ------------------------
(***************************************************************************)
(* Theorems about the live path, for any number of workers, any queue and  *)
(* prebuffer size, any pictures, times, stride and padding.  Each section  *)
(* adds a layer to the inductive invariant and uses the layers before it.  *)
(* The last section is about the workers that batch (GpuSpec), for any size*)
(* of a batch: their facts are those of the shared state and their own.    *)
(***************************************************************************)
EXTENDS GpuPipeline, SequenceTheorems, WellFoundedInduction, TLAPS

(***************************************************************************)
(* The range list of BlockWindows: a detection leaves a list of ranges,    *)
(* and leaves it sorted and disjoint when it was.                          *)
(***************************************************************************)
BlockRange == [start : Nat, end : Nat]

\* A range of the list holds the time ts.
Covered(list, ts) ==
    \E i \in DOMAIN list : list[i].start <= ts /\ ts <= list[i].end

\* The usual order of the natural numbers, as a set of pairs.
NatLess == {p \in Nat \X Nat : p[1] < p[2]}

\* Every non-empty set of natural numbers has a least element.
LEMMA NatMinimum ==
    ASSUME NEW S \in SUBSET Nat, S # {}
    PROVE  \E m \in S : \A n \in S : m <= n
<1>1. IsWellFoundedOn(OpToRel(<, Nat), Nat)
  BY NatLessThanWellFounded
<1>2. OpToRel(<, Nat) = NatLess
  BY DEF OpToRel, NatLess
<1>3. PICK m \in S : \A n \in S : <<n, m>> \notin NatLess
  BY <1>1, <1>2, WFMin
<1>4. ASSUME NEW n \in S
      PROVE  m <= n
  <2>1. <<n, m>> \in Nat \X Nat /\ <<n, m>>[1] = n /\ <<n, m>>[2] = m
    OBVIOUS
  <2>2. ~(n < m)
    BY <1>3, <2>1 DEF NatLess
  <2> QED
    BY <2>2
<1> QED
  BY <1>4

(***************************************************************************)
(* What a `while (pos < count && ...)` loop leaves in pos: the positions   *)
(* before it satisfy the condition and the one at it, if any, does not.    *)
(***************************************************************************)
LEMMA LeadingInProperties ==
    ASSUME NEW S, NEW list \in Seq(S), NEW yes
    PROVE  LET n == LeadingIn(list, yes)
           IN  /\ n \in 0..Len(list)
               /\ \A i \in 1..n : i \in yes
               /\ n < Len(list) => (n + 1) \notin yes
<1> DEFINE stops == {n \in 0..Len(list) : n < Len(list) => (n + 1) \notin yes}
<1>1. Len(list) \in Nat
  BY LenProperties
<1>2. Len(list) \in stops
  BY <1>1
<1>3. PICK m \in stops : \A n \in stops : m <= n
  <2>1. stops \in SUBSET Nat /\ stops # {}
    BY <1>1, <1>2
  <2> HIDE DEF stops
  <2> QED BY <2>1, NatMinimum
<1>4. ASSUME NEW i \in 1..m
      PROVE  i \in yes
  <2>1. i - 1 \in 0..Len(list) /\ i - 1 < m
    BY <1>1, <1>3
  <2>2. i - 1 \notin stops
    BY <1>3, <2>1
  <2> QED
    BY <2>1, <2>2
<1> QED
  BY <1>3, <1>4 DEF LeadingIn

(***************************************************************************)
(* What is left of a range list after its first k ranges: the memmove of   *)
(* the pruning (596-602), and of the merging (679-681).                    *)
(***************************************************************************)
LEMMA SuffixProperties ==
    ASSUME NEW s \in Seq(BlockRange), NEW k \in 0..Len(s)
    PROVE  LET t == SubSeq(s, k + 1, Len(s))
           IN  /\ t \in Seq(BlockRange)
               /\ Len(t) = Len(s) - k
               /\ DOMAIN t = 1..(Len(s) - k)
               /\ \A i \in 1..(Len(s) - k) : t[i] = s[k + i]
<1> DEFINE t == SubSeq(s, k + 1, Len(s))
<1>1. Len(s) \in Nat
  BY LenProperties
<1>2. \A i \in (k + 1)..Len(s) : s[i] \in BlockRange
  BY <1>1, ElementOfSeq
<1>3. /\ t \in Seq(BlockRange)
      /\ Len(t) = IF k + 1 <= Len(s) THEN Len(s) - (k + 1) + 1 ELSE 0
      /\ \A i \in 1..(Len(s) - (k + 1) + 1) : t[i] = s[(k + 1) + i - 1]
  BY <1>1, <1>2, SubSeqProperties
<1>4. DOMAIN t = 1..Len(t)
  BY <1>3, LenProperties
<1> HIDE DEF t
<1>5. /\ t \in Seq(BlockRange)
      /\ Len(t) = Len(s) - k
      /\ DOMAIN t = 1..(Len(s) - k)
      /\ \A i \in 1..(Len(s) - k) : t[i] = s[k + i]
  BY <1>1, <1>3, <1>4
<1> QED
  BY <1>5 DEF t

\* The first k ranges of a list.
LEMMA PrefixProperties ==
    ASSUME NEW s \in Seq(BlockRange), NEW k \in 0..Len(s)
    PROVE  LET t == SubSeq(s, 1, k)
           IN  /\ t \in Seq(BlockRange)
               /\ Len(t) = k
               /\ \A i \in 1..k : t[i] = s[i]
<1> DEFINE t == SubSeq(s, 1, k)
<1>1. Len(s) \in Nat
  BY LenProperties
<1>2. \A i \in 1..k : s[i] \in BlockRange
  BY <1>1, ElementOfSeq
<1>3. /\ t \in Seq(BlockRange)
      /\ Len(t) = IF 1 <= k THEN k - 1 + 1 ELSE 0
      /\ \A i \in 1..(k - 1 + 1) : t[i] = s[1 + i - 1]
  BY <1>1, <1>2, SubSeqProperties
<1> HIDE DEF t
<1>4. /\ t \in Seq(BlockRange)
      /\ Len(t) = k
      /\ \A i \in 1..k : t[i] = s[i]
  BY <1>1, <1>3
<1> QED
  BY <1>4 DEF t

\* A range put between two lists: the insertion of a new window (669-672).
LEMMA SpliceProperties ==
    ASSUME NEW s \in Seq(BlockRange), NEW r \in BlockRange, NEW t \in Seq(BlockRange)
    PROVE  LET u == s \o <<r>> \o t
           IN  /\ u \in Seq(BlockRange)
               /\ DOMAIN u = 1..(Len(s) + 1 + Len(t))
               /\ \A i \in 1..Len(s) : u[i] = s[i]
               /\ u[Len(s) + 1] = r
               /\ \A i \in 1..Len(t) : u[Len(s) + 1 + i] = t[i]
<1> DEFINE v == s \o <<r>>
           u == v \o t
<1>1. <<r>> \in Seq(BlockRange) /\ Len(<<r>>) = 1 /\ <<r>>[1] = r
  OBVIOUS
<1>2. Len(s) \in Nat /\ Len(t) \in Nat
  BY LenProperties
<1>3. /\ v \in Seq(BlockRange)
      /\ Len(v) = Len(s) + 1
      /\ \A i \in 1..(Len(s) + 1) : v[i] = IF i <= Len(s) THEN s[i] ELSE <<r>>[i - Len(s)]
  <2>1. /\ v \in Seq(BlockRange)
        /\ Len(v) = Len(s) + Len(<<r>>)
        /\ \A i \in 1..(Len(s) + Len(<<r>>)) :
              v[i] = IF i <= Len(s) THEN s[i] ELSE <<r>>[i - Len(s)]
    BY <1>1, ConcatProperties
  <2> QED
    BY <1>1, <2>1
<1>4. (\A i \in 1..Len(s) : v[i] = s[i]) /\ v[Len(s) + 1] = r
  <2>1. v[Len(s) + 1] = <<r>>[1]
    <3> HIDE DEF v
    <3> QED BY <1>2, <1>3
  <2> HIDE DEF v
  <2> QED
    BY <1>1, <1>2, <1>3, <2>1
<1> HIDE DEF v
<1>5. /\ u \in Seq(BlockRange)
      /\ Len(u) = Len(v) + Len(t)
      /\ \A i \in 1..(Len(v) + Len(t)) : u[i] = IF i <= Len(v) THEN v[i] ELSE t[i - Len(v)]
  BY <1>3, ConcatProperties
<1>6. DOMAIN u = 1..Len(u)
  BY <1>5, LenProperties
<1> HIDE DEF u
<1>7. \A i \in 1..(Len(s) + 1) : u[i] = v[i]
  BY <1>2, <1>3, <1>5
<1>8. ASSUME NEW i \in 1..Len(t)
      PROVE  u[Len(s) + 1 + i] = t[i]
  <2> DEFINE j == Len(s) + 1 + i
  <2>1. j \in 1..(Len(v) + Len(t)) /\ ~(j <= Len(v)) /\ j - Len(v) = i
    BY <1>2, <1>3
  <2>2. u[j] = t[j - Len(v)]
    <3> HIDE DEF j
    <3> QED BY <1>5, <2>1
  <2> QED
    BY <2>1, <2>2
<1>9. /\ u \in Seq(BlockRange)
      /\ DOMAIN u = 1..(Len(s) + 1 + Len(t))
      /\ \A i \in 1..Len(s) : u[i] = s[i]
      /\ u[Len(s) + 1] = r
      /\ \A i \in 1..Len(t) : u[Len(s) + 1 + i] = t[i]
  BY <1>2, <1>3, <1>4, <1>5, <1>6, <1>7, <1>8
<1> QED
  BY <1>9 DEF u, v

(***************************************************************************)
(* Dropping a prefix of a range list keeps it a range list, and in order,  *)
(* and forgets no time from minTs on.                                      *)
(***************************************************************************)
LEMMA PruneProperties ==
    ASSUME NEW list \in Seq(BlockRange), NEW minTs \in Nat
    PROVE  /\ PruneExpired(list, minTs) \in Seq(BlockRange)
           /\ SortedAndDisjoint(list) => SortedAndDisjoint(PruneExpired(list, minTs))
           /\ \A ts \in Nat : Covered(PruneExpired(list, minTs), ts) => Covered(list, ts)
           /\ \A ts \in Nat : ts >= minTs /\ Covered(list, ts)
                                => Covered(PruneExpired(list, minTs), ts)
<1> DEFINE drop == LeadingIn(list, {i \in DOMAIN list : list[i].end < minTs})
           live == SubSeq(list, drop + 1, Len(list))
<1>1. drop \in 0..Len(list) /\ Len(list) \in Nat
  BY LeadingInProperties, LenProperties
<1>2. \A i \in 1..drop : list[i].end < minTs
  <2>1. \A i \in 1..drop : i \in {j \in DOMAIN list : list[j].end < minTs}
    BY LeadingInProperties
  <2> HIDE DEF drop
  <2> QED BY <2>1
<1>3. /\ live \in Seq(BlockRange)
      /\ DOMAIN live = 1..(Len(list) - drop)
      /\ \A i \in 1..(Len(list) - drop) : live[i] = list[drop + i]
  <2> HIDE DEF drop
  <2> QED BY <1>1, SuffixProperties
<1>4. ASSUME SortedAndDisjoint(list)
      PROVE  SortedAndDisjoint(live)
  <2> HIDE DEF live, drop
  <2>1. DOMAIN live = 1..(Len(list) - drop) /\ DOMAIN list = 1..Len(list)
    BY <1>3, LenProperties
  <2>2. \A i \in DOMAIN live : drop + i \in DOMAIN list /\ live[i] = list[drop + i]
    BY <1>1, <1>3, <2>1
  <2>3. \A i, j \in DOMAIN live : i < j => drop + i < drop + j
    BY <1>1, <2>1
  <2> QED
    BY <1>4, <2>2, <2>3 DEF SortedAndDisjoint
<1>5. DOMAIN list = 1..Len(list)
  BY LenProperties
<1>6. ASSUME NEW ts \in Nat, Covered(live, ts)
      PROVE  Covered(list, ts)
  <2> HIDE DEF live, drop
  <2>1. PICK i \in DOMAIN live : live[i].start <= ts /\ ts <= live[i].end
    BY <1>6 DEF Covered
  <2>2. drop + i \in DOMAIN list /\ live[i] = list[drop + i]
    BY <1>1, <1>3, <1>5
  <2> QED
    BY <2>1, <2>2 DEF Covered
<1>7. ASSUME NEW ts \in Nat, ts >= minTs, Covered(list, ts)
      PROVE  Covered(live, ts)
  <2> HIDE DEF live, drop
  <2>1. PICK i \in DOMAIN list : list[i].start <= ts /\ ts <= list[i].end
    BY <1>7 DEF Covered
  <2>2. list[i].end \in Nat
    <3>1. list[i] \in BlockRange
      BY ElementOfSeq, <1>5
    <3> QED
      BY <3>1 DEF BlockRange
  <2>3. i \notin 1..drop
    BY <1>2, <1>7, <2>1, <2>2
  <2>4. i - drop \in DOMAIN live /\ drop + (i - drop) = i
    BY <1>1, <1>3, <1>5, <2>3
  <2>5. live[i - drop] = list[i]
    BY <1>3, <2>4
  <2> QED
    BY <2>1, <2>4, <2>5 DEF Covered
<1> QED
  BY <1>3, <1>4, <1>6, <1>7 DEF PruneExpired

(***************************************************************************)
(* A new window leaves a range list, and one in order when it was: the     *)
(* early exit of BlockRangeEndAtLocked stays right whatever window is      *)
(* applied, those of detections that arrive late included (625-686).  The  *)
(* new list covers the window and what the old one covered from its start  *)
(* on, and nothing that neither of them covered.                           *)
(***************************************************************************)
LEMMA ApplyBlockWindowProperties ==
    ASSUME NEW list \in Seq(BlockRange), NEW start \in Nat, NEW end \in Nat, start <= end
    PROVE  /\ ApplyBlockWindow(list, start, end) \in Seq(BlockRange)
           /\ SortedAndDisjoint(list)
                => /\ SortedAndDisjoint(ApplyBlockWindow(list, start, end))
                   /\ \A ts \in start..end : Covered(ApplyBlockWindow(list, start, end), ts)
                   /\ \A ts \in Nat : ts >= start /\ Covered(list, ts)
                        => Covered(ApplyBlockWindow(list, start, end), ts)
                   /\ \A ts \in Nat : Covered(ApplyBlockWindow(list, start, end), ts)
                        => ts \in start..end \/ Covered(list, ts)
<1> DEFINE live   == PruneExpired(list, start)
           pos    == LeadingIn(live, {i \in DOMAIN live : live[i].start < start})
           joins  == pos > 0 /\ live[pos].end >= start
           b      == IF joins THEN pos - 1 ELSE pos
           before == SubSeq(live, 1, b)
           after  == SubSeq(live, pos + 1, Len(live))
           from   == IF joins THEN live[pos].start ELSE start
           own    == IF joins THEN Larger(live[pos].end, end) ELSE end
           reach(k) == IF k = 0 THEN own ELSE Larger(own, after[k].end)
           n      == LeadingIn(after, {i \in DOMAIN after : Reaches(reach(i - 1), after[i])})
           mid    == Span(from, reach(n))
           rest   == SubSeq(after, n + 1, Len(after))
           result == before \o <<mid>> \o rest
<1>1. live \in Seq(BlockRange) /\ (SortedAndDisjoint(list) => SortedAndDisjoint(live))
  BY PruneProperties
<1>2. /\ pos \in 0..Len(live)
      /\ \A i \in 1..pos : live[i].start < start
      /\ pos < Len(live) => live[pos + 1].start >= start
      /\ Len(live) \in Nat
      /\ DOMAIN live = 1..Len(live)
      /\ \A i \in 1..Len(live) : live[i] \in BlockRange
      /\ \A i \in 1..Len(live) : live[i].start \in Nat /\ live[i].end \in Nat
  <2> HIDE DEF live
  <2>1. Len(live) \in Nat /\ DOMAIN live = 1..Len(live)
    BY <1>1, LenProperties
  <2>2. /\ pos \in 0..Len(live)
        /\ \A i \in 1..pos : i \in {j \in DOMAIN live : live[j].start < start}
        /\ pos < Len(live) => (pos + 1) \notin {j \in DOMAIN live : live[j].start < start}
    BY <1>1, LeadingInProperties
  <2>3. \A i \in 1..Len(live) : live[i] \in BlockRange
    BY <1>1, ElementOfSeq
  <2> HIDE DEF pos
  <2> QED
    BY <2>1, <2>2, <2>3 DEF BlockRange
<1>3. b \in 0..pos /\ (joins => b = pos - 1) /\ (~joins => b = pos)
  <2> HIDE DEF live, pos
  <2> QED BY <1>2
<1>4. /\ before \in Seq(BlockRange)
      /\ Len(before) = b
      /\ \A i \in 1..b : before[i] = live[i]
  <2> HIDE DEF live, pos, b
  <2>1. b \in 0..Len(live)
    BY <1>2, <1>3
  <2> QED
    BY <1>1, <2>1, PrefixProperties
<1>5. /\ after \in Seq(BlockRange)
      /\ Len(after) = Len(live) - pos
      /\ DOMAIN after = 1..Len(after)
      /\ \A i \in 1..Len(after) : after[i] = live[pos + i]
  <2> HIDE DEF live, pos
  <2> QED BY <1>1, <1>2, SuffixProperties
<1>6. /\ n \in 0..Len(after)
      /\ \A i \in 1..n : Reaches(reach(i - 1), after[i])
      /\ n < Len(after) => ~Reaches(reach(n), after[n + 1])
  <2> HIDE DEF live, pos, after, own
  <2>1. /\ n \in 0..Len(after)
        /\ \A i \in 1..n : i \in {j \in DOMAIN after : Reaches(reach(j - 1), after[j])}
        /\ n < Len(after) =>
              (n + 1) \notin {i \in DOMAIN after : Reaches(reach(i - 1), after[i])}
    <3> HIDE DEF reach
    <3> QED BY <1>5, LeadingInProperties
  <2>2. Len(after) \in Nat
    BY <1>5, LenProperties
  <2> HIDE DEF n, reach
  <2> QED
    BY <1>5, <2>1, <2>2
<1>7. from \in Nat /\ own \in Nat /\ own >= end /\ (joins => own >= live[pos].end)
  <2> HIDE DEF live, pos
  <2> QED BY <1>2 DEF Larger
<1>8. reach(n) \in Nat /\ reach(n) >= own
  <2> HIDE DEF live, pos, own, n, after
  <2>1. n # 0 => after[n].end \in Nat
    BY <1>2, <1>5, <1>6
  <2> QED
    BY <1>6, <1>7, <2>1 DEF Larger
<1>9. /\ rest \in Seq(BlockRange)
      /\ Len(rest) = Len(after) - n
      /\ \A i \in 1..Len(rest) : rest[i] = live[pos + n + i]
  <2> HIDE DEF live, pos, after, n
  <2>0. n \in 0..Len(after) /\ after \in Seq(BlockRange)
    BY <1>5, <1>6
  <2>1. /\ rest \in Seq(BlockRange)
        /\ Len(rest) = Len(after) - n
        /\ \A i \in 1..Len(rest) : rest[i] = after[n + i]
    BY <2>0, SuffixProperties
  <2> HIDE DEF rest
  <2> QED
    BY <1>2, <1>5, <1>6, <2>1
<1>10. mid \in BlockRange /\ mid.start = from /\ mid.end = reach(n)
  <2> HIDE DEF from, reach, n
  <2> QED BY <1>7, <1>8 DEF Span, BlockRange
<1>13. /\ result \in Seq(BlockRange)
       /\ DOMAIN result = 1..(b + 1 + Len(rest))
       /\ \A i \in 1..b : result[i] = live[i]
       /\ result[b + 1] = mid
       /\ \A i \in 1..Len(rest) : result[b + 1 + i] = live[pos + n + i]
  <2> HIDE DEF mid, rest, before, live, b, pos, n
  <2>0. before \in Seq(BlockRange) /\ mid \in BlockRange /\ rest \in Seq(BlockRange)
    BY <1>4, <1>9, <1>10
  <2>1. /\ result \in Seq(BlockRange)
        /\ DOMAIN result = 1..(Len(before) + 1 + Len(rest))
        /\ \A i \in 1..Len(before) : result[i] = before[i]
        /\ result[Len(before) + 1] = mid
        /\ \A i \in 1..Len(rest) : result[Len(before) + 1 + i] = rest[i]
    BY ONLY <2>0, SpliceProperties
  <2> HIDE DEF result
  <2> QED
    BY <1>4, <1>9, <2>1
<1>14. ApplyBlockWindow(list, start, end) = result
  BY DEF ApplyBlockWindow
<1>15. ASSUME SortedAndDisjoint(list)
       PROVE  SortedAndDisjoint(result)
  <2> HIDE DEF result, rest, live, b, pos, n, after, from, own, reach, before, mid
  <2>1. SortedAndDisjoint(live)
    BY <1>1, <1>15
  <2>2. /\ b \in Nat /\ pos \in Nat /\ n \in Nat /\ Len(rest) \in Nat
        /\ Len(live) = pos + n + Len(rest)
    <3>1. Len(rest) \in Nat
      BY ONLY <1>9, LenProperties
    <3>2. pos \in Nat /\ b \in Nat
      BY ONLY <1>2, <1>3
    <3>3. n \in Nat
      BY ONLY <1>5, <1>6, LenProperties
    <3>4. Len(live) = pos + n + Len(rest)
      BY <1>2, <1>5, <1>6, <1>9, <3>1, <3>2, <3>3
    <3> QED BY ONLY <3>1, <3>2, <3>3, <3>4
  \* The ranges before the new one end before it starts.
  <2>3. ASSUME NEW i \in 1..b
        PROVE  live[i].end < mid.start
    <3>1. CASE joins
      <4>1. pos \in DOMAIN live /\ i \in DOMAIN live /\ i < pos
        BY <1>2, <1>3, <3>1, <2>2
      <4> QED
        BY <1>10, <2>1, <3>1, <4>1 DEF SortedAndDisjoint, from
    <3>2. CASE ~joins
      <4>1. pos \in DOMAIN live /\ i \in DOMAIN live /\ i <= pos /\ pos > 0
        BY <1>2, <1>3, <3>2, <2>2
      <4>2. live[pos].end < start
        BY <1>2, <3>2, <4>1
      <4>3. live[i].end <= live[pos].end
        <5>1. CASE i = pos
          BY <1>2, <4>1, <5>1
        <5>2. CASE i < pos
          <6>1. live[i].end < live[pos].start /\ live[pos].start <= live[pos].end
            BY <2>1, <4>1, <5>2 DEF SortedAndDisjoint
          <6> QED
            BY <1>2, <4>1, <6>1
        <5> QED
          BY <4>1, <2>2, <5>1, <5>2
      <4> QED
        BY <1>2, <1>10, <3>2, <4>1, <4>2, <4>3 DEF from
    <3> QED
      BY <3>1, <3>2
  \* The new one is a range.
  <2>4. mid.start <= mid.end
    <3>1. CASE joins
      <4>1. live[pos].start <= live[pos].end
        BY <1>2, <2>1, <2>2, <3>1 DEF SortedAndDisjoint
      <4> QED
        BY <1>2, <1>7, <1>8, <1>10, <2>2, <3>1, <4>1 DEF from
    <3>2. CASE ~joins
      BY <1>7, <1>8, <1>10, <3>2 DEF from
    <3> QED
      BY <3>1, <3>2
  \* It ends before the ones it did not swallow.
  <2>5. ASSUME NEW i \in 1..Len(rest)
        PROVE  mid.end < live[pos + n + i].start
    <3>1. n < Len(after) /\ pos + n + 1 \in DOMAIN live /\ pos + n + i \in DOMAIN live
      BY <1>2, <1>5, <1>6, <1>9, <2>2
    <3>2. after[n + 1] = live[pos + n + 1]
      BY <1>5, <1>6, <3>1, <2>2
    <3>3. mid.end < live[pos + n + 1].start
      BY <1>2, <1>6, <1>8, <1>10, <3>1, <3>2 DEF Reaches
    <3>4. live[pos + n + 1].start <= live[pos + n + i].start
      <4>1. CASE i = 1
        BY <1>2, <3>1, <4>1
      <4>2. CASE i # 1
        <5>1. pos + n + 1 < pos + n + i
          BY <2>2, <4>2
        <5>2. /\ live[pos + n + 1].end < live[pos + n + i].start
              /\ live[pos + n + 1].start <= live[pos + n + 1].end
          BY <2>1, <3>1, <5>1 DEF SortedAndDisjoint
        <5> QED
          BY <1>2, <3>1, <5>2
      <4> QED
        BY <4>1, <4>2
    <3> QED
      BY <1>2, <1>8, <1>10, <3>1, <3>3, <3>4
  <2>6. \A i \in DOMAIN result : result[i].start <= result[i].end
    <3> SUFFICES ASSUME NEW i \in DOMAIN result
                 PROVE  result[i].start <= result[i].end
      OBVIOUS
    <3>1. CASE i \in 1..b
      <4>1. i \in DOMAIN live /\ result[i] = live[i]
        BY <1>2, <1>3, <1>13, <2>2, <3>1
      <4> QED
        BY <2>1, <4>1 DEF SortedAndDisjoint
    <3>2. CASE i = b + 1
      BY <1>13, <2>4, <3>2
    <3>3. CASE i > b + 1
      <4>1. PICK k \in 1..Len(rest) : i = b + 1 + k
        <5>1. i - (b + 1) \in 1..Len(rest) /\ i = b + 1 + (i - (b + 1))
          BY <1>13, <2>2, <3>3
        <5> QED BY <5>1
      <4>2. pos + n + k \in DOMAIN live
        BY <1>2, <2>2
      <4> QED
        BY <1>13, <2>1, <4>1, <4>2 DEF SortedAndDisjoint
    <3> QED
      BY <1>13, <2>2, <3>1, <3>2, <3>3
  <2>7. \A i, j \in DOMAIN result : i < j => result[i].end < result[j].start
    <3> SUFFICES ASSUME NEW i \in DOMAIN result, NEW j \in DOMAIN result, i < j
                 PROVE  result[i].end < result[j].start
      OBVIOUS
    <3>1. /\ \A k \in 1..b : k \in DOMAIN live /\ k < pos + n + 1
          /\ \A k \in 1..Len(rest) : pos + n + k \in DOMAIN live
      BY <1>2, <1>3, <2>2
    <3>2. \A k \in DOMAIN result : k > b + 1 => k - (b + 1) \in 1..Len(rest)
      BY <1>13, <2>2
    <3>3. \A k \in DOMAIN result : k > b + 1 => result[k] = live[pos + n + (k - (b + 1))]
      <4> SUFFICES ASSUME NEW k \in DOMAIN result, k > b + 1
                   PROVE  result[k] = live[pos + n + (k - (b + 1))]
        OBVIOUS
      <4>1. k = b + 1 + (k - (b + 1))
        BY <1>13, <2>2
      <4> QED
        BY <1>13, <3>2, <4>1
    <3>4. CASE j \in 1..b
      BY <1>2, <1>13, <2>1, <2>2, <3>1, <3>4 DEF SortedAndDisjoint
    <3>5. CASE j = b + 1
      <4>1. i \in 1..b
        BY <1>13, <2>2, <3>5
      <4>2. result[i] = live[i] /\ result[j] = mid
        BY <1>13, <3>5, <4>1
      <4> QED
        BY <2>3, <4>1, <4>2
    <3>6. CASE j > b + 1
      <4> DEFINE l == j - (b + 1)
      <4>1. l \in 1..Len(rest) /\ result[j] = live[pos + n + l]
        BY <3>2, <3>3, <3>6
      <4>2. CASE i \in 1..b
        <5>1. i < pos + n + l
          BY <2>2, <3>1, <4>1, <4>2
        <5> HIDE DEF l
        <5> QED
          BY <1>13, <2>1, <3>1, <4>1, <4>2, <5>1 DEF SortedAndDisjoint
      <4>3. CASE i = b + 1
        <5> HIDE DEF l
        <5> QED BY <1>13, <2>5, <4>1, <4>3
      <4>4. CASE i > b + 1
        <5> DEFINE k == i - (b + 1)
        <5>1. k \in 1..Len(rest) /\ result[i] = live[pos + n + k]
          BY <3>2, <3>3, <4>4
        <5>2. pos + n + k < pos + n + l
          BY <1>13, <2>2
        <5> HIDE DEF k, l
        <5> QED
          BY <2>1, <3>1, <4>1, <5>1, <5>2 DEF SortedAndDisjoint
      <4> QED
        BY <1>13, <2>2, <4>2, <4>3, <4>4
    <3> QED
      BY <1>13, <2>2, <3>4, <3>5, <3>6
  <2> QED
    BY <2>6, <2>7 DEF SortedAndDisjoint
<1>16. \A ts \in Nat : Covered(live, ts) => Covered(list, ts)
  BY PruneProperties
<1>17. \A ts \in Nat : ts >= start /\ Covered(list, ts) => Covered(live, ts)
  BY PruneProperties
<1>18. from <= start
  <2> HIDE DEF live, pos
  <2> QED BY <1>2
<1>19. b + 1 \in DOMAIN result
  <2>1. Len(rest) \in Nat
    BY <1>9, LenProperties
  <2>2. b \in Nat
    <3> HIDE DEF live, pos, b
    <3> QED BY <1>2, <1>3
  <2> HIDE DEF result, rest, live, b, pos, n, after, from, own, reach, before, mid
  <2>3. DOMAIN result = 1..(b + 1 + Len(rest))
    BY <1>13
  <2> QED
    BY <2>1, <2>2, <2>3
\* The window is covered, by the new range.
<1>20. ASSUME NEW ts \in start..end
       PROVE  Covered(result, ts)
  <2> HIDE DEF result, rest, live, b, pos, n, after, from, own, reach, before, mid
  <2>1. mid.start <= ts /\ ts <= mid.end
    BY <1>7, <1>8, <1>10, <1>18
  <2> QED
    BY <1>13, <1>19, <2>1 DEF Covered
\* So is what was covered.
<1>21. ASSUME SortedAndDisjoint(list), NEW ts \in Nat, Covered(live, ts)
       PROVE  Covered(result, ts)
  <2> HIDE DEF result, rest, live, b, pos, n, after, from, own, reach, before, mid
  <2>1. SortedAndDisjoint(live)
    BY <1>1, <1>21
  <2>2. /\ b \in Nat /\ pos \in Nat /\ n \in Nat /\ Len(rest) \in Nat
        /\ Len(live) = pos + n + Len(rest)
    <3>1. Len(rest) \in Nat
      BY ONLY <1>9, LenProperties
    <3>2. pos \in Nat /\ b \in Nat
      BY ONLY <1>2, <1>3
    <3>3. n \in Nat
      BY ONLY <1>5, <1>6, LenProperties
    <3>4. Len(live) = pos + n + Len(rest)
      BY <1>2, <1>5, <1>6, <1>9, <3>1, <3>2, <3>3
    <3> QED BY ONLY <3>1, <3>2, <3>3, <3>4
  <2>3. PICK i \in DOMAIN live : live[i].start <= ts /\ ts <= live[i].end
    BY <1>21 DEF Covered
  <2>8. i \in 1..Len(live) /\ live[i].start \in Nat /\ live[i].end \in Nat
    BY <1>2, <2>3
  <2>4. CASE i <= b
    <3>1. i \in DOMAIN result /\ result[i] = live[i]
      BY <1>2, <1>13, <2>2, <2>4
    <3> QED
      BY <2>3, <3>1 DEF Covered
  <2>5. CASE i > b /\ i <= pos
    <3>1. joins /\ i = pos
      BY <1>2, <1>3, <2>2, <2>5
    <3>2. mid.start <= ts /\ ts <= mid.end
      BY <1>2, <1>7, <1>8, <1>10, <2>3, <3>1 DEF from
    <3> QED
      BY <1>13, <1>19, <3>2 DEF Covered
  <2>6. CASE i > pos /\ i <= pos + n
    <3>1. n \in 1..Len(after) /\ pos + n \in DOMAIN live
      BY <1>2, <1>5, <1>6, <2>2, <2>6, <2>8
    <3>0. live[pos + n].start \in Nat /\ live[pos + n].end \in Nat
      BY <1>2, <3>1
    <3>2. after[n] = live[pos + n]
      BY <1>5, <3>1
    <3>3. live[i].end <= live[pos + n].end
      <4>1. CASE i = pos + n
        BY <2>8, <4>1
      <4>2. CASE i < pos + n
        <5>1. live[i].end < live[pos + n].start /\ live[pos + n].start <= live[pos + n].end
          BY <2>1, <3>1, <4>2 DEF SortedAndDisjoint
        <5> QED
          BY <2>8, <3>0, <5>1
      <4> QED
        BY <2>2, <2>6, <2>8, <4>1, <4>2
    <3>4. ts <= mid.end
      <4>1. reach(n) = Larger(own, live[pos + n].end)
        BY <3>1, <3>2 DEF reach
      <4> QED
        BY <1>7, <1>10, <2>3, <2>8, <3>0, <3>3, <4>1 DEF Larger
    <3>5. mid.start <= ts
      <4>1. CASE joins
        <5>1. pos \in DOMAIN live /\ pos < i
          BY <1>2, <2>6, <2>2, <4>1
        <5>2. live[pos].start <= live[pos].end /\ live[pos].end < live[i].start
          BY <2>1, <5>1 DEF SortedAndDisjoint
        <5> QED
          BY <1>2, <1>10, <2>3, <4>1, <5>1, <5>2 DEF from
      <4>2. CASE ~joins
        <5>1. start <= live[i].start
          <6>1. pos + 1 \in DOMAIN live /\ start <= live[pos + 1].start
            BY <1>2, <2>2, <2>6
          <6>2. CASE i = pos + 1
            BY <6>1, <6>2
          <6>3. CASE i > pos + 1
            <7>1. live[pos + 1].start <= live[pos + 1].end /\ live[pos + 1].end < live[i].start
              BY <2>1, <6>1, <6>3 DEF SortedAndDisjoint
            <7> QED
              BY <1>2, <6>1, <7>1
          <6> QED
            BY <1>2, <2>2, <2>6, <6>2, <6>3
        <5> QED
          BY <1>2, <1>10, <2>3, <4>2, <5>1 DEF from
      <4> QED
        BY <4>1, <4>2
    <3> QED
      BY <1>13, <1>19, <3>4, <3>5 DEF Covered
  <2>7. CASE i > pos + n
    <3> DEFINE l == i - (pos + n)
    <3>1. l \in 1..Len(rest) /\ pos + n + l = i
      BY <2>2, <2>7, <2>8
    <3> HIDE DEF l
    <3>2. b + 1 + l \in DOMAIN result
      BY <1>13, <2>2, <3>1
    <3>3. result[b + 1 + l] = live[i]
      BY <1>13, <3>1
    <3> QED
      BY <2>3, <3>2, <3>3 DEF Covered
  <2> QED
    BY <2>2, <2>4, <2>5, <2>6, <2>7, <2>8
\* And nothing else is: the ranges that were joined left no gap between them.
<1>22. ASSUME SortedAndDisjoint(list), NEW ts \in Nat, Covered(result, ts)
       PROVE  ts \in start..end \/ Covered(live, ts)
  <2> HIDE DEF result, rest, live, b, pos, n, after, from, own, reach, before, mid
  <2>2. /\ b \in Nat /\ pos \in Nat /\ n \in Nat /\ Len(rest) \in Nat
        /\ Len(live) = pos + n + Len(rest)
    <3>1. Len(rest) \in Nat
      BY ONLY <1>9, LenProperties
    <3>2. pos \in Nat /\ b \in Nat
      BY ONLY <1>2, <1>3
    <3>3. n \in Nat
      BY ONLY <1>5, <1>6, LenProperties
    <3>4. Len(live) = pos + n + Len(rest)
      BY <1>2, <1>5, <1>6, <1>9, <3>1, <3>2, <3>3
    <3> QED BY ONLY <3>1, <3>2, <3>3, <3>4
  <2>3. PICK i \in DOMAIN result : result[i].start <= ts /\ ts <= result[i].end
    BY <1>22 DEF Covered
  <2>4. CASE i <= b
    <3>1. i \in DOMAIN live /\ result[i] = live[i]
      BY <1>2, <1>3, <1>13, <2>2, <2>4
    <3> QED
      BY <2>3, <3>1 DEF Covered
  <2>5. CASE i > b + 1
    <3> DEFINE l == i - (b + 1)
    <3>1. l \in 1..Len(rest) /\ b + 1 + l = i /\ pos + n + l \in DOMAIN live
      BY <1>2, <1>13, <2>2, <2>5
    <3> HIDE DEF l
    <3>2. result[i] = live[pos + n + l]
      BY <1>13, <3>1
    <3> QED
      BY <2>3, <3>1, <3>2 DEF Covered
  <2>6. CASE i = b + 1
    <3>1. from <= ts /\ ts <= reach(n)
      BY <1>10, <1>13, <2>3, <2>6
    <3> DEFINE far == {k \in 0..n : ts <= reach(k)}
    <3>2. PICK k \in far : \A j \in far : k <= j
      <4>1. far \in SUBSET Nat /\ n \in far
        BY <2>2, <3>1
      <4> HIDE DEF far
      <4> QED BY <4>1, NatMinimum
    <3>3. k \in 0..n /\ ts <= reach(k)
      BY <3>2
    <3>4. CASE k = 0
      <4>1. ts <= own
        BY <3>3, <3>4 DEF reach
      <4>2. CASE joins
        <5>1. pos \in DOMAIN live
          BY <1>2, <4>2
        <5>2. CASE ts <= live[pos].end
          BY <3>1, <4>2, <5>1, <5>2 DEF Covered, from
        <5>3. CASE ts > live[pos].end
          BY <1>2, <4>1, <4>2, <5>1, <5>3 DEF own, Larger
        <5> QED
          BY <1>2, <5>1, <5>2, <5>3
      <4>3. CASE ~joins
        BY <3>1, <4>1, <4>3 DEF from, own
      <4> QED
        BY <4>2, <4>3
    <3>5. CASE k # 0
      <4>1. k \in 1..n /\ k \in 1..Len(after) /\ k - 1 \in 0..n /\ k - 1 < k /\ pos + k \in DOMAIN live
        BY <1>2, <1>5, <1>6, <2>2, <3>3, <3>5
      <4>2. ~(ts <= reach(k - 1))
        BY <3>2, <4>1
      <4>3. after[k] = live[pos + k] /\ after[k].start \in Nat /\ after[k].end \in Nat
        BY <1>2, <1>5, <4>1
      <4>4. reach(k - 1) \in Nat /\ reach(k - 1) >= own
        <5>1. k - 1 # 0 => after[k - 1].end \in Nat
          <6>1. k - 1 # 0 => k - 1 \in 1..Len(after) /\ pos + (k - 1) \in 1..Len(live)
            BY <1>2, <1>5, <2>2, <4>1
          <6> QED
            BY <1>2, <1>5, <6>1
        <5> QED
          BY <1>7, <5>1 DEF reach, Larger
      <4>5. after[k].start <= reach(k - 1)
        BY <1>6, <4>1, <4>3, <4>4 DEF Reaches
      <4>6. reach(k) = Larger(own, after[k].end)
        BY <3>5 DEF reach
      <4>7. after[k].start <= ts /\ ts <= after[k].end
        BY <1>7, <3>3, <4>2, <4>3, <4>4, <4>5, <4>6 DEF Larger
      <4> QED
        BY <4>1, <4>3, <4>7 DEF Covered
    <3> QED
      BY <3>4, <3>5
  <2> QED
    BY <1>13, <2>2, <2>4, <2>5, <2>6
<1> QED
  <2> HIDE DEF result, live
  <2> QED BY <1>13, <1>14, <1>15, <1>16, <1>17, <1>20, <1>21, <1>22

(***************************************************************************)
(* BlockRangeEndAtLocked stops at the first range that starts after the    *)
(* timestamp (445-466).  On a list in order that is right: it finds a      *)
(* range exactly when some range of the list holds the timestamp.          *)
(***************************************************************************)
THEOREM EarlyExitIsRight ==
    ASSUME NEW list \in Seq(BlockRange), SortedAndDisjoint(list), NEW ts \in Nat
    PROVE  TimeInBlockedRange(list, ts) <=> Covered(list, ts)
<1>1. DOMAIN list = 1..Len(list) /\ Len(list) \in Nat
  BY LenProperties
<1>2. \A i \in DOMAIN list : list[i].start \in Nat /\ list[i].end \in Nat
  <2>1. \A i \in DOMAIN list : list[i] \in BlockRange
    BY <1>1, ElementOfSeq
  <2> QED
    BY <2>1 DEF BlockRange
<1>3. ASSUME TimeInBlockedRange(list, ts)
      PROVE  Covered(list, ts)
  <2>1. PICK i \in DOMAIN list : /\ ts <= list[i].end
                                   /\ \A j \in 1..i : ts >= list[j].start
    BY <1>3 DEF TimeInBlockedRange, Holding
  <2>2. i \in 1..i
    BY <1>1
  <2> QED
    BY <1>2, <2>1, <2>2 DEF Covered
<1>4. ASSUME Covered(list, ts)
      PROVE  TimeInBlockedRange(list, ts)
  <2>1. PICK i \in DOMAIN list : list[i].start <= ts /\ ts <= list[i].end
    BY <1>4 DEF Covered
  <2>2. ASSUME NEW j \in 1..(i - 1)
        PROVE  ts > list[j].end /\ ts >= list[j].start
    <3>1. j \in DOMAIN list /\ j < i
      BY <1>1
    <3>2. list[j].end < list[i].start /\ list[j].start <= list[j].end
      BY <3>1 DEF SortedAndDisjoint
    <3> QED
      BY <1>2, <2>1, <3>1, <3>2
  <2>3. \A j \in 1..i : j = i \/ j \in 1..(i - 1)
    BY <1>1
  <2>4. \A j \in 1..i : ts >= list[j].start
    BY <1>2, <2>1, <2>2, <2>3
  <2>5. i \in Holding(list, ts)
    BY <2>1, <2>2, <2>4 DEF Holding
  <2> QED
    BY <2>5 DEF TimeInBlockedRange
<1> QED
  BY <1>3, <1>4

\* The end of the range that holds a timestamp is a time.
LEMMA BlockRangeEndIsTime ==
    ASSUME NEW list \in Seq(BlockRange), NEW ts \in Nat, TimeInBlockedRange(list, ts)
    PROVE  BlockRangeEndAt(list, ts) \in Nat
<1>1. (CHOOSE i \in Holding(list, ts) : TRUE) \in Holding(list, ts)
  BY DEF TimeInBlockedRange
<1>2. (CHOOSE i \in Holding(list, ts) : TRUE) \in DOMAIN list
  BY <1>1 DEF Holding
<1>3. \A i \in DOMAIN list : list[i] \in BlockRange
  BY ElementOfSeq, LenProperties
<1>4. BlockRangeEndAt(list, ts) = list[CHOOSE i \in Holding(list, ts) : TRUE].end
  BY DEF BlockRangeEndAt
<1> QED
  BY <1>2, <1>3, <1>4 DEF BlockRange

(***************************************************************************)
(* RegisterPositiveDetection (732-769): the ranges stay in order, cover    *)
(* the detection's window and what they covered from its start on, and     *)
(* cover nothing else.                                                     *)
(***************************************************************************)
THEOREM DetectionWindow ==
    ASSUME NEW list \in Seq(BlockRange), SortedAndDisjoint(list),
           NEW ts \in Nat, NEW padding \in Nat
    PROVE  LET updated == RangesAfterDetection(list, ts, padding)
               window  == WindowStart(ts, padding)..WindowEnd(ts, padding)
           IN  /\ updated \in Seq(BlockRange)
               /\ SortedAndDisjoint(updated)
               /\ ts \in window
               /\ \A t \in window : TimeInBlockedRange(updated, t)
               /\ \A t \in Nat : t >= WindowStart(ts, padding) /\ TimeInBlockedRange(list, t)
                                    => TimeInBlockedRange(updated, t)
               /\ \A t \in Nat : TimeInBlockedRange(updated, t)
                                    => t \in window \/ TimeInBlockedRange(list, t)
<1> DEFINE start == WindowStart(ts, padding)
           end   == WindowEnd(ts, padding)
           updated == ApplyBlockWindow(list, start, end)
<1>1. start \in Nat /\ end \in Nat /\ start <= end /\ ts \in start..end
  BY DEF WindowStart, WindowEnd
<1>2. updated = RangesAfterDetection(list, ts, padding)
  BY DEF RangesAfterDetection
<1>3. /\ updated \in Seq(BlockRange)
      /\ SortedAndDisjoint(updated)
      /\ \A t \in start..end : Covered(updated, t)
      /\ \A t \in Nat : t >= start /\ Covered(list, t) => Covered(updated, t)
      /\ \A t \in Nat : Covered(updated, t) => t \in start..end \/ Covered(list, t)
  <2> HIDE DEF start, end
  <2> QED BY <1>1, ApplyBlockWindowProperties
<1>4. \A t \in start..end : t \in Nat
  <2> HIDE DEF start, end
  <2> QED BY <1>1
<1> HIDE DEF start, end, updated
<1>5. \A t \in Nat : /\ TimeInBlockedRange(updated, t) <=> Covered(updated, t)
                     /\ TimeInBlockedRange(list, t) <=> Covered(list, t)
  BY <1>3, EarlyExitIsRight
<1>6. /\ updated \in Seq(BlockRange)
      /\ SortedAndDisjoint(updated)
      /\ ts \in start..end
      /\ \A t \in start..end : TimeInBlockedRange(updated, t)
      /\ \A t \in Nat : t >= start /\ TimeInBlockedRange(list, t)
                           => TimeInBlockedRange(updated, t)
      /\ \A t \in Nat : TimeInBlockedRange(updated, t)
                           => t \in start..end \/ TimeInBlockedRange(list, t)
  BY <1>1, <1>3, <1>4, <1>5
<1> QED
  BY <1>2, <1>6 DEF start, end

\* The renewal deadline is a time after a detection.
LEMMA RenewalAfterDetectionIsTime ==
    ASSUME NEW list, NEW before \in Nat, NEW ts, NEW padding
    PROVE  RenewalAfterDetection(list, before, ts, padding) \in Nat
BY DEF RenewalAfterDetection

\* And after a frame was considered for analysis.
LEMMA RenewalAfterScheduleIsTime ==
    ASSUME NEW list \in Seq(BlockRange), NEW before \in Nat, NEW seq, NEW ts \in Nat,
           NEW stride, NEW lead
    PROVE  RenewalAfterSchedule(list, before, seq, ts, stride, lead) \in Nat
BY BlockRangeEndIsTime DEF RenewalAfterSchedule

\* What a detection leaves behind is again a list of ranges, in order or not.
LEMMA RangesAfterDetectionAreRanges ==
    ASSUME NEW list \in Seq(BlockRange), NEW ts \in Nat, NEW padding \in Nat
    PROVE  RangesAfterDetection(list, ts, padding) \in Seq(BlockRange)
<1>1. /\ WindowStart(ts, padding) \in Nat /\ WindowEnd(ts, padding) \in Nat
      /\ WindowStart(ts, padding) <= WindowEnd(ts, padding)
  BY DEF WindowStart, WindowEnd
<1> QED
  BY <1>1, ApplyBlockWindowProperties DEF RangesAfterDetection
-----------------------------------------------------------------------------
(***************************************************************************)
(* What the operations of FrameQueue do to the ring, slot by slot: the     *)
(* lemmas that let the other proofs speak of occupied slots and of the     *)
(* order of the pictures, and not of the ring's arithmetic.                *)
(***************************************************************************)

(***************************************************************************)
(* QueueIndex (431-434) for an offset within the ring: the remainder is at *)
(* most one subtraction.                                                   *)
(***************************************************************************)
LEMMA IndexValue ==
    ASSUME NEW q \in QueueType, NEW k \in 0..(MaxBufferFrames - 1)
    PROVE  /\ QueueIndex(q, k) = IF q.head + k < MaxBufferFrames THEN q.head + k
                                 ELSE q.head + k - MaxBufferFrames
           /\ QueueIndex(q, k) \in SlotIndex
<1> DEFINE M == MaxBufferFrames
           x == q.head + k
<1>1. M \in Nat /\ M > 0 /\ x \in Nat /\ x < 2 * M
  BY MaxBufferAssumption DEF QueueType, SlotIndex
<1>2. QueueIndex(q, k) = x % M
  BY DEF QueueIndex
<1>3. q.head \in Nat /\ q.head < M
  BY MaxBufferAssumption DEF QueueType, SlotIndex
<1> HIDE DEF M, x
<1>4. /\ QueueIndex(q, k) = IF x < M THEN x ELSE x - M
      /\ QueueIndex(q, k) \in 0..(M - 1)
  <2>1. CASE x < M
    <3>1. x % M = x
      BY <1>1, <2>1
    <3> QED
      BY <1>1, <1>2, <2>1, <3>1
  <2>2. CASE x >= M
    <3>1. x % M = x - M
      BY <1>1, <2>2
    <3>2. x - M \in 0..(M - 1) /\ ~(x < M)
      BY <1>1, <2>2
    <3> QED
      BY <1>2, <3>1, <3>2
  <2> QED
    BY <1>1, <2>1, <2>2
<1>5. x - M = q.head + k - MaxBufferFrames
  BY <1>1, <1>3 DEF x, M
<1> QED
  BY <1>4, <1>5 DEF x, M, SlotIndex

\* Two offsets within the ring have two slots.
LEMMA IndexInjective ==
    ASSUME NEW q \in QueueType,
           NEW j \in 0..(MaxBufferFrames - 1), NEW k \in 0..(MaxBufferFrames - 1),
           QueueIndex(q, j) = QueueIndex(q, k)
    PROVE  j = k
<1>1. q.head \in Nat /\ MaxBufferFrames \in Nat
  BY MaxBufferAssumption DEF QueueType, SlotIndex
<1> QED
  BY <1>1, IndexValue

(***************************************************************************)
(* GetFrameSlotLocked hands out slots of the ring, and the oldest frame is *)
(* in the slot at the head.                                                *)
(***************************************************************************)
LEMMA OccupiedSlots ==
    ASSUME NEW q \in QueueType
    PROVE  /\ Occupied(q) \subseteq SlotIndex
           /\ \A k \in 0..(q.count - 1) : /\ k \in 0..(MaxBufferFrames - 1)
                                          /\ QueueIndex(q, k) \in Occupied(q)
           /\ QueueIndex(q, 0) = q.head
           /\ q.count > 0 => q.head \in Occupied(q)
<1>1. MaxBufferFrames \in Nat /\ MaxBufferFrames > 0 /\ q.count \in 0..MaxBufferFrames
  BY MaxBufferAssumption DEF QueueType
<1>2. \A k \in 0..(q.count - 1) : k \in 0..(MaxBufferFrames - 1)
  BY <1>1
<1>3. Occupied(q) \subseteq SlotIndex
  BY <1>2, IndexValue DEF Occupied
<1>4. \A k \in 0..(q.count - 1) : QueueIndex(q, k) \in Occupied(q)
  BY DEF Occupied
<1>5. QueueIndex(q, 0) = q.head
  <2>1. q.head \in Nat /\ q.head < MaxBufferFrames /\ 0 \in 0..(MaxBufferFrames - 1)
    BY <1>1 DEF QueueType, SlotIndex
  <2> QED
    BY <1>1, <2>1, IndexValue
<1>6. q.count > 0 => 0 \in 0..(q.count - 1)
  BY <1>1
<1> QED
  BY <1>2, <1>3, <1>4, <1>5, <1>6

(***************************************************************************)
(* TakeReadyOutputLocked (688-711) empties the slot at the head and leaves *)
(* the others, which move one offset down.                                 *)
(***************************************************************************)
LEMMA TakeOldestEffect ==
    ASSUME NEW q \in QueueType, q.count > 0
    PROVE  /\ TakeOldest(q) \in QueueType
           /\ TakeOldest(q).count = q.count - 1
           /\ Occupied(TakeOldest(q)) = Occupied(q) \ {q.head}
           /\ TakeOldest(q).slots[q.head] = EmptySlot
           /\ \A i \in SlotIndex \ {q.head} : TakeOldest(q).slots[i] = q.slots[i]
           /\ \A k \in 0..(TakeOldest(q).count - 1) :
                  QueueIndex(TakeOldest(q), k) = QueueIndex(q, k + 1)
<1> DEFINE r == TakeOldest(q)
<1>1. /\ MaxBufferFrames \in Nat /\ MaxBufferFrames > 0
      /\ q.count \in 0..MaxBufferFrames /\ q.count \in Nat
      /\ q.head \in 0..(MaxBufferFrames - 1)
      /\ q.slots \in [SlotIndex -> Slot]
  BY MaxBufferAssumption DEF QueueType, SlotIndex
<1>2. EmptySlot \in Slot
  BY DEF EmptySlot, Slot
<1>3. /\ r.count = q.count - 1
      /\ r.slots = [q.slots EXCEPT ![q.head] = EmptySlot]
      /\ r.head = IF q.count = 1 THEN 0 ELSE (q.head + 1) % MaxBufferFrames
      /\ r = [slots |-> r.slots, head |-> r.head, count |-> r.count]
  BY DEF TakeOldest
<1>4. /\ q.head + 1 < MaxBufferFrames => (q.head + 1) % MaxBufferFrames = q.head + 1
      /\ q.head + 1 = MaxBufferFrames => (q.head + 1) % MaxBufferFrames = 0
  <2>1. q.head + 1 < MaxBufferFrames => (q.head + 1) % MaxBufferFrames = q.head + 1
    BY <1>1
  <2>2. q.head + 1 = MaxBufferFrames => (q.head + 1) % MaxBufferFrames = 0
    BY <1>1
  <2> QED
    BY <2>1, <2>2
<1>5. r \in QueueType
  <2>1. r.head \in SlotIndex
    BY <1>1, <1>3, <1>4 DEF SlotIndex
  <2>2. r.slots \in [SlotIndex -> Slot]
    BY <1>1, <1>2, <1>3
  <2>3. r.count \in 0..MaxBufferFrames
    BY <1>1, <1>3
  <2> HIDE DEF r
  <2> QED
    BY <1>3, <2>1, <2>2, <2>3 DEF QueueType
<1>6. /\ r.slots[q.head] = EmptySlot
      /\ \A i \in SlotIndex \ {q.head} : r.slots[i] = q.slots[i]
  BY <1>1, <1>3 DEF SlotIndex
<1> HIDE DEF r
<1>7. ASSUME NEW k \in 0..(r.count - 1)
      PROVE  QueueIndex(r, k) = QueueIndex(q, k + 1)
  <2>1. k \in 0..(MaxBufferFrames - 1) /\ k + 1 \in 0..(MaxBufferFrames - 1) /\ q.count # 1
    BY <1>1, <1>3
  <2>2. /\ QueueIndex(r, k) = IF r.head + k < MaxBufferFrames THEN r.head + k
                              ELSE r.head + k - MaxBufferFrames
        /\ QueueIndex(q, k + 1) = IF q.head + (k + 1) < MaxBufferFrames THEN q.head + (k + 1)
                                  ELSE q.head + (k + 1) - MaxBufferFrames
    BY <1>5, <2>1, IndexValue
  <2>3. r.head = IF q.head + 1 < MaxBufferFrames THEN q.head + 1 ELSE 0
    BY <1>1, <1>3, <1>4, <2>1
  <2> QED
    BY <1>1, <2>1, <2>2, <2>3
<1>8. Occupied(r) = Occupied(q) \ {q.head}
  <2>1. QueueIndex(q, 0) = q.head
    BY OccupiedSlots
  <2>2. ASSUME NEW k \in 0..(r.count - 1)
        PROVE  QueueIndex(r, k) \in Occupied(q) \ {q.head}
    <3>1. k + 1 \in 0..(q.count - 1) /\ k + 1 # 0
      BY <1>1, <1>3
    <3>2. QueueIndex(q, k + 1) \in Occupied(q)
      BY <3>1, OccupiedSlots
    <3>3. k + 1 \in 0..(MaxBufferFrames - 1) /\ 0 \in 0..(MaxBufferFrames - 1)
      BY <1>1, <3>1
    <3>4. QueueIndex(q, k + 1) # q.head
      BY <2>1, <3>1, <3>3, IndexInjective
    <3> QED
      BY <1>7, <3>2, <3>4
  <2>3. ASSUME NEW k \in 0..(q.count - 1), QueueIndex(q, k) # q.head
        PROVE  QueueIndex(q, k) \in Occupied(r)
    <3>1. k - 1 \in 0..(r.count - 1) /\ (k - 1) + 1 = k
      BY <1>1, <1>3, <2>1, <2>3
    <3>2. QueueIndex(r, k - 1) = QueueIndex(q, k)
      BY <1>7, <3>1
    <3> QED
      BY <3>1, <3>2 DEF Occupied
  <2> QED
    BY <2>2, <2>3 DEF Occupied
<1> QED
  BY <1>3, <1>5, <1>6, <1>7, <1>8 DEF r

(***************************************************************************)
(* QueuePictureLocked (550-570), on a queue that is not full, fills a slot *)
(* that was free and comes last.                                           *)
(***************************************************************************)
LEMMA QueuePictureEffect ==
    ASSUME NEW q \in QueueType, ~Full(q),
           NEW p \in Pictures, NEW ts \in Nat,
           NEW analyze, analyze \in BOOLEAN, NEW blocked, blocked \in BOOLEAN
    PROVE  LET r == QueuePicture(q, p, ts, analyze, blocked)
               i == QueueIndex(q, q.count)
           IN  /\ r \in QueueType
               /\ r.head = q.head /\ r.count = q.count + 1
               /\ i \in SlotIndex /\ i \notin Occupied(q)
               /\ Occupied(r) = Occupied(q) \cup {i}
               /\ \A j \in SlotIndex \ {i} : r.slots[j] = q.slots[j]
               /\ r.slots[i].picture = p
               /\ r.slots[i].ts = ts
               /\ r.slots[i].analyze = analyze
               /\ ~r.slots[i].processing
               /\ ~r.slots[i].ready
               /\ r.slots[i].blocked = blocked
               /\ ~r.slots[i].nsfw
               /\ \A k \in 0..q.count : QueueIndex(r, k) = QueueIndex(q, k)
<1> DEFINE r == QueuePicture(q, p, ts, analyze, blocked)
           i == QueueIndex(q, q.count)
           slot == [picture |-> p, ts |-> ts, analyze |-> analyze,
                    processing |-> FALSE, ready |-> FALSE,
                    blocked |-> blocked, nsfw |-> FALSE]
<1>1. /\ MaxBufferFrames \in Nat
      /\ q.count \in 0..(MaxBufferFrames - 1)
      /\ q.head \in SlotIndex
      /\ q.slots \in [SlotIndex -> Slot]
      /\ q = [slots |-> q.slots, head |-> q.head, count |-> q.count]
  BY MaxBufferAssumption DEF QueueType, Full
<1>2. i \in SlotIndex
  BY <1>1, IndexValue
<1>3. slot \in Slot
  BY DEF Slot
<1>4. /\ r.slots = [q.slots EXCEPT ![i] = slot]
      /\ r.head = q.head
      /\ r.count = q.count + 1
      /\ r = [slots |-> r.slots, head |-> r.head, count |-> r.count]
  BY <1>1 DEF QueuePicture
<1> HIDE DEF r, slot
<1>5. r \in QueueType
  <2>1. r.slots \in [SlotIndex -> Slot]
    BY <1>1, <1>2, <1>3, <1>4
  <2>2. r.count \in 0..MaxBufferFrames
    BY <1>1, <1>4
  <2> HIDE DEF i
  <2> QED
    BY <1>1, <1>4, <2>1, <2>2 DEF QueueType
<1>6. i \notin Occupied(q)
  <2> SUFFICES ASSUME NEW k \in 0..(q.count - 1), QueueIndex(q, k) = QueueIndex(q, q.count)
               PROVE  FALSE
    BY DEF Occupied
  <2>1. k \in 0..(MaxBufferFrames - 1) /\ k # q.count
    BY <1>1
  <2> QED
    BY <1>1, <2>1, IndexInjective
<1>7. \A k \in 0..q.count : QueueIndex(r, k) = QueueIndex(q, k)
  BY <1>4 DEF QueueIndex
<1>8. Occupied(r) = Occupied(q) \cup {i}
  <2>1. 0..(r.count - 1) = 0..q.count /\ 0..q.count = (0..(q.count - 1)) \cup {q.count}
    BY <1>1, <1>4
  <2> QED
    BY <1>7, <2>1 DEF Occupied
<1>9. r.slots[i] = slot /\ \A j \in SlotIndex \ {i} : r.slots[j] = q.slots[j]
  <2> HIDE DEF i
  <2> QED BY <1>1, <1>2, <1>4
<1> QED
  BY <1>2, <1>4, <1>5, <1>6, <1>7, <1>8, <1>9 DEF r, slot

(***************************************************************************)
(* Writing to slots moves none: what is occupied, and at which offset,     *)
(* depends on the head and the count alone.                                *)
(***************************************************************************)
LEMMA SlotWritesKeepOrder ==
    ASSUME NEW q, NEW r, r.head = q.head, r.count = q.count
    PROVE  /\ Occupied(r) = Occupied(q)
           /\ \A k : QueueIndex(r, k) = QueueIndex(q, k)
BY DEF Occupied, QueueIndex

(***************************************************************************)
(* EnsureQueuedFramesInWindowLocked (605-623) changes nothing but the      *)
(* blocked flag of the queued frames in the window.                        *)
(***************************************************************************)
LEMMA EnsureEffect ==
    ASSUME NEW q \in QueueType, NEW start \in Nat, NEW end \in Nat
    PROVE  LET r == EnsureQueuedFramesInWindow(q, start, end)
           IN  /\ r \in QueueType
               /\ r.head = q.head /\ r.count = q.count
               /\ \A i \in SlotIndex :
                    /\ r.slots[i].picture = q.slots[i].picture
                    /\ r.slots[i].ts = q.slots[i].ts
                    /\ r.slots[i].analyze = q.slots[i].analyze
                    /\ r.slots[i].processing = q.slots[i].processing
                    /\ r.slots[i].ready = q.slots[i].ready
                    /\ r.slots[i].nsfw = q.slots[i].nsfw
                    /\ r.slots[i].blocked <=>
                            \/ q.slots[i].blocked
                            \/ i \in Occupied(q) /\ q.slots[i].ts \in start..end
               /\ \A i \in SlotIndex \ Occupied(q) : r.slots[i] = q.slots[i]
<1> DEFINE r == EnsureQueuedFramesInWindow(q, start, end)
           marked(i) == i \in Occupied(q) /\ q.slots[i].ts \in start..end
           new == [i \in SlotIndex |-> IF marked(i) THEN [q.slots[i] EXCEPT !.blocked = TRUE]
                                                    ELSE q.slots[i]]
<1>1. /\ q.slots \in [SlotIndex -> Slot] /\ q.head \in SlotIndex /\ q.count \in 0..MaxBufferFrames
      /\ q = [slots |-> q.slots, head |-> q.head, count |-> q.count]
  BY DEF QueueType
<1>2. r.slots = new /\ r.head = q.head /\ r.count = q.count
      /\ r = [slots |-> new, head |-> q.head, count |-> q.count]
  BY <1>1 DEF EnsureQueuedFramesInWindow
<1> HIDE DEF r
<1>3. ASSUME NEW i \in SlotIndex
      PROVE  /\ new[i] \in Slot
             /\ new[i].picture = q.slots[i].picture
             /\ new[i].ts = q.slots[i].ts
             /\ new[i].analyze = q.slots[i].analyze
             /\ new[i].processing = q.slots[i].processing
             /\ new[i].ready = q.slots[i].ready
             /\ new[i].nsfw = q.slots[i].nsfw
             /\ new[i].blocked <=> (q.slots[i].blocked \/ marked(i))
             /\ ~marked(i) => new[i] = q.slots[i]
  <2>1. q.slots[i] \in Slot
    BY <1>1
  <2>2. new[i] = IF marked(i) THEN [q.slots[i] EXCEPT !.blocked = TRUE] ELSE q.slots[i]
    OBVIOUS
  <2> HIDE DEF new, marked
  <2>3. CASE marked(i)
    BY <2>1, <2>2, <2>3 DEF Slot
  <2>4. CASE ~marked(i)
    BY <2>1, <2>2, <2>4 DEF Slot
  <2> QED
    BY <2>3, <2>4
<1>4. new \in [SlotIndex -> Slot]
  <2>1. \A i \in SlotIndex : new[i] \in Slot
    BY <1>3
  <2>2. new = [i \in SlotIndex |-> new[i]]
    OBVIOUS
  <2> HIDE DEF new
  <2> QED BY <2>1, <2>2
<1>5. r \in QueueType
  <2> HIDE DEF new
  <2> QED BY <1>1, <1>2, <1>4 DEF QueueType
<1> QED
  BY <1>2, <1>3, <1>5 DEF r
-----------------------------------------------------------------------------

\* The numbers the configuration gives, and what follows from them.
LEMMA Parameters ==
    /\ MaxBufferFrames \in Nat /\ MaxPictures \in Nat /\ Prebuffer \in Nat
    /\ Prebuffer > 0 /\ Prebuffer <= MaxBufferFrames
    /\ PaddingMs \in Nat /\ LeadMs \in Nat
BY MaxBufferAssumption, MaxPicturesAssumption, PrebufferAssumption, StrideAssumption
   DEF PaddingMs, LeadMs

\* The window around a detection is an interval of times.
LEMMA WindowIsTime ==
    ASSUME NEW ts \in Nat
    PROVE  WindowStart(ts, PaddingMs) \in Nat /\ WindowEnd(ts, PaddingMs) \in Nat
BY Parameters DEF WindowStart, WindowEnd

\* Writing a slot into the ring leaves a ring, and the other slots alone.
LEMMA WithSlotEffect ==
    ASSUME NEW q \in QueueType, NEW i \in SlotIndex, NEW slot \in Slot
    PROVE  LET r == WithSlot(q, i, slot)
           IN  /\ r \in QueueType
               /\ r.head = q.head /\ r.count = q.count
               /\ r.slots[i] = slot
               /\ \A j \in SlotIndex \ {i} : r.slots[j] = q.slots[j]
<1> DEFINE r == WithSlot(q, i, slot)
<1>1. /\ q.slots \in [SlotIndex -> Slot] /\ q.head \in SlotIndex
      /\ q.count \in 0..MaxBufferFrames
  BY DEF QueueType
<1>2. /\ r = [slots |-> [q.slots EXCEPT ![i] = slot], head |-> q.head, count |-> q.count]
      /\ r.slots = [q.slots EXCEPT ![i] = slot] /\ r.head = q.head /\ r.count = q.count
  BY DEF WithSlot
<1> HIDE DEF r
<1>3. r.slots \in [SlotIndex -> Slot]
  BY <1>1, <1>2
<1>4. r \in QueueType
  BY <1>1, <1>2, <1>3 DEF QueueType
<1> QED
  BY <1>1, <1>2, <1>4 DEF r

\* The slots of a ring are slots; the fields of a slot have their types.
LEMMA SlotsOfQueue ==
    ASSUME NEW q \in QueueType, NEW i \in SlotIndex
    PROVE  /\ q.slots[i] \in Slot
           /\ q.slots[i].picture \in Pictures \cup {NoPicture}
           /\ q.slots[i].ts \in Nat
           /\ q.slots[i].analyze \in BOOLEAN
           /\ q.slots[i].processing \in BOOLEAN
           /\ q.slots[i].ready \in BOOLEAN
           /\ q.slots[i].blocked \in BOOLEAN
           /\ q.slots[i].nsfw \in BOOLEAN
<1>1. q.slots[i] \in Slot
  BY DEF QueueType
<1> QED
  BY <1>1 DEF Slot

\* What FindNextPendingFrameLocked returns is an occupied, pending slot.
LEMMA NextPendingSlot ==
    ASSUME NEW q \in QueueType, NEW k \in NextPending(q)
    PROVE  /\ QueueIndex(q, k) \in SlotIndex
           /\ QueueIndex(q, k) \in Occupied(q)
           /\ IsPending(q.slots[QueueIndex(q, k)])
<1>1. k \in 0..(q.count - 1) /\ IsPending(q.slots[QueueIndex(q, k)])
  BY DEF NextPending, PendingOffsets
<1> QED
  BY <1>1, OccupiedSlots
-----------------------------------------------------------------------------
(***************************************************************************)
(* What the steps that write to the ring do to it.                         *)
(***************************************************************************)
\* FilterEnqueue's picture, between two calls of the lock, finds room.
Backlog ==
    /\ hostPC \notin {"held", "await"} => queue.count < Prebuffer
    /\ hostPC \in {"held", "await"} => queue.count <= Prebuffer

\* The call's picture is known: it arrived and has not been queued.
CallPending == hostPC = "enqueue" \/ (hostPC \in {"flush", "reset"} /\ resume = "filter")

\* Pictures are numbered from 1, so a pending call's picture is one of them.
CallHasPicture == CallPending => arrived \in Pictures

\* The first layer of the invariant.
Typed == TypeOK /\ Backlog /\ CallHasPicture

\* The picture that is queued, with room for it.
LEMMA EnqueueEffect ==
    ASSUME Typed, FilterEnqueue
    PROVE  LET analyze == ShouldScheduleAnalysis(ranges, renewal, frameCount, inTs,
                                                 Stride, LeadMs)
               blocked == TimeInBlockedRange(ranges, inTs)
           IN  /\ ~Full(queue)
               /\ arrived \in Pictures
               /\ analyze \in BOOLEAN /\ blocked \in BOOLEAN
               /\ queue' = QueuePicture(queue, arrived, inTs, analyze, blocked)
               /\ queue' \in QueueType
               /\ queue'.count = queue.count + 1
               /\ wanted' = [wanted EXCEPT ![arrived] = analyze]
               /\ fate' = [fate EXCEPT ![arrived] = "inside"]
               /\ hostPC' = IF StillBuffering(queue') THEN "idle" ELSE "held"
               /\ UNCHANGED <<outBlocked, rawTimes>>
<1> DEFINE analyze == ShouldScheduleAnalysis(ranges, renewal, frameCount, inTs, Stride, LeadMs)
           blocked == TimeInBlockedRange(ranges, inTs)
<1>1. hostPC = "enqueue"
  BY DEF FilterEnqueue
<1>2. /\ queue \in QueueType /\ queue.count < Prebuffer /\ inTs \in Nat
      /\ arrived \in Pictures
  BY <1>1 DEF Typed, TypeOK, Backlog, CallHasPicture, CallPending
<1>3. queue.count \in 0..MaxBufferFrames
  BY <1>2 DEF QueueType
<1>4. ~Full(queue)
  BY <1>2, <1>3, Parameters DEF Full
<1>5. analyze \in BOOLEAN /\ blocked \in BOOLEAN
  BY DEF ShouldScheduleAnalysis, TimeInBlockedRange
<1>6. /\ queue' = QueuePicture(queue, arrived, inTs, analyze, blocked)
      /\ wanted' = [wanted EXCEPT ![arrived] = analyze]
      /\ fate' = [fate EXCEPT ![arrived] = "inside"]
      /\ hostPC' = IF StillBuffering(queue') THEN "idle" ELSE "held"
      /\ UNCHANGED <<outBlocked, rawTimes>>
  BY <1>4 DEF FilterEnqueue
<1>7. queue' \in QueueType /\ queue'.count = queue.count + 1
  <2>1. ASSUME NEW a \in BOOLEAN, NEW b \in BOOLEAN
        PROVE  LET r == QueuePicture(queue, arrived, inTs, a, b)
               IN  r \in QueueType /\ r.count = queue.count + 1
    <3>1. /\ queue \in QueueType /\ arrived \in Pictures /\ inTs \in Nat /\ ~Full(queue)
          /\ a \in BOOLEAN /\ b \in BOOLEAN
      BY <1>2, <1>4
    <3> QED
      BY ONLY <3>1, QueuePictureEffect
  <2> HIDE DEF analyze, blocked
  <2> QED BY <1>5, <1>6, <2>1
<1> QED
  BY <1>2, <1>4, <1>5, <1>6, <1>7

\* The slot it goes to was free and comes last; no other slot changes.
LEMMA EnqueueSlots ==
    ASSUME Typed, FilterEnqueue
    PROVE  LET new == QueueIndex(queue, queue.count)
           IN  /\ new \in SlotIndex /\ new \notin Occupied(queue)
               /\ Occupied(queue') = Occupied(queue) \cup {new}
               /\ queue'.head = queue.head
               /\ \A j \in SlotIndex \ {new} : queue'.slots[j] = queue.slots[j]
               /\ queue'.slots[new].picture = arrived
               /\ queue'.slots[new].ts = inTs
               /\ queue'.slots[new].analyze
                    = ShouldScheduleAnalysis(ranges, renewal, frameCount, inTs, Stride, LeadMs)
               /\ ~queue'.slots[new].processing /\ ~queue'.slots[new].ready
               /\ queue'.slots[new].blocked = TimeInBlockedRange(ranges, inTs)
               /\ ~queue'.slots[new].nsfw
               /\ \A k \in 0..queue.count : QueueIndex(queue', k) = QueueIndex(queue, k)
<1> DEFINE analyze == ShouldScheduleAnalysis(ranges, renewal, frameCount, inTs, Stride, LeadMs)
           blocked == TimeInBlockedRange(ranges, inTs)
           new     == QueueIndex(queue, queue.count)
<1>1. /\ queue \in QueueType /\ ~Full(queue) /\ arrived \in Pictures /\ inTs \in Nat
      /\ analyze \in BOOLEAN /\ blocked \in BOOLEAN
      /\ queue' = QueuePicture(queue, arrived, inTs, analyze, blocked)
  BY EnqueueEffect DEF Typed, TypeOK
<1> HIDE DEF analyze, blocked
<1>2. /\ new \in SlotIndex /\ new \notin Occupied(queue)
      /\ Occupied(queue') = Occupied(queue) \cup {new}
      /\ queue'.head = queue.head
      /\ \A j \in SlotIndex \ {new} : queue'.slots[j] = queue.slots[j]
      /\ queue'.slots[new].picture = arrived
      /\ queue'.slots[new].ts = inTs
      /\ queue'.slots[new].analyze = analyze
      /\ ~queue'.slots[new].processing /\ ~queue'.slots[new].ready
      /\ queue'.slots[new].blocked = blocked
      /\ ~queue'.slots[new].nsfw
      /\ \A k \in 0..queue.count : QueueIndex(queue', k) = QueueIndex(queue, k)
  BY <1>1, QueuePictureEffect
<1> QED
  BY <1>2 DEF analyze, blocked, new

\* The frame that is taken: the oldest, which is decided and not being worked on.
LEMMA TakeEffect ==
    ASSUME Typed, FilterTake
    PROVE  /\ queue' = TakeOldest(queue)
           /\ queue.count > 0
           /\ queue' \in QueueType
           /\ queue'.count = queue.count - 1
           /\ queue.head \in Occupied(queue) /\ queue.head \in SlotIndex
           /\ queue.slots[queue.head].picture \in Pictures
           /\ queue.slots[queue.head].ready
           /\ ~queue.slots[queue.head].processing
<1>1. queue \in QueueType
  BY DEF Typed, TypeOK
<1>2. /\ queue' = TakeOldest(queue) /\ queue.count > 0
      /\ queue.slots[queue.head].picture # NoPicture
      /\ queue.slots[queue.head].ready
      /\ ~queue.slots[queue.head].processing
  BY DEF FilterTake, OldestFrameReady
<1>3. queue.head \in Occupied(queue) /\ queue.head \in SlotIndex
  BY <1>1, <1>2, OccupiedSlots DEF QueueType
<1>4. queue' \in QueueType /\ queue'.count = queue.count - 1
  BY <1>1, <1>2, TakeOldestEffect
<1>5. queue.slots[queue.head].picture \in Pictures
  BY <1>1, <1>2, <1>3, SlotsOfQueue
<1> QED
  BY <1>2, <1>3, <1>4, <1>5

\* The claim: one pending slot becomes the worker's.
LEMMA ClaimEffect ==
    ASSUME Typed, NEW w \in Workers, WorkerClaim(w)
    PROVE  LET i == workerSlot'[w]
           IN  /\ workerPC[w] = "idle"
               /\ workerPC' = [workerPC EXCEPT ![w] = "busy"]
               /\ i \in SlotIndex /\ i \in Occupied(queue)
               /\ IsPending(queue.slots[i])
               /\ workerSlot' = [workerSlot EXCEPT ![w] = i]
               /\ workerPicture' = [workerPicture EXCEPT ![w] = queue.slots[i].picture]
               /\ queue' = WithSlot(queue, i, [queue.slots[i] EXCEPT !.processing = TRUE])
               /\ queue' \in QueueType
               /\ queue'.head = queue.head /\ queue'.count = queue.count
               /\ queue'.slots[i] = [queue.slots[i] EXCEPT !.processing = TRUE]
               /\ \A j \in SlotIndex \ {i} : queue'.slots[j] = queue.slots[j]
<1>1. queue \in QueueType /\ workerSlot \in [Workers -> SlotIndex]
  BY DEF Typed, TypeOK
<1>2. PICK k \in NextPending(queue) :
        LET i == QueueIndex(queue, k)
        IN  /\ queue' = WithSlot(queue, i, [queue.slots[i] EXCEPT !.processing = TRUE])
            /\ workerSlot' = [workerSlot EXCEPT ![w] = i]
            /\ workerPicture' = [workerPicture EXCEPT ![w] = queue.slots[i].picture]
  BY DEF WorkerClaim
<1>3. /\ QueueIndex(queue, k) \in SlotIndex
      /\ QueueIndex(queue, k) \in Occupied(queue)
      /\ IsPending(queue.slots[QueueIndex(queue, k)])
  BY <1>1, NextPendingSlot
<1>4. workerSlot'[w] = QueueIndex(queue, k)
  BY <1>1, <1>2
<1> DEFINE i == QueueIndex(queue, k)
           slot == [queue.slots[i] EXCEPT !.processing = TRUE]
<1>5. slot \in Slot
  <2>1. queue.slots[i] \in Slot
    BY <1>1, <1>3, SlotsOfQueue
  <2> HIDE DEF i
  <2> QED BY <2>1 DEF Slot
<1>6. /\ queue' \in QueueType
      /\ queue'.head = queue.head /\ queue'.count = queue.count
      /\ queue'.slots[i] = slot
      /\ \A j \in SlotIndex \ {i} : queue'.slots[j] = queue.slots[j]
  <2>1. queue' = WithSlot(queue, i, slot)
    BY <1>2
  <2> HIDE DEF i, slot
  <2>2. i \in SlotIndex
    BY <1>3 DEF i
  <2> QED BY <1>1, <1>5, <2>1, <2>2, WithSlotEffect
<1>7. workerPC[w] = "idle" /\ workerPC' = [workerPC EXCEPT ![w] = "busy"]
  BY DEF WorkerClaim, WorkerIdle
<1> QED
  BY <1>2, <1>3, <1>4, <1>6, <1>7

(***************************************************************************)
(* What a published outcome leaves behind, slot by slot: the worker's own  *)
(* slot is decided, and of the others only `blocked` may have changed.     *)
(***************************************************************************)
Published(w, outcome) ==
    LET i        == workerSlot[w]
        slot     == queue.slots[i]
        positive == outcome # "clean"
        window   == WindowStart(slot.ts, PaddingMs)..WindowEnd(slot.ts, PaddingMs)
    IN  /\ queue' \in QueueType
        /\ queue'.head = queue.head /\ queue'.count = queue.count
        /\ \A j \in SlotIndex :
            /\ queue'.slots[j].picture = queue.slots[j].picture
            /\ queue'.slots[j].ts = queue.slots[j].ts
            /\ queue'.slots[j].analyze = queue.slots[j].analyze
        /\ \A j \in SlotIndex \ {i} :
            /\ queue'.slots[j].processing = queue.slots[j].processing
            /\ queue'.slots[j].ready = queue.slots[j].ready
            /\ queue'.slots[j].nsfw = queue.slots[j].nsfw
            /\ queue'.slots[j].blocked <=>
                    \/ queue.slots[j].blocked
                    \/ positive /\ j \in Occupied(queue) /\ queue.slots[j].ts \in window
        /\ \A j \in SlotIndex \ (Occupied(queue) \cup {i}) : queue'.slots[j] = queue.slots[j]
        /\ ~queue'.slots[i].processing /\ queue'.slots[i].ready
        /\ queue'.slots[i].nsfw <=> positive
        /\ queue'.slots[i].blocked <=> hostFailed' \/ FilterBlocked(slot) \/ positive
        /\ hostFailed' = (hostFailed \/ outcome = "failed")
        /\ ranges' = IF positive THEN RangesAfterDetection(ranges, slot.ts, PaddingMs)
                                 ELSE ranges
        /\ renewal' = IF positive
                      THEN RenewalAfterDetection(ranges, renewal, slot.ts, PaddingMs)
                      ELSE renewal
        /\ audioRequested' = (positive \/ audioRequested)
        /\ positives' = IF positive THEN positives \cup {slot.ts} ELSE positives
        /\ verdict' = IF slot.analyze
                      THEN [verdict EXCEPT ![workerPicture[w]] =
                                IF positive THEN "positive" ELSE "clean"]
                      ELSE verdict

\* PublishOutcome leaves exactly that behind.
LEMMA OutcomeEffect ==
    ASSUME Typed, NEW w \in Workers, NEW outcome \in {"clean", "positive", "failed"},
           PublishOutcome(w, outcome),
           verdict' = IF queue.slots[workerSlot[w]].analyze
                      THEN [verdict EXCEPT ![workerPicture[w]] =
                                IF outcome # "clean" THEN "positive" ELSE "clean"]
                      ELSE verdict
    PROVE  Published(w, outcome)
<1> DEFINE i        == workerSlot[w]
           slot     == queue.slots[i]
           positive == outcome # "clean"
           start    == WindowStart(slot.ts, PaddingMs)
           end      == WindowEnd(slot.ts, PaddingMs)
           blocked  == hostFailed' \/ FilterBlocked(slot) \/ positive
           marked   == IF positive THEN EnsureQueuedFramesInWindow(queue, start, end) ELSE queue
           new      == [marked.slots[i] EXCEPT !.processing = FALSE, !.ready = TRUE,
                                               !.nsfw = positive, !.blocked = blocked]
<1>1. queue \in QueueType /\ i \in SlotIndex /\ hostFailed \in BOOLEAN
      /\ audioRequested \in BOOLEAN
  BY DEF Typed, TypeOK
<1>2. slot.ts \in Nat
  BY <1>1, SlotsOfQueue
<1>3. start \in Nat /\ end \in Nat
  BY <1>2, WindowIsTime
<1>4. /\ hostFailed' = (hostFailed \/ outcome = "failed")
      /\ queue' = WithSlot(marked, i, new)
      /\ IF positive
         THEN /\ ranges' = RangesAfterDetection(ranges, slot.ts, PaddingMs)
              /\ renewal' = RenewalAfterDetection(ranges, renewal, slot.ts, PaddingMs)
              /\ audioRequested' = TRUE
              /\ positives' = positives \cup {slot.ts}
         ELSE UNCHANGED <<ranges, renewal, audioRequested, positives>>
  BY DEF PublishOutcome, MarkDecided
<1> HIDE DEF i, start, end, blocked, positive
<1>5. /\ marked \in QueueType /\ marked.head = queue.head /\ marked.count = queue.count
      /\ \A j \in SlotIndex :
            /\ marked.slots[j].picture = queue.slots[j].picture
            /\ marked.slots[j].ts = queue.slots[j].ts
            /\ marked.slots[j].analyze = queue.slots[j].analyze
            /\ marked.slots[j].processing = queue.slots[j].processing
            /\ marked.slots[j].ready = queue.slots[j].ready
            /\ marked.slots[j].nsfw = queue.slots[j].nsfw
            /\ marked.slots[j].blocked <=>
                    \/ queue.slots[j].blocked
                    \/ positive /\ j \in Occupied(queue) /\ queue.slots[j].ts \in start..end
      /\ \A j \in SlotIndex \ Occupied(queue) : marked.slots[j] = queue.slots[j]
  <2>1. CASE positive
    BY <1>1, <1>3, <2>1, EnsureEffect
  <2>2. CASE ~positive
    <3>1. marked = queue
      BY <2>2
    <3> HIDE DEF marked
    <3> QED
      BY <1>1, <2>2, <3>1
  <2> QED
    BY <2>1, <2>2
<1> HIDE DEF marked
<1>6. /\ new \in Slot
      /\ new.picture = marked.slots[i].picture /\ new.ts = marked.slots[i].ts
      /\ new.analyze = marked.slots[i].analyze
      /\ ~new.processing /\ new.ready /\ new.nsfw = positive /\ new.blocked = blocked
  <2>1. marked.slots[i] \in Slot
    BY <1>1, <1>5, SlotsOfQueue
  <2>2. positive \in BOOLEAN /\ blocked \in BOOLEAN
    BY DEF positive, blocked
  <2> QED
    BY <2>1, <2>2 DEF Slot
<1> HIDE DEF new
<1>7. /\ queue' \in QueueType /\ queue'.head = marked.head /\ queue'.count = marked.count
      /\ queue'.slots[i] = new
      /\ \A j \in SlotIndex \ {i} : queue'.slots[j] = marked.slots[j]
  BY <1>1, <1>4, <1>5, <1>6, WithSlotEffect
<1>8. /\ queue'.head = queue.head /\ queue'.count = queue.count
      /\ \A j \in SlotIndex :
            /\ queue'.slots[j].picture = queue.slots[j].picture
            /\ queue'.slots[j].ts = queue.slots[j].ts
            /\ queue'.slots[j].analyze = queue.slots[j].analyze
  BY <1>1, <1>5, <1>6, <1>7
<1>9. \A j \in SlotIndex \ {i} :
            /\ queue'.slots[j].processing = queue.slots[j].processing
            /\ queue'.slots[j].ready = queue.slots[j].ready
            /\ queue'.slots[j].nsfw = queue.slots[j].nsfw
            /\ queue'.slots[j].blocked <=>
                    \/ queue.slots[j].blocked
                    \/ positive /\ j \in Occupied(queue) /\ queue.slots[j].ts \in start..end
  BY <1>5, <1>7
<1>10. \A j \in SlotIndex \ (Occupied(queue) \cup {i}) : queue'.slots[j] = queue.slots[j]
  BY <1>5, <1>7
<1>11. /\ ~queue'.slots[i].processing /\ queue'.slots[i].ready
       /\ queue'.slots[i].nsfw <=> positive
       /\ queue'.slots[i].blocked <=> blocked
  BY <1>6, <1>7
<1>12. /\ ranges' = IF positive THEN RangesAfterDetection(ranges, slot.ts, PaddingMs)
                                ELSE ranges
       /\ renewal' = IF positive
                     THEN RenewalAfterDetection(ranges, renewal, slot.ts, PaddingMs)
                     ELSE renewal
       /\ audioRequested' = (positive \/ audioRequested)
       /\ positives' = IF positive THEN positives \cup {slot.ts} ELSE positives
  BY <1>1, <1>4
<1> QED
  BY <1>4, <1>7, <1>8, <1>9, <1>10, <1>11, <1>12
     DEF Published, i, start, end, positive, blocked

\* So a publishing worker was busy, and has an outcome.
LEMMA PublishEffect ==
    ASSUME Typed, NEW w \in Workers, WorkerPublish(w)
    PROVE  /\ workerPC[w] = "busy"
           /\ workerPC' = [workerPC EXCEPT ![w] = "idle"]
           /\ \E outcome \in {"clean", "positive", "failed"} :
                /\ queue.slots[workerSlot[w]].analyze \/ outcome = "clean"
                /\ Published(w, outcome)
<1>1. workerPC[w] = "busy" /\ workerPC' = [workerPC EXCEPT ![w] = "idle"]
  BY DEF WorkerPublish
<1>2. CASE ~queue.slots[workerSlot[w]].analyze
  <2>1. PublishOutcome(w, "clean") /\ verdict' = verdict
    BY <1>2 DEF WorkerPublish
  <2>2. Published(w, "clean")
    BY <1>2, <2>1, OutcomeEffect
  <2> QED BY <1>1, <2>2
<1>3. CASE queue.slots[workerSlot[w]].analyze
  <2>1. PICK outcome \in Outcomes :
            /\ PublishOutcome(w, outcome)
            /\ verdict' = [verdict EXCEPT ![workerPicture[w]] =
                                IF outcome = "clean" THEN "clean" ELSE "positive"]
    BY <1>3 DEF WorkerPublish
  <2>2. outcome \in {"clean", "positive", "failed"}
    BY OutcomesAssumption
  <2>3. Published(w, outcome)
    BY <1>3, <2>1, <2>2, OutcomeEffect
  <2> QED BY <1>1, <1>3, <2>2, <2>3
<1> QED BY <1>2, <1>3
-----------------------------------------------------------------------------
(***************************************************************************)
(* First layer: types, the backlog, and the picture of a pending call.     *)
(***************************************************************************)
\* A fresh ring is a ring with nothing in it.
LEMMA EmptyQueueFacts ==
    /\ EmptyQueue \in QueueType
    /\ EmptyQueue.count = 0
    /\ Occupied(EmptyQueue) = {}
    /\ \A i \in SlotIndex : EmptyQueue.slots[i] = EmptySlot
<1>1. EmptySlot \in Slot
  BY DEF EmptySlot, Slot
<1>2. 0 \in SlotIndex /\ 0 \in 0..MaxBufferFrames
  BY MaxBufferAssumption DEF SlotIndex
<1>3. EmptyQueue.count = 0 /\ EmptyQueue.slots = [i \in SlotIndex |-> EmptySlot]
  BY DEF EmptyQueue
<1>4. EmptyQueue \in QueueType
  BY <1>1, <1>2 DEF EmptyQueue, QueueType
<1>5. Occupied(EmptyQueue) = {}
  BY <1>3 DEF Occupied
<1> QED
  BY <1>3, <1>4, <1>5

\* The first layer holds in the state Open leaves behind.
LEMMA SharedInitTyped ==
    ASSUME SharedInit, workerPC \in [Workers -> WorkerPCs] PROVE Typed
<1>1. 0 \in SlotIndex /\ 0 \in 0..MaxPictures /\ 0 \in Nat
  BY MaxBufferAssumption, MaxPicturesAssumption DEF SlotIndex
<1>2. TypeOK
  <2>1. ranges \in Seq([start : Nat, end : Nat])
    BY DEF SharedInit
  <2>2. workerSlot \in [Workers -> SlotIndex] /\ workerPicture \in [Workers -> Pictures \cup {NoPicture}]
    BY <1>1 DEF SharedInit
  <2>3. /\ fate \in [Pictures -> Gate!Fates] /\ wanted \in [Pictures -> BOOLEAN]
        /\ verdict \in [Pictures -> Gate!Verdicts]
    BY DEF SharedInit, Gate!Fates, Gate!Verdicts
  <2> QED
  BY <1>1, <2>1, <2>2, <2>3, EmptyQueueFacts
     DEF SharedInit, TypeOK, HostPCs
<1>3. Backlog /\ CallHasPicture
  BY EmptyQueueFacts, Parameters DEF SharedInit, Backlog, CallHasPicture, CallPending
<1> QED
  BY <1>2, <1>3 DEF Typed

LEMMA TypedInit == Init => Typed
BY SharedInitTyped DEF Init, WorkerPCs

\* Every step keeps the first layer.
LEMMA TypedStep == Typed /\ [Next]_vars => Typed'
<1> SUFFICES ASSUME Typed, [Next]_vars PROVE Typed'
  OBVIOUS
<1> USE DEF Typed
<1>1. CASE FilterCall
  <2>1. arrived' \in Pictures /\ arrived' \in 0..MaxPictures
    BY <1>1, Parameters DEF FilterCall, TypeOK, Pictures
  <2>2. \A ts \in PictureTimes : ts \in Nat
    BY TimelineAssumption DEF PictureTimes
  <2>3. lastTs' \in Nat \cup {NoTime} /\ inTs' \in Nat /\ frameCount' \in Nat
    BY <1>1, <2>2 DEF FilterCall, NumberFrame, TypeOK, timelineVars
  <2>4. hostPC = "idle" /\ hostPC' \in {"enqueue", "flush"}
    BY <1>1 DEF FilterCall, NumberFrame
  <2>5. resume' \in {"idle", "stop", "filter"}
    BY <1>1 DEF FilterCall, TypeOK
  <2>6. UNCHANGED <<queueVars, hostFailed, outputVars, stop, waiting, workerVars, history>>
    BY <1>1 DEF FilterCall
  <2>7. TypeOK'
    BY <2>1, <2>3, <2>4, <2>5, <2>6
       DEF TypeOK, HostPCs, queueVars, outputVars, workerVars, history
  <2> QED
    BY <2>1, <2>4, <2>6, <2>7 DEF Backlog, CallHasPicture, queueVars
<1>2. CASE FilterEnqueue
  <2>1. /\ queue' \in QueueType /\ queue'.count = queue.count + 1 /\ arrived \in Pictures
        /\ hostPC' = IF StillBuffering(queue') THEN "idle" ELSE "held"
        /\ UNCHANGED <<outBlocked, rawTimes>>
    BY <1>2, EnqueueEffect
  <2>2. fate' \in [Pictures -> Gate!Fates]
    BY <1>2, EnqueueEffect DEF TypeOK, Gate!Fates
  <2>3. wanted' \in [Pictures -> BOOLEAN]
    <3>1. PICK a \in BOOLEAN : wanted' = [wanted EXCEPT ![arrived] = a]
      BY <1>2, EnqueueEffect
    <3> QED BY <3>1 DEF TypeOK
  <2>4. renewal' \in Nat
    BY <1>2, RenewalAfterScheduleIsTime DEF FilterEnqueue, TypeOK, BlockRange
  <2>5. waiting' \subseteq Workers \cup {Host}
    BY <1>2 DEF FilterEnqueue, FilterWakes, SignalOne, TypeOK
  <2>6. UNCHANGED <<ranges, timelineVars, hostFailed, audioRequested, maskActive, stop,
                    resume, arrived, inTs, workerVars, verdict, positives>>
    BY <1>2 DEF FilterEnqueue
  <2>7. TypeOK'
    BY <2>1, <2>2, <2>3, <2>4, <2>5, <2>6 DEF TypeOK, HostPCs, timelineVars, workerVars
  <2>8. Backlog'
    <3>1. queue.count \in Nat /\ queue.count < Prebuffer
      BY <1>2 DEF FilterEnqueue, Backlog, TypeOK, QueueType
    <3> QED
      BY <2>1, <3>1, Parameters DEF Backlog, StillBuffering
  <2> QED
    BY <2>1, <2>7, <2>8 DEF CallHasPicture, CallPending
<1>3. CASE FilterWait
  <2>1. hostPC' \in HostPCs /\ waiting' \subseteq Workers \cup {Host}
    BY <1>3 DEF FilterWait, Sleep, TypeOK, HostPCs
  <2> QED
    BY <1>3, <2>1 DEF FilterWait, TypeOK, Backlog, CallHasPicture, CallPending,
       queueVars, timelineVars, outputVars, workerVars, history
<1>4. CASE FilterTake
  <2>1. /\ queue' \in QueueType /\ queue'.count = queue.count - 1
        /\ queue.slots[queue.head].picture \in Pictures
        /\ queue.head \in SlotIndex
    BY <1>4, TakeEffect
  <2>2. queue.slots[queue.head].ts \in Nat
    BY <2>1, SlotsOfQueue DEF TypeOK
  <2>3. outBlocked' \in BOOLEAN
    BY <1>4 DEF FilterTake, FilterBlocked
  <2>4. fate' \in [Pictures -> Gate!Fates] /\ rawTimes' \subseteq Nat
    BY <1>4, <2>2 DEF FilterTake, ShownAs, TypeOK, Gate!Fates
  <2>5. UNCHANGED <<ranges, renewal, timelineVars, hostFailed, audioRequested, maskActive,
                    stop, waiting, resume, arrived, inTs, workerVars,
                    wanted, verdict, positives>> /\ hostPC' = "display"
                    /\ hostPC \in {"held", "await"}
    BY <1>4 DEF FilterTake
  <2>6. TypeOK'
    BY <2>1, <2>3, <2>4, <2>5 DEF TypeOK, HostPCs, timelineVars, workerVars
  <2>7. Backlog'
    <3>1. queue.count \in Nat /\ queue.count <= Prebuffer
      BY <2>5 DEF Backlog, TypeOK, QueueType
    <3> QED
      BY <2>1, <2>5, <3>1, Parameters DEF Backlog
  <2> QED
    BY <2>5, <2>6, <2>7 DEF CallHasPicture, CallPending
<1>5. CASE FilterDisplay
  <2>1. audioRequested' \in BOOLEAN /\ maskActive' \in BOOLEAN
    BY <1>5 DEF FilterDisplay, RequestAfterDisplay, TypeOK
  <2> QED
    BY <1>5, <2>1 DEF FilterDisplay, TypeOK, HostPCs, Backlog, CallHasPicture, CallPending,
       queueVars, timelineVars, workerVars, history
<1>6. CASE FlushCall
  BY <1>6 DEF FlushCall, TypeOK, HostPCs, Backlog, CallHasPicture, CallPending,
     queueVars, timelineVars, outputVars, workerVars, history
<1>7. CASE FlushWait
  BY <1>7 DEF FlushWait, Sleep, TypeOK, Backlog, CallHasPicture, CallPending,
     queueVars, timelineVars, outputVars, callVars, workerVars, history
<1>8. CASE FlushRelease
  <2>1. fate' \in [Pictures -> Gate!Fates]
    BY <1>8 DEF FlushRelease, TypeOK, Gate!Fates
  <2>2. TypeOK'
    BY <1>8, <2>1, EmptyQueueFacts DEF FlushRelease, Broadcast, TypeOK, HostPCs,
       timelineVars, outputVars, workerVars
  <2> QED
    BY <1>8, <2>2, EmptyQueueFacts, Parameters
       DEF FlushRelease, Backlog, CallHasPicture, CallPending
<1>9. CASE FlushReset
  <2>1. /\ lastTs' \in Nat \cup {NoTime} /\ inTs' \in Nat /\ frameCount' \in Nat
        /\ hostPC' \in HostPCs
    BY <1>9, TimelineAssumption DEF FlushReset, TypeOK, HostPCs
  <2>2. hostPC = "reset" /\ hostPC' \in {"idle", "stop", "enqueue"}
        /\ (hostPC' = "enqueue" => resume = "filter")
    BY <1>9 DEF FlushReset, TypeOK
  <2>3. ranges' \in Seq([start : Nat, end : Nat])
    BY <1>9 DEF FlushReset, ResetRanges
  <2>4. /\ UNCHANGED <<queue, hostFailed, outBlocked, stop, waiting, resume, arrived,
                       workerVars, fate, wanted, verdict>>
        /\ audioRequested' = FALSE /\ maskActive' = FALSE /\ renewal' = 0
        /\ positives' = {} /\ rawTimes' = {}
    BY <1>9 DEF FlushReset
  <2>5. TypeOK'
    BY <2>1, <2>3, <2>4 DEF TypeOK, workerVars
  <2> QED
    BY <2>2, <2>4, <2>5 DEF Backlog, CallHasPicture, CallPending
<1>10. CASE StopWorkers
  BY <1>10 DEF StopWorkers, Broadcast, TypeOK, HostPCs, Backlog, CallHasPicture, CallPending,
     queueVars, timelineVars, outputVars, workerVars, history
<1>11. CASE JoinWorkers
  BY <1>11 DEF JoinWorkers, TypeOK, HostPCs, Backlog, CallHasPicture, CallPending,
     queueVars, timelineVars, outputVars, workerVars, history
<1>12. ASSUME NEW w \in Workers, WorkerSleep(w) PROVE Typed'
  BY <1>12 DEF WorkerSleep, Sleep, TypeOK, Backlog, CallHasPicture, CallPending,
     queueVars, timelineVars, outputVars, callVars, workerVars, history
<1>13. ASSUME NEW w \in Workers, WorkerClaim(w) PROVE Typed'
  <2>1. /\ workerPC' = [workerPC EXCEPT ![w] = "busy"]
        /\ workerSlot'[w] \in SlotIndex
        /\ workerSlot' = [workerSlot EXCEPT ![w] = workerSlot'[w]]
        /\ workerPicture' = [workerPicture EXCEPT ![w] =
                                    queue.slots[workerSlot'[w]].picture]
        /\ queue' \in QueueType /\ queue'.count = queue.count
    BY <1>13, ClaimEffect
  <2>2. queue.slots[workerSlot'[w]].picture \in Pictures \cup {NoPicture}
    BY <2>1, SlotsOfQueue DEF TypeOK
  <2>3. UNCHANGED <<ranges, renewal, timelineVars, hostFailed, outputVars, stop, waiting,
                    callVars, history>>
    BY <1>13 DEF WorkerClaim
  <2>4. TypeOK'
    BY <2>1, <2>2, <2>3 DEF TypeOK, WorkerPCs, timelineVars, outputVars, callVars, history
  <2> QED
    BY <2>1, <2>3, <2>4 DEF Backlog, CallHasPicture, CallPending, callVars
<1>14. ASSUME NEW w \in Workers, WorkerPublish(w) PROVE Typed'
  <2>1. PICK outcome \in {"clean", "positive", "failed"} : Published(w, outcome)
    BY <1>14, PublishEffect
  <2>2. queue.slots[workerSlot[w]].ts \in Nat
    BY SlotsOfQueue DEF TypeOK
  <2>3. ranges' \in Seq([start : Nat, end : Nat])
    <3>1. ranges' = ranges
          \/ ranges' = RangesAfterDetection(ranges, queue.slots[workerSlot[w]].ts, PaddingMs)
      BY <2>1 DEF Published
    <3>2. ranges \in Seq(BlockRange)
      BY DEF TypeOK, BlockRange
    <3>3. RangesAfterDetection(ranges, queue.slots[workerSlot[w]].ts, PaddingMs)
            \in Seq(BlockRange)
      BY <2>2, <3>2, RangesAfterDetectionAreRanges, Parameters
    <3>4. ranges' \in Seq(BlockRange)
      BY <3>1, <3>2, <3>3
    <3> QED
      BY <3>4 DEF BlockRange
  <2>4. renewal' \in Nat
    BY <2>1, RenewalAfterDetectionIsTime DEF Published, TypeOK
  <2>5. /\ hostFailed' \in BOOLEAN /\ audioRequested' \in BOOLEAN /\ positives' \subseteq Nat
        /\ verdict' \in [Pictures -> Gate!Verdicts]
    BY <2>1, <2>2 DEF Published, TypeOK, Gate!Verdicts
  <2>6. queue' \in QueueType /\ queue'.count = queue.count
    BY <2>1 DEF Published
  <2>7. /\ UNCHANGED <<timelineVars, maskActive, outBlocked, stop, callVars,
                       workerSlot, workerPicture, fate, wanted, rawTimes>>
        /\ waiting' = {} /\ workerPC' = [workerPC EXCEPT ![w] = "idle"]
    BY <1>14 DEF WorkerPublish, WorkerWakes, Broadcast
  <2>8. TypeOK'
    BY <2>3, <2>4, <2>5, <2>6, <2>7 DEF TypeOK, WorkerPCs, timelineVars, callVars
  <2> QED
    BY <2>6, <2>7, <2>8 DEF Backlog, CallHasPicture, CallPending, callVars
<1>15. ASSUME NEW w \in Workers, WorkerExit(w) PROVE Typed'
  BY <1>15 DEF WorkerExit, TypeOK, WorkerPCs, Backlog, CallHasPicture, CallPending,
     queueVars, timelineVars, outputVars, callVars, history
<1>16. CASE SpuriousWakeup
  BY <1>16 DEF SpuriousWakeup, TypeOK, Backlog, CallHasPicture, CallPending,
     queueVars, timelineVars, outputVars, callVars, workerVars, history
<1>17. CASE UNCHANGED vars
  BY <1>17 DEF vars, TypeOK, Backlog, CallHasPicture, CallPending,
     queueVars, timelineVars, outputVars, callVars, workerVars, history
<1> QED
  BY <1>1, <1>2, <1>3, <1>4, <1>5, <1>6, <1>7, <1>8, <1>9, <1>10, <1>11, <1>12, <1>13,
     <1>14, <1>15, <1>16, <1>17
     DEF Next, FilterStep, FlushStep, CloseStep, WorkerStep, Closed

\* The first layer is an invariant.
LEMMA TypedAlways == Spec => []Typed
BY TypedInit, TypedStep, PTL DEF Spec

(***************************************************************************)
(* Every variable keeps its type: in particular no index leaves the ring.  *)
(***************************************************************************)
THEOREM TypeCorrect == Spec => []TypeOK
BY TypedAlways, PTL DEF Typed

(***************************************************************************)
(* Between two calls the queue holds fewer than prebuffer_frames pictures, *)
(* so the branch of Filter (822-836) for a full queue is dead code.        *)
(***************************************************************************)
THEOREM BacklogBounded == Spec => []BacklogBound
<1>1. Typed => BacklogBound
  BY DEF Typed, Backlog, BacklogBound
<1> QED
  BY <1>1, TypedAlways, PTL
-----------------------------------------------------------------------------
(***************************************************************************)
(* Second layer: the ranges stay in order.                                 *)
(***************************************************************************)
\* Only a detection and a flush write the ranges.
LEMMA RangesStep == Typed /\ RangesInOrder /\ [Next]_vars => RangesInOrder'
<1> SUFFICES ASSUME Typed, RangesInOrder, [Next]_vars PROVE RangesInOrder'
  OBVIOUS
<1>1. CASE UNCHANGED ranges
  BY <1>1 DEF RangesInOrder
<1>2. CASE FlushReset
  BY <1>2 DEF FlushReset, ResetRanges, RangesInOrder, SortedAndDisjoint
<1>3. ASSUME NEW w \in Workers, WorkerPublish(w) PROVE RangesInOrder'
  <2>1. PICK outcome \in {"clean", "positive", "failed"} : Published(w, outcome)
    BY <1>3, PublishEffect
  <2> DEFINE ts == queue.slots[workerSlot[w]].ts
  <2>2. ranges' = ranges \/ ranges' = RangesAfterDetection(ranges, ts, PaddingMs)
    BY <2>1 DEF Published
  <2>3. ts \in Nat /\ ranges \in Seq(BlockRange) /\ SortedAndDisjoint(ranges)
    BY SlotsOfQueue DEF Typed, TypeOK, BlockRange, RangesInOrder
  <2> HIDE DEF ts
  <2>4. SortedAndDisjoint(RangesAfterDetection(ranges, ts, PaddingMs))
    BY <2>3, Parameters, DetectionWindow
  <2> QED
    BY <2>2, <2>3, <2>4 DEF RangesInOrder
<1> QED
  BY <1>1, <1>2, <1>3
     DEF Next, FilterStep, FlushStep, CloseStep, WorkerStep, Closed, vars, queueVars,
         FilterCall, FilterEnqueue, FilterWait, FilterTake, FilterDisplay, FlushCall,
         FlushWait, FlushRelease, StopWorkers, JoinWorkers, WorkerSleep, WorkerClaim,
         WorkerExit, SpuriousWakeup

(***************************************************************************)
(* In every order in which workers register detections, the array of       *)
(* ranges stays sorted and disjoint, which is what the early exit of       *)
(* BlockRangeEndAtLocked (451-458) needs.                                  *)
(***************************************************************************)
THEOREM RangesStayInOrder == Spec => []RangesInOrder
<1>1. Init => RangesInOrder
  BY DEF Init, SharedInit, RangesInOrder, SortedAndDisjoint
<1> QED
  BY <1>1, RangesStep, TypedAlways, PTL DEF Spec
-----------------------------------------------------------------------------
(***************************************************************************)
(* Third layer: a worker's slot is its own.  The ring may move under a     *)
(* busy worker, the slot may not: the host never takes a slot that is      *)
(* being processed, a flush waits for it, and another worker skips it.     *)
(***************************************************************************)
LEMMA OwnsStep == Typed /\ WorkerOwnsItsSlot /\ [Next]_vars => WorkerOwnsItsSlot'
<1> SUFFICES ASSUME Typed, WorkerOwnsItsSlot, [Next]_vars PROVE WorkerOwnsItsSlot'
  OBVIOUS
<1>0. /\ queue \in QueueType /\ workerPC \in [Workers -> WorkerPCs]
      /\ workerSlot \in [Workers -> SlotIndex]
      /\ workerPicture \in [Workers -> Pictures \cup {NoPicture}]
      /\ Occupied(queue) \subseteq SlotIndex
  BY OccupiedSlots DEF Typed, TypeOK
<1>1. CASE UNCHANGED <<queue, workerVars>>
  BY <1>1 DEF WorkerOwnsItsSlot, workerVars
<1>2. CASE FilterEnqueue
  <2>1. UNCHANGED workerVars
    BY <1>2 DEF FilterEnqueue
  <2> DEFINE new == QueueIndex(queue, queue.count)
  <2>2. /\ new \notin Occupied(queue)
        /\ Occupied(queue') = Occupied(queue) \cup {new}
        /\ \A j \in SlotIndex \ {new} : queue'.slots[j] = queue.slots[j]
    BY <1>0, <1>2, EnqueueEffect, EnqueueSlots
  <2> HIDE DEF new
  <2> QED
    BY <1>0, <2>1, <2>2 DEF WorkerOwnsItsSlot, workerVars
<1>3. CASE FilterTake
  <2>1. UNCHANGED workerVars
    BY <1>3 DEF FilterTake
  <2>2. /\ queue' = TakeOldest(queue) /\ queue.count > 0
        /\ ~queue.slots[queue.head].processing
    BY <1>3, TakeEffect
  <2>3. /\ Occupied(queue') = Occupied(queue) \ {queue.head}
        /\ \A j \in SlotIndex \ {queue.head} : queue'.slots[j] = queue.slots[j]
    BY <1>0, <2>2, TakeOldestEffect
  <2> QED
    BY <1>0, <2>1, <2>2, <2>3 DEF WorkerOwnsItsSlot, workerVars
<1>4. CASE FlushRelease
  <2>1. \A w \in Workers : workerPC[w] # "busy"
    BY <1>4 DEF FlushRelease, HasProcessing, WorkerOwnsItsSlot
  <2> QED
    BY <1>4, <2>1 DEF FlushRelease, WorkerOwnsItsSlot, workerVars
<1>5. ASSUME NEW w \in Workers, WorkerClaim(w) PROVE WorkerOwnsItsSlot'
  <2> DEFINE i == workerSlot'[w]
  <2>1. /\ workerPC' = [workerPC EXCEPT ![w] = "busy"]
        /\ i \in Occupied(queue) /\ i \in SlotIndex
        /\ IsPending(queue.slots[i])
        /\ workerSlot' = [workerSlot EXCEPT ![w] = i]
        /\ workerPicture' = [workerPicture EXCEPT ![w] = queue.slots[i].picture]
        /\ queue'.head = queue.head /\ queue'.count = queue.count
        /\ queue'.slots[i] = [queue.slots[i] EXCEPT !.processing = TRUE]
        /\ \A j \in SlotIndex \ {i} : queue'.slots[j] = queue.slots[j]
    BY <1>5, ClaimEffect
  <2>2. queue'.slots[i].processing /\ queue'.slots[i].picture = queue.slots[i].picture
    <3>1. queue.slots[i] \in Slot
      BY <1>0, <2>1, SlotsOfQueue
    <3> HIDE DEF i
    <3> QED BY <2>1, <3>1 DEF Slot
  <2>3. Occupied(queue') = Occupied(queue)
    BY <2>1, SlotWritesKeepOrder
  <2> HIDE DEF i
  <2>4. \A v \in Workers \ {w} : workerPC[v] = "busy" => workerSlot[v] # i
    BY <2>1 DEF WorkerOwnsItsSlot, IsPending
  <2>5. ASSUME NEW v \in Workers, workerPC'[v] = "busy"
        PROVE  /\ workerSlot'[v] \in Occupied(queue')
               /\ queue'.slots[workerSlot'[v]].processing
               /\ queue'.slots[workerSlot'[v]].picture = workerPicture'[v]
    <3>1. CASE v = w
      BY <1>0, <2>1, <2>2, <2>3, <3>1
    <3>2. CASE v # w
      <4>1. /\ workerPC[v] = "busy" /\ workerSlot'[v] = workerSlot[v]
            /\ workerPicture'[v] = workerPicture[v] /\ workerSlot[v] # i
        BY <1>0, <2>1, <2>4, <2>5, <3>2
      <4> QED
        BY <1>0, <2>1, <2>3, <4>1 DEF WorkerOwnsItsSlot
    <3> QED BY <3>1, <3>2
  <2>6. ASSUME NEW v \in Workers, workerPC'[v] = "busy",
               NEW u \in Workers \ {v}, workerPC'[u] = "busy"
        PROVE  workerSlot'[u] # workerSlot'[v]
    BY <1>0, <2>1, <2>4, <2>6 DEF WorkerOwnsItsSlot
  <2> QED
    BY <2>5, <2>6 DEF WorkerOwnsItsSlot
<1>6. ASSUME NEW w \in Workers, WorkerPublish(w) PROVE WorkerOwnsItsSlot'
  <2>1. /\ workerPC[w] = "busy" /\ workerPC' = [workerPC EXCEPT ![w] = "idle"]
        /\ UNCHANGED <<workerSlot, workerPicture>>
    BY <1>6, PublishEffect DEF WorkerPublish
  <2>2. PICK outcome \in {"clean", "positive", "failed"} : Published(w, outcome)
    BY <1>6, PublishEffect
  <2>3. /\ queue'.head = queue.head /\ queue'.count = queue.count
        /\ \A j \in SlotIndex : queue'.slots[j].picture = queue.slots[j].picture
        /\ \A j \in SlotIndex \ {workerSlot[w]} :
                queue'.slots[j].processing = queue.slots[j].processing
    BY <2>2 DEF Published
  <2>4. Occupied(queue') = Occupied(queue)
    BY <2>3, SlotWritesKeepOrder
  <2>5. \A v \in Workers : workerPC'[v] = "busy" =>
            v # w /\ workerPC[v] = "busy" /\ workerSlot[v] # workerSlot[w]
    BY <1>0, <2>1 DEF WorkerOwnsItsSlot
  <2> QED
    BY <1>0, <2>1, <2>3, <2>4, <2>5 DEF WorkerOwnsItsSlot
<1>7. ASSUME NEW w \in Workers, WorkerExit(w) PROVE WorkerOwnsItsSlot'
  BY <1>0, <1>7 DEF WorkerExit, WorkerOwnsItsSlot, queueVars
<1> QED
  BY <1>1, <1>2, <1>3, <1>4, <1>5, <1>6, <1>7
     DEF Next, FilterStep, FlushStep, CloseStep, WorkerStep, Closed, vars, queueVars,
         FilterCall, FilterWait, FilterDisplay, FlushCall, FlushWait, FlushReset,
         StopWorkers, JoinWorkers, WorkerSleep, SpuriousWakeup

(***************************************************************************)
(* DetectorWorkerThreadPthread (974-1066) writes through a slot pointer it *)
(* took before it released the lock: whenever it does, the slot is still   *)
(* its own and still holds the picture it classified.                      *)
(***************************************************************************)
THEOREM WorkersOwnTheirSlots == Spec => []WorkerOwnsItsSlot
<1>1. Init => WorkerOwnsItsSlot
  BY DEF Init, SharedInit, WorkerOwnsItsSlot
<1> QED
  BY <1>1, OwnsStep, TypedAlways, PTL DEF Spec
-----------------------------------------------------------------------------
(***************************************************************************)
(* Fourth layer: which pictures are in the ring, and in which order.       *)
(***************************************************************************)
\* Every occupied slot holds a picture.
SlotsHoldPictures ==
    \A i \in Occupied(queue) : queue.slots[i].picture \in Pictures

\* From the oldest slot to the newest, pictures are in the order they arrived.
PicturesInOrder ==
    \A j, k \in 0..(queue.count - 1) :
        j < k => queue.slots[QueueIndex(queue, j)].picture
                    < queue.slots[QueueIndex(queue, k)].picture

\* The pictures that entered and did not leave are those in the ring.
InsideIsQueued ==
    \A p \in Pictures :
        fate[p] = "inside" <=> \E i \in Occupied(queue) : queue.slots[i].picture = p

\* A slot is analysed when its picture is wanted.
AnalyzeIsWanted ==
    \A i \in Occupied(queue) : wanted[queue.slots[i].picture] = queue.slots[i].analyze

\* A picture the filter has not been called with, or is about to queue, is unseen.
LaterUnseen ==
    \A p \in Pictures : p > arrived \/ (p = arrived /\ CallPending) => fate[p] = "unseen"

Queued == SlotsHoldPictures /\ PicturesInOrder /\ InsideIsQueued /\ AnalyzeIsWanted /\ LaterUnseen

\* The picture of an occupied slot is inside, so it arrived, and before a pending one.
LEMMA QueuedArrived ==
    ASSUME Typed, Queued, NEW i \in Occupied(queue)
    PROVE  /\ queue.slots[i].picture \in Pictures
           /\ fate[queue.slots[i].picture] = "inside"
           /\ queue.slots[i].picture <= arrived
           /\ CallPending => queue.slots[i].picture < arrived
<1> DEFINE p == queue.slots[i].picture
<1>1. p \in Pictures /\ p \in Nat /\ arrived \in Nat
  BY Parameters DEF Queued, SlotsHoldPictures, Pictures, Typed, TypeOK
<1>2. fate[p] = "inside"
  BY <1>1 DEF Queued, InsideIsQueued
<1>3. ~(p > arrived) /\ ~(p = arrived /\ CallPending)
  BY <1>1, <1>2 DEF Queued, LaterUnseen
<1> HIDE DEF p
<1>4. p <= arrived /\ (CallPending => p < arrived)
  BY <1>1, <1>3
<1> QED
  BY <1>1, <1>2, <1>4 DEF p

\* Two occupied slots hold two pictures, and the head holds the least.
LEMMA PicturesDistinct ==
    ASSUME Typed, Queued, NEW i \in Occupied(queue), NEW j \in Occupied(queue)
    PROVE  /\ queue.slots[i].picture = queue.slots[j].picture => i = j
           /\ queue.slots[queue.head].picture <= queue.slots[i].picture
<1>1. queue \in QueueType /\ queue.count \in Nat
  BY Parameters DEF Typed, TypeOK, QueueType
<1>2. PICK a \in 0..(queue.count - 1) : i = QueueIndex(queue, a)
  BY DEF Occupied
<1>3. PICK b \in 0..(queue.count - 1) : j = QueueIndex(queue, b)
  BY DEF Occupied
<1>4. queue.slots[i].picture \in Nat /\ queue.slots[j].picture \in Nat
  BY Parameters DEF Queued, SlotsHoldPictures, Pictures
<1>5. queue.head = QueueIndex(queue, 0) /\ 0 \in 0..(queue.count - 1)
  BY <1>1, <1>2, OccupiedSlots
<1>6. queue.slots[i].picture = queue.slots[j].picture => i = j
  <2>1. a < b => queue.slots[i].picture < queue.slots[j].picture
    BY <1>2, <1>3 DEF Queued, PicturesInOrder
  <2>2. b < a => queue.slots[j].picture < queue.slots[i].picture
    BY <1>2, <1>3 DEF Queued, PicturesInOrder
  <2>3. a = b \/ a < b \/ b < a
    BY <1>1, <1>2, <1>3
  <2> QED
    BY <1>2, <1>3, <1>4, <2>1, <2>2, <2>3
<1>7. queue.slots[queue.head].picture <= queue.slots[i].picture
  <2>1. CASE a = 0
    BY <1>2, <1>4, <1>5, <2>1
  <2>2. CASE a # 0
    <3>1. 0 < a
      BY <1>1, <1>2, <2>2
    <3>2. queue.slots[QueueIndex(queue, 0)].picture < queue.slots[QueueIndex(queue, a)].picture
      BY <1>2, <1>5, <3>1 DEF Queued, PicturesInOrder
    <3>3. queue.slots[queue.head].picture \in Nat
      BY <1>1, <1>2, <1>5, OccupiedSlots, Parameters DEF Queued, SlotsHoldPictures, Pictures, Occupied
    <3> QED
      BY <1>2, <1>4, <1>5, <3>2, <3>3
  <2> QED BY <2>1, <2>2
<1> QED
  BY <1>6, <1>7

\* A step that writes slots in place, pictures and analysis untouched, keeps the layer.
LEMMA QueuedInPlace ==
    ASSUME Typed, Queued,
           queue'.head = queue.head, queue'.count = queue.count,
           \A i \in SlotIndex : /\ queue'.slots[i].picture = queue.slots[i].picture
                                /\ queue'.slots[i].analyze = queue.slots[i].analyze,
           UNCHANGED <<fate, wanted, arrived, hostPC, resume>>
    PROVE  Queued'
<1>1. /\ Occupied(queue') = Occupied(queue)
      /\ \A k : QueueIndex(queue', k) = QueueIndex(queue, k)
  BY SlotWritesKeepOrder
<1>2. queue \in QueueType
  BY DEF Typed, TypeOK
<1>3. /\ Occupied(queue) \subseteq SlotIndex
      /\ \A k \in 0..(queue.count - 1) : QueueIndex(queue, k) \in SlotIndex
  BY <1>2, OccupiedSlots
<1>4. SlotsHoldPictures'
  BY <1>1, <1>3 DEF Queued, SlotsHoldPictures
<1>5. PicturesInOrder'
  BY <1>1, <1>3 DEF Queued, PicturesInOrder
<1>6. InsideIsQueued'
  BY <1>1, <1>3 DEF Queued, InsideIsQueued
<1>7. AnalyzeIsWanted'
  BY <1>1, <1>3 DEF Queued, AnalyzeIsWanted
<1>8. LaterUnseen'
  BY DEF Queued, LaterUnseen, CallPending
<1> QED
  BY <1>4, <1>5, <1>6, <1>7, <1>8 DEF Queued

\* Queueing a picture keeps the layer.
LEMMA QueuedEnqueue == ASSUME Typed, Queued, FilterEnqueue PROVE Queued'
<1> DEFINE new     == QueueIndex(queue, queue.count)
           analyze == ShouldScheduleAnalysis(ranges, renewal, frameCount, inTs, Stride, LeadMs)
<1>1. /\ queue \in QueueType /\ queue.count \in Nat /\ arrived \in Pictures /\ arrived \in Nat
      /\ fate \in [Pictures -> Gate!Fates] /\ wanted \in [Pictures -> BOOLEAN]
      /\ hostPC = "enqueue"
  BY EnqueueEffect, Parameters DEF Typed, TypeOK, QueueType, Pictures, FilterEnqueue
<1>2. /\ Occupied(queue) \subseteq SlotIndex
      /\ \A k \in 0..(queue.count - 1) : QueueIndex(queue, k) \in Occupied(queue)
  BY <1>1, OccupiedSlots
<1>3. /\ new \in SlotIndex /\ new \notin Occupied(queue)
      /\ Occupied(queue') = Occupied(queue) \cup {new}
      /\ \A j \in SlotIndex \ {new} : queue'.slots[j] = queue.slots[j]
      /\ queue'.slots[new].picture = arrived
      /\ queue'.slots[new].analyze = analyze
      /\ \A k \in 0..queue.count : QueueIndex(queue', k) = QueueIndex(queue, k)
      /\ queue'.count = queue.count + 1
  BY EnqueueSlots, EnqueueEffect
<1>4. /\ fate' = [fate EXCEPT ![arrived] = "inside"]
      /\ wanted' = [wanted EXCEPT ![arrived] = analyze]
      /\ hostPC' \in {"idle", "held"} /\ UNCHANGED <<arrived, resume>>
  BY EnqueueEffect DEF FilterEnqueue
<1>5. \A j \in Occupied(queue) : /\ queue'.slots[j] = queue.slots[j]
                                 /\ queue.slots[j].picture \in Pictures
                                 /\ queue.slots[j].picture < arrived
  BY <1>1, <1>2, <1>3, QueuedArrived DEF CallPending
<1> HIDE DEF analyze
<1>6. SlotsHoldPictures'
  <2> HIDE DEF new
  <2> QED BY <1>1, <1>3, <1>5 DEF SlotsHoldPictures
<1>7. PicturesInOrder'
  <2> SUFFICES ASSUME NEW j \in 0..(queue'.count - 1), NEW k \in 0..(queue'.count - 1), j < k
               PROVE  queue'.slots[QueueIndex(queue', j)].picture
                        < queue'.slots[QueueIndex(queue', k)].picture
    BY DEF PicturesInOrder
  <2>1. j \in 0..queue.count /\ k \in 0..queue.count /\ j \in 0..(queue.count - 1)
    BY <1>1, <1>3
  <2>2. QueueIndex(queue, j) \in Occupied(queue)
    BY <1>2, <2>1
  <2>3. CASE k = queue.count
    BY <1>3, <1>5, <2>1, <2>2, <2>3
  <2>4. CASE k # queue.count
    <3>1. k \in 0..(queue.count - 1) /\ QueueIndex(queue, k) \in Occupied(queue)
      BY <1>1, <1>2, <2>1, <2>4
    <3>2. queue.slots[QueueIndex(queue, j)].picture < queue.slots[QueueIndex(queue, k)].picture
      BY <2>1, <3>1 DEF Queued, PicturesInOrder
    <3> QED
      BY <1>3, <1>5, <2>1, <2>2, <3>1, <3>2
  <2> QED BY <2>3, <2>4
<1>8. InsideIsQueued'
  <2> HIDE DEF new
  <2> SUFFICES ASSUME NEW p \in Pictures
               PROVE  fate'[p] = "inside"
                        <=> \E i \in Occupied(queue') : queue'.slots[i].picture = p
    BY DEF InsideIsQueued
  <2>1. CASE p = arrived
    BY <1>1, <1>3, <1>4, <2>1
  <2>2. CASE p # arrived
    <3>1. fate'[p] = fate[p]
      BY <1>1, <1>4, <2>2
    <3>2. fate[p] = "inside" <=> \E i \in Occupied(queue) : queue.slots[i].picture = p
      BY DEF Queued, InsideIsQueued
    <3> QED
      BY <1>3, <1>5, <2>2, <3>1, <3>2
  <2> QED BY <2>1, <2>2
<1>9. AnalyzeIsWanted'
  <2> HIDE DEF new
  <2> SUFFICES ASSUME NEW i \in Occupied(queue')
               PROVE  wanted'[queue'.slots[i].picture] = queue'.slots[i].analyze
    BY DEF AnalyzeIsWanted
  <2>1. CASE i = new
    BY <1>1, <1>3, <1>4, <2>1
  <2>2. CASE i # new
    <3>1. i \in Occupied(queue) /\ queue'.slots[i] = queue.slots[i]
          /\ queue.slots[i].picture # arrived
      BY <1>1, <1>3, <1>5, <2>2 DEF Pictures
    <3>2. wanted[queue.slots[i].picture] = queue.slots[i].analyze
      BY <3>1 DEF Queued, AnalyzeIsWanted
    <3> QED
      BY <1>1, <1>4, <1>5, <3>1, <3>2
  <2> QED BY <2>1, <2>2
<1>10. LaterUnseen'
  <2>1. ASSUME NEW p \in Pictures, p > arrived PROVE fate'[p] = "unseen"
    <3>1. p # arrived /\ fate[p] = "unseen"
      BY <1>1, <2>1 DEF Queued, LaterUnseen, Pictures
    <3> QED BY <1>1, <1>4, <3>1
  <2> QED
    BY <1>4, <2>1 DEF LaterUnseen, CallPending
<1> QED
  BY <1>6, <1>7, <1>8, <1>9, <1>10 DEF Queued

\* Taking the oldest keeps the layer.
LEMMA QueuedTake == ASSUME Typed, Queued, FilterTake PROVE Queued'
<1> DEFINE oldest == queue.slots[queue.head].picture
<1>1. /\ queue \in QueueType /\ queue.count \in Nat /\ queue.count > 0
      /\ fate \in [Pictures -> Gate!Fates]
      /\ queue' = TakeOldest(queue) /\ queue'.count = queue.count - 1
      /\ queue.head \in Occupied(queue) /\ oldest \in Pictures
  BY TakeEffect, Parameters DEF Typed, TypeOK, QueueType
<1>2. /\ Occupied(queue') = Occupied(queue) \ {queue.head}
      /\ \A i \in SlotIndex \ {queue.head} : queue'.slots[i] = queue.slots[i]
      /\ \A k \in 0..(queue'.count - 1) : QueueIndex(queue', k) = QueueIndex(queue, k + 1)
  BY <1>1, TakeOldestEffect
<1>3. /\ \E out \in {"raw", "masked"} : fate' = [fate EXCEPT ![oldest] = out]
      /\ UNCHANGED <<wanted, arrived, resume>>
      /\ hostPC' = "display"
  BY DEF FilterTake, ShownAs
<1>4. /\ Occupied(queue) \subseteq SlotIndex
      /\ \A k \in 0..(queue.count - 1) : QueueIndex(queue, k) \in Occupied(queue)
  BY <1>1, OccupiedSlots
<1>5. \A i \in Occupied(queue') : /\ i \in Occupied(queue) /\ queue'.slots[i] = queue.slots[i]
                                  /\ queue.slots[i].picture # oldest
  BY <1>1, <1>2, <1>4, PicturesDistinct
<1>6. SlotsHoldPictures'
  BY <1>5 DEF Queued, SlotsHoldPictures
<1>7. PicturesInOrder'
  <2> SUFFICES ASSUME NEW j \in 0..(queue'.count - 1), NEW k \in 0..(queue'.count - 1), j < k
               PROVE  queue'.slots[QueueIndex(queue', j)].picture
                        < queue'.slots[QueueIndex(queue', k)].picture
    BY DEF PicturesInOrder
  <2>1. j + 1 \in 0..(queue.count - 1) /\ k + 1 \in 0..(queue.count - 1) /\ j + 1 < k + 1
    BY <1>1
  <2>2. queue.slots[QueueIndex(queue, j + 1)].picture
            < queue.slots[QueueIndex(queue, k + 1)].picture
    BY <2>1 DEF Queued, PicturesInOrder
  <2>3. QueueIndex(queue', j) \in Occupied(queue') /\ QueueIndex(queue', k) \in Occupied(queue')
    BY DEF Occupied
  <2> QED
    BY <1>2, <1>5, <2>2, <2>3
<1>8. InsideIsQueued'
  <2> SUFFICES ASSUME NEW p \in Pictures
               PROVE  fate'[p] = "inside"
                        <=> \E i \in Occupied(queue') : queue'.slots[i].picture = p
    BY DEF InsideIsQueued
  <2>1. fate[p] = "inside" <=> \E i \in Occupied(queue) : queue.slots[i].picture = p
    BY DEF Queued, InsideIsQueued
  <2> HIDE DEF oldest
  <2>2. CASE p = oldest
    BY <1>1, <1>3, <1>5, <2>2
  <2>3. CASE p # oldest
    <3>1. fate'[p] = fate[p]
      BY <1>1, <1>3, <2>3
    <3>2. \A i \in Occupied(queue) : queue.slots[i].picture = p => i \in Occupied(queue')
      BY <1>2, <2>3 DEF oldest
    <3> QED
      BY <1>5, <2>1, <3>1, <3>2
  <2> QED BY <2>2, <2>3
<1>9. AnalyzeIsWanted'
  BY <1>3, <1>5 DEF Queued, AnalyzeIsWanted
<1>10. LaterUnseen'
  <2>1. fate[oldest] = "inside"
    BY <1>1, QueuedArrived
  <2> QED
    BY <1>1, <1>3, <2>1 DEF Queued, LaterUnseen, CallPending
<1> QED
  BY <1>6, <1>7, <1>8, <1>9, <1>10 DEF Queued

\* Every step keeps the layer.
LEMMA QueuedStep == Typed /\ Queued /\ [Next]_vars => Queued'
<1> SUFFICES ASSUME Typed, Queued, [Next]_vars PROVE Queued'
  OBVIOUS
<1>0. arrived \in Nat /\ fate \in [Pictures -> Gate!Fates] /\ Pictures \subseteq Nat
  BY Parameters DEF Typed, TypeOK, Pictures
<1>1. ASSUME UNCHANGED <<queue, fate, wanted, arrived>>, CallPending' => CallPending PROVE Queued'
  BY <1>1 DEF Queued, SlotsHoldPictures, PicturesInOrder, InsideIsQueued, AnalyzeIsWanted,
     LaterUnseen
<1>2. CASE FilterCall
  <2>1. UNCHANGED <<queue, fate, wanted>> /\ arrived' = arrived + 1
    BY <1>2 DEF FilterCall, queueVars, history
  <2>2. LaterUnseen'
    BY <1>0, <2>1 DEF Queued, LaterUnseen
  <2> QED
    BY <2>1, <2>2 DEF Queued, SlotsHoldPictures, PicturesInOrder, InsideIsQueued, AnalyzeIsWanted
<1>3. CASE FilterEnqueue
  BY <1>3, QueuedEnqueue
<1>4. CASE FilterWait
  BY <1>1, <1>4 DEF FilterWait, CallPending, queueVars, history
<1>5. CASE FilterTake
  BY <1>5, QueuedTake
<1>6. CASE FilterDisplay \/ FlushCall \/ FlushWait
  BY <1>1, <1>6 DEF FilterDisplay, FlushCall, FlushWait, CallPending,
     queueVars, callVars, history
<1>13. CASE FlushReset
  BY <1>1, <1>13 DEF FlushReset, CallPending, Typed, TypeOK
<1>7. CASE FlushRelease
  <2>1. /\ queue' = EmptyQueue
        /\ fate' = [p \in Pictures |-> IF fate[p] = "inside" THEN "dropped" ELSE fate[p]]
        /\ UNCHANGED <<wanted, arrived, resume>> /\ hostPC = "flush" /\ hostPC' = "reset"
    BY <1>7 DEF FlushRelease
  <2>2. Occupied(queue') = {} /\ queue'.count = 0
    BY <2>1, EmptyQueueFacts
  <2>3. SlotsHoldPictures' /\ AnalyzeIsWanted'
    BY <2>2 DEF SlotsHoldPictures, AnalyzeIsWanted
  <2>4. PicturesInOrder'
    BY <2>2 DEF PicturesInOrder
  <2>5. InsideIsQueued'
    BY <2>1, <2>2 DEF InsideIsQueued
  <2>6. LaterUnseen'
    BY <2>1 DEF Queued, LaterUnseen, CallPending
  <2> QED
    BY <2>3, <2>4, <2>5, <2>6 DEF Queued
<1>8. CASE StopWorkers \/ JoinWorkers
  BY <1>1, <1>8 DEF StopWorkers, JoinWorkers, CallPending, queueVars, history
<1>9. ASSUME NEW w \in Workers, WorkerSleep(w) \/ WorkerExit(w) PROVE Queued'
  BY <1>1, <1>9 DEF WorkerSleep, WorkerExit, CallPending, queueVars, callVars, history
<1>10. ASSUME NEW w \in Workers, WorkerClaim(w) PROVE Queued'
  <2> DEFINE i == workerSlot'[w]
  <2>1. /\ i \in SlotIndex
        /\ queue'.head = queue.head /\ queue'.count = queue.count
        /\ queue'.slots[i] = [queue.slots[i] EXCEPT !.processing = TRUE]
        /\ \A j \in SlotIndex \ {i} : queue'.slots[j] = queue.slots[j]
    BY <1>10, ClaimEffect
  <2>2. queue.slots[i] \in Slot
    BY <2>1, SlotsOfQueue DEF Typed, TypeOK
  <2> HIDE DEF i
  <2>3. queue'.slots[i].picture = queue.slots[i].picture
        /\ queue'.slots[i].analyze = queue.slots[i].analyze
    BY <2>1, <2>2 DEF Slot
  <2>4. UNCHANGED <<fate, wanted, arrived, hostPC, resume>>
    BY <1>10 DEF WorkerClaim, callVars, history
  <2> QED
    BY <2>1, <2>3, <2>4, QueuedInPlace
<1>11. ASSUME NEW w \in Workers, WorkerPublish(w) PROVE Queued'
  <2>1. PICK outcome \in {"clean", "positive", "failed"} : Published(w, outcome)
    BY <1>11, PublishEffect
  <2>2. UNCHANGED <<fate, wanted, arrived, hostPC, resume>>
    BY <1>11 DEF WorkerPublish, callVars
  <2>3. /\ queue'.head = queue.head /\ queue'.count = queue.count
        /\ \A j \in SlotIndex : /\ queue'.slots[j].picture = queue.slots[j].picture
                                /\ queue'.slots[j].analyze = queue.slots[j].analyze
    BY <2>1 DEF Published
  <2> QED
    BY <2>2, <2>3, QueuedInPlace
<1>12. CASE SpuriousWakeup \/ UNCHANGED vars
  BY <1>1, <1>12 DEF SpuriousWakeup, vars, CallPending, queueVars, callVars, history
<1> QED
  BY <1>2, <1>3, <1>4, <1>5, <1>6, <1>7, <1>8, <1>9, <1>10, <1>11, <1>12, <1>13
     DEF Next, FilterStep, FlushStep, CloseStep, WorkerStep, Closed

\* It is empty when the filter is opened.
LEMMA SharedInitQueued == ASSUME SharedInit PROVE Queued
<1>1. Occupied(queue) = {} /\ queue.count = 0
  BY EmptyQueueFacts DEF SharedInit
<1>2. \A p \in Pictures : fate[p] = "unseen"
  BY DEF SharedInit
<1> QED
  BY <1>1, <1>2 DEF Queued, SlotsHoldPictures, PicturesInOrder, InsideIsQueued,
     AnalyzeIsWanted, LaterUnseen

\* The ring holds what is inside, always.
LEMMA QueuedAlways == Spec => []Queued
<1>1. Init => Queued
  BY SharedInitQueued DEF Init
<1> QED
  BY <1>1, QueuedStep, TypedAlways, PTL DEF Spec
-----------------------------------------------------------------------------
(***************************************************************************)
(* Fifth layer: the decisions.  A verdict is pending until a worker        *)
(* publishes it, and what a worker holds is not decided yet.               *)
(***************************************************************************)
UnseenPending ==
    \A p \in Pictures : fate[p] = "unseen" => verdict[p] = "pending"

UndecidedPending ==
    \A i \in Occupied(queue) :
        ~queue.slots[i].ready => verdict[queue.slots[i].picture] = "pending"

HeldUndecided ==
    \A i \in Occupied(queue) : queue.slots[i].processing => ~queue.slots[i].ready

Decisions == DecisionMatchesPicture /\ UnseenPending /\ UndecidedPending /\ HeldUndecided

\* The layers so far.
Layers == Typed /\ WorkerOwnsItsSlot /\ Queued

\* Worker w works on its slot, which holds the picture it took.
HasItsSlot(w) ==
    /\ workerSlot[w] \in Occupied(queue)
    /\ queue.slots[workerSlot[w]].processing
    /\ queue.slots[workerSlot[w]].picture = workerPicture[w]

\* Queueing a picture, undecided, keeps the decisions.
LEMMA DecisionsEnqueue == ASSUME Typed, Queued, Decisions, FilterEnqueue PROVE Decisions'
<1> DEFINE new == QueueIndex(queue, queue.count)
<1>1. /\ new \in SlotIndex /\ new \notin Occupied(queue)
      /\ Occupied(queue') = Occupied(queue) \cup {new}
      /\ \A j \in SlotIndex \ {new} : queue'.slots[j] = queue.slots[j]
      /\ queue'.slots[new].picture = arrived /\ ~queue'.slots[new].ready
  BY EnqueueSlots
<1>2. /\ fate' = [fate EXCEPT ![arrived] = "inside"] /\ arrived \in Pictures
      /\ UNCHANGED verdict /\ hostPC = "enqueue"
  BY EnqueueEffect DEF FilterEnqueue
<1>3. fate \in [Pictures -> Gate!Fates] /\ Occupied(queue) \subseteq SlotIndex
  BY OccupiedSlots DEF Typed, TypeOK
<1>4. verdict[arrived] = "pending"
  BY <1>2 DEF Queued, LaterUnseen, CallPending, Decisions, UnseenPending
<1> HIDE DEF new
<1>5. DecisionMatchesPicture'
  BY <1>1, <1>2, <1>3 DEF Decisions, DecisionMatchesPicture
<1>6. UnseenPending'
  BY <1>2, <1>3 DEF Decisions, UnseenPending
<1>7. UndecidedPending'
  BY <1>1, <1>2, <1>3, <1>4 DEF Decisions, UndecidedPending
<1>8. HeldUndecided'
  BY <1>1, <1>3 DEF Decisions, HeldUndecided
<1> QED
  BY <1>5, <1>6, <1>7, <1>8 DEF Decisions

\* Taking the oldest keeps the decisions of the others.
LEMMA DecisionsTake == ASSUME Typed, Queued, Decisions, FilterTake PROVE Decisions'
<1>1. /\ queue \in QueueType /\ queue.count > 0 /\ queue' = TakeOldest(queue)
      /\ queue.slots[queue.head].picture \in Pictures
  BY TakeEffect DEF Typed, TypeOK
<1>2. /\ Occupied(queue') = Occupied(queue) \ {queue.head}
      /\ \A i \in SlotIndex \ {queue.head} : queue'.slots[i] = queue.slots[i]
      /\ Occupied(queue) \subseteq SlotIndex
  BY <1>1, TakeOldestEffect, OccupiedSlots
<1>3. UNCHANGED verdict
  BY DEF FilterTake
<1>4. \A p \in Pictures : fate'[p] = "unseen" => fate[p] = "unseen"
  <2>1. fate \in [Pictures -> Gate!Fates]
    BY DEF Typed, TypeOK
  <2>2. \E out \in {"raw", "masked"} :
            fate' = [fate EXCEPT ![queue.slots[queue.head].picture] = out]
    BY DEF FilterTake, ShownAs
  <2> QED BY <1>1, <2>1, <2>2
<1>5. DecisionMatchesPicture'
  BY <1>2, <1>3 DEF Decisions, DecisionMatchesPicture
<1>6. UnseenPending'
  BY <1>3, <1>4 DEF Decisions, UnseenPending
<1>7. UndecidedPending'
  BY <1>2, <1>3 DEF Decisions, UndecidedPending
<1>8. HeldUndecided'
  BY <1>2 DEF Decisions, HeldUndecided
<1> QED
  BY <1>5, <1>6, <1>7, <1>8 DEF Decisions

\* Claiming a slot changes no decision, and what is claimed is undecided.
LEMMA DecisionsClaim ==
    ASSUME Typed, Queued, Decisions, NEW w \in Workers, WorkerClaim(w) PROVE Decisions'
<1> DEFINE i == workerSlot'[w]
<1>1. /\ i \in SlotIndex /\ i \in Occupied(queue) /\ IsPending(queue.slots[i])
      /\ queue'.head = queue.head /\ queue'.count = queue.count
      /\ queue'.slots[i] = [queue.slots[i] EXCEPT !.processing = TRUE]
      /\ \A j \in SlotIndex \ {i} : queue'.slots[j] = queue.slots[j]
  BY ClaimEffect
<1>2. /\ queue.slots[i] \in Slot /\ Occupied(queue) \subseteq SlotIndex
  BY <1>1, SlotsOfQueue, OccupiedSlots DEF Typed, TypeOK
<1>3. Occupied(queue') = Occupied(queue)
  BY <1>1, SlotWritesKeepOrder
<1>4. UNCHANGED <<fate, verdict>>
  BY DEF WorkerClaim, history
<1> HIDE DEF i
<1>5. /\ queue'.slots[i].picture = queue.slots[i].picture
      /\ queue'.slots[i].analyze = queue.slots[i].analyze
      /\ queue'.slots[i].ready = queue.slots[i].ready
      /\ queue'.slots[i].nsfw = queue.slots[i].nsfw
      /\ queue'.slots[i].blocked = queue.slots[i].blocked
      /\ ~queue.slots[i].ready
  BY <1>1, <1>2 DEF Slot, IsPending
<1>10. \A j \in Occupied(queue) :
            /\ queue'.slots[j].picture = queue.slots[j].picture
            /\ queue'.slots[j].analyze = queue.slots[j].analyze
            /\ queue'.slots[j].ready = queue.slots[j].ready
            /\ queue'.slots[j].nsfw = queue.slots[j].nsfw
            /\ queue'.slots[j].blocked = queue.slots[j].blocked
  <2> SUFFICES ASSUME NEW j \in Occupied(queue)
               PROVE  /\ queue'.slots[j].picture = queue.slots[j].picture
                      /\ queue'.slots[j].analyze = queue.slots[j].analyze
                      /\ queue'.slots[j].ready = queue.slots[j].ready
                      /\ queue'.slots[j].nsfw = queue.slots[j].nsfw
                      /\ queue'.slots[j].blocked = queue.slots[j].blocked
    OBVIOUS
  <2>1. CASE j = i
    BY <1>5, <2>1
  <2>2. CASE j # i
    BY <1>1, <1>2, <2>2
  <2> QED BY <2>1, <2>2
<1>6. DecisionMatchesPicture'
  BY <1>3, <1>4, <1>10 DEF Decisions, DecisionMatchesPicture
<1>7. UnseenPending'
  BY <1>4 DEF Decisions, UnseenPending
<1>8. UndecidedPending'
  BY <1>3, <1>4, <1>10 DEF Decisions, UndecidedPending
<1>9. HeldUndecided'
  <2> SUFFICES ASSUME NEW j \in Occupied(queue), queue'.slots[j].processing
               PROVE  ~queue'.slots[j].ready
    BY <1>3 DEF HeldUndecided
  <2>1. CASE j = i
    BY <1>5, <2>1
  <2>2. CASE j # i
    <3>1. queue'.slots[j] = queue.slots[j]
      BY <1>1, <1>2, <2>2
    <3> QED BY <3>1 DEF Decisions, HeldUndecided
  <2> QED BY <2>1, <2>2
<1> QED
  BY <1>6, <1>7, <1>8, <1>9 DEF Decisions

\* Publishing decides the worker's own picture and no other.
LEMMA DecisionsPublish ==
    ASSUME Typed, Queued, Decisions, NEW w \in Workers, HasItsSlot(w), WorkerPublish(w)
    PROVE  Decisions'
<1> DEFINE i == workerSlot[w]
           p == workerPicture[w]
<1>1. UNCHANGED fate
  BY DEF WorkerPublish
<1>2. PICK outcome \in {"clean", "positive", "failed"} :
            /\ queue.slots[i].analyze \/ outcome = "clean"
            /\ Published(w, outcome)
  BY PublishEffect
<1>3. i \in Occupied(queue) /\ queue.slots[i].picture = p /\ queue.slots[i].processing
  BY DEF HasItsSlot
<1>4. /\ Occupied(queue) \subseteq SlotIndex
      /\ verdict \in [Pictures -> Gate!Verdicts]
  BY OccupiedSlots DEF Typed, TypeOK
<1>5. p \in Pictures /\ fate[p] = "inside"
  BY <1>3, QueuedArrived
<1>6. ~queue.slots[i].ready /\ verdict[p] = "pending"
  BY <1>3 DEF Decisions, HeldUndecided, UndecidedPending
<1> DEFINE positive == outcome # "clean"
<1>7. /\ queue'.head = queue.head /\ queue'.count = queue.count
      /\ \A j \in SlotIndex :
            /\ queue'.slots[j].picture = queue.slots[j].picture
            /\ queue'.slots[j].analyze = queue.slots[j].analyze
      /\ \A j \in SlotIndex \ {i} :
            /\ queue'.slots[j].processing = queue.slots[j].processing
            /\ queue'.slots[j].ready = queue.slots[j].ready
            /\ queue'.slots[j].nsfw = queue.slots[j].nsfw
            /\ queue.slots[j].blocked => queue'.slots[j].blocked
      /\ queue'.slots[i].ready /\ ~queue'.slots[i].processing
      /\ queue'.slots[i].nsfw <=> positive
      /\ positive => queue'.slots[i].blocked
      /\ verdict' = IF queue.slots[i].analyze
                    THEN [verdict EXCEPT ![p] = IF positive THEN "positive" ELSE "clean"]
                    ELSE verdict
  BY <1>2 DEF Published
<1>8. Occupied(queue') = Occupied(queue)
  BY <1>7, SlotWritesKeepOrder
<1>9. queue.slots[i].analyze \/ ~positive
  BY <1>2
<1>10. \A q \in Pictures : q # p => verdict'[q] = verdict[q]
  <2> HIDE DEF positive, i, p
  <2> QED BY <1>4, <1>7
<1>11. \A j \in Occupied(queue) : j # i => queue.slots[j].picture # p
                                           /\ queue.slots[j].picture \in Pictures
  BY <1>3, PicturesDistinct, QueuedArrived
<1> HIDE DEF i, p, positive
<1>12. DecisionMatchesPicture'
  <2> SUFFICES ASSUME NEW j \in Occupied(queue), queue'.slots[j].ready
               PROVE  /\ queue'.slots[j].analyze => verdict'[queue'.slots[j].picture] # "pending"
                      /\ queue'.slots[j].nsfw
                            <=> verdict'[queue'.slots[j].picture] = "positive"
                      /\ queue'.slots[j].nsfw => queue'.slots[j].blocked
    BY <1>8 DEF DecisionMatchesPicture
  <2>1. CASE j = i
    <3>1. queue'.slots[i].picture = p /\ queue'.slots[i].analyze = queue.slots[i].analyze
      BY <1>3, <1>4, <1>7
    <3>2. CASE queue.slots[i].analyze
      <4>1. verdict'[p] = IF positive THEN "positive" ELSE "clean"
        BY <1>4, <1>5, <1>7, <3>2
      <4> QED BY <1>7, <2>1, <3>1, <4>1
    <3>3. CASE ~queue.slots[i].analyze
      BY <1>6, <1>7, <1>9, <2>1, <3>1, <3>3
    <3> QED BY <3>2, <3>3
  <2>2. CASE j # i
    <3>1. /\ j \in SlotIndex \ {i} /\ queue.slots[j].ready
          /\ verdict'[queue.slots[j].picture] = verdict[queue.slots[j].picture]
      BY <1>4, <1>7, <1>10, <1>11, <2>2
    <3>2. /\ queue.slots[j].analyze => verdict[queue.slots[j].picture] # "pending"
          /\ queue.slots[j].nsfw <=> verdict[queue.slots[j].picture] = "positive"
          /\ queue.slots[j].nsfw => queue.slots[j].blocked
      BY <3>1 DEF Decisions, DecisionMatchesPicture
    <3> QED BY <1>7, <3>1, <3>2
  <2> QED BY <2>1, <2>2
<1>13. UnseenPending'
  BY <1>1, <1>5, <1>10 DEF Decisions, UnseenPending
<1>14. UndecidedPending'
  <2> SUFFICES ASSUME NEW j \in Occupied(queue), ~queue'.slots[j].ready
               PROVE  verdict'[queue'.slots[j].picture] = "pending"
    BY <1>8 DEF UndecidedPending
  <2>1. j \in SlotIndex \ {i} /\ ~queue.slots[j].ready
    BY <1>4, <1>7
  <2> QED
    BY <1>7, <1>10, <1>11, <2>1 DEF Decisions, UndecidedPending
<1>15. HeldUndecided'
  <2> SUFFICES ASSUME NEW j \in Occupied(queue), queue'.slots[j].processing
               PROVE  ~queue'.slots[j].ready
    BY <1>8 DEF HeldUndecided
  <2>1. j \in SlotIndex \ {i}
    BY <1>4, <1>7
  <2> QED
    BY <1>7, <2>1 DEF Decisions, HeldUndecided
<1> QED
  BY <1>12, <1>13, <1>14, <1>15 DEF Decisions

\* A flush and a step that writes neither ring nor verdicts keep the decisions.
LEMMA DecisionsFlush == ASSUME Decisions, FlushRelease PROVE Decisions'
<1>1. /\ queue' = EmptyQueue /\ UNCHANGED verdict
      /\ fate' = [p \in Pictures |-> IF fate[p] = "inside" THEN "dropped" ELSE fate[p]]
  BY DEF FlushRelease
<1>2. Occupied(queue') = {}
  BY <1>1, EmptyQueueFacts
<1> QED
  BY <1>1, <1>2 DEF Decisions, DecisionMatchesPicture, UnseenPending, UndecidedPending, HeldUndecided

LEMMA DecisionsKept == ASSUME Decisions, UNCHANGED <<queue, fate, verdict>> PROVE Decisions'
BY DEF Decisions, DecisionMatchesPicture, UnseenPending, UndecidedPending, HeldUndecided

\* Every step keeps the decisions.
LEMMA DecisionsStep == Layers /\ Decisions /\ [Next]_vars => Decisions'
<1> SUFFICES ASSUME Layers, Decisions, [Next]_vars PROVE Decisions'
  OBVIOUS
<1>1. CASE UNCHANGED <<queue, fate, verdict>>
  BY <1>1, DecisionsKept
<1>2. CASE FlushRelease
  BY <1>2, DecisionsFlush
<1>4. CASE FilterEnqueue
  BY <1>4, DecisionsEnqueue DEF Layers
<1>5. CASE FilterTake
  BY <1>5, DecisionsTake DEF Layers
<1>6. ASSUME NEW w \in Workers, WorkerClaim(w) PROVE Decisions'
  BY <1>6, DecisionsClaim DEF Layers
<1>7. ASSUME NEW w \in Workers, WorkerPublish(w) PROVE Decisions'
  <2>1. HasItsSlot(w)
    BY <1>7 DEF Layers, WorkerOwnsItsSlot, HasItsSlot, WorkerPublish
  <2> QED BY <1>7, <2>1, DecisionsPublish DEF Layers
<1> QED
  BY <1>1, <1>2, <1>4, <1>5, <1>6, <1>7
     DEF Next, FilterStep, FlushStep, CloseStep, WorkerStep, Closed, vars, queueVars, history,
         FilterCall, FilterWait, FilterDisplay, FlushCall, FlushWait, FlushReset,
         StopWorkers, JoinWorkers, WorkerSleep, WorkerExit, SpuriousWakeup

\* The decisions hold always.
LEMMA DecisionsInit == ASSUME SharedInit PROVE Decisions
<1>1. Occupied(queue) = {}
  BY EmptyQueueFacts DEF SharedInit
<1> QED
  BY <1>1 DEF SharedInit, Decisions, DecisionMatchesPicture, UnseenPending, UndecidedPending,
     HeldUndecided

LEMMA DecisionsAlways == Spec => [](Layers /\ Decisions)
<1>1. Init => Decisions
  BY DecisionsInit DEF Init
<1> QED
  BY <1>1, DecisionsStep, TypedAlways, WorkersOwnTheirSlots, QueuedAlways, PTL DEF Spec, Layers

(***************************************************************************)
(* A decided slot carries the verdict on its own picture, and a positive   *)
(* one is marked to be masked, whatever other workers wrote in between.    *)
(***************************************************************************)
THEOREM DecisionsMatchPictures == Spec => []DecisionMatchesPicture
<1>1. Decisions => DecisionMatchesPicture
  BY DEF Decisions
<1> QED
  BY <1>1, DecisionsAlways, PTL
-----------------------------------------------------------------------------
(***************************************************************************)
(* The pipeline implements the output gate: queueing a picture enters it,  *)
(* publishing a verdict on it decides it, taking it lets it leave, and a   *)
(* flush drops what is inside.  Every other step is a stutter.             *)
(***************************************************************************)
LEMMA GateEnters ==
    ASSUME Typed, Queued, Decisions, FilterEnqueue PROVE Gate!GateNext
<1>1. PICK a \in BOOLEAN : wanted' = [wanted EXCEPT ![arrived] = a]
  BY EnqueueEffect
<1>2. /\ arrived \in Pictures /\ fate' = [fate EXCEPT ![arrived] = "inside"]
      /\ verdict' = verdict /\ hostPC = "enqueue"
  BY EnqueueEffect DEF FilterEnqueue
<1>3. fate[arrived] = "unseen" /\ \A q \in Pictures : q > arrived => fate[q] = "unseen"
  BY <1>2 DEF Queued, LaterUnseen, CallPending
<1>4. Gate!Enter(arrived)
  BY <1>1, <1>2, <1>3 DEF Gate!Enter
<1> QED
  BY <1>2, <1>4 DEF Gate!GateNext

LEMMA GateLeaves ==
    ASSUME Typed, Queued, Decisions, FilterTake PROVE Gate!GateNext
<1> DEFINE slot == queue.slots[queue.head]
           p    == slot.picture
<1>1. /\ queue.head \in Occupied(queue) /\ p \in Pictures /\ slot.ready
  BY TakeEffect
<1>2. fate[p] = "inside"
  BY <1>1, QueuedArrived
<1>3. \A q \in Gate!Inside : p <= q
  <2> SUFFICES ASSUME NEW q \in Pictures, fate[q] = "inside" PROVE p <= q
    BY DEF Gate!Inside
  <2>1. PICK i \in Occupied(queue) : queue.slots[i].picture = q
    BY DEF Queued, InsideIsQueued
  <2> QED
    BY <2>1, PicturesDistinct
<1>4. /\ slot.analyze => verdict[p] # "pending"
      /\ slot.nsfw <=> verdict[p] = "positive"
      /\ slot.nsfw => slot.blocked
      /\ wanted[p] = slot.analyze
  BY <1>1 DEF Decisions, DecisionMatchesPicture, Queued, AnalyzeIsWanted
<1>5. /\ fate' = [fate EXCEPT ![p] = ShownAs(slot)]
      /\ UNCHANGED <<wanted, verdict>>
  BY DEF FilterTake
<1>6. ShownAs(slot) = "masked" \/ (ShownAs(slot) = "raw" /\ verdict[p] # "positive")
  BY <1>4 DEF ShownAs, FilterBlocked
<1> HIDE DEF slot, p
<1>7. Gate!Leave(p)
  BY <1>2, <1>3, <1>4, <1>5, <1>6 DEF Gate!Leave
<1> QED
  BY <1>1, <1>7 DEF Gate!GateNext, p, slot

LEMMA GateDecides ==
    ASSUME Typed, Queued, Decisions, NEW w \in Workers, HasItsSlot(w), WorkerPublish(w)
    PROVE  [Gate!GateNext]_(Gate!gateVars)
<1> DEFINE i == workerSlot[w]
           p == workerPicture[w]
<1>1. UNCHANGED <<fate, wanted>>
  BY DEF WorkerPublish
<1>2. PICK outcome \in {"clean", "positive", "failed"} : Published(w, outcome)
  BY PublishEffect
<1>3. i \in Occupied(queue) /\ queue.slots[i].picture = p /\ queue.slots[i].processing
  BY DEF HasItsSlot
<1>4. p \in Pictures /\ fate[p] = "inside" /\ wanted[p] = queue.slots[i].analyze
  BY <1>3, QueuedArrived DEF Queued, AnalyzeIsWanted
<1>5. verdict[p] = "pending"
  BY <1>3 DEF Decisions, HeldUndecided, UndecidedPending
<1>6. verdict' = IF queue.slots[i].analyze
                 THEN [verdict EXCEPT ![p] = IF outcome # "clean" THEN "positive" ELSE "clean"]
                 ELSE verdict
  BY <1>2 DEF Published
<1> HIDE DEF i, p
<1>7. CASE queue.slots[i].analyze
  <2>1. wanted[p] /\ p \in Gate!Inside
    BY <1>4, <1>7 DEF Gate!Inside
  <2>2. PICK v \in Gate!Verdicts \ {"pending"} : verdict' = [verdict EXCEPT ![p] = v]
    BY <1>6, <1>7 DEF Gate!Verdicts
  <2>3. verdict \in [Pictures -> Gate!Verdicts]
    BY DEF Typed, TypeOK
  <2>4. Gate!Decide
    BY <1>1, <1>5, <2>1, <2>2, <2>3 DEF Gate!Decide
  <2> QED
    BY <2>4 DEF Gate!GateNext
<1>8. CASE ~queue.slots[i].analyze
  BY <1>1, <1>6, <1>8 DEF Gate!gateVars
<1> QED BY <1>7, <1>8

LEMMA GateStep == Layers /\ Decisions /\ [Next]_vars => [Gate!GateNext]_(Gate!gateVars)
<1> SUFFICES ASSUME Layers, Decisions, [Next]_vars PROVE [Gate!GateNext]_(Gate!gateVars)
  OBVIOUS
<1>1. CASE UNCHANGED <<fate, wanted, verdict>>
  BY <1>1 DEF Gate!gateVars
<1>2. CASE FilterEnqueue \/ FilterTake
  BY <1>2, GateEnters, GateLeaves DEF Layers
<1>3. CASE FlushRelease
  BY <1>3 DEF FlushRelease, Gate!DropAll, Gate!GateNext
<1>4. ASSUME NEW w \in Workers, WorkerPublish(w)
      PROVE  [Gate!GateNext]_(Gate!gateVars)
  <2>1. HasItsSlot(w)
    BY <1>4 DEF Layers, WorkerOwnsItsSlot, HasItsSlot, WorkerPublish
  <2> QED BY <1>4, <2>1, GateDecides DEF Layers
<1> QED
  BY <1>1, <1>2, <1>3, <1>4
     DEF Next, FilterStep, FlushStep, CloseStep, WorkerStep, Closed, vars, history,
         FilterCall, FilterWait, FilterDisplay, FlushCall, FlushWait, FlushReset,
         StopWorkers, JoinWorkers, WorkerSleep, WorkerClaim, WorkerExit, SpuriousWakeup

(***************************************************************************)
(* The ring, its lock, its condition variable and its workers implement    *)
(* the gate README.md:106-107 promises.                                    *)
(***************************************************************************)
THEOREM PipelineIsAGate == Spec => GateSpec
<1>1. Init => Gate!GateInit
  BY DEF Init, SharedInit, Gate!GateInit
<1> QED
  BY <1>1, GateStep, DecisionsAlways, PTL DEF Spec, GateSpec, Gate!GateSpec

\* A step of the gate lets no picture out undecided, and changes none that is out.
LEMMA GateKeepsPromise ==
    ASSUME TypeOK, NoUndecidedOutput, [Gate!GateNext]_(Gate!gateVars)
    PROVE  NoUndecidedOutput'
<1> SUFFICES ASSUME NEW p \in Pictures
             PROVE  /\ fate'[p] \in {"raw", "masked"} /\ wanted'[p] => verdict'[p] # "pending"
                    /\ fate'[p] = "raw" => verdict'[p] # "positive"
  BY DEF NoUndecidedOutput
<1>0. /\ fate \in [Pictures -> Gate!Fates] /\ wanted \in [Pictures -> BOOLEAN]
      /\ verdict \in [Pictures -> Gate!Verdicts]
  BY DEF TypeOK
<1>1. /\ fate[p] \in {"raw", "masked"} /\ wanted[p] => verdict[p] # "pending"
      /\ fate[p] = "raw" => verdict[p] # "positive"
  BY DEF NoUndecidedOutput
<1>2. ASSUME NEW q \in Pictures, Gate!Enter(q)
      PROVE  /\ fate'[p] \in {"raw", "masked"} /\ wanted'[p] => verdict'[p] # "pending"
             /\ fate'[p] = "raw" => verdict'[p] # "positive"
  BY <1>0, <1>1, <1>2 DEF Gate!Enter
<1>3. CASE Gate!Decide
  <2>1. fate' = fate /\ wanted' = wanted
    BY <1>3 DEF Gate!Decide
  <2>2. CASE verdict'[p] # verdict[p]
    BY <1>3, <2>1, <2>2 DEF Gate!Decide, Gate!Inside
  <2>3. CASE verdict'[p] = verdict[p]
    BY <1>1, <2>1, <2>3
  <2> QED BY <2>2, <2>3
<1>4. ASSUME NEW q \in Pictures, Gate!Leave(q)
      PROVE  /\ fate'[p] \in {"raw", "masked"} /\ wanted'[p] => verdict'[p] # "pending"
             /\ fate'[p] = "raw" => verdict'[p] # "positive"
  BY <1>0, <1>1, <1>4 DEF Gate!Leave
<1>5. CASE Gate!DropAll
  BY <1>0, <1>1, <1>5 DEF Gate!DropAll
<1>6. CASE UNCHANGED Gate!gateVars
  BY <1>1, <1>6 DEF Gate!gateVars
<1> QED
  BY <1>2, <1>3, <1>4, <1>5, <1>6 DEF Gate!GateNext

(***************************************************************************)
(* A picture that required analysis has its decision when it is output,    *)
(* and is unmasked only when the decision was clean: a gate keeps this,    *)
(* and the pipeline is one.                                                *)
(***************************************************************************)
THEOREM NothingLeavesUndecided == Spec => []NoUndecidedOutput
<1>1. Init => NoUndecidedOutput
  BY DEF Init, SharedInit, NoUndecidedOutput
<1>2. Layers /\ Decisions /\ NoUndecidedOutput /\ [Next]_vars => NoUndecidedOutput'
  BY GateStep, GateKeepsPromise DEF Layers, Typed
<1> QED
  BY <1>1, <1>2, DecisionsAlways, PTL DEF Spec
-----------------------------------------------------------------------------
(***************************************************************************)
(* A failed inference is for good: no step, a flush included, clears the   *)
(* failure, and none shows a picture unmasked.                             *)
(***************************************************************************)
THEOREM FailureIsForGood == Spec => FailClosed
<1>1. ASSUME Typed, [Next]_vars, hostFailed
      PROVE  hostFailed' /\ \A p \in Pictures : fate'[p] = "raw" => fate[p] = "raw"
  <2>0. fate \in [Pictures -> Gate!Fates]
    BY <1>1 DEF Typed, TypeOK
  <2>1. CASE UNCHANGED <<hostFailed, fate>>
    BY <1>1, <2>1
  <2>2. CASE FilterEnqueue
    <3>1. hostFailed' = hostFailed /\ fate' = [fate EXCEPT ![arrived] = "inside"]
      BY <1>1, <2>2, EnqueueEffect DEF FilterEnqueue
    <3> QED BY <1>1, <2>0, <3>1
  <2>3. CASE FilterTake
    <3>1. /\ hostFailed' = hostFailed
          /\ fate' = [fate EXCEPT ![queue.slots[queue.head].picture] = "masked"]
      BY <1>1, <2>3 DEF FilterTake, ShownAs, FilterBlocked
    <3> QED BY <1>1, <2>0, <3>1
  <2>4. CASE FlushRelease
    BY <1>1, <2>0, <2>4 DEF FlushRelease
  <2>5. ASSUME NEW w \in Workers, WorkerPublish(w)
        PROVE  hostFailed' /\ \A p \in Pictures : fate'[p] = "raw" => fate[p] = "raw"
    <3>1. fate' = fate
      BY <2>5 DEF WorkerPublish
    <3>2. hostFailed'
      BY <1>1, <2>5, PublishEffect DEF Published
    <3> QED BY <3>1, <3>2
  <2> QED
    BY <1>1, <2>1, <2>2, <2>3, <2>4, <2>5
       DEF Next, FilterStep, FlushStep, CloseStep, WorkerStep, Closed, vars, history,
           FilterCall, FilterWait, FilterDisplay, FlushCall, FlushWait, FlushReset,
           StopWorkers, JoinWorkers, WorkerSleep, WorkerClaim, WorkerExit, SpuriousWakeup
<1>2. Typed /\ [Next]_vars
        => [hostFailed => /\ hostFailed'
                          /\ \A p \in Pictures : fate'[p] = "raw" => fate[p] = "raw"]_vars
  BY <1>1
<1> QED
  BY <1>2, TypedAlways, PTL DEF Spec, FailClosed
-----------------------------------------------------------------------------
(***************************************************************************)
(* Sleeping and waking on worker_cond.                                     *)
(***************************************************************************)
\* When some slot is pending, FindNextPendingFrameLocked finds one.
LEMMA PendingIsFound ==
    ASSUME NEW q \in QueueType, NextPending(q) = {}
    PROVE  PendingOffsets(q) = {}
<1> SUFFICES ASSUME PendingOffsets(q) # {} PROVE FALSE
  OBVIOUS
<1>1. PendingOffsets(q) \in SUBSET Nat
  BY Parameters DEF PendingOffsets, QueueType
<1>2. PICK m \in PendingOffsets(q) : \A n \in PendingOffsets(q) : m <= n
  BY <1>1, NatMinimum
<1> QED
  BY <1>2 DEF NextPending

\* The signal of QueuePictureLocked's caller, with the host awake, leaves a worker awake.
LEMMA SignalWakesAWorker ==
    ASSUME TypeOK, Host \notin waiting, SignalOne
    PROVE  waiting' \subseteq waiting /\ ~(Workers \subseteq waiting')
<1>1. CASE waiting = {}
  BY <1>1, ThreadsAssumption DEF SignalOne
<1>2. CASE waiting # {}
  <2>1. PICK t \in waiting : waiting' = waiting \ {t}
    BY <1>2 DEF SignalOne
  <2>2. t \in Workers /\ t \notin waiting'
    BY <2>1 DEF TypeOK
  <2> QED BY <2>1, <2>2
<1> QED BY <1>1, <1>2

\* Every step keeps the promise about sleeping threads.
LEMMA WakeupStep == Typed /\ NoLostWakeup /\ [Next]_vars => NoLostWakeup'
<1> SUFFICES ASSUME Typed, NoLostWakeup, [Next]_vars PROVE NoLostWakeup'
  OBVIOUS
<1> USE DEF Typed
<1>0. /\ queue \in QueueType /\ Workers # {} /\ Host \notin Workers
      /\ waiting \subseteq Workers \cup {Host}
  BY ThreadsAssumption DEF TypeOK
<1>1. ASSUME waiting' = {} PROVE NoLostWakeup'
  BY <1>0, <1>1 DEF NoLostWakeup
<1>2. ASSUME UNCHANGED <<queue, waiting, stop>>, hostPC' = hostPC \/ hostPC \notin {"await", "flush"}
      PROVE  NoLostWakeup'
  BY <1>2 DEF NoLostWakeup
<1>3. CASE FilterCall \/ FilterDisplay \/ FlushCall \/ FlushReset
  BY <1>2, <1>3 DEF FilterCall, FilterDisplay, FlushCall, FlushReset, queueVars
<1>4. CASE FilterEnqueue
  <2>1. Host \notin waiting /\ stop' = stop
    BY <1>4 DEF FilterEnqueue, Awake
  <2>2. waiting' \subseteq waiting /\ ~(Workers \subseteq waiting')
    BY <1>4, <2>1, SignalWakesAWorker DEF FilterEnqueue, FilterWakes
  <2> QED
    BY <2>1, <2>2 DEF NoLostWakeup
<1>5. CASE FilterWait
  <2>1. ~(hostPC = "enqueue" /\ FilterWaitsForRoom)
    <3>1. hostPC = "enqueue" => queue.count \in Nat /\ queue.count < MaxBufferFrames
      BY <1>0, Parameters DEF Backlog, QueueType
    <3> QED BY <3>1, Parameters DEF FilterWaitsForRoom, Full
  <2>2. /\ ~OldestFrameReady(queue) /\ hostPC' = "await"
        /\ waiting' = waiting \cup {Host} /\ UNCHANGED <<queue, stop>>
    BY <1>5, <2>1 DEF FilterWait, Sleep, queueVars
  <2> QED
    BY <1>0, <2>2 DEF NoLostWakeup
<1>6. CASE FilterTake
  <2>1. /\ Host \notin waiting /\ UNCHANGED <<waiting, stop>>
    BY <1>6 DEF FilterTake, Awake
  <2>2. ASSUME NEW k \in PendingOffsets(queue') PROVE k + 1 \in PendingOffsets(queue)
    <3>1. /\ queue' = TakeOldest(queue) /\ queue.count > 0 /\ queue.count \in Nat
          /\ queue'.count = queue.count - 1
      BY <1>0, <1>6, TakeEffect, Parameters DEF QueueType
    <3>2. k \in 0..(queue'.count - 1) /\ IsPending(queue'.slots[QueueIndex(queue', k)])
      BY DEF PendingOffsets
    <3>3. /\ QueueIndex(queue', k) = QueueIndex(queue, k + 1)
          /\ Occupied(queue') = Occupied(queue) \ {queue.head}
          /\ \A i \in SlotIndex \ {queue.head} : queue'.slots[i] = queue.slots[i]
      BY <1>0, <3>1, <3>2, TakeOldestEffect
    <3>4. QueueIndex(queue', k) \in Occupied(queue') /\ Occupied(queue) \subseteq SlotIndex
      BY <1>0, <3>2, OccupiedSlots DEF Occupied
    <3>5. IsPending(queue.slots[QueueIndex(queue, k + 1)])
      BY <3>2, <3>3, <3>4
    <3>6. k + 1 \in 0..(queue.count - 1)
      BY <3>1, <3>2
    <3> QED BY <3>5, <3>6 DEF PendingOffsets
  <2> QED
    BY <2>1, <2>2 DEF NoLostWakeup
<1>7. CASE FlushWait
  BY <1>0, <1>7 DEF FlushWait, Sleep, NoLostWakeup, queueVars, callVars
<1>8. CASE FlushRelease \/ StopWorkers
  BY <1>1, <1>8 DEF FlushRelease, StopWorkers, Broadcast
<1>9. CASE JoinWorkers
  BY <1>2, <1>9 DEF JoinWorkers, queueVars
<1>10. ASSUME NEW w \in Workers, WorkerSleep(w) PROVE NoLostWakeup'
  <2>1. /\ waiting' = waiting \cup {w} /\ UNCHANGED <<queue, stop, hostPC>> /\ ~stop
        /\ NextPending(queue) = {}
    BY <1>10 DEF WorkerSleep, Sleep, queueVars, callVars
  <2>2. PendingOffsets(queue) = {}
    BY <1>0, <2>1, PendingIsFound
  <2> QED
    BY <1>0, <2>1, <2>2 DEF NoLostWakeup
<1>11. ASSUME NEW w \in Workers, WorkerClaim(w) PROVE NoLostWakeup'
  <2> DEFINE i == workerSlot'[w]
  <2>1. /\ i \in SlotIndex /\ i \in Occupied(queue) /\ IsPending(queue.slots[i])
        /\ queue'.head = queue.head /\ queue'.count = queue.count
        /\ queue'.slots[i] = [queue.slots[i] EXCEPT !.processing = TRUE]
        /\ \A j \in SlotIndex \ {i} : queue'.slots[j] = queue.slots[j]
    BY <1>11, ClaimEffect DEF Typed
  <2>2. queue.slots[i] \in Slot
    BY <1>0, <2>1, SlotsOfQueue
  <2>3. Occupied(queue') = Occupied(queue)
    BY <2>1, SlotWritesKeepOrder
  <2>4. w \notin waiting /\ UNCHANGED <<waiting, hostPC, stop>>
    BY <1>11 DEF WorkerClaim, WorkerIdle, Awake, callVars
  <2> HIDE DEF i
  <2>5. queue'.slots[i].processing /\ ~queue'.slots[i].ready
    BY <2>1, <2>2 DEF Slot, IsPending
  <2>6. HasProcessing(queue')
    BY <2>1, <2>3, <2>5 DEF HasProcessing
  <2>7. ~OldestFrameReady(queue) => ~OldestFrameReady(queue')
    <3>1. queue.head \in SlotIndex
      BY <1>0 DEF QueueType
    <3>2. CASE queue.head = i
      BY <2>1, <2>5, <3>2 DEF OldestFrameReady
    <3>3. CASE queue.head # i
      BY <2>1, <3>1, <3>3 DEF OldestFrameReady
    <3> QED BY <3>2, <3>3
  <2> QED
    BY <2>4, <2>6, <2>7 DEF NoLostWakeup
<1>12. ASSUME NEW w \in Workers, WorkerPublish(w) PROVE NoLostWakeup'
  BY <1>1, <1>12 DEF WorkerPublish, WorkerWakes, Broadcast
<1>13. ASSUME NEW w \in Workers, WorkerExit(w) PROVE NoLostWakeup'
  BY <1>2, <1>13 DEF WorkerExit, queueVars, callVars
<1>14. CASE SpuriousWakeup
  BY <1>0, <1>14 DEF SpuriousWakeup, NoLostWakeup, queueVars, callVars
<1>15. CASE UNCHANGED vars
  BY <1>2, <1>15 DEF vars, queueVars, callVars
<1> QED
  BY <1>3, <1>4, <1>5, <1>6, <1>7, <1>8, <1>9, <1>10, <1>11, <1>12, <1>13, <1>14, <1>15
     DEF Next, FilterStep, FlushStep, CloseStep, WorkerStep, Closed

(***************************************************************************)
(* One condition variable serves the host and every worker, and the filter *)
(* signals only one of its sleepers: still no thread sleeps over work it   *)
(* should do, for any number of workers.                                   *)
(***************************************************************************)
THEOREM NoWakeupIsLost == Spec => []NoLostWakeup
<1>1. Init => NoLostWakeup
  BY EmptyQueueFacts, ThreadsAssumption DEF Init, SharedInit, NoLostWakeup
<1> QED
  BY <1>1, WakeupStep, TypedAlways, PTL DEF Spec
-----------------------------------------------------------------------------
(***************************************************************************)
(* Sixth layer: time and the windows of detections.                        *)
(***************************************************************************)
\* The queue's times lie behind the timeline's clock, which runs while there are any.
Clock ==
    /\ lastTs = NoTime \/ hostPC = "reset" => queue.count = 0
    /\ lastTs = NoTime => positives = {}
    /\ hostPC = "enqueue" => inTs = lastTs
    /\ \A i \in Occupied(queue) : queue.slots[i].ts <= lastTs

\* From now on the ranges cover every window: pruning forgot only what is over.
WindowsCovered ==
    \A t \in positives, ts \in Nat :
        ts >= lastTs /\ InWindow(ts, t) => TimeInBlockedRange(ranges, ts)

\* A queued picture in a window is marked in its slot.
WindowsMarked ==
    \A i \in Occupied(queue), t \in positives :
        InWindow(queue.slots[i].ts, t) => queue.slots[i].blocked

\* What the ranges cover lies in a window.
RangesHaveCause ==
    \A ts \in Nat : TimeInBlockedRange(ranges, ts) => \E t \in positives : InWindow(ts, t)

\* So does every marked picture, while inference works.
MarksHaveCause ==
    ~hostFailed => \A i \in Occupied(queue) :
        queue.slots[i].blocked => \E t \in positives : InWindow(queue.slots[i].ts, t)

Windows == Clock /\ WindowsCovered /\ WindowsMarked /\ RangesHaveCause /\ MarksHaveCause

\* Nothing lies in an empty list of ranges.
LEMMA NothingBlocked == \A ts : ~TimeInBlockedRange(<<>>, ts)
BY DEF TimeInBlockedRange, Holding

\* The next picture's time: without a discontinuity the clock only moves forward.
LEMMA WindowsCall == ASSUME Typed, Windows, FilterCall PROVE Windows'
<1> USE DEF Typed
<1>1. /\ UNCHANGED <<queue, ranges, positives, hostFailed>> /\ hostPC = "idle"
      /\ hostPC' \in {"enqueue", "flush"}
  BY DEF FilterCall, NumberFrame, queueVars, history
<1>2. \/ /\ lastTs' = lastTs
         /\ hostPC' = "flush"
      \/ /\ inTs' = lastTs'
         /\ lastTs' \in Nat
         /\ lastTs = NoTime \/ lastTs' >= lastTs
  <2>1. \A ts \in PictureTimes : ts \in Nat
    BY TimelineAssumption DEF PictureTimes
  <2> QED
    BY <2>1 DEF FilterCall, NumberFrame, Discontinuity, timelineVars, TypeOK
<1>3. lastTs = NoTime \/ lastTs \in Nat
  BY DEF TypeOK
<1>4. NoTime \notin Nat
  BY DEF NoTime
<1>5. \A i \in Occupied(queue) : queue.slots[i].ts \in Nat
  BY SlotsOfQueue, OccupiedSlots DEF TypeOK
<1>6. Clock'
  <2>1. lastTs = NoTime => Occupied(queue) = {}
    BY DEF Windows, Clock, Occupied
  <2>2. \A i \in Occupied(queue) : queue.slots[i].ts <= lastTs'
    BY <1>2, <1>3, <1>5, <2>1 DEF Windows, Clock
  <2> QED
    BY <1>1, <1>2, <1>4, <2>2 DEF Windows, Clock
<1>7. WindowsCovered'
  <2> SUFFICES ASSUME NEW t \in positives, NEW ts \in Nat, ts >= lastTs', InWindow(ts, t)
               PROVE  TimeInBlockedRange(ranges, ts)
    BY <1>1 DEF WindowsCovered, InWindow
  <2>1. lastTs # NoTime
    BY DEF Windows, Clock
  <2>2. ts >= lastTs
    BY <1>2, <1>3, <2>1
  <2> QED
    BY <2>2 DEF Windows, WindowsCovered
<1> QED
  BY <1>1, <1>6, <1>7 DEF Windows, WindowsMarked, RangesHaveCause, MarksHaveCause, InWindow

\* A picture that is queued in a window is marked at once, and only then.
LEMMA WindowsEnqueue == ASSUME Typed, Windows, FilterEnqueue PROVE Windows'
<1> USE DEF Typed
<1> DEFINE new == QueueIndex(queue, queue.count)
<1>1. /\ new \in SlotIndex /\ new \notin Occupied(queue)
      /\ Occupied(queue') = Occupied(queue) \cup {new}
      /\ \A j \in SlotIndex \ {new} : queue'.slots[j] = queue.slots[j]
      /\ queue'.slots[new].ts = inTs
      /\ queue'.slots[new].blocked = TimeInBlockedRange(ranges, inTs)
  BY EnqueueSlots
<1>2. /\ UNCHANGED <<ranges, positives, hostFailed, lastTs, inTs>> /\ hostPC = "enqueue"
      /\ hostPC' \in {"idle", "held"}
  BY EnqueueEffect DEF FilterEnqueue, timelineVars
<1>3. Occupied(queue) \subseteq SlotIndex /\ inTs \in Nat /\ inTs = lastTs /\ lastTs # NoTime
  BY <1>2, OccupiedSlots DEF TypeOK, Windows, Clock, NoTime
<1> HIDE DEF new
<1>4. Clock'
  BY <1>1, <1>2, <1>3 DEF Windows, Clock
<1>5. WindowsCovered' /\ RangesHaveCause'
  BY <1>2 DEF Windows, WindowsCovered, RangesHaveCause, InWindow
<1>6. WindowsMarked'
  <2> SUFFICES ASSUME NEW i \in Occupied(queue'), NEW t \in positives,
                      InWindow(queue'.slots[i].ts, t)
               PROVE  queue'.slots[i].blocked
    BY <1>2 DEF WindowsMarked, InWindow
  <2>1. CASE i = new
    <3>1. InWindow(inTs, t)
      BY <1>1, <2>1
    <3>2. TimeInBlockedRange(ranges, inTs)
      BY <1>3, <3>1 DEF Windows, WindowsCovered
    <3> QED BY <1>1, <2>1, <3>2
  <2>2. CASE i # new
    BY <1>1, <1>3, <2>2 DEF Windows, WindowsMarked
  <2> QED BY <2>1, <2>2
<1>7. MarksHaveCause'
  <2> SUFFICES ASSUME ~hostFailed, NEW i \in Occupied(queue'), queue'.slots[i].blocked
               PROVE  \E t \in positives : InWindow(queue'.slots[i].ts, t)
    BY <1>2 DEF MarksHaveCause, InWindow
  <2>1. CASE i = new
    <3>1. TimeInBlockedRange(ranges, inTs)
      BY <1>1, <2>1
    <3>2. PICK t \in positives : InWindow(inTs, t)
      BY <1>3, <3>1 DEF Windows, RangesHaveCause
    <3> QED BY <1>1, <2>1, <3>2
  <2>2. CASE i # new
    BY <1>1, <1>3, <2>2 DEF Windows, MarksHaveCause
  <2> QED BY <2>1, <2>2
<1> QED
  BY <1>4, <1>5, <1>6, <1>7 DEF Windows

\* Taking a picture and flushing the queue leave fewer pictures to speak of.
LEMMA WindowsTake == ASSUME Typed, Windows, FilterTake PROVE Windows'
<1> USE DEF Typed
<1>1. /\ queue \in QueueType /\ queue.count > 0 /\ queue' = TakeOldest(queue)
  BY TakeEffect DEF TypeOK
<1>2. /\ Occupied(queue') \subseteq Occupied(queue)
      /\ \A i \in Occupied(queue') : queue'.slots[i] = queue.slots[i]
  BY <1>1, TakeOldestEffect, OccupiedSlots
<1>3. /\ UNCHANGED <<ranges, positives, hostFailed, lastTs>>
      /\ hostPC \in {"held", "await"} /\ hostPC' = "display"
  BY DEF FilterTake, timelineVars
<1>4. lastTs # NoTime
  BY <1>1 DEF Windows, Clock
<1>5. Clock'
  BY <1>2, <1>3, <1>4 DEF Windows, Clock
<1>6. WindowsCovered' /\ RangesHaveCause'
  BY <1>3 DEF Windows, WindowsCovered, RangesHaveCause, InWindow
<1>7. WindowsMarked' /\ MarksHaveCause'
  BY <1>2, <1>3 DEF Windows, WindowsMarked, MarksHaveCause, InWindow
<1> QED
  BY <1>5, <1>6, <1>7 DEF Windows

\* A claim touches neither times nor marks.
LEMMA WindowsClaim == ASSUME Typed, Windows, NEW w \in Workers, WorkerClaim(w) PROVE Windows'
<1> USE DEF Typed
<1> DEFINE i == workerSlot'[w]
<1>1. /\ i \in SlotIndex
      /\ queue'.head = queue.head /\ queue'.count = queue.count
      /\ queue'.slots[i] = [queue.slots[i] EXCEPT !.processing = TRUE]
      /\ \A j \in SlotIndex \ {i} : queue'.slots[j] = queue.slots[j]
  BY ClaimEffect
<1>2. queue.slots[i] \in Slot /\ Occupied(queue) \subseteq SlotIndex
  BY <1>1, SlotsOfQueue, OccupiedSlots DEF TypeOK
<1>3. Occupied(queue') = Occupied(queue)
  BY <1>1, SlotWritesKeepOrder
<1>4. UNCHANGED <<ranges, positives, hostFailed, lastTs, inTs, hostPC>>
  BY DEF WorkerClaim, history, timelineVars, callVars
<1> HIDE DEF i
<1>5. queue'.slots[i].ts = queue.slots[i].ts /\ queue'.slots[i].blocked = queue.slots[i].blocked
  BY <1>1, <1>2 DEF Slot
<1>6. \A j \in Occupied(queue) : /\ queue'.slots[j].ts = queue.slots[j].ts
                                 /\ queue'.slots[j].blocked = queue.slots[j].blocked
  <2> SUFFICES ASSUME NEW j \in Occupied(queue)
               PROVE  /\ queue'.slots[j].ts = queue.slots[j].ts
                      /\ queue'.slots[j].blocked = queue.slots[j].blocked
    OBVIOUS
  <2>1. CASE j = i
    BY <1>5, <2>1
  <2>2. CASE j # i
    BY <1>1, <1>2, <2>2
  <2> QED BY <2>1, <2>2
<1>7. Clock'
  BY <1>1, <1>3, <1>4, <1>6 DEF Windows, Clock
<1>8. WindowsCovered' /\ RangesHaveCause'
  BY <1>4 DEF Windows, WindowsCovered, RangesHaveCause, InWindow
<1>9. WindowsMarked' /\ MarksHaveCause'
  BY <1>3, <1>4, <1>6 DEF Windows, WindowsMarked, MarksHaveCause, InWindow
<1> QED
  BY <1>7, <1>8, <1>9 DEF Windows

\* The same of any ring, list of ranges and detections: the worker that publishes a batch
\* writes them in several rounds.
WindowsOf(q, list, hits, now, failed) ==
    /\ \A t \in hits, ts \in Nat : ts >= now /\ InWindow(ts, t) => TimeInBlockedRange(list, ts)
    /\ \A i \in Occupied(q), t \in hits : InWindow(q.slots[i].ts, t) => q.slots[i].blocked
    /\ \A ts \in Nat : TimeInBlockedRange(list, ts) => \E t \in hits : InWindow(ts, t)
    /\ ~failed => \A i \in Occupied(q) :
           q.slots[i].blocked => \E t \in hits : InWindow(q.slots[i].ts, t)

LEMMA WindowsParts ==
    Windows <=> Clock /\ WindowsOf(queue, ranges, positives, lastTs, hostFailed)
BY DEF Windows, WindowsOf, WindowsCovered, WindowsMarked, RangesHaveCause, MarksHaveCause

\* What a result does to the marks of the queued pictures.
MarkedAfter(r, q, list, i, positive, failed) ==
    LET ts == q.slots[i].ts
    IN  /\ \A j \in SlotIndex \ {i} : r.slots[j].blocked <=>
              \/ q.slots[j].blocked
              \/ /\ positive /\ j \in Occupied(q)
                 /\ q.slots[j].ts \in WindowStart(ts, PaddingMs)..WindowEnd(ts, PaddingMs)
        /\ r.slots[i].blocked <=>
              failed \/ q.slots[i].blocked \/ TimeInBlockedRange(list, ts) \/ positive

RangesAfter(list, ts, positive) ==
    IF positive THEN RangesAfterDetection(list, ts, PaddingMs) ELSE list

HitsAfter(hits, ts, positive) == IF positive THEN hits \cup {ts} ELSE hits

\* A detection covers its window from then on, marks what is queued in it, and nothing else.
LEMMA ResultKeepsWindows ==
    ASSUME NEW q \in QueueType, NEW r, NEW list \in Seq(BlockRange), SortedAndDisjoint(list),
           NEW hits, NEW now \in Nat, NEW failed \in BOOLEAN,
           NEW i \in Occupied(q), NEW positive \in BOOLEAN, q.slots[i].ts <= now,
           r.head = q.head /\ r.count = q.count,
           \A j \in SlotIndex : r.slots[j].ts = q.slots[j].ts,
           MarkedAfter(r, q, list, i, positive, failed),
           WindowsOf(q, list, hits, now, failed)
    PROVE  LET ts == q.slots[i].ts
           IN  /\ SortedAndDisjoint(RangesAfter(list, ts, positive))
               /\ WindowsOf(r, RangesAfter(list, ts, positive), HitsAfter(hits, ts, positive), now, failed)
<1>1. PICK ts : ts = q.slots[i].ts
  OBVIOUS
<1>2. PICK after : after = RangesAfter(list, ts, positive)
  OBVIOUS
<1>3. PICK found : found = HitsAfter(hits, ts, positive)
  OBVIOUS
<1>4. Occupied(q) \subseteq SlotIndex /\ Occupied(r) = Occupied(q)
  BY OccupiedSlots, SlotWritesKeepOrder
<1>5. ts \in Nat /\ ts <= now /\ \A j \in Occupied(q) : q.slots[j].ts \in Nat
  BY <1>1, <1>4, SlotsOfQueue
<1> DEFINE start == WindowStart(ts, PaddingMs)
           end   == WindowEnd(ts, PaddingMs)
<1>6. /\ positive => after = RangesAfterDetection(list, ts, PaddingMs) /\ found = hits \cup {ts}
      /\ ~positive => after = list /\ found = hits
  BY <1>2, <1>3 DEF RangesAfter, HitsAfter
<1>7. /\ ts \in start..end
      /\ SortedAndDisjoint(RangesAfterDetection(list, ts, PaddingMs))
      /\ \A t \in start..end : TimeInBlockedRange(RangesAfterDetection(list, ts, PaddingMs), t)
      /\ \A t \in Nat : t >= start /\ TimeInBlockedRange(list, t)
                => TimeInBlockedRange(RangesAfterDetection(list, ts, PaddingMs), t)
      /\ \A t \in Nat : TimeInBlockedRange(RangesAfterDetection(list, ts, PaddingMs), t)
                => t \in start..end \/ TimeInBlockedRange(list, t)
  BY <1>5, Parameters, DetectionWindow
<1>8. start \in Nat /\ start <= ts
  BY <1>5, Parameters DEF WindowStart
<1>9. \A t : InWindow(t, ts) <=> t \in start..end
  BY DEF InWindow
<1>10. /\ \A j \in SlotIndex \ {i} : r.slots[j].blocked <=>
                \/ q.slots[j].blocked
                \/ positive /\ j \in Occupied(q) /\ q.slots[j].ts \in start..end
       /\ r.slots[i].blocked <=>
                failed \/ q.slots[i].blocked \/ TimeInBlockedRange(list, ts) \/ positive
  BY <1>1 DEF MarkedAfter
<1> HIDE DEF start, end
<1>11. SortedAndDisjoint(after)
  BY <1>6, <1>7
<1>12. ASSUME NEW t \in found, NEW u \in Nat, u >= now, InWindow(u, t)
       PROVE  TimeInBlockedRange(after, u)
  <2>1. CASE ~positive
    BY <1>6, <1>12, <2>1 DEF WindowsOf
  <2>2. CASE positive /\ t = ts
    BY <1>6, <1>7, <1>9, <1>12, <2>2
  <2>3. CASE positive /\ t # ts
    <3>1. t \in hits
      BY <1>6, <2>3
    <3>2. TimeInBlockedRange(list, u)
      BY <1>12, <3>1 DEF WindowsOf
    <3>3. u >= start
      BY <1>5, <1>8, <1>12
    <3> QED BY <1>6, <1>7, <2>3, <3>2, <3>3
  <2> QED BY <2>1, <2>2, <2>3
<1>13. ASSUME NEW j \in Occupied(q), NEW t \in found, InWindow(q.slots[j].ts, t)
       PROVE  r.slots[j].blocked
  <2>1. t \in hits \/ (positive /\ t = ts)
    BY <1>6
  <2>2. t \in hits => q.slots[j].blocked
    BY <1>13 DEF WindowsOf
  <2>3. CASE j = i
    BY <1>10, <2>1, <2>2, <2>3
  <2>4. CASE j # i
    BY <1>4, <1>9, <1>10, <1>13, <2>1, <2>2, <2>4
  <2> QED BY <2>3, <2>4
<1>14. ASSUME NEW u \in Nat, TimeInBlockedRange(after, u)
       PROVE  \E t \in found : InWindow(u, t)
  <2>1. TimeInBlockedRange(list, u) \/ (positive /\ u \in start..end)
    BY <1>6, <1>7, <1>14
  <2>2. TimeInBlockedRange(list, u) => \E t \in hits : InWindow(u, t)
    BY DEF WindowsOf
  <2> QED BY <1>6, <1>9, <2>1, <2>2
<1>15. ASSUME ~failed, NEW j \in Occupied(q), r.slots[j].blocked
       PROVE  \E t \in found : InWindow(q.slots[j].ts, t)
  <2>1. q.slots[j].blocked => \E t \in hits : InWindow(q.slots[j].ts, t)
    BY <1>15 DEF WindowsOf
  <2>2. CASE j = i
    <3>1. q.slots[i].blocked \/ TimeInBlockedRange(list, ts) \/ positive
      BY <1>10, <1>15, <2>2
    <3>2. TimeInBlockedRange(list, ts) => \E t \in hits : InWindow(ts, t)
      BY <1>5 DEF WindowsOf
    <3>3. InWindow(ts, ts)
      BY <1>7, <1>9
    <3> QED BY <1>1, <1>6, <2>1, <2>2, <3>1, <3>2, <3>3
  <2>3. CASE j # i
    BY <1>4, <1>6, <1>9, <1>10, <1>15, <2>1, <2>3
  <2> QED BY <2>2, <2>3
<1>16. WindowsOf(r, after, found, now, failed)
  BY <1>4, <1>12, <1>13, <1>14, <1>15 DEF WindowsOf
<1> QED
  BY <1>1, <1>2, <1>3, <1>11, <1>16

\* A queued picture has a time the clock has reached.
LEMMA ClockOfQueued ==
    ASSUME Typed, Clock, NEW i \in Occupied(queue)
    PROVE  /\ queue.slots[i].ts \in Nat /\ queue.slots[i].ts <= lastTs
           /\ lastTs \in Nat /\ lastTs # NoTime /\ hostPC # "reset"
<1>1. queue.count # 0 /\ Occupied(queue) \subseteq SlotIndex
  BY OccupiedSlots DEF Occupied, Typed, TypeOK
<1> QED
  BY <1>1, SlotsOfQueue DEF Typed, TypeOK, Clock

\* A worker's result on its slot.
LEMMA WindowsPublish ==
    ASSUME Typed, RangesInOrder, Windows, NEW w \in Workers, HasItsSlot(w), WorkerPublish(w)
    PROVE  Windows'
<1>1. PICK i : i = workerSlot[w]
  OBVIOUS
<1>2. UNCHANGED <<lastTs, inTs, hostPC>> /\ i \in Occupied(queue)
  BY <1>1 DEF WorkerPublish, timelineVars, callVars, HasItsSlot
<1>3. PICK outcome \in {"clean", "positive", "failed"} : Published(w, outcome)
  BY PublishEffect
<1>4. PICK positive \in BOOLEAN : positive = (outcome # "clean")
  OBVIOUS
<1>5. PICK ts : ts = queue.slots[i].ts
  OBVIOUS
<1>6. /\ ts \in Nat /\ ts <= lastTs /\ lastTs \in Nat /\ lastTs # NoTime /\ hostPC # "reset"
      /\ \A j \in Occupied(queue) : queue.slots[j].ts <= lastTs
  BY <1>2, <1>5, ClockOfQueued DEF Windows
<1>7. /\ queue'.head = queue.head /\ queue'.count = queue.count
      /\ \A j \in SlotIndex : queue'.slots[j].ts = queue.slots[j].ts
      /\ MarkedAfter(queue', queue, ranges, i, positive, hostFailed')
      /\ hostFailed' \in BOOLEAN /\ (hostFailed => hostFailed')
      /\ ranges' = RangesAfter(ranges, ts, positive)
      /\ positives' = HitsAfter(positives, ts, positive)
  <2>1. hostFailed \in BOOLEAN
    BY DEF Typed, TypeOK
  <2> QED BY <1>1, <1>3, <1>4, <1>5, <2>1
     DEF Published, MarkedAfter, RangesAfter, HitsAfter, FilterBlocked
<1>8. WindowsOf(queue, ranges, positives, lastTs, hostFailed')
  BY <1>7, WindowsParts DEF WindowsOf
<1>9. queue \in QueueType /\ ranges \in Seq(BlockRange) /\ SortedAndDisjoint(ranges)
  BY DEF Typed, TypeOK, BlockRange, RangesInOrder
<1>10. WindowsOf(queue', ranges', positives', lastTs, hostFailed')
  BY <1>2, <1>5, <1>6, <1>7, <1>8, <1>9, ResultKeepsWindows
<1>11. Clock'
  <2>1. Occupied(queue') = Occupied(queue) /\ Occupied(queue) \subseteq SlotIndex
    BY <1>7, <1>9, SlotWritesKeepOrder, OccupiedSlots
  <2> QED BY <1>2, <1>6, <1>7, <2>1 DEF Windows, Clock
<1>12. Windows' <=> Clock' /\ WindowsOf(queue', ranges', positives', lastTs', hostFailed')
  BY DEF Windows, WindowsOf, WindowsCovered, WindowsMarked, RangesHaveCause, MarksHaveCause, InWindow
<1> QED
  BY <1>2, <1>10, <1>11, <1>12

\* A step that leaves queue, ranges, detections and clock alone.
LEMMA WindowsKept ==
    ASSUME Windows, UNCHANGED <<queue, ranges, positives, hostFailed, lastTs, inTs>>,
           hostPC' # hostPC => hostPC' \notin {"reset", "enqueue"}
    PROVE  Windows'
BY DEF Windows, Clock, WindowsCovered, WindowsMarked, RangesHaveCause, MarksHaveCause, InWindow

\* The host's steps keep the layer, whoever the workers are.
LEMMA WindowsHost ==
    ASSUME Typed, Windows,
           \/ FilterCall \/ FilterStep \/ FlushCall \/ FlushStep \/ CloseStep
           \/ SpuriousWakeup \/ Closed
    PROVE  Windows'
<1>1. CASE FilterCall
  BY <1>1, WindowsCall
<1>2. CASE FilterEnqueue
  BY <1>2, WindowsEnqueue
<1>3. CASE FilterWait
  BY <1>3, WindowsKept DEF FilterWait, history, timelineVars, queueVars
<1>4. CASE FilterTake
  BY <1>4, WindowsTake
<1>5. CASE FilterDisplay \/ FlushCall \/ FlushWait \/ StopWorkers \/ JoinWorkers
  BY <1>5, WindowsKept DEF FilterDisplay, FlushCall, FlushWait, StopWorkers, JoinWorkers,
     history, timelineVars, callVars, queueVars
<1>6. CASE FlushRelease
  <2>1. /\ UNCHANGED <<ranges, positives, hostFailed, lastTs, inTs>>
        /\ queue'.count = 0 /\ Occupied(queue') = {} /\ hostPC' = "reset"
    BY <1>6, EmptyQueueFacts DEF FlushRelease, timelineVars
  <2> QED
    BY <2>1 DEF Windows, Clock, WindowsCovered, WindowsMarked, RangesHaveCause,
       MarksHaveCause, InWindow
<1>7. CASE FlushReset
  <2>1. /\ queue' = queue /\ ranges' = <<>> /\ positives' = {} /\ hostPC = "reset"
        /\ hostPC' = "enqueue" => inTs' = lastTs'
    BY <1>7 DEF FlushReset, ResetRanges, Typed, TypeOK
  <2>2. queue.count = 0 /\ Occupied(queue) = {}
    BY <2>1 DEF Windows, Clock, Occupied
  <2> QED
    BY <2>1, <2>2, NothingBlocked DEF Windows, Clock, WindowsCovered, WindowsMarked,
       RangesHaveCause, MarksHaveCause
<1>8. CASE SpuriousWakeup \/ Closed
  BY <1>8, WindowsKept DEF SpuriousWakeup, Closed, vars, history, timelineVars, callVars, queueVars
<1> QED
  BY <1>1, <1>2, <1>3, <1>4, <1>5, <1>6, <1>7, <1>8 DEF FilterStep, FlushStep, CloseStep

\* So do those of a worker that takes one picture at a time.
LEMMA WindowsWorker ==
    ASSUME Typed, RangesInOrder, Windows, NEW w \in Workers,
           workerPC[w] = "busy" => HasItsSlot(w), WorkerStep(w)
    PROVE  Windows'
<1>1. CASE WorkerSleep(w) \/ WorkerExit(w)
  BY <1>1, WindowsKept DEF WorkerSleep, WorkerExit, history, timelineVars, callVars, queueVars
<1>2. CASE WorkerClaim(w)
  BY <1>2, WindowsClaim
<1>3. CASE WorkerPublish(w)
  BY <1>3, WindowsPublish DEF WorkerPublish
<1> QED
  BY <1>1, <1>2, <1>3 DEF WorkerStep

\* Every step keeps the layer.
LEMMA WindowsStep ==
    Typed /\ WorkerOwnsItsSlot /\ RangesInOrder /\ Windows /\ [Next]_vars => Windows'
<1> SUFFICES ASSUME Typed, WorkerOwnsItsSlot, RangesInOrder, Windows, [Next]_vars
             PROVE  Windows'
  OBVIOUS
<1>1. CASE UNCHANGED vars
  BY <1>1, WindowsKept DEF vars, history, timelineVars, callVars, queueVars
<1>2. ASSUME NEW w \in Workers, WorkerStep(w) PROVE Windows'
  BY <1>2, WindowsWorker DEF WorkerOwnsItsSlot, HasItsSlot
<1> QED
  BY <1>1, <1>2, WindowsHost DEF Next

\* At first there is nothing in a window.
LEMMA WindowsInit == SharedInit => RangesInOrder /\ Windows
<1> SUFFICES ASSUME SharedInit PROVE RangesInOrder /\ Windows
  OBVIOUS
<1>1. queue.count = 0 /\ Occupied(queue) = {} /\ ranges = <<>> /\ positives = {}
      /\ hostPC = "idle"
  BY EmptyQueueFacts DEF SharedInit
<1> QED
  BY <1>1, NothingBlocked DEF Windows, Clock, WindowsCovered, WindowsMarked,
     RangesHaveCause, MarksHaveCause, RangesInOrder, SortedAndDisjoint

\* The layer holds always.
LEMMA WindowsAlways == Spec => []Windows
<1>1. Init => Windows
  BY WindowsInit DEF Init
<1> QED
  BY <1>1, WindowsStep, TypedAlways, WorkersOwnTheirSlots, RangesStayInOrder, PTL DEF Spec

(***************************************************************************)
(* Once a detection is registered, no picture in its window that is still  *)
(* queued, or is queued later, gets out unmasked: for any number of        *)
(* workers finishing in any order, and any pruning.                        *)
(***************************************************************************)
THEOREM WindowsHold == Spec => []WindowHolds
<1>1. Windows => WindowHolds
  BY DEF Windows, WindowsMarked, WindowHolds, FilterBlocked
<1> QED
  BY <1>1, WindowsAlways, PTL

\* A mark and a range lie in a window; so does what is masked.
LEMMA MarksHaveReason == Typed /\ Windows => MaskHasCause
<1> SUFFICES ASSUME Typed, Windows, NEW i \in Occupied(queue),
                    FilterBlocked(queue.slots[i]), ~hostFailed
             PROVE  \E t \in positives : InWindow(queue.slots[i].ts, t)
  BY DEF MaskHasCause
<1>1. queue.slots[i].ts \in Nat
  BY SlotsOfQueue, OccupiedSlots DEF Typed, TypeOK
<1>2. queue.slots[i].blocked \/ TimeInBlockedRange(ranges, queue.slots[i].ts)
  BY DEF FilterBlocked
<1> QED
  BY <1>1, <1>2 DEF Windows, RangesHaveCause, MarksHaveCause

(***************************************************************************)
(* And while inference works nothing else is masked: every mask lies in    *)
(* the window of a detection of the running timeline.                      *)
(***************************************************************************)
THEOREM MasksHaveCause == Spec => []MaskHasCause
BY MarksHaveReason, TypedAlways, WindowsAlways, PTL
-----------------------------------------------------------------------------
(***************************************************************************)
(* The mute request.  While a call runs, one more cause is on its way out: *)
(* the picture being displayed, or the reset that ends the flush.          *)
(***************************************************************************)
RequestHasCause ==
    audioRequested =>
        \/ maskActive
        \/ \E i \in Occupied(queue) : verdict[queue.slots[i].picture] = "positive"
        \/ hostPC = "display" /\ outBlocked
        \/ hostPC = "reset"

\* Every step keeps a cause for the request.
LEMMA RequestStep == Layers /\ Decisions /\ RequestHasCause /\ [Next]_vars => RequestHasCause'
<1> SUFFICES ASSUME Layers, Decisions, RequestHasCause, [Next]_vars PROVE RequestHasCause'
  OBVIOUS
<1> USE DEF Layers
<1>1. ASSUME UNCHANGED <<queue, verdict, audioRequested, maskActive, outBlocked>>,
             hostPC' = hostPC \/ hostPC \notin {"display", "reset"}
      PROVE  RequestHasCause'
  BY <1>1 DEF RequestHasCause
<1>2. CASE FilterCall \/ FilterWait \/ FlushCall \/ FlushWait \/ StopWorkers \/ JoinWorkers
  BY <1>1, <1>2 DEF FilterCall, FilterWait, FlushCall, FlushWait, StopWorkers, JoinWorkers,
     queueVars, outputVars, history, callVars
<1>3. CASE FilterEnqueue
  <2>1. /\ QueueIndex(queue, queue.count) \notin Occupied(queue)
        /\ Occupied(queue) \subseteq Occupied(queue')
        /\ \A j \in SlotIndex \ {QueueIndex(queue, queue.count)} :
                queue'.slots[j] = queue.slots[j]
    BY <1>3, EnqueueSlots DEF Layers
  <2>2. /\ UNCHANGED <<verdict, audioRequested, maskActive>> /\ hostPC = "enqueue"
    BY <1>3 DEF FilterEnqueue
  <2>3. \A j \in Occupied(queue) : queue'.slots[j] = queue.slots[j] /\ j \in Occupied(queue')
    BY <2>1, OccupiedSlots DEF Typed, TypeOK
  <2> QED
    BY <2>2, <2>3 DEF RequestHasCause
<1>4. CASE FilterTake
  <2>1. /\ queue \in QueueType /\ queue.count > 0 /\ queue' = TakeOldest(queue)
        /\ queue.head \in Occupied(queue) /\ queue.slots[queue.head].ready
    BY <1>4, TakeEffect DEF Typed, TypeOK
  <2>2. /\ Occupied(queue') = Occupied(queue) \ {queue.head}
        /\ \A i \in Occupied(queue') : queue'.slots[i] = queue.slots[i]
    BY <2>1, TakeOldestEffect, OccupiedSlots
  <2>3. /\ UNCHANGED <<verdict, audioRequested, maskActive>>
        /\ hostPC \in {"held", "await"} /\ hostPC' = "display"
        /\ outBlocked' = FilterBlocked(queue.slots[queue.head])
    BY <1>4 DEF FilterTake
  <2>4. verdict[queue.slots[queue.head].picture] = "positive" => outBlocked'
    BY <2>1, <2>3 DEF Decisions, DecisionMatchesPicture, FilterBlocked
  <2> QED
    BY <2>2, <2>3, <2>4 DEF RequestHasCause
<1>5. CASE FilterDisplay
  BY <1>5 DEF FilterDisplay, RequestAfterDisplay, RequestHasCause, queueVars, history
<1>6. CASE FlushRelease \/ FlushReset
  BY <1>6 DEF FlushRelease, FlushReset, RequestHasCause
<1>7. ASSUME NEW w \in Workers, WorkerSleep(w) \/ WorkerExit(w) PROVE RequestHasCause'
  BY <1>1, <1>7 DEF WorkerSleep, WorkerExit, queueVars, outputVars, history, callVars
<1>8. ASSUME NEW w \in Workers, WorkerClaim(w) PROVE RequestHasCause'
  <2> DEFINE i == workerSlot'[w]
  <2>1. /\ i \in SlotIndex
        /\ queue'.head = queue.head /\ queue'.count = queue.count
        /\ queue'.slots[i] = [queue.slots[i] EXCEPT !.processing = TRUE]
        /\ \A j \in SlotIndex \ {i} : queue'.slots[j] = queue.slots[j]
    BY <1>8, ClaimEffect
  <2>2. Occupied(queue') = Occupied(queue) /\ queue.slots[i] \in Slot
        /\ Occupied(queue) \subseteq SlotIndex
    BY <2>1, SlotWritesKeepOrder, SlotsOfQueue, OccupiedSlots DEF Typed, TypeOK
  <2>3. UNCHANGED <<verdict, audioRequested, maskActive, outBlocked, hostPC>>
    BY <1>8 DEF WorkerClaim, outputVars, history, callVars
  <2> HIDE DEF i
  <2>4. queue'.slots[i].picture = queue.slots[i].picture
    BY <2>1, <2>2 DEF Slot
  <2>5. \A j \in SlotIndex : queue'.slots[j].picture = queue.slots[j].picture
    BY <2>1, <2>4
  <2> QED
    BY <2>2, <2>3, <2>5 DEF RequestHasCause
<1>9. ASSUME NEW w \in Workers, WorkerPublish(w) PROVE RequestHasCause'
  <2> DEFINE i == workerSlot[w]
             p == workerPicture[w]
  <2>1. PICK outcome \in {"clean", "positive", "failed"} :
            /\ queue.slots[i].analyze \/ outcome = "clean"
            /\ Published(w, outcome)
    BY <1>9, PublishEffect
  <2>2. workerPC[w] = "busy" /\ UNCHANGED <<maskActive, outBlocked, hostPC>>
    BY <1>9, PublishEffect DEF WorkerPublish, callVars
  <2>3. i \in Occupied(queue) /\ queue.slots[i].picture = p /\ queue.slots[i].processing
    BY <2>2 DEF WorkerOwnsItsSlot
  <2>4. /\ p \in Pictures /\ verdict \in [Pictures -> Gate!Verdicts]
        /\ Occupied(queue) \subseteq SlotIndex
        /\ \A j \in Occupied(queue) : queue.slots[j].picture \in Pictures
    BY <2>3, QueuedArrived, OccupiedSlots DEF Typed, TypeOK
  <2>5. verdict[p] = "pending"
    BY <2>2, <2>3 DEF Decisions, HeldUndecided, UndecidedPending
  <2>6. /\ queue'.head = queue.head /\ queue'.count = queue.count
        /\ \A j \in SlotIndex : queue'.slots[j].picture = queue.slots[j].picture
        /\ audioRequested' = (outcome # "clean" \/ audioRequested)
        /\ verdict' = IF queue.slots[i].analyze
                      THEN [verdict EXCEPT ![p] = IF outcome # "clean" THEN "positive"
                                                                       ELSE "clean"]
                      ELSE verdict
    BY <2>1 DEF Published
  <2>7. Occupied(queue') = Occupied(queue)
    BY <2>6, SlotWritesKeepOrder
  <2> HIDE DEF i, p
  <2>8. CASE outcome = "clean"
    <3>1. \A q \in Pictures : verdict[q] = "positive" => verdict'[q] = "positive"
      BY <2>4, <2>5, <2>6, <2>8
    <3>2. \A j \in Occupied(queue) :
            verdict[queue.slots[j].picture] = "positive"
                => verdict'[queue'.slots[j].picture] = "positive"
      BY <2>4, <2>6, <3>1
    <3> QED
      BY <2>2, <2>6, <2>7, <2>8, <3>2 DEF RequestHasCause
  <2>9. CASE outcome # "clean"
    <3>1. verdict'[p] = "positive"
      BY <2>1, <2>4, <2>6, <2>9
    <3>2. verdict'[queue'.slots[i].picture] = "positive" /\ i \in Occupied(queue')
      BY <2>3, <2>4, <2>6, <2>7, <3>1
    <3> QED
      BY <3>2 DEF RequestHasCause
  <2> QED BY <2>8, <2>9
<1>10. CASE SpuriousWakeup \/ UNCHANGED vars
  BY <1>1, <1>10 DEF SpuriousWakeup, vars, queueVars, outputVars, history, callVars
<1> QED
  BY <1>2, <1>3, <1>4, <1>5, <1>6, <1>7, <1>8, <1>9, <1>10
     DEF Next, FilterStep, FlushStep, CloseStep, WorkerStep, Closed

(***************************************************************************)
(* Between two calls the audio is asked to be mute only while the mask is  *)
(* up or a detected picture waits in the queue, although the workers write *)
(* the request under the lock and the host writes it without.              *)
(***************************************************************************)
THEOREM MuteRequestsHaveCause == Spec => []MuteRequestHasCause
<1>1. Init => RequestHasCause
  BY DEF Init, SharedInit, RequestHasCause
<1>2. RequestHasCause => MuteRequestHasCause
  BY DEF RequestHasCause, MuteRequestHasCause
<1> QED
  BY <1>1, <1>2, RequestStep, DecisionsAlways, PTL DEF Spec

-----------------------------------------------------------------------------
(***************************************************************************)
(* The workers that batch.  The loops of ProcessGpuBatch are functions of  *)
(* the number of rounds done; such a function exists, whatever a round     *)
(* does, as long as it stays within a set of states.                       *)
(***************************************************************************)
IsRound(round, m, S) == m \in Nat /\ round \in [S \X (1..m) -> S]

IsLoop(f, start, round, m, S) ==
    /\ f \in [0..m -> S]
    /\ f[0] = start
    /\ \A n \in 1..m : f[n] = round[<<f[n - 1], n>>]

LEMMA LoopExists ==
    ASSUME NEW m, NEW S, NEW start, NEW round, start \in S, IsRound(round, m, S)
    PROVE  \E f : IsLoop(f, start, round, m, S)
<1>0. m \in Nat /\ round \in [S \X (1..m) -> S]
  BY DEF IsRound
<1> DEFINE Follows(f, k) == f[0] = start /\ \A n \in 1..k : f[n] = round[<<f[n - 1], n>>]
           never == {k \in 0..m : ~\E f \in [0..k -> S] : Follows(f, k)}
<1>1. ASSUME never # {} PROVE FALSE
  <2>1. PICK k \in never : \A n \in never : k <= n
    <3>1. never \in SUBSET Nat
      BY <1>0
    <3> HIDE DEF never
    <3> QED BY <1>1, <3>1, NatMinimum
  <2>2. k \in 0..m
    BY <1>0
  <2>3. CASE k = 0
    <3>1. PICK f : f = [n \in 0..0 |-> start]
      OBVIOUS
    <3>2. f \in [0..k -> S] /\ Follows(f, k)
      BY <2>3, <3>1
    <3> QED BY <3>2
  <2>4. CASE k # 0
    <3>1. k - 1 \in 0..m /\ k \in 1..m /\ ~(k <= k - 1)
      BY <1>0, <2>2, <2>4
    <3>2. PICK f \in [0..(k - 1) -> S] : Follows(f, k - 1)
      BY <2>1, <3>1
    <3>3. f[k - 1] \in S /\ round[<<f[k - 1], k>>] \in S
      BY <1>0, <2>2, <3>1
    <3>4. PICK g : g = [n \in 0..k |-> IF n = k THEN round[<<f[k - 1], k>>] ELSE f[n]]
      OBVIOUS
    <3>5. g \in [0..k -> S]
      BY <3>1, <3>3, <3>4
    <3>6. g[0] = start
      BY <3>1, <3>2, <3>4
    <3>7. ASSUME NEW n \in 1..k PROVE g[n] = round[<<g[n - 1], n>>]
      <4>1. CASE n = k
        <5>1. k - 1 \in 0..k /\ k - 1 # k /\ k \in 0..k
          BY <2>2, <2>4
        <5>2. g[k - 1] = f[k - 1] /\ g[k] = round[<<f[k - 1], k>>]
          BY <3>4, <5>1
        <5> QED BY <4>1, <5>2
      <4>2. CASE n # k
        <5>1. n - 1 \in 0..k /\ n - 1 # k /\ n \in 1..(k - 1) /\ n \in 0..k
          BY <2>2, <4>2
        <5>2. g[n - 1] = f[n - 1] /\ g[n] = f[n]
          BY <3>4, <4>2, <5>1
        <5> QED BY <3>2, <5>1, <5>2
      <4> QED BY <4>1, <4>2
    <3> QED BY <3>5, <3>6, <3>7
  <2> QED BY <2>3, <2>4
<1>2. m \in 0..m /\ never = {}
  BY <1>0, <1>1
<1> QED
  BY <1>0, <1>2 DEF IsLoop

\* What holds at first, and after each round if before it, holds after the last.
LEMMA UpToTheLast ==
    ASSUME NEW m \in Nat, NEW good, 0 \in good, \A n \in 1..m : n - 1 \in good => n \in good
    PROVE  m \in good
<1> DEFINE bad == {n \in 0..m : n \notin good}
<1>1. ASSUME bad # {} PROVE FALSE
  <2>1. PICK k \in bad : \A n \in bad : k <= n
    <3>1. bad \in SUBSET Nat
      OBVIOUS
    <3> HIDE DEF bad
    <3> QED BY <1>1, <3>1, NatMinimum
  <2>2. k \in 0..m /\ k \notin good
    BY <2>1
  <2>3. k # 0
    BY <2>2
  <2>4. k - 1 \in 0..m /\ k \in 1..m /\ ~(k <= k - 1)
    BY <2>2, <2>3
  <2>5. k - 1 \in good
    BY <2>1, <2>4
  <2> QED BY <2>2, <2>4, <2>5
<1>2. m \in 0..m
  OBVIOUS
<1> QED
  BY <1>1, <1>2

\* The batch: some of the wanted offsets, in order, and one if there is one.
LEMMA TakeInOrderProperties ==
    ASSUME NEW q, q.count \in Nat, NEW W
    PROVE  LET offsets == TakeInOrder(q, W)
           IN  /\ offsets \in Seq(Nat)
               /\ \A j \in 1..Len(offsets) : offsets[j] \in W /\ offsets[j] \in 0..(q.count - 1)
               /\ \A i, j \in 1..Len(offsets) : i < j => offsets[i] < offsets[j]
               /\ \A k \in 0..(q.count - 1) : k \in W => offsets # <<>>
<1> DEFINE m == q.count
           Loop(f) == f = [n \in 0..m |-> IF n = 0 THEN <<>> ELSE TakeOne(f[n - 1], W, n - 1)]
           round == [x \in Seq(Nat) \X (1..m) |-> TakeOne(x[1], W, x[2] - 1)]
<1>1. ASSUME NEW s \in Seq(Nat), NEW k \in Nat PROVE TakeOne(s, W, k) \in Seq(Nat)
  <2>1. Append(s, k) \in Seq(Nat)
    BY <1>1
  <2> QED BY <1>1, <2>1 DEF TakeOne
<1>2. \E f : Loop(f)
  <2>1. round \in [Seq(Nat) \X (1..m) -> Seq(Nat)]
    <3>1. ASSUME NEW x \in Seq(Nat) \X (1..m) PROVE TakeOne(x[1], W, x[2] - 1) \in Seq(Nat)
      BY <1>1
    <3> QED BY <3>1
  <2>2. PICK none : none = <<>>
    OBVIOUS
  <2>0. none \in Seq(Nat) /\ m \in Nat
    BY <2>2
  <2> HIDE DEF round, m
  <2>3. PICK f : IsLoop(f, none, round, m, Seq(Nat))
    <3>1. IsRound(round, m, Seq(Nat))
      BY <2>0, <2>1 DEF IsRound
    <3> QED BY <2>0, <3>1, LoopExists
  <2>6. /\ f \in [0..m -> Seq(Nat)]
        /\ f[0] = none /\ \A n \in 1..m : f[n] = round[<<f[n - 1], n>>]
    BY <2>3 DEF IsLoop
  <2>4. ASSUME NEW n \in 1..m PROVE f[n] = TakeOne(f[n - 1], W, n - 1)
    <3>1. <<f[n - 1], n>> \in Seq(Nat) \X (1..m)
      <4>1. n - 1 \in 0..m
        BY <2>0
      <4> QED BY <2>6, <4>1
    <3> QED BY <2>6, <3>1 DEF round
  <2>5. f = [n \in 0..m |-> IF n = 0 THEN <<>> ELSE TakeOne(f[n - 1], W, n - 1)]
    <3>1. \A n \in 0..m : n # 0 => n \in 1..m
      BY <2>0
    <3> QED BY <2>2, <2>6, <2>4, <3>1
  <2> QED BY <2>5
<1>3. PICK taken : taken = CHOOSE f : Loop(f)
  OBVIOUS
<1>4. Loop(taken)
  BY <1>2, <1>3
<1>5. TakeInOrder(q, W) = taken[m]
  BY <1>3 DEF TakeInOrder
<1> DEFINE Sound(s, n) ==
             /\ s \in Seq(Nat)
             /\ \A j \in 1..Len(s) : s[j] \in W /\ s[j] \in 0..(n - 1)
             /\ \A i, j \in 1..Len(s) : i < j => s[i] < s[j]
             /\ \A k \in 0..(n - 1) : k \in W => s # <<>>
           good == {n \in 0..m : Sound(taken[n], n)}
<1>6. taken[0] = <<>> /\ \A n \in 1..m : taken[n] = TakeOne(taken[n - 1], W, n - 1)
  BY <1>4
<1> HIDE DEF Loop, m
<1>7. m \in Nat
  BY DEF m
<1>8. ASSUME NEW n \in 1..m, NEW s, Sound(s, n - 1) PROVE Sound(TakeOne(s, W, n - 1), n)
  <2>1. GpuBatchSize \in Nat /\ GpuBatchSize > 0
    BY GpuBatchAssumption
  <2>2. s \in Seq(Nat) /\ Len(s) \in Nat
    BY <1>8
  <2>3. CASE Len(s) < GpuBatchSize /\ n - 1 \in W
    <3>1. PICK t : t = Append(s, n - 1)
      OBVIOUS
    <3>2. TakeOne(s, W, n - 1) = t
      BY <2>3, <3>1 DEF TakeOne
    <3>3. /\ t \in Seq(Nat) /\ Len(t) = Len(s) + 1 /\ t[Len(s) + 1] = n - 1
          /\ \A j \in 1..Len(s) : t[j] = s[j]
      BY <1>7, <2>2, <3>1
    <3>7. ASSUME NEW j \in 1..Len(s)
          PROVE  t[j] = s[j] /\ t[j] \in W /\ t[j] \in Nat /\ t[j] < n - 1
      BY <1>7, <1>8, <3>3
    <3>8. \A j \in 1..Len(t) : j = Len(s) + 1 \/ j \in 1..Len(s)
      BY <2>2, <3>3
    <3>4. ASSUME NEW j \in 1..Len(t) PROVE t[j] \in W /\ t[j] \in 0..(n - 1)
      <4>1. CASE j = Len(s) + 1
        BY <1>7, <2>3, <3>3, <4>1
      <4>2. CASE j \in 1..Len(s)
        BY <1>7, <3>7, <4>2
      <4> QED BY <3>8, <4>1, <4>2
    <3>5. ASSUME NEW i \in 1..Len(t), NEW j \in 1..Len(t), i < j PROVE t[i] < t[j]
      <4>1. i \in 1..Len(s)
        BY <2>2, <3>3, <3>5
      <4>2. CASE j = Len(s) + 1
        BY <3>3, <3>7, <4>1, <4>2
      <4>3. CASE j \in 1..Len(s)
        BY <1>8, <3>5, <3>7, <4>1, <4>3
      <4> QED BY <3>8, <4>2, <4>3
    <3>6. t # <<>>
      BY <2>2, <3>3
    <3> QED BY <3>2, <3>3, <3>4, <3>5, <3>6
  <2>4. CASE ~(Len(s) < GpuBatchSize /\ n - 1 \in W)
    <3>1. TakeOne(s, W, n - 1) = s
      BY <2>4 DEF TakeOne
    <3>2. \A j \in 1..Len(s) : s[j] \in W /\ s[j] \in 0..(n - 1)
      BY <1>7, <1>8
    <3>3. ASSUME NEW k \in 0..(n - 1), k \in W PROVE s # <<>>
      <4>1. CASE k = n - 1
        BY <2>1, <2>4, <3>3, <4>1
      <4>2. CASE k # n - 1
        BY <1>7, <1>8, <3>3, <4>2
      <4> QED BY <4>1, <4>2
    <3> QED BY <1>8, <3>1, <3>2, <3>3
  <2> QED BY <2>3, <2>4
<1>9. Sound(<<>>, 0)
  OBVIOUS
<1> HIDE DEF Sound
<1>10. m \in good
  <2>1. 0 \in good
    BY <1>6, <1>7, <1>9
  <2>2. ASSUME NEW n \in 1..m, n - 1 \in good PROVE n \in good
    <3>1. n \in 0..m
      BY <1>7
    <3> QED BY <1>6, <1>8, <2>2, <3>1
  <2> HIDE DEF good
  <2> QED BY <1>7, <2>1, <2>2, UpToTheLast
<1>12. Sound(taken[m], m)
  BY <1>10
<1> QED
  BY <1>5, <1>12 DEF Sound, m

-----------------------------------------------------------------------------
(***************************************************************************)
(* The publishing loop.  Each round decides one slot and touches no other  *)
(* but for its mark; after the last, no claimed slot is being processed.   *)
(***************************************************************************)
\* What the publishing loop works on.
Shared == [queue : QueueType, ranges : Seq(BlockRange), renewal : Nat]

\* The ring r has the pictures of q in the same slots.
SamePictures(r, q) ==
    /\ r.head = q.head /\ r.count = q.count
    /\ \A j \in SlotIndex : /\ r.slots[j].picture = q.slots[j].picture
                            /\ r.slots[j].ts = q.slots[j].ts
                            /\ r.slots[j].analyze = q.slots[j].analyze

\* A slot with a result; and one the round was not about, but for its mark.
Decided(slot, positive) ==
    ~slot.processing /\ slot.ready /\ (slot.nsfw <=> positive) /\ (positive => slot.blocked)

LeftAlone(new, old) ==
    /\ new.processing = old.processing /\ new.ready = old.ready /\ new.nsfw = old.nsfw
    /\ old.blocked => new.blocked

LEMMA MarkDecidedEffect ==
    ASSUME NEW q \in QueueType, NEW i \in SlotIndex,
           NEW positive \in BOOLEAN, NEW blocked \in BOOLEAN
    PROVE  LET r == MarkDecided(q, i, positive, blocked)
           IN  /\ r \in QueueType
               /\ SamePictures(r, q)
               /\ (positive => blocked) => Decided(r.slots[i], positive)
               /\ r.slots[i].blocked = blocked
               /\ \A j \in SlotIndex \ {i} : r.slots[j] = q.slots[j]
<1> DEFINE new == [q.slots[i] EXCEPT !.processing = FALSE, !.ready = TRUE,
                                     !.nsfw = positive, !.blocked = blocked]
<1>1. /\ new \in Slot
      /\ new.picture = q.slots[i].picture /\ new.ts = q.slots[i].ts
      /\ new.analyze = q.slots[i].analyze /\ ~new.processing
      /\ new.ready /\ new.nsfw = positive /\ new.blocked = blocked
  <2>1. q.slots[i] \in Slot
    BY SlotsOfQueue
  <2> QED
    BY <2>1 DEF Slot
<1>2. MarkDecided(q, i, positive, blocked) = WithSlot(q, i, new)
  BY DEF MarkDecided
<1> HIDE DEF new
<1>3. LET r == WithSlot(q, i, new)
      IN  /\ r \in QueueType
          /\ r.head = q.head /\ r.count = q.count
          /\ r.slots[i] = new
          /\ \A j \in SlotIndex \ {i} : r.slots[j] = q.slots[j]
  BY <1>1, WithSlotEffect
<1> QED
  BY <1>1, <1>2, <1>3 DEF SamePictures, Decided

LEMMA PublishOneEffect ==
    ASSUME NEW s \in Shared, NEW failed \in BOOLEAN, NEW i \in SlotIndex,
           NEW positive \in BOOLEAN
    PROVE  LET r == PublishOne(s, failed, i, positive)
           IN  /\ r \in Shared
               /\ SamePictures(r.queue, s.queue)
               /\ Decided(r.queue.slots[i], positive)
               /\ \A j \in SlotIndex \ {i} : LeftAlone(r.queue.slots[j], s.queue.slots[j])
               /\ MarkedAfter(r.queue, s.queue, s.ranges, i, positive, failed)
               /\ r.ranges = RangesAfter(s.ranges, s.queue.slots[i].ts, positive)
<1>1. PICK q : q = s.queue
  OBVIOUS
<1>2. PICK list : list = s.ranges
  OBVIOUS
<1>3. PICK ts : ts = q.slots[i].ts
  OBVIOUS
<1>4. /\ q \in QueueType /\ list \in Seq(BlockRange) /\ s.renewal \in Nat /\ ts \in Nat
      /\ q.slots[i].blocked \in BOOLEAN
  <2>1. q \in QueueType /\ list \in Seq(BlockRange) /\ s.renewal \in Nat
    BY <1>1, <1>2 DEF Shared
  <2> QED BY <1>3, <2>1, SlotsOfQueue
<1>5. PICK blocked \in BOOLEAN : blocked = \/ failed
                                           \/ q.slots[i].blocked
                                           \/ TimeInBlockedRange(list, ts)
                                           \/ positive
  OBVIOUS
<1>6. PICK r : r = PublishOne(s, failed, i, positive)
  OBVIOUS
<1>7. CASE positive
  <2>1. PICK start, end \in Nat : start = WindowStart(ts, PaddingMs) /\ end = WindowEnd(ts, PaddingMs)
    BY <1>4, WindowIsTime
  <2>2. PICK marked : marked = EnsureQueuedFramesInWindow(q, start, end)
    OBVIOUS
  <2>3. /\ marked \in QueueType
        /\ SamePictures(marked, q)
        /\ \A j \in SlotIndex : LeftAlone(marked.slots[j], q.slots[j])
        /\ \A j \in SlotIndex : marked.slots[j].blocked <=>
               q.slots[j].blocked \/ (j \in Occupied(q) /\ q.slots[j].ts \in start..end)
    <3>1. q \in QueueType /\ start \in Nat /\ end \in Nat
      BY <1>4, <2>1
    <3>2. /\ marked \in QueueType
          /\ marked.head = q.head /\ marked.count = q.count
          /\ \A j \in SlotIndex :
                 /\ marked.slots[j].picture = q.slots[j].picture
                 /\ marked.slots[j].ts = q.slots[j].ts
                 /\ marked.slots[j].analyze = q.slots[j].analyze
                 /\ marked.slots[j].processing = q.slots[j].processing
                 /\ marked.slots[j].ready = q.slots[j].ready
                 /\ marked.slots[j].nsfw = q.slots[j].nsfw
                 /\ marked.slots[j].blocked <=>
                        q.slots[j].blocked \/ (j \in Occupied(q) /\ q.slots[j].ts \in start..end)
      <4> DEFINE e == EnsureQueuedFramesInWindow(q, start, end)
      <4>1. /\ e \in QueueType
            /\ e.head = q.head /\ e.count = q.count
            /\ \A j \in SlotIndex :
                   /\ e.slots[j].picture = q.slots[j].picture
                   /\ e.slots[j].ts = q.slots[j].ts
                   /\ e.slots[j].analyze = q.slots[j].analyze
                   /\ e.slots[j].processing = q.slots[j].processing
                   /\ e.slots[j].ready = q.slots[j].ready
                   /\ e.slots[j].nsfw = q.slots[j].nsfw
                   /\ e.slots[j].blocked <=>
                        q.slots[j].blocked \/ (j \in Occupied(q) /\ q.slots[j].ts \in start..end)
        BY ONLY <3>1, EnsureEffect
      <4> QED BY <2>2, <4>1
    <3> QED BY <3>2 DEF SamePictures, LeftAlone
  <2>4. /\ r.queue = MarkDecided(marked, i, positive, blocked)
        /\ r.ranges = RangesAfterDetection(list, ts, PaddingMs)
        /\ r.renewal = RenewalAfterDetection(list, s.renewal, ts, PaddingMs)
        /\ r = [queue |-> r.queue, ranges |-> r.ranges, renewal |-> r.renewal]
    BY <1>1, <1>2, <1>3, <1>5, <1>6, <1>7, <2>1, <2>2 DEF PublishOne
  <2>5. /\ r.queue \in QueueType
        /\ SamePictures(r.queue, marked)
        /\ Decided(r.queue.slots[i], positive)
        /\ r.queue.slots[i].blocked = blocked
        /\ \A j \in SlotIndex \ {i} : r.queue.slots[j] = marked.slots[j]
    <3> DEFINE e == MarkDecided(marked, i, positive, blocked)
    <3>1. marked \in QueueType /\ i \in SlotIndex /\ positive \in BOOLEAN /\ blocked \in BOOLEAN
      BY <1>5, <2>3
    <3>2. /\ e \in QueueType
          /\ SamePictures(e, marked)
          /\ (positive => blocked) => Decided(e.slots[i], positive)
          /\ e.slots[i].blocked = blocked
          /\ \A j \in SlotIndex \ {i} : e.slots[j] = marked.slots[j]
      BY ONLY <3>1, MarkDecidedEffect
    <3>3. r.queue = e
      BY <2>4
    <3> HIDE DEF e
    <3>4. positive => blocked
      BY <1>5
    <3> QED BY <3>2, <3>3, <3>4
  <2>6. r.ranges \in Seq(BlockRange) /\ r.renewal \in Nat
    <3>1. PaddingMs \in Nat /\ list \in Seq(BlockRange) /\ ts \in Nat /\ s.renewal \in Nat
      BY <1>4, Parameters
    <3>2. RangesAfterDetection(list, ts, PaddingMs) \in Seq(BlockRange)
      BY ONLY <3>1, RangesAfterDetectionAreRanges
    <3>3. RenewalAfterDetection(list, s.renewal, ts, PaddingMs) \in Nat
      BY ONLY <3>1, RenewalAfterDetectionIsTime
    <3> QED BY <2>4, <3>2, <3>3
  <2>7. r \in Shared
    BY <2>4, <2>5, <2>6 DEF Shared
  <2>8. SamePictures(r.queue, q)
    BY <2>3, <2>5 DEF SamePictures
  <2>9. MarkedAfter(r.queue, q, list, i, positive, failed)
    BY <1>3, <1>5, <1>7, <2>1, <2>3, <2>5 DEF MarkedAfter
  <2>10. r.ranges = RangesAfter(list, ts, positive)
    BY <1>7, <2>4 DEF RangesAfter
  <2> QED
    BY <1>1, <1>2, <1>3, <1>6, <2>3, <2>5, <2>7, <2>8, <2>9, <2>10
<1>8. CASE ~positive
  <2>1. PICK new : new = MarkDecided(q, i, positive, blocked)
    OBVIOUS
  <2>2. r = [s EXCEPT !.queue = new]
    BY <1>1, <1>2, <1>3, <1>5, <1>6, <1>8, <2>1 DEF PublishOne
  <2>3. /\ new \in QueueType
        /\ SamePictures(new, q)
        /\ Decided(new.slots[i], positive)
        /\ new.slots[i].blocked = blocked
        /\ \A j \in SlotIndex \ {i} : new.slots[j] = q.slots[j]
    <3> DEFINE e == MarkDecided(q, i, positive, blocked)
    <3>1. /\ e \in QueueType
          /\ SamePictures(e, q)
          /\ (positive => blocked) => Decided(e.slots[i], positive)
          /\ e.slots[i].blocked = blocked
          /\ \A j \in SlotIndex \ {i} : e.slots[j] = q.slots[j]
      <4>1. q \in QueueType /\ i \in SlotIndex /\ positive \in BOOLEAN /\ blocked \in BOOLEAN
        BY <1>4, <1>5
      <4> QED BY ONLY <4>1, MarkDecidedEffect
    <3> QED BY <1>5, <2>1, <3>1
  <2>4. r \in Shared /\ r.queue = new /\ r.ranges = list
    BY <1>2, <2>2, <2>3 DEF Shared
  <2>5. MarkedAfter(r.queue, q, list, i, positive, failed)
    BY <1>3, <1>5, <1>8, <2>3, <2>4 DEF MarkedAfter
  <2>6. r.ranges = RangesAfter(list, ts, positive)
    BY <1>8, <2>4 DEF RangesAfter
  <2> QED
    BY <1>1, <1>2, <1>3, <1>6, <2>3, <2>4, <2>5, <2>6 DEF LeftAlone
<1> QED
  BY <1>7, <1>8

\* The loop over a batch of claims.
OnSlots(claims) ==
    /\ Len(claims) \in Nat
    /\ \A n \in 1..Len(claims) : claims[n].slot \in SlotIndex
    /\ \A k, n \in 1..Len(claims) : k # n => claims[k].slot # claims[n].slot

\* What its rounds leave, one after the other.
Rounds(f, start, failed, results, claims) ==
    /\ f \in [0..Len(claims) -> Shared] /\ f[0] = start
    /\ \A n \in 1..Len(claims) :
          f[n] = PublishOne(f[n - 1], failed, claims[n].slot, results[n] # "clean")
    /\ PublishAll(start, failed, claims, results) = f[Len(claims)]

LEMMA PublishRounds ==
    ASSUME NEW start \in Shared, NEW failed \in BOOLEAN, NEW results, NEW claims, OnSlots(claims)
    PROVE  \E f : Rounds(f, start, failed, results, claims)
<1> DEFINE m == Len(claims)
           After(s, n) == PublishOne(s, failed, claims[n].slot, results[n] # "clean")
           Loop(f) == f = [n \in 0..m |-> IF n = 0 THEN start ELSE After(f[n - 1], n)]
           round == [x \in Shared \X (1..m) |-> After(x[1], x[2])]
<1>1. ASSUME NEW s \in Shared, NEW n \in 1..m PROVE After(s, n) \in Shared
  <2>1. PICK positive \in BOOLEAN : positive = (results[n] # "clean")
    OBVIOUS
  <2>2. claims[n].slot \in SlotIndex
    BY <1>1 DEF OnSlots
  <2>3. After(s, n) = PublishOne(s, failed, claims[n].slot, positive)
    BY <2>1
  <2> QED
    BY <2>2, <2>3, PublishOneEffect
<1>2. \E f : Loop(f) /\ f \in [0..m -> Shared]
  <2> HIDE DEF After, m
  <2>1. m \in Nat
    BY DEF m, OnSlots
  <2>2. IsRound(round, m, Shared)
    <3>1. ASSUME NEW x \in Shared \X (1..m) PROVE After(x[1], x[2]) \in Shared
      BY <1>1
    <3> QED BY <2>1, <3>1 DEF IsRound
  <2> HIDE DEF round
  <2>3. PICK f : IsLoop(f, start, round, m, Shared)
    BY <2>2, LoopExists
  <2>4. /\ f \in [0..m -> Shared]
        /\ f[0] = start /\ \A n \in 1..m : f[n] = round[<<f[n - 1], n>>]
    BY <2>3 DEF IsLoop
  <2>5. ASSUME NEW n \in 1..m PROVE f[n] = After(f[n - 1], n)
    <3>1. n - 1 \in 0..m
      BY <2>1
    <3>2. <<f[n - 1], n>> \in Shared \X (1..m)
      BY <2>4, <3>1
    <3> QED BY <2>4, <3>2 DEF round
  <2>6. \A n \in 0..m : n # 0 => n \in 1..m
    BY <2>1
  <2>7. f = [n \in 0..m |-> IF n = 0 THEN start ELSE After(f[n - 1], n)]
    BY <2>4, <2>5, <2>6
  <2> QED BY <2>4, <2>7
<1>3. PICK published : published = CHOOSE f : Loop(f)
  OBVIOUS
<1>4. Loop(published)
  BY <1>2, <1>3
<1>5. PublishAll(start, failed, claims, results) = published[m]
  BY <1>3 DEF PublishAll
<1>6. published[0] = start /\ \A n \in 1..m : published[n] = After(published[n - 1], n)
  <2>1. m \in Nat
    BY DEF OnSlots
  <2> HIDE DEF After, m
  <2> QED BY <1>4, <2>1
<1>7. published \in [0..m -> Shared]
  <2>2. m \in Nat
    BY DEF OnSlots
  <2> HIDE DEF After, m
  <2>3. ASSUME NEW k \in 0..m PROVE published[k] \in Shared
    <3> DEFINE small == {n \in 0..k : published[n] \in Shared}
    <3>1. k \in Nat /\ 0 \in small
      BY <1>6, <2>2
    <3>2. ASSUME NEW n \in 1..k, n - 1 \in small PROVE n \in small
      <4>1. n \in 1..m /\ n \in 0..k
        BY <2>2, <3>1
      <4> QED BY <1>1, <1>6, <3>2, <4>1
    <3> HIDE DEF small
    <3>3. k \in small
      BY <3>1, <3>2, UpToTheLast
    <3> QED BY <3>3 DEF small
  <2> QED BY <1>4, <2>3
<1> QED
  BY <1>5, <1>6, <1>7 DEF Rounds

LEMMA PublishAllEffect ==
    ASSUME NEW start \in Shared, NEW failed \in BOOLEAN, NEW results, NEW claims, OnSlots(claims)
    PROVE  LET after == PublishAll(start, failed, claims, results)
           IN  /\ after \in Shared
               /\ SamePictures(after.queue, start.queue)
               /\ \A n \in 1..Len(claims) :
                     Decided(after.queue.slots[claims[n].slot], results[n] # "clean")
               /\ \A j \in SlotIndex :
                     (\A n \in 1..Len(claims) : claims[n].slot # j)
                        => LeftAlone(after.queue.slots[j], start.queue.slots[j])
<1> DEFINE m == Len(claims)
           After(s, n) == PublishOne(s, failed, claims[n].slot, results[n] # "clean")
           Sound(s, n) ==
             /\ s \in Shared
             /\ SamePictures(s.queue, start.queue)
             /\ \A k \in 1..n : Decided(s.queue.slots[claims[k].slot], results[k] # "clean")
             /\ \A j \in SlotIndex :
                   (\A k \in 1..n : claims[k].slot # j)
                        => LeftAlone(s.queue.slots[j], start.queue.slots[j])
<1>1. ASSUME NEW s \in Shared, NEW n \in 1..m
      PROVE  /\ After(s, n) \in Shared
             /\ SamePictures(After(s, n).queue, s.queue)
             /\ Decided(After(s, n).queue.slots[claims[n].slot], results[n] # "clean")
             /\ \A j \in SlotIndex \ {claims[n].slot} :
                    LeftAlone(After(s, n).queue.slots[j], s.queue.slots[j])
  <2>1. PICK positive \in BOOLEAN : positive = (results[n] # "clean")
    OBVIOUS
  <2>2. claims[n].slot \in SlotIndex
    BY <1>1 DEF OnSlots
  <2>3. After(s, n) = PublishOne(s, failed, claims[n].slot, positive)
    BY <2>1
  <2> QED
    BY <2>1, <2>2, <2>3, PublishOneEffect
<1>2. PICK published : Rounds(published, start, failed, results, claims)
  BY PublishRounds
<1>3. /\ published \in [0..m -> Shared] /\ published[0] = start
      /\ \A n \in 1..m : published[n] = After(published[n - 1], n)
      /\ PublishAll(start, failed, claims, results) = published[m]
  BY <1>2 DEF Rounds
<1> HIDE DEF After, m
<1>7. /\ m \in Nat /\ \A n \in 1..m : claims[n].slot \in SlotIndex
      /\ \A k, n \in 1..m : k # n => claims[k].slot # claims[n].slot
  BY DEF m, OnSlots
<1>8. ASSUME NEW n \in 1..m, NEW s, Sound(s, n - 1) PROVE Sound(After(s, n), n)
  <2>1. PICK r : r = After(s, n)
    OBVIOUS
  <2>2. PICK i : i = claims[n].slot
    OBVIOUS
  <2>3. /\ s \in Shared /\ SamePictures(s.queue, start.queue)
        /\ r \in Shared /\ SamePictures(r.queue, s.queue)
        /\ i \in SlotIndex /\ Decided(r.queue.slots[i], results[n] # "clean")
        /\ \A j \in SlotIndex \ {i} : LeftAlone(r.queue.slots[j], s.queue.slots[j])
    BY <1>1, <1>7, <1>8, <2>1, <2>2
  <2>4. SamePictures(r.queue, start.queue)
    BY <2>3 DEF SamePictures
  <2>5. ASSUME NEW k \in 1..n PROVE Decided(r.queue.slots[claims[k].slot], results[k] # "clean")
    <3>1. CASE k = n
      BY <2>2, <2>3, <3>1
    <3>2. CASE k # n
      <4>1. k \in 1..(n - 1) /\ k \in 1..m
        BY <1>7, <3>2
      <4>2. Decided(s.queue.slots[claims[k].slot], results[k] # "clean")
        BY <1>8, <4>1
      <4>3. claims[k].slot \in SlotIndex \ {i}
        BY <1>7, <2>2, <3>2, <4>1
      <4>4. LeftAlone(r.queue.slots[claims[k].slot], s.queue.slots[claims[k].slot])
        BY <2>3, <4>3
      <4> QED BY <4>2, <4>4 DEF Decided, LeftAlone
    <3> QED BY <3>1, <3>2
  <2>6. ASSUME NEW j \in SlotIndex, \A k \in 1..n : claims[k].slot # j
        PROVE  LeftAlone(r.queue.slots[j], start.queue.slots[j])
    <3>1. n \in 1..n /\ \A k \in 1..(n - 1) : k \in 1..n
      BY <1>7
    <3>2. j # i /\ \A k \in 1..(n - 1) : claims[k].slot # j
      BY <2>2, <2>6, <3>1
    <3>3. LeftAlone(s.queue.slots[j], start.queue.slots[j])
      BY <1>8, <3>2
    <3>4. LeftAlone(r.queue.slots[j], s.queue.slots[j])
      BY <2>3, <3>2
    <3> QED BY <3>3, <3>4 DEF LeftAlone
  <2> QED BY <2>1, <2>3, <2>4, <2>5, <2>6
<1>9. Sound(start, 0)
  BY DEF SamePictures, LeftAlone
<1> HIDE DEF Sound
<1> DEFINE good == {n \in 0..m : Sound(published[n], n)}
<1>10. m \in good
  <2>1. 0 \in good
    BY <1>3, <1>7, <1>9
  <2>2. ASSUME NEW n \in 1..m, n - 1 \in good PROVE n \in good
    <3>1. n \in 0..m
      BY <1>7
    <3> QED BY <1>3, <1>8, <2>2, <3>1
  <2> HIDE DEF good
  <2> QED BY <1>7, <2>1, <2>2, UpToTheLast
<1>11. Sound(published[m], m)
  BY <1>10
<1> QED
  BY <1>3, <1>11 DEF Sound, m

(***************************************************************************)
(* The loop and the windows.  A detection in the batch masks the pictures  *)
(* of its window that are queued, the earlier ones of the batch included,  *)
(* which have their results already.                                       *)
(***************************************************************************)
HitsOf(claims, results, q, n) ==
    {q.slots[claims[j].slot].ts : j \in {k \in 1..n : results[k] # "clean"}}

LEMMA PublishAllWindows ==
    ASSUME NEW start \in Shared, NEW failed \in BOOLEAN, NEW results, NEW claims, OnSlots(claims),
           NEW hits, NEW now \in Nat, SortedAndDisjoint(start.ranges),
           WindowsOf(start.queue, start.ranges, hits, now, failed),
           \A n \in 1..Len(claims) : claims[n].slot \in Occupied(start.queue),
           \A i \in Occupied(start.queue) : start.queue.slots[i].ts <= now
    PROVE  LET after == PublishAll(start, failed, claims, results)
               found == hits \cup HitsOf(claims, results, start.queue, Len(claims))
           IN  /\ SortedAndDisjoint(after.ranges)
               /\ WindowsOf(after.queue, after.ranges, found, now, failed)
<1>0. start \in Shared /\ failed \in BOOLEAN /\ OnSlots(claims)
  OBVIOUS
<1>0a. PICK published : Rounds(published, start, failed, results, claims)
  BY PublishRounds
<1> DEFINE m == Len(claims)
           Found(n) == hits \cup HitsOf(claims, results, start.queue, n)
           Sound(s, n) ==
             /\ s \in Shared
             /\ SamePictures(s.queue, start.queue)
             /\ SortedAndDisjoint(s.ranges)
             /\ WindowsOf(s.queue, s.ranges, Found(n), now, failed)
<1>1. /\ published \in [0..m -> Shared] /\ published[0] = start
      /\ \A n \in 1..m : published[n] =
            PublishOne(published[n - 1], failed, claims[n].slot, results[n] # "clean")
      /\ PublishAll(start, failed, claims, results) = published[m]
  BY <1>0a DEF Rounds
<1>2. m \in Nat /\ \A n \in 1..m : claims[n].slot \in SlotIndex /\ claims[n].slot \in Occupied(start.queue)
  BY DEF OnSlots
<1> HIDE DEF m
<1>3. ASSUME NEW n \in 1..m, NEW s, Sound(s, n - 1)
      PROVE  Sound(PublishOne(s, failed, claims[n].slot, results[n] # "clean"), n)
  <2>1. PICK positive \in BOOLEAN : positive = (results[n] # "clean")
    OBVIOUS
  <2>2. PICK i : i = claims[n].slot
    OBVIOUS
  <2>3. PICK q : q = s.queue
    OBVIOUS
  <2>4. PICK r : r = PublishOne(s, failed, claims[n].slot, results[n] # "clean")
    OBVIOUS
  <2>5. /\ s \in Shared /\ q \in QueueType /\ s.ranges \in Seq(BlockRange) /\ SortedAndDisjoint(s.ranges)
        /\ SamePictures(q, start.queue) /\ WindowsOf(q, s.ranges, Found(n - 1), now, failed)
        /\ i \in SlotIndex /\ i \in Occupied(start.queue)
    BY <1>2, <1>3, <2>2, <2>3 DEF Shared
  <2>6. /\ r \in Shared
        /\ SamePictures(r.queue, q)
        /\ MarkedAfter(r.queue, q, s.ranges, i, positive, failed)
        /\ r.ranges = RangesAfter(s.ranges, q.slots[i].ts, positive)
    <3>1. r = PublishOne(s, failed, i, positive)
      BY <2>1, <2>2, <2>4
    <3> QED BY <2>3, <2>5, <3>1, PublishOneEffect
  <2>7. /\ Occupied(q) = Occupied(start.queue)
        /\ q.slots[i].ts = start.queue.slots[i].ts /\ q.slots[i].ts <= now
    BY <2>5, SlotWritesKeepOrder DEF SamePictures
  <2>8. /\ r.queue.head = q.head /\ r.queue.count = q.count
        /\ \A j \in SlotIndex : r.queue.slots[j].ts = q.slots[j].ts
    BY <2>6 DEF SamePictures
  <2>9. /\ SortedAndDisjoint(r.ranges)
        /\ WindowsOf(r.queue, r.ranges, HitsAfter(Found(n - 1), q.slots[i].ts, positive), now, failed)
    <3> HIDE DEF Found
    <3>1. PICK found : found = Found(n - 1)
      OBVIOUS
    <3>2. WindowsOf(q, s.ranges, found, now, failed)
      BY <2>5, <3>1
    <3>3. /\ SortedAndDisjoint(RangesAfter(s.ranges, q.slots[i].ts, positive))
          /\ WindowsOf(r.queue, RangesAfter(s.ranges, q.slots[i].ts, positive),
                       HitsAfter(found, q.slots[i].ts, positive), now, failed)
      BY <2>5, <2>6, <2>7, <2>8, <3>2, ResultKeepsWindows
    <3> QED BY <2>6, <3>1, <3>3
  <2>10. HitsAfter(Found(n - 1), q.slots[i].ts, positive) = Found(n)
    <3>1. {k \in 1..n : results[k] # "clean"} =
             {k \in 1..(n - 1) : results[k] # "clean"} \cup (IF positive THEN {n} ELSE {})
      <4>1. ASSUME NEW k PROVE k \in 1..n <=> k \in 1..(n - 1) \/ k = n
        BY <1>2
      <4> QED BY <2>1, <4>1
    <3> QED BY <2>2, <2>7, <3>1 DEF HitsAfter, HitsOf
  <2>11. SamePictures(r.queue, start.queue)
    BY <2>5, <2>6 DEF SamePictures
  <2> QED
    BY <2>4, <2>6, <2>9, <2>10, <2>11
<1>4. Sound(start, 0)
  <2>1. Found(0) = hits
    BY DEF HitsOf
  <2> QED BY <2>1 DEF SamePictures
<1> HIDE DEF Sound
<1> DEFINE good == {n \in 0..m : Sound(published[n], n)}
<1>5. m \in good
  <2>1. 0 \in good
    BY <1>1, <1>2, <1>4
  <2>2. ASSUME NEW n \in 1..m, n - 1 \in good PROVE n \in good
    <3>1. n \in 0..m
      BY <1>2
    <3> QED BY <1>1, <1>3, <2>2, <3>1
  <2> HIDE DEF good
  <2> QED BY <1>2, <2>1, <2>2, UpToTheLast
<1>6. Sound(published[m], m)
  BY <1>5
<1> QED
  BY <1>1, <1>6 DEF Sound, m
-----------------------------------------------------------------------------
(***************************************************************************)
(* What the batching workers and the others hold.                          *)
(***************************************************************************)
GpuTypes ==
    /\ mode \in [Workers -> {"batch", "single", "off"}]
    /\ DOMAIN batch = Workers

\* A worker with a helper is the only one.
Solo ==
    \A w \in Workers : mode[w] # "off" => \A v \in Workers \ {w} : workerPC[v] = "exited"

\* A worker on the single-frame path owns its slot.
SinglesOwn ==
    \A w \in Workers : workerPC[w] = "busy" /\ mode[w] # "batch" =>
        /\ HasItsSlot(w)
        /\ \A v \in Workers \ {w} :
               workerPC[v] = "busy" /\ mode[v] # "batch" => workerSlot[v] # workerSlot[w]

\* The claims of b are on slots of q that wait for their results, in order.
OwnsClaims(b, q) ==
    /\ Len(b) \in Nat /\ DOMAIN b = 1..Len(b) /\ b # <<>>
    /\ \A j \in 1..Len(b) :
          /\ b[j].slot \in Occupied(q)
          /\ q.slots[b[j].slot].processing
          /\ q.slots[b[j].slot].analyze
          /\ ~q.slots[b[j].slot].ready
          /\ q.slots[b[j].slot].picture = b[j].picture
    /\ \A i, j \in 1..Len(b) : i < j => b[i].picture < b[j].picture

BatchesOwn ==
    \A w \in Workers : workerPC[w] = "busy" /\ mode[w] = "batch" => OwnsClaims(batch[w], queue)

\* Worker w has slot i in hand.
Holds(w, i) ==
    /\ workerPC[w] = "busy"
    /\ IF mode[w] = "batch" THEN \E j \in 1..Len(batch[w]) : batch[w][j].slot = i
                            ELSE workerSlot[w] = i

\* A slot that is being processed is in some worker's hand.
ProcessingHeld ==
    \A i \in Occupied(queue) : queue.slots[i].processing => \E w \in Workers : Holds(w, i)

HeldInv == GpuTypes /\ Solo /\ SinglesOwn /\ BatchesOwn /\ ProcessingHeld

\* The batch is formed from pending slots that are to be analysed.
LEMMA BatchClaimEffect ==
    ASSUME Typed, Queued, GpuTypes, NEW w \in Workers, BatchClaim(w)
    PROVE  /\ batch' = [batch EXCEPT ![w] = batch'[w]]
           /\ OwnsClaims(batch'[w], queue')
           /\ queue' \in QueueType
           /\ SamePictures(queue', queue)
           /\ \A i \in SlotIndex :
                 /\ queue'.slots[i].ready = queue.slots[i].ready
                 /\ queue'.slots[i].nsfw = queue.slots[i].nsfw
                 /\ queue'.slots[i].blocked = queue.slots[i].blocked
                 /\ queue.slots[i].processing => queue'.slots[i].processing
                 /\ queue'.slots[i].processing =>
                        \/ queue.slots[i].processing
                        \/ \E j \in 1..Len(batch'[w]) : batch'[w][j].slot = i
<1>1. queue \in QueueType /\ queue.count \in Nat
  BY Parameters DEF Typed, TypeOK, QueueType
<1>2. PICK W : W = {k \in PendingOffsets(queue) : queue.slots[QueueIndex(queue, k)].analyze}
  OBVIOUS
<1>3. PICK offsets : offsets = BatchOffsets(queue)
  OBVIOUS
<1>4. offsets = TakeInOrder(queue, W)
  BY <1>2, <1>3 DEF BatchOffsets
<1>5. PICK n : n = Len(offsets)
  OBVIOUS
<1>6. /\ n \in Nat /\ DOMAIN offsets = 1..n
      /\ \A j \in 1..n : offsets[j] \in W /\ offsets[j] \in 0..(queue.count - 1)
      /\ \A i, j \in 1..n : i < j => offsets[i] < offsets[j]
  <2> DEFINE t == TakeInOrder(queue, W)
  <2>1. /\ t \in Seq(Nat)
        /\ \A j \in 1..Len(t) : t[j] \in W /\ t[j] \in 0..(queue.count - 1)
        /\ \A i, j \in 1..Len(t) : i < j => t[i] < t[j]
    BY <1>1, TakeInOrderProperties
  <2> HIDE DEF t
  <2>2. Len(t) \in Nat /\ DOMAIN t = 1..Len(t)
    BY <2>1
  <2>3. offsets = t
    BY <1>4 DEF t
  <2> QED BY <1>5, <2>1, <2>2, <2>3
<1>7. n # 0
  <2>1. PICK k \in NextPending(queue) : queue.slots[QueueIndex(queue, k)].analyze
    BY DEF BatchClaim, BatchHead
  <2>2. k \in PendingOffsets(queue) /\ k \in 0..(queue.count - 1)
    BY DEF NextPending, PendingOffsets
  <2>3. k \in W
    BY <1>2, <2>1, <2>2
  <2>4. offsets # <<>>
    BY <1>1, <1>4, <2>2, <2>3, TakeInOrderProperties
  <2>5. offsets \in Seq(Nat)
    BY <1>1, <1>4, TakeInOrderProperties
  <2> QED BY <1>5, <2>4, <2>5
<1>8. PICK claims :
        /\ claims = [j \in 1..n |-> [slot    |-> QueueIndex(queue, offsets[j]),
                                     picture |-> queue.slots[QueueIndex(queue, offsets[j])].picture]]
        /\ batch' = [batch EXCEPT ![w] = claims]
        /\ queue' = [queue EXCEPT !.slots =
                        [i \in SlotIndex |-> IF i \in {claims[j].slot : j \in 1..n}
                             THEN [queue.slots[i] EXCEPT !.processing = TRUE]
                             ELSE queue.slots[i]]]
  <2>1. DOMAIN offsets = 1..n
    BY <1>6
  <2> QED
    BY <1>3, <2>1 DEF BatchClaim
<1>9. /\ Len(claims) = n /\ DOMAIN claims = 1..n
      /\ \A j \in 1..n : /\ claims[j].slot = QueueIndex(queue, offsets[j])
                         /\ claims[j].picture = queue.slots[claims[j].slot].picture
  BY <1>6, <1>8
<1>10. batch'[w] = claims /\ batch' = [batch EXCEPT ![w] = batch'[w]]
  BY <1>8 DEF GpuTypes
<1>11. ASSUME NEW j \in 1..n
       PROVE  /\ claims[j].slot \in Occupied(queue) /\ claims[j].slot \in SlotIndex
              /\ queue.slots[claims[j].slot].analyze
              /\ ~queue.slots[claims[j].slot].ready
  <2>1. offsets[j] \in PendingOffsets(queue) /\ queue.slots[QueueIndex(queue, offsets[j])].analyze
    BY <1>2, <1>6
  <2>2. /\ offsets[j] \in 0..(queue.count - 1)
        /\ IsPending(queue.slots[QueueIndex(queue, offsets[j])])
    BY <2>1 DEF PendingOffsets
  <2>3. QueueIndex(queue, offsets[j]) \in Occupied(queue) /\ Occupied(queue) \subseteq SlotIndex
    BY <1>1, <2>2, OccupiedSlots
  <2> QED BY <1>9, <2>1, <2>2, <2>3 DEF IsPending
<1> DEFINE taken == {claims[j].slot : j \in 1..n}
           slots == [i \in SlotIndex |-> IF i \in taken
                             THEN [queue.slots[i] EXCEPT !.processing = TRUE]
                             ELSE queue.slots[i]]
<1>12. \A i \in SlotIndex :
          /\ [queue.slots[i] EXCEPT !.processing = TRUE] \in Slot
          /\ [queue.slots[i] EXCEPT !.processing = TRUE].processing
          /\ [queue.slots[i] EXCEPT !.processing = TRUE].ready = queue.slots[i].ready
          /\ [queue.slots[i] EXCEPT !.processing = TRUE].nsfw = queue.slots[i].nsfw
          /\ [queue.slots[i] EXCEPT !.processing = TRUE].blocked = queue.slots[i].blocked
          /\ [queue.slots[i] EXCEPT !.processing = TRUE].picture = queue.slots[i].picture
          /\ [queue.slots[i] EXCEPT !.processing = TRUE].ts = queue.slots[i].ts
          /\ [queue.slots[i] EXCEPT !.processing = TRUE].analyze = queue.slots[i].analyze
          /\ queue.slots[i] \in Slot
  <2> SUFFICES ASSUME NEW i \in SlotIndex, NEW s, s = queue.slots[i]
               PROVE  LET t == [s EXCEPT !.processing = TRUE]
                      IN  /\ t \in Slot /\ t.processing
                          /\ t.ready = s.ready /\ t.picture = s.picture
                          /\ t.nsfw = s.nsfw /\ t.blocked = s.blocked
                          /\ t.ts = s.ts /\ t.analyze = s.analyze /\ s \in Slot
    OBVIOUS
  <2>1. s \in Slot
    BY <1>1, SlotsOfQueue
  <2> QED BY <2>1 DEF Slot
<1>13. queue' = [slots |-> slots, head |-> queue.head, count |-> queue.count]
  BY <1>1, <1>8 DEF QueueType
<1>14. /\ queue'.head = queue.head /\ queue'.count = queue.count
       /\ \A i \in SlotIndex : /\ i \in taken => queue'.slots[i] = [queue.slots[i] EXCEPT !.processing = TRUE]
                               /\ i \notin taken => queue'.slots[i] = queue.slots[i]
  BY <1>13
<1>15. queue' \in QueueType
  <2>1. slots \in [SlotIndex -> Slot]
    BY <1>12
  <2> HIDE DEF slots
  <2> QED BY <1>1, <1>13, <2>1 DEF QueueType
<1> HIDE DEF slots
<1>16. SamePictures(queue', queue)
  BY <1>12, <1>14 DEF SamePictures
<1>17. ASSUME NEW i \in SlotIndex
       PROVE  /\ queue'.slots[i].ready = queue.slots[i].ready
              /\ queue'.slots[i].nsfw = queue.slots[i].nsfw
              /\ queue'.slots[i].blocked = queue.slots[i].blocked
              /\ queue.slots[i].processing => queue'.slots[i].processing
              /\ queue'.slots[i].processing =>
                     queue.slots[i].processing \/ \E j \in 1..n : claims[j].slot = i
  BY <1>12, <1>14
<1>18. Occupied(queue') = Occupied(queue)
  BY <1>14, SlotWritesKeepOrder
<1>19. ASSUME NEW j \in 1..n
       PROVE  LET i == claims[j].slot
              IN  /\ i \in Occupied(queue')
                  /\ queue'.slots[i].processing
                  /\ queue'.slots[i].analyze
                  /\ ~queue'.slots[i].ready
                  /\ queue'.slots[i].picture = claims[j].picture
  <2>1. PICK i : i = claims[j].slot
    OBVIOUS
  <2>2. i \in taken /\ i \in SlotIndex /\ i \in Occupied(queue')
    BY <1>11, <1>18, <2>1
  <2> HIDE DEF taken
  <2>3. queue'.slots[i] = [queue.slots[i] EXCEPT !.processing = TRUE]
    BY <1>14, <2>2
  <2>4. queue.slots[i].analyze /\ ~queue.slots[i].ready /\ claims[j].picture = queue.slots[i].picture
    BY <1>9, <1>11, <2>1
  <2>5. /\ queue'.slots[i].processing
        /\ queue'.slots[i].ready = queue.slots[i].ready
        /\ queue'.slots[i].picture = queue.slots[i].picture
        /\ queue'.slots[i].analyze = queue.slots[i].analyze
    BY <1>12, <2>2, <2>3
  <2> QED BY <2>1, <2>2, <2>4, <2>5
<1>20. ASSUME NEW i \in 1..n, NEW j \in 1..n, i < j PROVE claims[i].picture < claims[j].picture
  <2>1. offsets[i] < offsets[j] /\ offsets[i] \in 0..(queue.count - 1) /\ offsets[j] \in 0..(queue.count - 1)
    BY <1>6, <1>20
  <2> QED BY <1>9, <2>1 DEF Queued, PicturesInOrder
<1>21. OwnsClaims(claims, queue')
  <2>1. claims # <<>>
    BY <1>6, <1>7, <1>9
  <2> QED BY <1>6, <1>9, <1>19, <1>20, <2>1 DEF OwnsClaims
<1> QED
  BY <1>9, <1>10, <1>15, <1>16, <1>17, <1>21

\* A batch has one slot for each of its pictures.
LEMMA ClaimsOnSlots ==
    ASSUME Typed, NEW claims, OwnsClaims(claims, queue)
    PROVE  OnSlots(claims)
<1>1. Occupied(queue) \subseteq SlotIndex
  BY OccupiedSlots DEF Typed, TypeOK
<1>2. ASSUME NEW k \in 1..Len(claims), NEW n \in 1..Len(claims), k < n
      PROVE  claims[k].slot # claims[n].slot
  <2>1. /\ queue.slots[claims[k].slot].picture = claims[k].picture
        /\ queue.slots[claims[n].slot].picture = claims[n].picture
        /\ claims[k].picture < claims[n].picture
        /\ claims[n].slot \in SlotIndex
    BY <1>1, <1>2 DEF OwnsClaims
  <2>2. queue.slots[claims[n].slot].picture \in Int
    BY <2>1, SlotsOfQueue DEF Typed, TypeOK, Pictures, NoPicture
  <2> QED BY <2>1, <2>2
<1>3. \A k, n \in 1..Len(claims) : k # n => k < n \/ n < k
  BY DEF OwnsClaims
<1>4. \A k, n \in 1..Len(claims) : k # n => claims[k].slot # claims[n].slot
  BY <1>2, <1>3
<1> QED
  BY <1>1, <1>4 DEF OwnsClaims, OnSlots

\* The results are published: the worker's slots are decided, and no other is touched.
LEMMA BatchPublishEffect ==
    ASSUME Typed, HeldInv, NEW w \in Workers, BatchPublish(w)
    PROVE  /\ queue' \in QueueType
           /\ SamePictures(queue', queue)
           /\ ranges' \in Seq(BlockRange) /\ renewal' \in Nat
           /\ hostFailed' \in BOOLEAN /\ audioRequested' \in BOOLEAN
           /\ positives' \subseteq Nat
           /\ verdict' \in [Pictures -> Gate!Verdicts]
           /\ \A i \in SlotIndex :
                  /\ Holds(w, i) => ~queue'.slots[i].processing
                  /\ ~Holds(w, i) => LeftAlone(queue'.slots[i], queue.slots[i])
           /\ \E results \in BatchResults(Len(batch[w])) :
                  /\ \A n \in 1..Len(batch[w]) :
                        Decided(queue'.slots[batch[w][n].slot], results[n] # "clean")
                  /\ verdict' = [p \in Pictures |->
                        IF \E n \in 1..Len(batch[w]) : batch[w][n].picture = p /\ results[n] # "clean"
                        THEN "positive"
                        ELSE IF \E n \in 1..Len(batch[w]) : batch[w][n].picture = p
                             THEN "clean" ELSE verdict[p]]
<1>1. PICK claims : claims = batch[w]
  OBVIOUS
<1>2. workerPC[w] = "busy" /\ mode[w] = "batch" /\ OwnsClaims(claims, queue)
  BY <1>1 DEF BatchPublish, HeldInv, BatchesOwn
<1>3. OnSlots(claims)
  BY <1>2, ClaimsOnSlots
<1>4. PICK start : start = [queue |-> queue, ranges |-> ranges, renewal |-> renewal]
  OBVIOUS
<1>5. start \in Shared /\ start.queue = queue
  BY <1>4 DEF Shared, Typed, TypeOK, BlockRange
<1>6. PICK results \in BatchResults(Len(claims)) :
        LET failed == \E j \in DOMAIN results : results[j] = "failed"
            hits   == {j \in DOMAIN results : results[j] # "clean"}
            after  == PublishAll(start, hostFailed \/ failed, claims, results)
        IN  /\ hostFailed' = (hostFailed \/ failed)
            /\ queue' = after.queue
            /\ ranges' = after.ranges
            /\ renewal' = after.renewal
            /\ audioRequested' = (audioRequested \/ hits # {})
            /\ positives' = positives \cup {queue.slots[claims[j].slot].ts : j \in hits}
            /\ verdict' = [p \in Pictures |->
                              IF \E j \in hits : claims[j].picture = p THEN "positive"
                              ELSE IF \E j \in DOMAIN results : claims[j].picture = p
                                   THEN "clean" ELSE verdict[p]]
  BY <1>1, <1>4 DEF BatchPublish
<1>7. DOMAIN results = 1..Len(claims)
  BY <1>6 DEF BatchResults
<1>8. PICK fails \in BOOLEAN : fails = (hostFailed \/ \E j \in DOMAIN results : results[j] = "failed")
  OBVIOUS
<1>9. PICK after : after = PublishAll(start, fails, claims, results)
  OBVIOUS
<1>10. /\ queue' = after.queue /\ ranges' = after.ranges /\ renewal' = after.renewal
  BY <1>6, <1>8, <1>9
<1>11. /\ after \in Shared
       /\ SamePictures(after.queue, start.queue)
       /\ \A n \in 1..Len(claims) :
             Decided(after.queue.slots[claims[n].slot], results[n] # "clean")
       /\ \A j \in SlotIndex :
             (\A n \in 1..Len(claims) : claims[n].slot # j)
                => LeftAlone(after.queue.slots[j], start.queue.slots[j])
  <2>1. LET a == PublishAll(start, fails, claims, results)
        IN  /\ a \in Shared
            /\ SamePictures(a.queue, start.queue)
            /\ \A n \in 1..Len(claims) :
                  Decided(a.queue.slots[claims[n].slot], results[n] # "clean")
            /\ \A j \in SlotIndex :
                  (\A n \in 1..Len(claims) : claims[n].slot # j)
                     => LeftAlone(a.queue.slots[j], start.queue.slots[j])
    <3>1. start \in Shared /\ fails \in BOOLEAN /\ OnSlots(claims)
      BY <1>3, <1>5, <1>8
    <3> QED BY ONLY <3>1, PublishAllEffect
  <2> QED BY <1>9, <2>1
<1>12. queue' \in QueueType /\ ranges' \in Seq(BlockRange) /\ renewal' \in Nat
  BY <1>10, <1>11 DEF Shared
<1>13. SamePictures(queue', queue)
  BY <1>5, <1>10, <1>11
<1>14. hostFailed' \in BOOLEAN /\ audioRequested' \in BOOLEAN
  BY <1>6
<1>15. positives' \subseteq Nat
  <2>1. \A j \in 1..Len(claims) : queue.slots[claims[j].slot].ts \in Nat
    BY <1>3, SlotsOfQueue DEF Typed, TypeOK, OnSlots
  <2>2. positives \subseteq Nat
    BY DEF Typed, TypeOK
  <2> QED BY <1>6, <1>7, <2>1, <2>2
<1>16. verdict' \in [Pictures -> Gate!Verdicts]
  <2>1. verdict \in [Pictures -> Gate!Verdicts]
    BY DEF Typed, TypeOK
  <2> QED BY <1>6, <2>1 DEF Gate!Verdicts
<1>17. ASSUME NEW i \in SlotIndex
       PROVE  /\ Holds(w, i) => ~queue'.slots[i].processing
              /\ ~Holds(w, i) => LeftAlone(queue'.slots[i], queue.slots[i])
  <2>1. Holds(w, i) <=> \E n \in 1..Len(claims) : claims[n].slot = i
    BY <1>1, <1>2 DEF Holds
  <2> QED BY <1>5, <1>10, <1>11, <2>1 DEF Decided
<1>18. \A n \in 1..Len(claims) : Decided(queue'.slots[claims[n].slot], results[n] # "clean")
  BY <1>10, <1>11
<1>19. verdict' = [p \in Pictures |->
                      IF \E n \in 1..Len(claims) : claims[n].picture = p /\ results[n] # "clean"
                      THEN "positive"
                      ELSE IF \E n \in 1..Len(claims) : claims[n].picture = p
                           THEN "clean" ELSE verdict[p]]
  BY <1>6, <1>7
<1> QED
  BY <1>1, <1>6, <1>12, <1>13, <1>14, <1>15, <1>16, <1>17, <1>18, <1>19
-----------------------------------------------------------------------------
(***************************************************************************)
(* A step of a GPU state is a step of the pthread build, or one of the     *)
(* four steps that deal with a batch.                                      *)
(***************************************************************************)
LEMMA SharedStep ==
    ASSUME [GpuNext]_gpuVars
    PROVE  \/ HostStep
           \/ \E w \in Workers : SingleRound(w) \/ SinglePublish(w) \/ GpuWorkerExit(w)
           \/ \E w \in Workers : BatchSleep(w) \/ BatchYield(w) \/ BatchClaim(w) \/ BatchPublish(w)
           \/ UNCHANGED gpuVars
BY DEF GpuNext, GpuWorkerStep

LEMMA HostStepIsStep == HostStep => [Next]_vars
BY DEF HostStep, Next

LEMMA SingleStepIsStep ==
    ASSUME NEW w \in Workers, SingleRound(w) \/ SinglePublish(w) \/ GpuWorkerExit(w)
    PROVE  WorkerStep(w) /\ [Next]_vars
BY DEF SingleRound, SinglePublish, GpuWorkerExit, WorkerStep, Next

\* The first two layers hold for either kind of worker.
LEMMA GpuLayersStep == Typed /\ Queued /\ HeldInv /\ [GpuNext]_gpuVars => Typed' /\ Queued'
<1> SUFFICES ASSUME Typed, Queued, HeldInv, [GpuNext]_gpuVars PROVE Typed' /\ Queued'
  OBVIOUS
<1>1. ASSUME [Next]_vars PROVE Typed' /\ Queued'
  BY <1>1, TypedStep, QueuedStep
<1>2. CASE HostStep
  BY <1>1, <1>2, HostStepIsStep
<1>3. ASSUME NEW w \in Workers, SingleRound(w) \/ SinglePublish(w) \/ GpuWorkerExit(w)
      PROVE  Typed' /\ Queued'
  BY <1>1, <1>3, SingleStepIsStep
<1>4. CASE UNCHANGED gpuVars
  BY <1>1, <1>4 DEF gpuVars
<1>5. ASSUME NEW w \in Workers, BatchYield(w) PROVE Typed' /\ Queued'
  BY <1>1, <1>5 DEF BatchYield
<1>6. ASSUME NEW w \in Workers, BatchSleep(w) PROVE Typed' /\ Queued'
  <2>1. /\ UNCHANGED <<queueVars, timelineVars, hostFailed, outputVars, stop,
                       callVars, workerVars, history>>
        /\ waiting' = waiting \cup {w}
    BY <1>6 DEF BatchSleep, Sleep
  <2>2. Typed'
    BY <2>1 DEF Typed, TypeOK, Backlog, CallHasPicture, CallPending,
       queueVars, timelineVars, outputVars, callVars, workerVars, history
  <2>3. Queued'
    BY <2>1 DEF Queued, SlotsHoldPictures, PicturesInOrder, InsideIsQueued, AnalyzeIsWanted,
       LaterUnseen, CallPending, queueVars, callVars, history
  <2> QED BY <2>2, <2>3
<1>7. ASSUME NEW w \in Workers, BatchClaim(w) PROVE Typed' /\ Queued'
  <2>1. queue' \in QueueType /\ SamePictures(queue', queue)
    BY <1>7, BatchClaimEffect DEF HeldInv
  <2>2. /\ UNCHANGED <<ranges, renewal, timelineVars, hostFailed, outputVars, stop, waiting,
                       callVars, workerSlot, workerPicture, history>>
        /\ workerPC' = [workerPC EXCEPT ![w] = "busy"]
    BY <1>7 DEF BatchClaim
  <2>3. TypeOK'
    BY <2>1, <2>2 DEF Typed, TypeOK, WorkerPCs, timelineVars, outputVars, callVars, history
  <2>4. Backlog' /\ CallHasPicture'
    BY <2>1, <2>2 DEF Typed, Backlog, CallHasPicture, CallPending, callVars, SamePictures
  <2>5. Queued'
    BY <2>1, <2>2, QueuedInPlace DEF SamePictures, callVars, history
  <2> QED BY <2>3, <2>4, <2>5 DEF Typed
<1>8. ASSUME NEW w \in Workers, BatchPublish(w) PROVE Typed' /\ Queued'
  <2>1. /\ queue' \in QueueType
        /\ SamePictures(queue', queue)
        /\ ranges' \in Seq(BlockRange) /\ renewal' \in Nat
        /\ hostFailed' \in BOOLEAN /\ audioRequested' \in BOOLEAN
        /\ positives' \subseteq Nat
        /\ verdict' \in [Pictures -> Gate!Verdicts]
    BY <1>8, BatchPublishEffect
  <2>2. /\ UNCHANGED <<timelineVars, maskActive, outBlocked, stop, callVars,
                       workerSlot, workerPicture, fate, wanted, rawTimes>>
        /\ workerPC' = [workerPC EXCEPT ![w] = "idle"] /\ waiting' = {}
    BY <1>8 DEF BatchPublish, WorkerWakes, Broadcast
  <2>3. TypeOK'
    BY <2>1, <2>2 DEF Typed, TypeOK, WorkerPCs, timelineVars, callVars, BlockRange
  <2>4. Backlog' /\ CallHasPicture'
    BY <2>1, <2>2 DEF Typed, Backlog, CallHasPicture, CallPending, callVars, SamePictures
  <2>5. Queued'
    BY <2>1, <2>2, QueuedInPlace DEF SamePictures, callVars
  <2> QED BY <2>3, <2>4, <2>5 DEF Typed
<1> QED
  BY <1>2, <1>3, <1>4, <1>5, <1>6, <1>7, <1>8, SharedStep

\* The host takes no slot that is being processed from the ring, and adds none.
LEMMA HostLeavesHeldSlots ==
    ASSUME Typed, HostStep
    PROVE  /\ UNCHANGED <<workerVars, batchVars>>
           /\ \A i \in SlotIndex :
                 i \in Occupied(queue) /\ queue.slots[i].processing =>
                    i \in Occupied(queue') /\ queue'.slots[i] = queue.slots[i]
           /\ \A i \in SlotIndex :
                 i \in Occupied(queue') /\ queue'.slots[i].processing =>
                    i \in Occupied(queue) /\ queue.slots[i].processing
<1>0. queue \in QueueType /\ Occupied(queue) \subseteq SlotIndex
  BY OccupiedSlots DEF Typed, TypeOK
<1>1. UNCHANGED batchVars
  BY DEF HostStep
<1>2. CASE FilterEnqueue
  <2>1. UNCHANGED workerVars
    BY <1>2 DEF FilterEnqueue
  <2> DEFINE new == QueueIndex(queue, queue.count)
  <2>2. /\ new \notin Occupied(queue)
        /\ Occupied(queue') = Occupied(queue) \cup {new}
        /\ \A j \in SlotIndex \ {new} : queue'.slots[j] = queue.slots[j]
        /\ ~queue'.slots[new].processing
    BY <1>2, EnqueueSlots
  <2> HIDE DEF new
  <2> QED
    BY <1>0, <1>1, <2>1, <2>2
<1>3. CASE FilterTake
  <2>1. UNCHANGED workerVars
    BY <1>3 DEF FilterTake
  <2>2. /\ queue' = TakeOldest(queue) /\ queue.count > 0
        /\ ~queue.slots[queue.head].processing
    BY <1>3, TakeEffect
  <2>3. /\ Occupied(queue') = Occupied(queue) \ {queue.head}
        /\ \A j \in SlotIndex \ {queue.head} : queue'.slots[j] = queue.slots[j]
    BY <1>0, <2>2, TakeOldestEffect
  <2> QED
    BY <1>0, <1>1, <2>1, <2>2, <2>3
<1>4. CASE FlushRelease
  <2>1. \A i \in Occupied(queue) : ~queue.slots[i].processing
    BY <1>4 DEF FlushRelease, HasProcessing
  <2>2. Occupied(queue') = {} /\ UNCHANGED workerVars
    BY <1>4, EmptyQueueFacts DEF FlushRelease
  <2> QED
    BY <1>1, <2>1, <2>2
<1>5. CASE UNCHANGED <<queue, workerVars>>
  BY <1>1, <1>5
<1>6. ASSUME ~FilterEnqueue, ~FilterTake, ~FlushRelease PROVE UNCHANGED <<queue, workerVars>>
  <2>1. CASE FilterCall \/ FilterWait \/ FilterDisplay
    BY <2>1 DEF FilterCall, FilterWait, FilterDisplay, queueVars
  <2>2. CASE FlushCall \/ FlushWait \/ FlushReset
    BY <2>2 DEF FlushCall, FlushWait, FlushReset, queueVars
  <2>3. CASE CloseStep \/ SpuriousWakeup \/ Closed
    BY <2>3 DEF CloseStep, StopWorkers, JoinWorkers, SpuriousWakeup, Closed, vars, queueVars
  <2> QED BY <1>6, <2>1, <2>2, <2>3 DEF HostStep, FilterStep, FlushStep
<1> QED
  BY <1>2, <1>3, <1>4, <1>5, <1>6

\* A step of the host leaves the workers what they hold.
LEMMA HostKeepsHeld == ASSUME Typed, HeldInv, HostStep PROVE HeldInv'
<1>1. /\ UNCHANGED <<workerPC, workerSlot, workerPicture, mode, batch>>
      /\ \A i \in SlotIndex :
            i \in Occupied(queue) /\ queue.slots[i].processing =>
               i \in Occupied(queue') /\ queue'.slots[i] = queue.slots[i]
      /\ \A i \in SlotIndex :
            i \in Occupied(queue') /\ queue'.slots[i].processing =>
               i \in Occupied(queue) /\ queue.slots[i].processing
  BY HostLeavesHeldSlots DEF workerVars, batchVars
<1>2. Occupied(queue) \subseteq SlotIndex
  BY OccupiedSlots DEF Typed, TypeOK
<1>0. GpuTypes' /\ Solo'
  BY <1>1 DEF HeldInv, GpuTypes, Solo
<1>3. SinglesOwn'
  BY <1>1, <1>2 DEF HeldInv, SinglesOwn, HasItsSlot
<1>4. ASSUME NEW b, OwnsClaims(b, queue) PROVE OwnsClaims(b, queue')
  BY <1>1, <1>2, <1>4 DEF OwnsClaims
<1>5. BatchesOwn'
  BY <1>1, <1>4 DEF HeldInv, BatchesOwn
<1>6. ProcessingHeld'
  <2>1. Occupied(queue') \subseteq SlotIndex
    <3>1. Typed'
      BY HostStepIsStep, TypedStep
    <3> QED BY <3>1, OccupiedSlots DEF Typed, TypeOK
  <2> QED BY <1>1, <2>1 DEF HeldInv, ProcessingHeld, Holds
<1> QED
  BY <1>0, <1>3, <1>5, <1>6 DEF HeldInv

\* So does a worker's step on the single-frame path.
LEMMA ClaimKeepsHeld ==
    ASSUME Typed, HeldInv, NEW w \in Workers, mode[w] # "batch", WorkerClaim(w),
           UNCHANGED batchVars
    PROVE  HeldInv'
<1> DEFINE i == workerSlot'[w]
<1>0. /\ queue \in QueueType /\ workerPC \in [Workers -> WorkerPCs]
      /\ workerSlot \in [Workers -> SlotIndex] /\ Occupied(queue) \subseteq SlotIndex
      /\ workerPicture \in [Workers -> Pictures \cup {NoPicture}]
  BY OccupiedSlots DEF Typed, TypeOK
<1>1. /\ workerPC[w] = "idle" /\ workerPC' = [workerPC EXCEPT ![w] = "busy"]
      /\ i \in Occupied(queue) /\ i \in SlotIndex
      /\ IsPending(queue.slots[i])
      /\ workerSlot' = [workerSlot EXCEPT ![w] = i]
      /\ workerPicture' = [workerPicture EXCEPT ![w] = queue.slots[i].picture]
      /\ queue'.head = queue.head /\ queue'.count = queue.count
      /\ queue'.slots[i] = [queue.slots[i] EXCEPT !.processing = TRUE]
      /\ \A j \in SlotIndex \ {i} : queue'.slots[j] = queue.slots[j]
  BY ClaimEffect
<1>2. queue'.slots[i].processing /\ queue'.slots[i].picture = queue.slots[i].picture
  <2>1. queue.slots[i] \in Slot
    BY <1>0, <1>1, SlotsOfQueue
  <2> HIDE DEF i
  <2> QED BY <1>1, <2>1 DEF Slot
<1>3. Occupied(queue') = Occupied(queue)
  BY <1>1, SlotWritesKeepOrder
<1> HIDE DEF i
<1>4. UNCHANGED <<mode, batch>>
  BY DEF batchVars
<1>5. GpuTypes' /\ Solo'
  <2>1. \A v \in Workers : workerPC[v] = "exited" => workerPC'[v] = "exited"
    BY <1>0, <1>1
  <2> QED BY <1>4, <2>1 DEF HeldInv, GpuTypes, Solo
<1>6. \A v \in Workers : workerPC[v] # "exited" => mode[v] # "batch"
  BY <1>1 DEF HeldInv, Solo
<1>7. BatchesOwn'
  <2>1. \A v \in Workers : workerPC'[v] = "busy" => mode'[v] # "batch"
    BY <1>0, <1>1, <1>4, <1>6
  <2> QED BY <2>1 DEF BatchesOwn
<1>8. \A v \in Workers \ {w} : /\ workerPC'[v] = workerPC[v] /\ workerSlot'[v] = workerSlot[v]
                               /\ workerPicture'[v] = workerPicture[v]
                               /\ workerPC[v] = "busy" => workerSlot[v] # i
  <2>1. \A v \in Workers : workerPC[v] = "busy" =>
            workerSlot[v] \in Occupied(queue) /\ queue.slots[workerSlot[v]].processing
    BY <1>6 DEF HeldInv, SinglesOwn, HasItsSlot
  <2>2. \A v \in Workers : workerPC[v] = "busy" => workerSlot[v] # i
    BY <1>1, <2>1 DEF IsPending
  <2> QED BY <1>0, <1>1, <2>2
<1>9. workerPC'[w] = "busy" /\ workerSlot'[w] = i /\ workerPicture'[w] = queue.slots[i].picture
  BY <1>0, <1>1
<1>10. SinglesOwn'
  <2>1. ASSUME NEW v \in Workers, workerPC'[v] = "busy"
        PROVE  /\ workerSlot'[v] \in Occupied(queue')
               /\ queue'.slots[workerSlot'[v]].processing
               /\ queue'.slots[workerSlot'[v]].picture = workerPicture'[v]
               /\ \A u \in Workers \ {v} : workerPC'[u] = "busy" => workerSlot'[u] # workerSlot'[v]
    <3>1. CASE v = w
      <4>1. workerSlot'[v] = i /\ workerSlot'[v] \in Occupied(queue')
        BY <1>1, <1>3, <1>9, <3>1
      <4>2. /\ queue'.slots[workerSlot'[v]].processing
            /\ queue'.slots[workerSlot'[v]].picture = workerPicture'[v]
        BY <1>2, <1>9, <3>1, <4>1
      <4>3. ASSUME NEW u \in Workers \ {v}, workerPC'[u] = "busy" PROVE workerSlot'[u] # i
        <5>1. u \in Workers \ {w}
          BY <3>1
        <5> QED BY <1>8, <4>3, <5>1
      <4> QED BY <4>1, <4>2, <4>3
    <3>2. CASE v # w
      <4>1. /\ workerPC[v] = "busy" /\ workerSlot'[v] = workerSlot[v] /\ workerSlot[v] # i
            /\ mode[v] # "batch" /\ workerPicture'[v] = workerPicture[v]
        BY <1>6, <1>8, <2>1, <3>2
      <4>2. /\ workerSlot[v] \in Occupied(queue) /\ queue.slots[workerSlot[v]].processing
            /\ queue.slots[workerSlot[v]].picture = workerPicture[v]
        BY <4>1 DEF HeldInv, SinglesOwn, HasItsSlot
      <4>3. ASSUME NEW u \in Workers \ {v}, workerPC'[u] = "busy" PROVE workerSlot'[u] # workerSlot'[v]
        <5>1. CASE u = w
          BY <1>9, <4>1, <5>1
        <5>2. CASE u # w
          <6>1. workerPC[u] = "busy" /\ workerSlot'[u] = workerSlot[u] /\ mode[u] # "batch"
            BY <1>6, <1>8, <4>3, <5>2
          <6> QED BY <4>1, <6>1 DEF HeldInv, SinglesOwn
        <5> QED BY <5>1, <5>2
      <4> QED BY <1>0, <1>1, <1>3, <4>1, <4>2, <4>3
    <3> QED BY <3>1, <3>2
  <2> QED BY <2>1 DEF SinglesOwn, HasItsSlot
<1>11. ProcessingHeld'
  <2>1. ASSUME NEW j \in Occupied(queue'), queue'.slots[j].processing
        PROVE  \E v \in Workers : workerPC'[v] = "busy" /\ workerSlot'[v] = j /\ mode'[v] # "batch"
    <3>1. CASE j = i
      BY <1>4, <1>9, <3>1
    <3>2. CASE j # i
      <4>1. j \in Occupied(queue) /\ queue.slots[j].processing
        BY <1>0, <1>1, <1>3, <2>1, <3>2
      <4>2. PICK v \in Workers : Holds(v, j)
        BY <4>1 DEF HeldInv, ProcessingHeld
      <4>3. workerPC[v] = "busy" /\ mode[v] # "batch" /\ workerSlot[v] = j
        BY <1>6, <4>2 DEF Holds
      <4>4. v # w
        BY <1>1, <4>3
      <4> QED BY <1>4, <1>8, <4>3, <4>4
    <3> QED BY <3>1, <3>2
  <2> QED BY <2>1 DEF ProcessingHeld, Holds
<1> QED
  BY <1>5, <1>7, <1>10, <1>11 DEF HeldInv
LEMMA PublishKeepsHeld ==
    ASSUME Typed, HeldInv, NEW w \in Workers, SinglePublish(w)
    PROVE  HeldInv'
<1>0. /\ queue \in QueueType /\ workerPC \in [Workers -> WorkerPCs]
      /\ workerSlot \in [Workers -> SlotIndex] /\ Occupied(queue) \subseteq SlotIndex
  BY OccupiedSlots DEF Typed, TypeOK
<1>1. /\ mode[w] # "batch" /\ WorkerPublish(w) /\ UNCHANGED <<batch, workerSlot, workerPicture>>
      /\ workerPC[w] = "busy" /\ workerPC' = [workerPC EXCEPT ![w] = "idle"]
  BY PublishEffect DEF SinglePublish, WorkerPublish
<1>2. PICK outcome \in {"clean", "positive", "failed"} : Published(w, outcome)
  BY <1>1, PublishEffect
<1> DEFINE i == workerSlot[w]
<1>3. /\ queue'.head = queue.head /\ queue'.count = queue.count
      /\ ~queue'.slots[i].processing
      /\ \A j \in SlotIndex \ {i} : /\ queue'.slots[j].processing = queue.slots[j].processing
                                    /\ queue'.slots[j].picture = queue.slots[j].picture
  BY <1>2 DEF Published
<1>4. Occupied(queue') = Occupied(queue)
  BY <1>3, SlotWritesKeepOrder
<1>5. i \in Occupied(queue) /\ queue.slots[i].processing
      /\ \A v \in Workers \ {w} : workerPC[v] = "busy" /\ mode[v] # "batch" => workerSlot[v] # i
  BY <1>1 DEF HeldInv, SinglesOwn, HasItsSlot
<1> HIDE DEF i
<1>6. \A v \in Workers : workerPC[v] # "exited" => mode[v] # "batch"
  BY <1>1 DEF HeldInv, Solo
<1>7. /\ mode' \in [Workers -> {"batch", "single", "off"}]
      /\ \A v \in Workers \ {w} : mode'[v] = mode[v]
      /\ mode[w] = "off" => mode' = mode
  BY DEF SinglePublish, HeldInv, GpuTypes, BatchingAfterCall
<1>8. \A v \in Workers \ {w} : workerPC'[v] = workerPC[v]
  BY <1>0, <1>1
<1>9. workerPC'[w] = "idle"
  BY <1>0, <1>1
<1>10. GpuTypes'
  BY <1>1, <1>7 DEF HeldInv, GpuTypes
<1>11. Solo'
  <2>1. ASSUME NEW v \in Workers, mode'[v] # "off", NEW u \in Workers \ {v}
        PROVE  workerPC'[u] = "exited"
    <3>1. CASE v = w
      <4>1. mode[w] # "off"
        BY <1>7, <2>1, <3>1
      <4>2. workerPC[u] = "exited" /\ u # w
        BY <2>1, <3>1, <4>1 DEF HeldInv, Solo
      <4> QED BY <1>8, <2>1, <4>2
    <3>2. CASE v # w
      <4>1. mode[v] # "off"
        BY <1>7, <2>1, <3>2
      <4>2. workerPC[w] = "exited"
        BY <2>1, <3>2, <4>1 DEF HeldInv, Solo
      <4> QED BY <1>1, <4>2
    <3> QED BY <3>1, <3>2
  <2> QED BY <2>1 DEF Solo
<1>12. \A v \in Workers : workerPC'[v] = "busy" =>
           /\ v # w /\ workerPC[v] = "busy" /\ mode[v] # "batch" /\ mode'[v] = mode[v]
           /\ workerSlot'[v] = workerSlot[v] /\ workerSlot[v] # i
  BY <1>1, <1>5, <1>6, <1>7, <1>8, <1>9
<1>13. BatchesOwn'
  BY <1>12 DEF BatchesOwn
<1>14. SinglesOwn'
  <2>1. ASSUME NEW v \in Workers, workerPC'[v] = "busy"
        PROVE  /\ workerSlot'[v] \in Occupied(queue')
               /\ queue'.slots[workerSlot'[v]].processing
               /\ queue'.slots[workerSlot'[v]].picture = workerPicture'[v]
               /\ \A u \in Workers \ {v} : workerPC'[u] = "busy" => workerSlot'[u] # workerSlot'[v]
    <3>1. /\ workerPC[v] = "busy" /\ mode[v] # "batch"
          /\ workerSlot'[v] = workerSlot[v] /\ workerSlot[v] # i
      BY <1>12, <2>1
    <3>2. /\ workerSlot[v] \in Occupied(queue) /\ queue.slots[workerSlot[v]].processing
          /\ queue.slots[workerSlot[v]].picture = workerPicture[v]
      BY <3>1 DEF HeldInv, SinglesOwn, HasItsSlot
    <3>3. ASSUME NEW u \in Workers \ {v}, workerPC'[u] = "busy" PROVE workerSlot'[u] # workerSlot'[v]
      <4>1. workerPC[u] = "busy" /\ mode[u] # "batch" /\ workerSlot'[u] = workerSlot[u]
        BY <1>12, <3>3
      <4> QED BY <3>1, <4>1 DEF HeldInv, SinglesOwn
    <3>4. workerSlot[v] \in SlotIndex \ {i}
      BY <1>0, <3>1, <3>2
    <3> QED BY <1>1, <1>3, <1>4, <3>1, <3>2, <3>3, <3>4
  <2> QED BY <2>1 DEF SinglesOwn, HasItsSlot
<1>15. ProcessingHeld'
  <2>1. ASSUME NEW j \in Occupied(queue'), queue'.slots[j].processing
        PROVE  \E v \in Workers : workerPC'[v] = "busy" /\ mode'[v] # "batch" /\ workerSlot'[v] = j
    <3>1. j # i
      BY <1>3, <2>1
    <3>2. j \in Occupied(queue) /\ queue.slots[j].processing
      BY <1>0, <1>3, <1>4, <2>1, <3>1
    <3>3. PICK v \in Workers : Holds(v, j)
      BY <3>2 DEF HeldInv, ProcessingHeld
    <3>4. workerPC[v] = "busy" /\ mode[v] # "batch" /\ workerSlot[v] = j
      BY <1>6, <3>3 DEF Holds
    <3>5. v # w
      BY <3>1, <3>4 DEF i
    <3>6. workerPC'[v] = "busy" /\ mode'[v] # "batch" /\ workerSlot'[v] = j
      BY <1>1, <1>7, <1>8, <3>4, <3>5
    <3> QED BY <3>6
  <2> QED BY <2>1 DEF ProcessingHeld, Holds
<1> QED
  BY <1>10, <1>11, <1>13, <1>14, <1>15 DEF HeldInv

\* A batch is formed by the only worker, which held nothing.
LEMMA BatchClaimKeepsHeld ==
    ASSUME Typed, Queued, HeldInv, NEW w \in Workers, BatchClaim(w)
    PROVE  HeldInv'
<1>0. /\ queue \in QueueType /\ workerPC \in [Workers -> WorkerPCs]
      /\ Occupied(queue) \subseteq SlotIndex
  BY OccupiedSlots DEF Typed, TypeOK
<1>1. /\ workerPC[w] = "idle" /\ mode[w] = "batch" /\ UNCHANGED <<mode, workerSlot>>
      /\ workerPC' = [workerPC EXCEPT ![w] = "busy"]
  BY DEF BatchClaim, WorkerIdle
<1>2. \A v \in Workers \ {w} : workerPC[v] = "exited"
  BY <1>1 DEF HeldInv, Solo
<1>3. workerPC'[w] = "busy" /\ mode'[w] = "batch"
      /\ \A v \in Workers \ {w} : workerPC'[v] = "exited"
  BY <1>0, <1>1, <1>2
<1>4. PICK claims : claims = batch'[w]
  OBVIOUS
<1>5. /\ batch' = [batch EXCEPT ![w] = claims]
      /\ OwnsClaims(claims, queue')
      /\ queue' \in QueueType
      /\ \A i \in SlotIndex :
             queue'.slots[i].processing =>
                 queue.slots[i].processing \/ \E j \in 1..Len(claims) : claims[j].slot = i
      /\ queue'.head = queue.head /\ queue'.count = queue.count
  BY <1>4, BatchClaimEffect DEF HeldInv, SamePictures
<1>6. Occupied(queue') = Occupied(queue)
  BY <1>5, SlotWritesKeepOrder
<1>7. GpuTypes'
  BY <1>1, <1>5 DEF HeldInv, GpuTypes
<1>8. Solo'
  <2>1. \A v \in Workers : workerPC[v] = "exited" => workerPC'[v] = "exited"
    BY <1>0, <1>1
  <2> QED BY <1>1, <2>1 DEF HeldInv, Solo
<1>9. SinglesOwn'
  BY <1>3 DEF SinglesOwn
<1>10. BatchesOwn'
  BY <1>3, <1>4, <1>5 DEF BatchesOwn
<1>11. ASSUME NEW i \in Occupied(queue') PROVE ~queue.slots[i].processing
  <2>1. \A v \in Workers : workerPC[v] # "busy"
    BY <1>1, <1>2
  <2> QED BY <1>6, <2>1 DEF HeldInv, ProcessingHeld, Holds
<1>12. ProcessingHeld'
  <2>1. ASSUME NEW i \in Occupied(queue'), queue'.slots[i].processing
        PROVE  \E j \in 1..Len(batch'[w]) : batch'[w][j].slot = i
    BY <1>0, <1>4, <1>5, <1>6, <1>11, <2>1
  <2> QED BY <1>3, <2>1 DEF ProcessingHeld, Holds
<1> QED
  BY <1>7, <1>8, <1>9, <1>10, <1>12 DEF HeldInv

\* When it is published, no slot of the ring is being processed.
LEMMA BatchPublishKeepsHeld ==
    ASSUME Typed, HeldInv, NEW w \in Workers, BatchPublish(w)
    PROVE  HeldInv'
<1>0. /\ queue \in QueueType /\ workerPC \in [Workers -> WorkerPCs]
      /\ Occupied(queue) \subseteq SlotIndex
  BY OccupiedSlots DEF Typed, TypeOK
<1>1. /\ workerPC[w] = "busy" /\ mode[w] = "batch"
      /\ workerPC' = [workerPC EXCEPT ![w] = "idle"]
      /\ DOMAIN batch' = DOMAIN batch
      /\ mode' \in {[mode EXCEPT ![w] = m] : m \in BatchingAfterCall}
  BY DEF BatchPublish
<1>2. \A v \in Workers \ {w} : workerPC[v] = "exited"
  BY <1>1 DEF HeldInv, Solo
<1>3. workerPC'[w] = "idle" /\ \A v \in Workers \ {w} : workerPC'[v] = "exited"
  BY <1>0, <1>1, <1>2
<1>4. mode' \in [Workers -> {"batch", "single", "off"}]
      /\ \A v \in Workers \ {w} : mode'[v] = mode[v]
  BY <1>1 DEF HeldInv, GpuTypes, BatchingAfterCall
<1>5. GpuTypes'
  BY <1>1, <1>4 DEF HeldInv, GpuTypes
<1>6. Solo'
  <2>1. \A v \in Workers \ {w} : mode[v] # "off" => workerPC[w] = "exited"
    BY DEF HeldInv, Solo
  <2>2. \A v \in Workers \ {w} : mode'[v] = "off"
    BY <1>1, <1>4, <2>1
  <2> QED BY <1>3, <2>2 DEF Solo
<1>7. SinglesOwn' /\ BatchesOwn'
  <2>1. \A v \in Workers : workerPC'[v] # "busy"
    BY <1>3
  <2> QED BY <2>1 DEF SinglesOwn, BatchesOwn
<1>8. /\ SamePictures(queue', queue)
      /\ \A i \in SlotIndex :
             /\ Holds(w, i) => ~queue'.slots[i].processing
             /\ ~Holds(w, i) => queue'.slots[i].processing = queue.slots[i].processing
  BY BatchPublishEffect DEF LeftAlone
<1>9. Occupied(queue') = Occupied(queue)
  BY <1>8, SlotWritesKeepOrder DEF SamePictures
<1>10. ASSUME NEW i \in Occupied(queue') PROVE ~queue'.slots[i].processing
  <2>1. i \in Occupied(queue) /\ i \in SlotIndex
    BY <1>0, <1>9
  <2>2. queue.slots[i].processing => Holds(w, i)
    <3>1. ASSUME NEW v \in Workers, Holds(v, i) PROVE v = w
      BY <1>2, <3>1 DEF Holds
    <3> QED BY <2>1, <3>1 DEF HeldInv, ProcessingHeld
  <2> QED BY <1>8, <2>1, <2>2
<1>11. ProcessingHeld'
  BY <1>10 DEF ProcessingHeld
<1> QED
  BY <1>5, <1>6, <1>7, <1>11 DEF HeldInv

\* Going to sleep, leaving a round to the single-frame path and ending hold nothing.
LEMMA RestKeepsHeld ==
    ASSUME Typed, HeldInv, NEW w \in Workers,
           \/ BatchSleep(w) \/ BatchYield(w)
           \/ WorkerSleep(w) /\ UNCHANGED batchVars
           \/ GpuWorkerExit(w)
    PROVE  HeldInv'
<1>0. workerPC \in [Workers -> WorkerPCs]
  BY DEF Typed, TypeOK
<1>1. /\ UNCHANGED <<queue, workerSlot, workerPicture, batch>> /\ workerPC[w] = "idle"
      /\ \A v \in Workers \ {w} : workerPC'[v] = workerPC[v]
      /\ workerPC'[w] \in {"idle", "exited"}
      /\ mode' = mode \/ (mode[w] = "batch" /\ mode' = [mode EXCEPT ![w] = "single"])
  BY <1>0 DEF BatchSleep, BatchYield, WorkerSleep, GpuWorkerExit, WorkerExit, WorkerIdle, Sleep,
     vars, queueVars, workerVars, batchVars
<1>2. GpuTypes'
  BY <1>1 DEF HeldInv, GpuTypes
<1>3. /\ \A v \in Workers \ {w} : mode'[v] = mode[v]
      /\ mode'[w] # "off" => mode[w] # "off"
  BY <1>1 DEF HeldInv, GpuTypes
<1>4. \A v \in Workers : workerPC[v] = "exited" => workerPC'[v] = "exited"
  BY <1>1
<1>5. Solo'
  <2>1. \A v \in Workers : mode'[v] # "off" => mode[v] # "off"
    BY <1>3
  <2> QED BY <1>4, <2>1 DEF HeldInv, Solo
<1>6. \A v \in Workers : workerPC'[v] = "busy" => v # w /\ workerPC[v] = "busy" /\ mode'[v] = mode[v]
  BY <1>1, <1>3
<1>7. SinglesOwn' /\ BatchesOwn'
  BY <1>1, <1>6 DEF HeldInv, SinglesOwn, HasItsSlot, BatchesOwn
<1>8. \A v \in Workers : workerPC[v] = "busy" => workerPC'[v] = "busy" /\ mode'[v] = mode[v]
  BY <1>1, <1>3
<1>9. ProcessingHeld'
  <2>1. ASSUME NEW i \in Occupied(queue), queue.slots[i].processing
        PROVE  \E v \in Workers : Holds(v, i)'
    <3>1. PICK v \in Workers : Holds(v, i)
      BY <2>1 DEF HeldInv, ProcessingHeld
    <3> QED BY <1>1, <1>8, <3>1 DEF Holds
  <2> QED BY <1>1, <2>1 DEF ProcessingHeld
<1> QED
  BY <1>2, <1>5, <1>7, <1>9 DEF HeldInv

\* Every step leaves the workers what they hold.
LEMMA HeldStep == Typed /\ Queued /\ HeldInv /\ [GpuNext]_gpuVars => HeldInv'
<1> SUFFICES ASSUME Typed, Queued, HeldInv, [GpuNext]_gpuVars PROVE HeldInv'
  OBVIOUS
<1>1. CASE HostStep
  BY <1>1, HostKeepsHeld
<1>2. ASSUME NEW w \in Workers, SingleRound(w) PROVE HeldInv'
  BY <1>2, ClaimKeepsHeld, RestKeepsHeld DEF SingleRound
<1>3. ASSUME NEW w \in Workers, SinglePublish(w) PROVE HeldInv'
  BY <1>3, PublishKeepsHeld
<1>4. ASSUME NEW w \in Workers, BatchSleep(w) \/ BatchYield(w) \/ GpuWorkerExit(w) PROVE HeldInv'
  BY <1>4, RestKeepsHeld
<1>5. ASSUME NEW w \in Workers, BatchClaim(w) PROVE HeldInv'
  BY <1>5, BatchClaimKeepsHeld
<1>6. ASSUME NEW w \in Workers, BatchPublish(w) PROVE HeldInv'
  BY <1>6, BatchPublishKeepsHeld
<1>7. CASE UNCHANGED gpuVars
  <2>1. UNCHANGED <<queue, workerPC, workerSlot, workerPicture, mode, batch>>
    BY <1>7 DEF gpuVars, vars, queueVars, workerVars, batchVars
  <2> QED BY <2>1 DEF HeldInv, GpuTypes, Solo, SinglesOwn, HasItsSlot, BatchesOwn, OwnsClaims, ProcessingHeld, Holds
<1> QED
  BY <1>1, <1>2, <1>3, <1>4, <1>5, <1>6, <1>7, SharedStep
\* The layers hold when the workers have been started, and always after.
LEMMA HeldAlways == GpuSpec => [](Typed /\ Queued /\ HeldInv)
<1>1. GpuInit => Typed /\ Queued /\ HeldInv
  <2> SUFFICES ASSUME GpuInit PROVE Typed /\ Queued /\ HeldInv
    OBVIOUS
  <2>1. SharedInit /\ batch = [w \in Workers |-> <<>>]
    BY DEF GpuInit
  <2>2. PICK started \in StartedWorkers :
          /\ workerPC = [w \in Workers |-> IF w \in started[1] THEN "idle" ELSE "exited"]
          /\ mode = [w \in Workers |-> IF w \in started[1] THEN started[2] ELSE "off"]
    BY DEF GpuInit
  <2>3. Typed /\ Queued
    BY <2>1, <2>2, SharedInitTyped, SharedInitQueued DEF WorkerPCs
  <2>4. GpuTypes /\ Solo
    <3>1. CASE \E w \in Workers : started = <<{w}, "batch">>
      BY <2>1, <2>2, <3>1 DEF GpuTypes, Solo
    <3>2. CASE started = <<Workers, "off">>
      BY <2>1, <2>2, <3>2 DEF GpuTypes, Solo
    <3> QED BY <3>1, <3>2 DEF StartedWorkers
  <2>5. \A w \in Workers : workerPC[w] # "busy"
    BY <2>2
  <2>6. Occupied(queue) = {}
    BY <2>1, EmptyQueueFacts DEF SharedInit
  <2> QED
    BY <2>3, <2>4, <2>5, <2>6 DEF HeldInv, SinglesOwn, BatchesOwn, ProcessingHeld
<1> QED
  BY <1>1, GpuLayersStep, HeldStep, PTL DEF GpuSpec

(***************************************************************************)
(* ProcessGpuBatch writes the results of several pictures through slot     *)
(* pointers it took before it released the lock: each slot still holds the *)
(* picture that was classified, undecided, for any number of workers and   *)
(* any prebuffer.                                                          *)
(***************************************************************************)
THEOREM BatchesOwnTheirSlots == GpuSpec => []BatchOwnsItsSlots
<1>1. HeldInv => BatchOwnsItsSlots
  BY DEF HeldInv, BatchesOwn, OwnsClaims, BatchOwnsItsSlots
<1> QED
  BY <1>1, HeldAlways, PTL
-----------------------------------------------------------------------------
(***************************************************************************)
(* Sleeping and waking with workers that batch.                            *)
(***************************************************************************)
\* The host looks at the oldest frame only when the prebuffer is full.
Awaiting == hostPC \in {"held", "await"} => queue.count >= Prebuffer

HostSleepsRightly ==
    Host \in waiting => \/ hostPC = "await" /\ ~OldestFrameReady(queue)
                        \/ hostPC = "flush" /\ HasProcessing(queue)

WaitingAreIdle == \A w \in Workers : w \in waiting => workerPC[w] = "idle"

StopWakes == stop => waiting \cap Workers = {}

\* When all workers there are sleep, there is nothing they could do.
AsleepForGood ==
    Running # {} /\ Running \subseteq waiting => \A w \in Running : ~HasWork(w)

Asleep == Awaiting /\ HostSleepsRightly /\ WaitingAreIdle /\ StopWakes /\ AsleepForGood

\* Nobody sleeps after a broadcast.
LEMMA BroadcastKeepsAsleep ==
    ASSUME waiting' = {}, Awaiting' PROVE Asleep'
BY ThreadsAssumption
   DEF Asleep, HostSleepsRightly, WaitingAreIdle, StopWakes, AsleepForGood, Running

\* With a running worker awake, and the host awake or left alone, nothing can go wrong.
LEMMA AwakeWorkerKeepsAsleep ==
    ASSUME Asleep, NEW w \in Workers, w \notin waiting', workerPC'[w] # "exited",
           waiting' \subseteq waiting, UNCHANGED stop,
           \A v \in Workers : v \in waiting' => workerPC'[v] = workerPC[v],
           HostSleepsRightly', Awaiting'
    PROVE  Asleep'
<1>1. w \in Running' /\ ~(Running' \subseteq waiting')
  BY DEF Running
<1> QED
  BY <1>1 DEF Asleep, WaitingAreIdle, StopWakes, AsleepForGood
\* A step that changes no picture, no worker and no sleeper but the host changes nothing here.
LEMMA QuietKeepsAsleep ==
    ASSUME Asleep, UNCHANGED <<queue, stop, workerPC, mode>>,
           waiting' \subseteq waiting \cup {Host}, HostSleepsRightly', Awaiting'
    PROVE  Asleep'
<1>1. Host \notin Workers
  BY ThreadsAssumption
<1>2. Running' = Running /\ \A w \in Workers : w \in waiting' => w \in waiting
  BY <1>1 DEF Running
<1>3. WaitingAreIdle' /\ StopWakes'
  BY <1>2 DEF Asleep, WaitingAreIdle, StopWakes
<1>4. ASSUME NEW w \in Workers, HasWork(w)' PROVE HasWork(w)
  BY <1>4 DEF HasWork, BatchHead, BatchWaits
<1>5. AsleepForGood'
  <2> SUFFICES ASSUME Running' # {}, Running' \subseteq waiting', NEW w \in Running', HasWork(w)'
               PROVE  FALSE
    BY DEF AsleepForGood
  <2>1. Running # {} /\ w \in Running /\ w \in Workers
    BY <1>2 DEF Running
  <2>2. Running \subseteq waiting
    <3>1. Running \subseteq Workers
      BY DEF Running
    <3> QED BY <1>2, <3>1
  <2> QED BY <1>4, <2>1, <2>2 DEF Asleep, AsleepForGood
<1> QED
  BY <1>3, <1>5 DEF Asleep

\* The host's steps.
LEMMA HostKeepsAsleep == ASSUME Typed, Queued, HeldInv, Asleep, HostStep PROVE Asleep'
<1>0. /\ queue \in QueueType /\ waiting \subseteq Workers \cup {Host}
      /\ workerPC \in [Workers -> WorkerPCs]
  BY DEF Typed, TypeOK
<1>1. UNCHANGED <<mode, batch>>
  BY DEF HostStep, batchVars
<1>2. CASE FilterCall \/ FilterDisplay \/ FlushCall \/ FlushReset \/ JoinWorkers
  <2>1. /\ UNCHANGED <<queue, stop, workerPC, waiting>>
        /\ hostPC \notin {"await", "flush"} /\ hostPC' \notin {"held", "await"}
    <3>1. resume \in {"idle", "filter", "stop"}
      BY DEF Typed, TypeOK
    <3> QED
      BY <1>2, <3>1 DEF FilterCall, FilterDisplay, FlushCall, FlushReset, JoinWorkers, NumberFrame,
         queueVars, workerVars
  <2>2. HostSleepsRightly' /\ Awaiting'
    BY <2>1 DEF Asleep, HostSleepsRightly, Awaiting
  <2> QED BY <1>1, <2>1, <2>2, QuietKeepsAsleep
<1>3. CASE FilterEnqueue
  <2>1. Host \notin waiting /\ UNCHANGED <<stop, workerPC>> /\ SignalOne
    BY <1>3 DEF FilterEnqueue, FilterWakes, Awake, workerVars
  <2>2. Awaiting'
    <3>1. queue'.count \in Nat
      BY <1>3, EnqueueEffect, Parameters DEF QueueType
    <3>2. hostPC' \in {"held", "await"} => ~StillBuffering(queue')
      BY <1>3 DEF FilterEnqueue
    <3> QED BY <3>1, <3>2, Parameters DEF Awaiting, StillBuffering
  <2>3. CASE waiting = {}
    <3>1. waiting' = {}
      BY <2>1, <2>3 DEF SignalOne
    <3> QED BY <2>2, <3>1, BroadcastKeepsAsleep
  <2>4. CASE waiting # {}
    <3>1. PICK t \in waiting : waiting' = waiting \ {t}
      BY <2>1, <2>4 DEF SignalOne
    <3>2. t \in Workers /\ workerPC'[t] = "idle"
      BY <1>0, <2>1, <3>1 DEF Asleep, WaitingAreIdle
    <3>3. HostSleepsRightly'
      BY <2>1, <3>1 DEF HostSleepsRightly
    <3> QED BY <2>1, <2>2, <3>1, <3>2, <3>3, AwakeWorkerKeepsAsleep
  <2> QED BY <2>3, <2>4
<1>4. CASE FilterWait
  <2>1. ~(hostPC = "enqueue" /\ FilterWaitsForRoom)
    <3>1. hostPC = "enqueue" => queue.count \in Nat /\ queue.count < MaxBufferFrames
      BY <1>0, Parameters DEF Typed, Backlog, QueueType
    <3> QED BY <3>1, Parameters DEF FilterWaitsForRoom, Full
  <2>2. /\ hostPC \in {"held", "await"} /\ ~OldestFrameReady(queue) /\ hostPC' = "await"
        /\ waiting' = waiting \cup {Host} /\ UNCHANGED <<queue, stop, workerPC>>
    BY <1>4, <2>1 DEF FilterWait, Sleep, queueVars, workerVars
  <2>3. HostSleepsRightly' /\ Awaiting'
    BY <2>2 DEF Asleep, HostSleepsRightly, Awaiting
  <2> QED BY <1>1, <2>2, <2>3, QuietKeepsAsleep
<1>5. CASE FilterTake
  <2>1. /\ hostPC \in {"held", "await"} /\ hostPC' = "display"
        /\ Host \notin waiting /\ UNCHANGED <<waiting, stop, workerPC>>
    BY <1>5 DEF FilterTake, Awake, workerVars
  <2>2. ASSUME NEW k \in PendingOffsets(queue') PROVE k + 1 \in PendingOffsets(queue)
    <3>1. /\ queue' = TakeOldest(queue) /\ queue.count > 0 /\ queue.count \in Nat
          /\ queue'.count = queue.count - 1
      BY <1>0, <1>5, TakeEffect, Parameters DEF QueueType
    <3>2. k \in 0..(queue'.count - 1) /\ IsPending(queue'.slots[QueueIndex(queue', k)])
      BY DEF PendingOffsets
    <3>3. /\ QueueIndex(queue', k) = QueueIndex(queue, k + 1)
          /\ Occupied(queue') = Occupied(queue) \ {queue.head}
          /\ \A i \in SlotIndex \ {queue.head} : queue'.slots[i] = queue.slots[i]
      BY <1>0, <3>1, <3>2, TakeOldestEffect
    <3>4. QueueIndex(queue', k) \in Occupied(queue') /\ Occupied(queue) \subseteq SlotIndex
      BY <1>0, <3>2, OccupiedSlots DEF Occupied
    <3>5. IsPending(queue.slots[QueueIndex(queue, k + 1)])
      BY <3>2, <3>3, <3>4
    <3>6. k + 1 \in 0..(queue.count - 1)
      BY <3>1, <3>2
    <3> QED BY <3>5, <3>6 DEF PendingOffsets
  <2>3. Running' = Running
    BY <2>1 DEF Running
  <2>4. AsleepForGood'
    <3> SUFFICES ASSUME Running # {}, Running \subseteq waiting, NEW w \in Running, HasWork(w)'
                 PROVE  FALSE
      BY <2>1, <2>3 DEF AsleepForGood
    <3>1. ~HasWork(w)
      BY DEF Asleep, AsleepForGood
    <3>2. NextPending(queue) = {}
      <4>1. queue.count >= Prebuffer /\ queue.count \in Nat
        BY <1>0, <2>1, Parameters DEF Asleep, Awaiting, QueueType
      <4> QED BY <3>1, <4>1, Parameters DEF HasWork, BatchWaits
    <3>3. PendingOffsets(queue) = {}
      BY <1>0, <3>2, PendingIsFound
    <3>4. NextPending(queue') = {}
      BY <2>2, <3>3 DEF NextPending
    <3> QED BY <2>1, <3>1, <3>4 DEF HasWork
  <2>5. HostSleepsRightly' /\ Awaiting' /\ WaitingAreIdle' /\ StopWakes'
    BY <2>1 DEF Asleep, HostSleepsRightly, Awaiting, WaitingAreIdle, StopWakes
  <2> QED BY <2>4, <2>5 DEF Asleep
<1>6. CASE FlushWait
  <2>1. /\ hostPC = "flush" /\ HasProcessing(queue) /\ waiting' = waiting \cup {Host}
        /\ UNCHANGED <<queue, stop, workerPC, hostPC>>
    BY <1>6 DEF FlushWait, Sleep, queueVars, callVars, workerVars
  <2>2. HostSleepsRightly' /\ Awaiting'
    BY <2>1 DEF HostSleepsRightly, Awaiting
  <2> QED BY <1>1, <2>1, <2>2, QuietKeepsAsleep
<1>7. CASE FlushRelease \/ StopWorkers
  <2>1. waiting' = {} /\ hostPC' \in {"reset", "join"}
    BY <1>7 DEF FlushRelease, StopWorkers, Broadcast
  <2>2. Awaiting'
    BY <2>1 DEF Awaiting
  <2> QED BY <2>1, <2>2, BroadcastKeepsAsleep
<1>8. CASE SpuriousWakeup \/ Closed
  <2>1. /\ waiting' \subseteq waiting /\ UNCHANGED <<queue, stop, workerPC, hostPC>>
    BY <1>8 DEF SpuriousWakeup, Closed, vars, queueVars, callVars, workerVars
  <2>2. HostSleepsRightly' /\ Awaiting'
    BY <2>1 DEF Asleep, HostSleepsRightly, Awaiting
  <2> QED BY <1>1, <2>1, <2>2, QuietKeepsAsleep
<1> QED
  BY <1>2, <1>3, <1>4, <1>5, <1>6, <1>7, <1>8 DEF HostStep, FilterStep, FlushStep, CloseStep

\* A worker that falls asleep has nothing to do, nor have the others.
LEMMA SleepKeepsAsleep ==
    ASSUME Typed, HeldInv, Asleep, NEW w \in Workers,
           BatchSleep(w) \/ (mode[w] # "batch" /\ WorkerSleep(w) /\ UNCHANGED batchVars)
    PROVE  Asleep'
<1>1. /\ waiting' = waiting \cup {w} /\ ~stop /\ workerPC[w] = "idle"
      /\ UNCHANGED <<queue, stop, workerPC, hostPC, mode>>
  BY DEF BatchSleep, WorkerSleep, WorkerIdle, Sleep, queueVars, callVars, workerVars, batchVars
<1>2. w # Host
  BY ThreadsAssumption
<1>3. HostSleepsRightly' /\ Awaiting' /\ WaitingAreIdle' /\ StopWakes'
  BY <1>1, <1>2 DEF Asleep, HostSleepsRightly, Awaiting, WaitingAreIdle, StopWakes
<1>4. ASSUME NEW v \in Running PROVE ~HasWork(v)
  <2>1. CASE mode[w] = "batch"
    <3>1. v = w
      BY <2>1 DEF HeldInv, Solo, Running
    <3>2. NextPending(queue) = {} \/ (BatchHead /\ BatchWaits)
      BY <2>1 DEF BatchSleep
    <3> QED BY <1>1, <2>1, <3>1, <3>2 DEF HasWork
  <2>2. CASE mode[w] # "batch"
    <3>1. NextPending(queue) = {}
      BY <2>2 DEF BatchSleep, WorkerSleep
    <3> QED BY <1>1, <3>1 DEF HasWork
  <2> QED BY <2>1, <2>2
<1>5. ASSUME NEW v \in Running PROVE ~HasWork(v)'
  BY <1>1, <1>4 DEF HasWork, BatchHead, BatchWaits
<1>6. AsleepForGood'
  <2>1. Running' = Running
    BY <1>1 DEF Running
  <2> QED BY <1>5, <2>1 DEF AsleepForGood
<1> QED
  BY <1>3, <1>6 DEF Asleep

\* A worker that goes on is awake, whatever it does.
LEMMA GoingOnKeepsAsleep ==
    ASSUME Typed, Queued, HeldInv, Asleep, NEW w \in Workers,
           BatchYield(w) \/ BatchClaim(w) \/ (mode[w] # "batch" /\ WorkerClaim(w))
    PROVE  Asleep'
<1>0. workerPC \in [Workers -> WorkerPCs] /\ queue \in QueueType
  BY DEF Typed, TypeOK
<1>1. /\ w \notin waiting /\ UNCHANGED <<waiting, stop, hostPC>>
      /\ workerPC'[w] # "exited"
      /\ \A v \in Workers \ {w} : workerPC'[v] = workerPC[v]
  BY <1>0 DEF BatchYield, BatchClaim, WorkerClaim, WorkerIdle, Awake, vars, callVars, workerVars
<1>2. \A v \in Workers : v \in waiting' => workerPC'[v] = workerPC[v]
  BY <1>1
<1>3. queue'.head = queue.head /\ queue'.count = queue.count
  <2>1. CASE BatchYield(w)
    BY <2>1 DEF BatchYield, vars, queueVars
  <2>2. CASE BatchClaim(w)
    BY <2>2, BatchClaimEffect DEF HeldInv, SamePictures
  <2>3. CASE mode[w] # "batch" /\ WorkerClaim(w)
    BY <2>3, ClaimEffect
  <2> QED BY <2>1, <2>2, <2>3
<1>4. HasProcessing(queue) => HasProcessing(queue')
  <2>1. Occupied(queue') = Occupied(queue) /\ Occupied(queue) \subseteq SlotIndex
    BY <1>0, <1>3, SlotWritesKeepOrder, OccupiedSlots
  <2>2. ASSUME NEW i \in SlotIndex, queue.slots[i].processing PROVE queue'.slots[i].processing
    <3>1. CASE BatchYield(w)
      BY <2>2, <3>1 DEF BatchYield, vars, queueVars
    <3>2. CASE BatchClaim(w)
      BY <2>2, <3>2, BatchClaimEffect DEF HeldInv
    <3>3. CASE mode[w] # "batch" /\ WorkerClaim(w)
      <4>1. /\ IsPending(queue.slots[workerSlot'[w]])
            /\ \A j \in SlotIndex \ {workerSlot'[w]} : queue'.slots[j] = queue.slots[j]
        BY <3>3, ClaimEffect
      <4>2. i # workerSlot'[w]
        BY <2>2, <4>1 DEF IsPending
      <4> QED BY <2>2, <4>1, <4>2
    <3> QED BY <3>1, <3>2, <3>3
  <2> QED BY <2>1, <2>2 DEF HasProcessing
<1>5. ~OldestFrameReady(queue) => ~OldestFrameReady(queue')
  <2>1. queue.head \in SlotIndex
    BY <1>0 DEF QueueType
  <2>2. CASE BatchYield(w)
    BY <2>2 DEF BatchYield, vars, queueVars
  <2>3. CASE BatchClaim(w)
    <3>1. /\ queue'.slots[queue.head].ready = queue.slots[queue.head].ready
          /\ queue'.slots[queue.head].picture = queue.slots[queue.head].picture
          /\ queue.slots[queue.head].processing => queue'.slots[queue.head].processing
      BY <2>1, <2>3, BatchClaimEffect DEF HeldInv, SamePictures
    <3> QED BY <1>3, <3>1 DEF OldestFrameReady
  <2>4. CASE mode[w] # "batch" /\ WorkerClaim(w)
    <3> DEFINE i == workerSlot'[w]
    <3>1. /\ i \in SlotIndex /\ IsPending(queue.slots[i])
          /\ queue'.slots[i] = [queue.slots[i] EXCEPT !.processing = TRUE]
          /\ \A j \in SlotIndex \ {i} : queue'.slots[j] = queue.slots[j]
      BY <2>4, ClaimEffect
    <3>2. queue.slots[i] \in Slot
      BY <1>0, <3>1, SlotsOfQueue
    <3> HIDE DEF i
    <3>3. queue'.slots[i].processing
      BY <3>1, <3>2 DEF Slot
    <3>4. CASE queue.head = i
      BY <1>3, <3>3, <3>4 DEF OldestFrameReady
    <3>5. CASE queue.head # i
      BY <1>3, <2>1, <3>1, <3>5 DEF OldestFrameReady
    <3> QED BY <3>4, <3>5
  <2> QED BY <2>2, <2>3, <2>4
<1>6. HostSleepsRightly' /\ Awaiting'
  BY <1>1, <1>3, <1>4, <1>5 DEF Asleep, HostSleepsRightly, Awaiting
<1> QED
  BY <1>1, <1>2, <1>6, AwakeWorkerKeepsAsleep

\* Every step keeps the promise about sleeping threads.
LEMMA AsleepStep == Typed /\ Queued /\ HeldInv /\ Asleep /\ [GpuNext]_gpuVars => Asleep'
<1> SUFFICES ASSUME Typed, Queued, HeldInv, Asleep, [GpuNext]_gpuVars PROVE Asleep'
  OBVIOUS
<1>1. CASE HostStep
  BY <1>1, HostKeepsAsleep
<1>2. ASSUME NEW w \in Workers, SingleRound(w) PROVE Asleep'
  BY <1>2, SleepKeepsAsleep, GoingOnKeepsAsleep DEF SingleRound
<1>3. ASSUME NEW w \in Workers, SinglePublish(w) \/ BatchPublish(w) PROVE Asleep'
  <2>1. waiting' = {} /\ hostPC' = hostPC
    BY <1>3 DEF SinglePublish, BatchPublish, WorkerPublish, WorkerWakes, Broadcast, callVars
  <2>2. queue'.count = queue.count
    <3>1. CASE SinglePublish(w)
      <4>1. WorkerPublish(w)
        BY <3>1 DEF SinglePublish
      <4>2. PICK outcome \in {"clean", "positive", "failed"} : Published(w, outcome)
        BY <4>1, PublishEffect
      <4> QED BY <4>2 DEF Published
    <3>2. CASE BatchPublish(w)
      BY <3>2, BatchPublishEffect DEF SamePictures
    <3> QED BY <1>3, <3>1, <3>2
  <2>3. Awaiting'
    BY <2>1, <2>2 DEF Asleep, Awaiting
  <2> QED BY <2>1, <2>3, BroadcastKeepsAsleep
<1>4. ASSUME NEW w \in Workers, BatchSleep(w) PROVE Asleep'
  BY <1>4, SleepKeepsAsleep
<1>5. ASSUME NEW w \in Workers, BatchYield(w) \/ BatchClaim(w) PROVE Asleep'
  BY <1>5, GoingOnKeepsAsleep
<1>6. ASSUME NEW w \in Workers, GpuWorkerExit(w) PROVE Asleep'
  <2>1. /\ stop /\ UNCHANGED <<queue, stop, waiting, hostPC, mode>>
        /\ workerPC' = [workerPC EXCEPT ![w] = "exited"] /\ w \notin waiting
    BY <1>6 DEF GpuWorkerExit, WorkerExit, WorkerIdle, Awake, queueVars, callVars, batchVars
  <2>2. workerPC \in [Workers -> WorkerPCs]
    BY DEF Typed, TypeOK
  <2>3. waiting' \cap Workers = {}
    BY <2>1 DEF Asleep, StopWakes
  <2>4. AsleepForGood' /\ WaitingAreIdle' /\ StopWakes'
    BY <2>3 DEF AsleepForGood, WaitingAreIdle, StopWakes, Running
  <2>5. HostSleepsRightly' /\ Awaiting'
    BY <2>1 DEF Asleep, HostSleepsRightly, Awaiting
  <2> QED BY <2>4, <2>5 DEF Asleep
<1>7. CASE UNCHANGED gpuVars
  <2>1. UNCHANGED <<queue, stop, workerPC, mode, waiting, hostPC>>
    BY <1>7 DEF gpuVars, vars, queueVars, callVars, workerVars, batchVars
  <2>2. HostSleepsRightly' /\ Awaiting'
    BY <2>1 DEF Asleep, HostSleepsRightly, Awaiting
  <2> QED BY <2>1, <2>2, QuietKeepsAsleep
<1> QED
  BY <1>1, <1>2, <1>3, <1>4, <1>5, <1>6, <1>7, SharedStep

(***************************************************************************)
(* All workers asleep: none of them has work, and the host is awake.  With *)
(* nobody busy no slot is being processed, so Flush does not wait; and the *)
(* oldest frame Filter would wait for is decided, because the prebuffer is *)
(* full and an undecided frame would be work.                              *)
(***************************************************************************)
THEOREM SleepersRest == GpuSpec => []SleepersHaveNoWork
<1>1. GpuInit => Asleep
  <2> SUFFICES ASSUME GpuInit PROVE Asleep
    OBVIOUS
  <2>1. waiting = {} /\ hostPC = "idle"
    BY DEF GpuInit, SharedInit
  <2> QED
    BY <2>1 DEF Asleep, Awaiting, HostSleepsRightly, WaitingAreIdle, StopWakes, AsleepForGood,
       Running
<1>2. Typed /\ Queued /\ HeldInv /\ Asleep => SleepersHaveNoWork
  <2> SUFFICES ASSUME Typed, Queued, HeldInv, Asleep, Running # {}, Running \subseteq waiting
               PROVE  Host \notin waiting /\ \A w \in Running : ~HasWork(w)
    BY DEF SleepersHaveNoWork
  <2>1. \A w \in Running : ~HasWork(w)
    BY DEF Asleep, AsleepForGood
  <2>2. \A w \in Workers : workerPC[w] # "busy"
    BY DEF Asleep, WaitingAreIdle, Running
  <2>3. \A i \in Occupied(queue) : ~queue.slots[i].processing
    BY <2>2 DEF HeldInv, ProcessingHeld, Holds
  <2>4. ASSUME Host \in waiting PROVE FALSE
    <3>1. ~HasProcessing(queue)
      BY <2>3 DEF HasProcessing
    <3>2. hostPC = "await" /\ ~OldestFrameReady(queue)
      BY <2>4, <3>1 DEF Asleep, HostSleepsRightly
    <3>3. /\ queue \in QueueType /\ queue.count \in Nat /\ queue.count >= Prebuffer
          /\ queue.count > 0 /\ queue.head \in SlotIndex
      BY <3>2, Parameters DEF Typed, TypeOK, QueueType, Asleep, Awaiting
    <3>4. 0 \in 0..(queue.count - 1) /\ QueueIndex(queue, 0) = queue.head
      BY <3>3, MaxBufferAssumption DEF QueueIndex, SlotIndex
    <3>5. queue.head \in Occupied(queue)
      BY <3>4 DEF Occupied
    <3>6. queue.slots[queue.head].picture \in Pictures /\ ~queue.slots[queue.head].processing
      BY <2>3, <3>5 DEF Queued, SlotsHoldPictures
    <3>7. queue.slots[queue.head].picture # NoPicture
      BY <3>6 DEF Pictures, NoPicture
    <3>8. 0 \in PendingOffsets(queue)
      BY <3>2, <3>3, <3>4, <3>6, <3>7 DEF PendingOffsets, IsPending, OldestFrameReady
    <3>9. NextPending(queue) # {}
      BY <3>3, <3>8, PendingIsFound
    <3>10. ~BatchWaits
      BY <3>3, Parameters DEF BatchWaits
    <3> QED BY <2>1, <3>9, <3>10 DEF HasWork
  <2> QED BY <2>1, <2>4
<1> QED
  BY <1>1, <1>2, HeldAlways, AsleepStep, PTL DEF GpuSpec
-----------------------------------------------------------------------------
(***************************************************************************)
(* Verdicts that arrive in batches make no other gate.                     *)
(***************************************************************************)
\* The host's steps are those of the pthread build.
LEMMA HostIsAGate ==
    ASSUME Typed, Queued, Decisions, HostStep
    PROVE  Decisions' /\ [Gate!GateNext]_(Gate!gateVars)
<1>1. CASE FilterEnqueue
  BY <1>1, DecisionsEnqueue, GateEnters
<1>2. CASE FilterTake
  BY <1>2, DecisionsTake, GateLeaves
<1>3. CASE FlushRelease
  BY <1>3, DecisionsFlush DEF FlushRelease, Gate!DropAll, Gate!GateNext
<1>4. CASE UNCHANGED <<queue, fate, wanted, verdict>>
  BY <1>4, DecisionsKept DEF Gate!gateVars
<1>5. ASSUME ~FilterEnqueue, ~FilterTake, ~FlushRelease
      PROVE  UNCHANGED <<queue, fate, wanted, verdict>>
  <2>1. CASE FilterCall \/ FilterWait \/ FilterDisplay
    BY <2>1 DEF FilterCall, FilterWait, FilterDisplay, queueVars, history
  <2>2. CASE FlushCall \/ FlushWait \/ FlushReset
    BY <2>2 DEF FlushCall, FlushWait, FlushReset, queueVars, history
  <2>3. CASE CloseStep \/ SpuriousWakeup \/ Closed
    BY <2>3 DEF CloseStep, StopWorkers, JoinWorkers, SpuriousWakeup, Closed, vars, queueVars, history
  <2> QED BY <1>5, <2>1, <2>2, <2>3 DEF HostStep, FilterStep, FlushStep
<1> QED
  BY <1>1, <1>2, <1>3, <1>4, <1>5

\* A worker's steps on the single-frame path are, too.
LEMMA SingleIsAGate ==
    ASSUME Typed, Queued, HeldInv, Decisions, NEW w \in Workers,
           SingleRound(w) \/ SinglePublish(w) \/ GpuWorkerExit(w)
    PROVE  Decisions' /\ [Gate!GateNext]_(Gate!gateVars)
<1>1. CASE SinglePublish(w)
  <2>1. WorkerPublish(w) /\ HasItsSlot(w)
    BY <1>1 DEF SinglePublish, WorkerPublish, HeldInv, SinglesOwn
  <2> QED BY <2>1, DecisionsPublish, GateDecides
<1>2. CASE WorkerClaim(w)
  BY <1>2, DecisionsClaim DEF WorkerClaim, history, Gate!gateVars
<1>3. CASE WorkerSleep(w) \/ WorkerExit(w)
  BY <1>3, DecisionsKept DEF WorkerSleep, WorkerExit, queueVars, history, Gate!gateVars
<1> QED
  BY <1>1, <1>2, <1>3 DEF SingleRound, GpuWorkerExit

\* Forming a batch decides nothing, and what is claimed is undecided.
LEMMA DecisionsBatchClaim ==
    ASSUME Typed, Queued, HeldInv, Decisions, NEW w \in Workers, BatchClaim(w)
    PROVE  Decisions' /\ UNCHANGED <<fate, wanted, verdict>>
<1>1. UNCHANGED <<fate, wanted, verdict>>
  BY DEF BatchClaim, history
<1>2. PICK claims : claims = batch'[w]
  OBVIOUS
<1>3. /\ OwnsClaims(claims, queue') /\ SamePictures(queue', queue)
      /\ \A i \in SlotIndex :
            /\ queue'.slots[i].ready = queue.slots[i].ready
            /\ queue'.slots[i].nsfw = queue.slots[i].nsfw
            /\ queue'.slots[i].blocked = queue.slots[i].blocked
            /\ queue'.slots[i].processing =>
                  queue.slots[i].processing \/ \E j \in 1..Len(claims) : claims[j].slot = i
  BY <1>2, BatchClaimEffect DEF HeldInv
<1>4. Occupied(queue') = Occupied(queue) /\ Occupied(queue) \subseteq SlotIndex
  BY <1>3, SlotWritesKeepOrder, OccupiedSlots DEF SamePictures, Typed, TypeOK
<1>5. \A i \in Occupied(queue) :
          /\ queue'.slots[i].picture = queue.slots[i].picture
          /\ queue'.slots[i].analyze = queue.slots[i].analyze
  BY <1>3, <1>4 DEF SamePictures
<1>6. DecisionMatchesPicture'
  BY <1>1, <1>3, <1>4, <1>5 DEF Decisions, DecisionMatchesPicture
<1>7. UnseenPending'
  BY <1>1 DEF Decisions, UnseenPending
<1>8. UndecidedPending'
  BY <1>1, <1>3, <1>4, <1>5 DEF Decisions, UndecidedPending
<1>9. HeldUndecided'
  BY <1>3, <1>4 DEF Decisions, HeldUndecided, OwnsClaims
<1> QED
  BY <1>1, <1>6, <1>7, <1>8, <1>9 DEF Decisions

\* Publishing a batch decides the pictures in it, each with its own result, and no other.
LEMMA DecisionsBatchPublish ==
    ASSUME Typed, Queued, HeldInv, Decisions, NEW w \in Workers, BatchPublish(w)
    PROVE  Decisions' /\ Gate!Decide
<1>1. PICK claims : claims = batch[w]
  OBVIOUS
<1>2. workerPC[w] = "busy" /\ mode[w] = "batch" /\ OwnsClaims(claims, queue)
      /\ UNCHANGED <<fate, wanted>>
  BY <1>1 DEF BatchPublish, HeldInv, BatchesOwn
<1>3. /\ SamePictures(queue', queue) /\ verdict' \in [Pictures -> Gate!Verdicts]
      /\ \A i \in SlotIndex :
            (\A n \in 1..Len(claims) : claims[n].slot # i)
                => LeftAlone(queue'.slots[i], queue.slots[i])
  BY <1>1, <1>2, BatchPublishEffect DEF Holds
<1>4. PICK results \in BatchResults(Len(claims)) :
            /\ \A n \in 1..Len(claims) :
                  Decided(queue'.slots[claims[n].slot], results[n] # "clean")
            /\ verdict' = [p \in Pictures |->
                  IF \E n \in 1..Len(claims) : claims[n].picture = p /\ results[n] # "clean"
                  THEN "positive"
                  ELSE IF \E n \in 1..Len(claims) : claims[n].picture = p
                       THEN "clean" ELSE verdict[p]]
  BY <1>1, BatchPublishEffect
<1>5. Occupied(queue') = Occupied(queue) /\ Occupied(queue) \subseteq SlotIndex
  BY <1>3, SlotWritesKeepOrder, OccupiedSlots DEF SamePictures, Typed, TypeOK
<1>6. \A i \in Occupied(queue) :
          /\ queue'.slots[i].picture = queue.slots[i].picture
          /\ queue'.slots[i].analyze = queue.slots[i].analyze
  BY <1>3, <1>5 DEF SamePictures
<1>7. ASSUME NEW n \in 1..Len(claims)
      PROVE  /\ claims[n].slot \in Occupied(queue) /\ queue.slots[claims[n].slot].analyze
             /\ queue.slots[claims[n].slot].picture = claims[n].picture
             /\ claims[n].picture \in Pictures /\ fate[claims[n].picture] = "inside"
             /\ wanted[claims[n].picture] /\ verdict[claims[n].picture] = "pending"
             /\ verdict'[claims[n].picture] = IF results[n] # "clean" THEN "positive" ELSE "clean"
  <2>1. /\ claims[n].slot \in Occupied(queue) /\ queue.slots[claims[n].slot].analyze
        /\ ~queue.slots[claims[n].slot].ready
        /\ queue.slots[claims[n].slot].picture = claims[n].picture
    BY <1>2 DEF OwnsClaims
  <2>2. /\ claims[n].picture \in Pictures /\ fate[claims[n].picture] = "inside"
        /\ wanted[claims[n].picture]
    BY <2>1, QueuedArrived DEF Queued, AnalyzeIsWanted
  <2>3. verdict[claims[n].picture] = "pending"
    BY <2>1 DEF Decisions, UndecidedPending
  <2>4. ASSUME NEW k \in 1..Len(claims), claims[k].picture = claims[n].picture PROVE k = n
    <3>1. claims[n].picture \in Nat
      BY <2>2 DEF Pictures
    <3>2. ~(k < n) /\ ~(n < k)
      BY <1>2, <2>4, <3>1 DEF OwnsClaims
    <3> QED BY <1>2, <3>2 DEF OwnsClaims
  <2>5. verdict'[claims[n].picture] = IF results[n] # "clean" THEN "positive" ELSE "clean"
    BY <1>4, <2>2, <2>4
  <2> QED BY <2>1, <2>2, <2>3, <2>5
<1>8. ASSUME NEW p \in Pictures, \A n \in 1..Len(claims) : claims[n].picture # p
      PROVE  verdict'[p] = verdict[p]
  BY <1>4, <1>8
<1>9. ASSUME NEW i \in Occupied(queue), \A n \in 1..Len(claims) : claims[n].slot # i
      PROVE  /\ LeftAlone(queue'.slots[i], queue.slots[i])
             /\ verdict'[queue.slots[i].picture] = verdict[queue.slots[i].picture]
  <2>1. \A n \in 1..Len(claims) : claims[n].picture # queue.slots[i].picture
    BY <1>7, <1>9, PicturesDistinct
  <2>2. queue.slots[i].picture \in Pictures
    BY QueuedArrived
  <2> QED BY <1>3, <1>5, <1>8, <1>9, <2>1, <2>2
<1>10. DecisionMatchesPicture'
  <2> SUFFICES ASSUME NEW i \in Occupied(queue), queue'.slots[i].ready
               PROVE  /\ queue'.slots[i].analyze => verdict'[queue'.slots[i].picture] # "pending"
                      /\ queue'.slots[i].nsfw <=> verdict'[queue'.slots[i].picture] = "positive"
                      /\ queue'.slots[i].nsfw => queue'.slots[i].blocked
    BY <1>5 DEF DecisionMatchesPicture
  <2>1. CASE \E n \in 1..Len(claims) : claims[n].slot = i
    <3>1. PICK n \in 1..Len(claims) : claims[n].slot = i
      BY <2>1
    <3>2. Decided(queue'.slots[i], results[n] # "clean") /\ queue'.slots[i].picture = claims[n].picture
      BY <1>4, <1>6, <1>7, <3>1
    <3>3. verdict'[queue'.slots[i].picture] = IF results[n] # "clean" THEN "positive" ELSE "clean"
      BY <1>7, <3>2
    <3> QED BY <3>2, <3>3 DEF Decided
  <2>2. CASE \A n \in 1..Len(claims) : claims[n].slot # i
    <3>1. /\ LeftAlone(queue'.slots[i], queue.slots[i])
          /\ verdict'[queue'.slots[i].picture] = verdict[queue.slots[i].picture]
      BY <1>6, <1>9, <2>2
    <3>2. queue.slots[i].ready
      BY <3>1 DEF LeftAlone
    <3>3. /\ queue.slots[i].analyze => verdict[queue.slots[i].picture] # "pending"
          /\ queue.slots[i].nsfw <=> verdict[queue.slots[i].picture] = "positive"
          /\ queue.slots[i].nsfw => queue.slots[i].blocked
      BY <3>2 DEF Decisions, DecisionMatchesPicture
    <3> QED BY <1>6, <3>1, <3>3 DEF LeftAlone
  <2> QED BY <2>1, <2>2
<1>11. UnseenPending'
  <2> SUFFICES ASSUME NEW p \in Pictures, fate[p] = "unseen" PROVE verdict'[p] = "pending"
    BY <1>2 DEF UnseenPending
  <2>1. \A n \in 1..Len(claims) : claims[n].picture # p
    BY <1>7
  <2> QED BY <1>8, <2>1 DEF Decisions, UnseenPending
<1>12. UndecidedPending' /\ HeldUndecided'
  <2>1. ASSUME NEW i \in Occupied(queue), ~queue'.slots[i].ready \/ queue'.slots[i].processing
        PROVE  \A n \in 1..Len(claims) : claims[n].slot # i
    BY <1>4, <2>1 DEF Decided
  <2>2. ASSUME NEW i \in Occupied(queue), ~queue'.slots[i].ready
        PROVE  verdict'[queue'.slots[i].picture] = "pending"
    <3>1. /\ LeftAlone(queue'.slots[i], queue.slots[i])
          /\ verdict'[queue.slots[i].picture] = verdict[queue.slots[i].picture]
      BY <1>9, <2>1, <2>2
    <3> QED BY <1>6, <2>2, <3>1 DEF LeftAlone, Decisions, UndecidedPending
  <2>3. ASSUME NEW i \in Occupied(queue), queue'.slots[i].processing
        PROVE  ~queue'.slots[i].ready
    <3>1. LeftAlone(queue'.slots[i], queue.slots[i])
      BY <1>9, <2>1, <2>3
    <3> QED BY <2>3, <3>1 DEF LeftAlone, Decisions, HeldUndecided
  <2> QED BY <1>5, <2>2, <2>3 DEF UndecidedPending, HeldUndecided
<1>13. Gate!Decide
  <2>1. ASSUME NEW p \in Pictures, verdict'[p] # verdict[p]
        PROVE  p \in Gate!Inside /\ wanted[p] /\ verdict[p] = "pending"
    <3>1. PICK n \in 1..Len(claims) : claims[n].picture = p
      BY <1>8, <2>1
    <3> QED BY <1>7, <3>1 DEF Gate!Inside
  <2> QED BY <1>2, <1>3, <2>1 DEF Gate!Decide
<1> QED
  BY <1>10, <1>11, <1>12, <1>13 DEF Decisions

\* Every step keeps the decisions, and is a step of the gate or a stutter.
LEMMA GpuGateStep ==
    Typed /\ Queued /\ HeldInv /\ Decisions /\ [GpuNext]_gpuVars
        => Decisions' /\ [Gate!GateNext]_(Gate!gateVars)
<1> SUFFICES ASSUME Typed, Queued, HeldInv, Decisions, [GpuNext]_gpuVars
             PROVE  Decisions' /\ [Gate!GateNext]_(Gate!gateVars)
  OBVIOUS
<1>1. CASE HostStep
  BY <1>1, HostIsAGate
<1>2. ASSUME NEW w \in Workers, SingleRound(w) \/ SinglePublish(w) \/ GpuWorkerExit(w)
      PROVE  Decisions' /\ [Gate!GateNext]_(Gate!gateVars)
  BY <1>2, SingleIsAGate
<1>3. ASSUME NEW w \in Workers, BatchSleep(w) \/ BatchYield(w)
      PROVE  Decisions' /\ [Gate!GateNext]_(Gate!gateVars)
  <2>1. UNCHANGED <<queue, fate, wanted, verdict>>
    BY <1>3 DEF BatchSleep, BatchYield, vars, queueVars, history
  <2> QED BY <2>1, DecisionsKept DEF Gate!gateVars
<1>4. ASSUME NEW w \in Workers, BatchClaim(w)
      PROVE  Decisions' /\ [Gate!GateNext]_(Gate!gateVars)
  BY <1>4, DecisionsBatchClaim DEF Gate!gateVars
<1>5. ASSUME NEW w \in Workers, BatchPublish(w)
      PROVE  Decisions' /\ [Gate!GateNext]_(Gate!gateVars)
  BY <1>5, DecisionsBatchPublish DEF Gate!GateNext
<1>6. CASE UNCHANGED gpuVars
  <2>1. UNCHANGED <<queue, fate, wanted, verdict>>
    BY <1>6 DEF gpuVars, vars, queueVars, history
  <2> QED BY <2>1, DecisionsKept DEF Gate!gateVars
<1> QED
  BY <1>1, <1>2, <1>3, <1>4, <1>5, <1>6, SharedStep

(***************************************************************************)
(* The pipeline with workers that batch implements the gate                *)
(* README.md:106-107 promises: ProcessGpuBatch decides the pictures of its *)
(* batch and no other, each once, while it is inside.                      *)
(***************************************************************************)
THEOREM BatchesAreAGate == GpuSpec => BatchGateSpec
<1>1. GpuInit => Gate!GateInit /\ Decisions
  BY DecisionsInit DEF GpuInit, SharedInit, Gate!GateInit
<1> QED
  BY <1>1, GpuGateStep, HeldAlways, PTL DEF GpuSpec, BatchGateSpec, Gate!GateSpec

(***************************************************************************)
(* So a picture that required analysis has its decision when it is output, *)
(* and is unmasked only when the decision was clean, batches or not.       *)
(***************************************************************************)
THEOREM NothingLeavesBatchesUndecided == GpuSpec => []NoUndecidedOutput
<1>1. GpuInit => Decisions /\ NoUndecidedOutput
  BY DecisionsInit DEF GpuInit, SharedInit, NoUndecidedOutput
<1>2. Typed /\ Queued /\ HeldInv /\ Decisions /\ NoUndecidedOutput /\ [GpuNext]_gpuVars
        => Decisions' /\ NoUndecidedOutput'
  BY GpuGateStep, GateKeepsPromise DEF Typed
<1> QED
  BY <1>1, <1>2, HeldAlways, PTL DEF GpuSpec

-----------------------------------------------------------------------------
(***************************************************************************)
(* The windows of detections, with batches: in time and in the list of     *)
(* ranges they are those of the pthread build.                             *)
(***************************************************************************)
\* Forming a batch touches neither times nor marks.
LEMMA WindowsBatchClaim ==
    ASSUME Typed, Queued, HeldInv, Windows, NEW w \in Workers, BatchClaim(w)
    PROVE  Windows'
<1>1. UNCHANGED <<ranges, positives, hostFailed, lastTs, inTs, hostPC>>
  BY DEF BatchClaim, history, timelineVars, callVars
<1>2. /\ SamePictures(queue', queue)
      /\ \A i \in SlotIndex : queue'.slots[i].blocked = queue.slots[i].blocked
  BY BatchClaimEffect DEF HeldInv
<1>3. Occupied(queue') = Occupied(queue) /\ Occupied(queue) \subseteq SlotIndex
  BY <1>2, SlotWritesKeepOrder, OccupiedSlots DEF SamePictures, Typed, TypeOK
<1>4. /\ queue'.count = queue.count
      /\ \A i \in Occupied(queue) : /\ queue'.slots[i].ts = queue.slots[i].ts
                                    /\ queue'.slots[i].blocked = queue.slots[i].blocked
  BY <1>2, <1>3 DEF SamePictures
<1>5. Clock'
  BY <1>1, <1>3, <1>4 DEF Windows, Clock
<1>6. WindowsCovered' /\ RangesHaveCause'
  BY <1>1 DEF Windows, WindowsCovered, RangesHaveCause, InWindow
<1>7. WindowsMarked' /\ MarksHaveCause'
  BY <1>1, <1>3, <1>4 DEF Windows, WindowsMarked, MarksHaveCause, InWindow
<1> QED
  BY <1>5, <1>6, <1>7 DEF Windows

\* The publishing loop registers the detections of the batch one after the other.
LEMMA WindowsBatchPublish ==
    ASSUME Typed, HeldInv, RangesInOrder, Windows, NEW w \in Workers, BatchPublish(w)
    PROVE  RangesInOrder' /\ Windows'
<1>1. PICK claims : claims = batch[w]
  OBVIOUS
<1>2. OwnsClaims(claims, queue) /\ UNCHANGED <<lastTs, inTs, hostPC>>
  BY <1>1 DEF BatchPublish, HeldInv, BatchesOwn, timelineVars, callVars
<1>3. OnSlots(claims)
  BY <1>2, ClaimsOnSlots
<1>4. PICK start : start = [queue |-> queue, ranges |-> ranges, renewal |-> renewal]
  OBVIOUS
<1>5. /\ start \in Shared /\ start.queue = queue /\ start.ranges = ranges
      /\ SortedAndDisjoint(ranges) /\ hostFailed \in BOOLEAN
  BY <1>4 DEF Shared, Typed, TypeOK, BlockRange, RangesInOrder
<1>6. PICK results \in BatchResults(Len(claims)) :
        LET failed == \E j \in DOMAIN results : results[j] = "failed"
            after  == PublishAll(start, hostFailed \/ failed, claims, results)
        IN  /\ hostFailed' = (hostFailed \/ failed)
            /\ queue' = after.queue
            /\ ranges' = after.ranges
            /\ positives' = positives \cup
                  {queue.slots[claims[j].slot].ts : j \in {k \in DOMAIN results : results[k] # "clean"}}
  BY <1>1, <1>4 DEF BatchPublish
<1>7. DOMAIN results = 1..Len(claims)
  BY <1>6 DEF BatchResults
<1>8. PICK fails \in BOOLEAN : fails = (hostFailed \/ \E j \in DOMAIN results : results[j] = "failed")
  OBVIOUS
<1>9. PICK after : after = PublishAll(start, fails, claims, results)
  OBVIOUS
<1>10. /\ queue' = after.queue /\ ranges' = after.ranges /\ hostFailed' = fails
       /\ positives' = positives \cup HitsOf(claims, results, queue, Len(claims))
  BY <1>6, <1>7, <1>8, <1>9 DEF HitsOf
<1>11. PICK first \in 1..Len(claims) : claims[first].slot \in Occupied(queue)
  <2>1. Len(claims) # 0
    BY <1>2 DEF OwnsClaims
  <2>2. 1 \in 1..Len(claims)
    BY <1>2, <2>1 DEF OwnsClaims
  <2> QED BY <1>2, <2>2 DEF OwnsClaims
<1>12. /\ lastTs \in Nat /\ lastTs # NoTime /\ hostPC # "reset"
       /\ \A i \in Occupied(queue) : queue.slots[i].ts <= lastTs
  BY <1>11, ClockOfQueued DEF Windows
<1>13. WindowsOf(queue, ranges, positives, lastTs, fails)
  BY <1>8, WindowsParts DEF WindowsOf
<1>14. /\ SortedAndDisjoint(after.ranges)
       /\ WindowsOf(after.queue, after.ranges,
                    positives \cup HitsOf(claims, results, queue, Len(claims)), lastTs, fails)
  <2>1. \A n \in 1..Len(claims) : claims[n].slot \in Occupied(queue)
    BY <1>2 DEF OwnsClaims
  <2> QED BY <1>3, <1>5, <1>9, <1>12, <1>13, <2>1, PublishAllWindows
<1>15. Clock'
  <2>1. SamePictures(queue', queue)
    BY BatchPublishEffect
  <2>2. Occupied(queue') = Occupied(queue) /\ Occupied(queue) \subseteq SlotIndex
    BY <2>1, SlotWritesKeepOrder, OccupiedSlots DEF SamePictures, Typed, TypeOK
  <2> QED BY <1>2, <1>12, <2>1, <2>2 DEF Windows, Clock, SamePictures
<1>16. Windows' <=> Clock' /\ WindowsOf(queue', ranges', positives', lastTs', hostFailed')
  BY DEF Windows, WindowsOf, WindowsCovered, WindowsMarked, RangesHaveCause, MarksHaveCause, InWindow
<1> QED
  BY <1>2, <1>10, <1>14, <1>15, <1>16 DEF RangesInOrder

\* Every step keeps the order of the ranges and the windows.
LEMMA GpuWindowsStep ==
    Typed /\ Queued /\ HeldInv /\ RangesInOrder /\ Windows /\ [GpuNext]_gpuVars
        => RangesInOrder' /\ Windows'
<1> SUFFICES ASSUME Typed, Queued, HeldInv, RangesInOrder, Windows, [GpuNext]_gpuVars
             PROVE  RangesInOrder' /\ Windows'
  OBVIOUS
<1>1. CASE HostStep
  BY <1>1, RangesStep, HostStepIsStep, WindowsHost DEF HostStep
<1>2. ASSUME NEW w \in Workers, SingleRound(w) \/ SinglePublish(w) \/ GpuWorkerExit(w)
      PROVE  RangesInOrder' /\ Windows'
  <2>1. WorkerStep(w) /\ [Next]_vars
    BY <1>2, SingleStepIsStep
  <2>2. workerPC[w] = "busy" => HasItsSlot(w)
    BY <1>2 DEF HeldInv, SinglesOwn, SingleRound, SinglePublish, GpuWorkerExit, WorkerSleep,
       WorkerClaim, WorkerExit, WorkerIdle
  <2> QED BY <2>1, <2>2, RangesStep, WindowsWorker
<1>3. ASSUME NEW w \in Workers, BatchSleep(w) \/ BatchYield(w)
      PROVE  RangesInOrder' /\ Windows'
  <2>1. UNCHANGED <<queue, ranges, positives, hostFailed, lastTs, inTs, hostPC>>
    BY <1>3 DEF BatchSleep, BatchYield, vars, queueVars, history, timelineVars, callVars
  <2> QED BY <2>1, WindowsKept DEF RangesInOrder
<1>4. ASSUME NEW w \in Workers, BatchClaim(w) PROVE RangesInOrder' /\ Windows'
  <2>1. ranges' = ranges
    BY <1>4 DEF BatchClaim
  <2> QED BY <1>4, <2>1, WindowsBatchClaim DEF RangesInOrder
<1>5. ASSUME NEW w \in Workers, BatchPublish(w) PROVE RangesInOrder' /\ Windows'
  BY <1>5, WindowsBatchPublish
<1>6. CASE UNCHANGED gpuVars
  <2>1. UNCHANGED <<queue, ranges, positives, hostFailed, lastTs, inTs, hostPC>>
    BY <1>6 DEF gpuVars, vars, queueVars, history, timelineVars, callVars
  <2> QED BY <2>1, WindowsKept DEF RangesInOrder
<1> QED
  BY <1>1, <1>2, <1>3, <1>4, <1>5, <1>6, SharedStep

\* Both hold from the start.
LEMMA GpuWindowsAlways == GpuSpec => [](RangesInOrder /\ Windows)
<1>1. GpuInit => RangesInOrder /\ Windows
  BY WindowsInit DEF GpuInit
<1> QED
  BY <1>1, GpuWindowsStep, HeldAlways, PTL DEF GpuSpec

(***************************************************************************)
(* A detection in a batch masks every picture of its window that is still  *)
(* queued, the earlier pictures of its batch too, although their own       *)
(* results were written before (nsfw_filter_worker.c 412-424), and every   *)
(* picture queued later.                                                   *)
(***************************************************************************)
THEOREM BatchWindowsHold == GpuSpec => []WindowHolds
<1>1. Windows => WindowHolds
  BY DEF Windows, WindowsMarked, WindowHolds, FilterBlocked
<1> QED
  BY <1>1, GpuWindowsAlways, PTL

(***************************************************************************)
(* And with batches too nothing else is masked while inference works: the  *)
(* loop covers the windows of its detections and no other time.            *)
(***************************************************************************)
THEOREM BatchMasksHaveCause == GpuSpec => []MaskHasCause
BY MarksHaveReason, GpuWindowsAlways, HeldAlways, PTL
=============================================================================
