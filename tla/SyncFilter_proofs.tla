------------------------- MODULE SyncFilter_proofs -------------------------
(***************************************************************************)
(* Proofs about the synchronous path: what is shown unmasked has been      *)
(* looked at, often enough, and a running detection shows no raw picture.  *)
(*                                                                         *)
(* A timeline runs forward, so that every window it ever registers reaches *)
(* back over the one before it and the list holds at most one range.  What *)
(* remains is arithmetic between the stride, the padding, the lead and the *)
(* time from one picture to the next; its hypotheses are the operators of  *)
(* the section "How far apart pictures may be".                            *)
(***************************************************************************)
EXTENDS SyncFilter, SequenceTheorems, TLAPS

BlockRange == [start : Nat, end : Nat]

(***************************************************************************)
(* A list of at most one range.                                            *)
(***************************************************************************)
\* A loop over no range stops at once.
LEMMA LeadingOfNone ==
    ASSUME NEW yes
    PROVE  LeadingIn(<<>>, yes) = 0
<1>1. Len(<<>>) = 0 /\ 0..0 = {0}
  OBVIOUS
<1>2. \A i \in 1..0 : i \in yes
  OBVIOUS
<1> QED
  BY <1>1, <1>2 DEF LeadingIn

\* A loop over one range goes past it or not.
LEMMA LeadingOfOne ==
    ASSUME NEW r \in BlockRange, NEW yes
    PROVE  LeadingIn(<<r>>, yes) = IF 1 \in yes THEN 1 ELSE 0
<1>1. LeadingIn(<<r>>, yes) = CHOOSE n \in 0..1 : /\ \A i \in 1..n : i \in yes
                                                  /\ n < 1 => (n + 1) \notin yes
  BY DEF LeadingIn
<1>2. CASE 1 \in yes
  <2>1. /\ \A i \in 1..1 : i \in yes
        /\ ~(0 < 1 => (0 + 1) \notin yes)
    BY <1>2
  <2> QED BY <1>1, <1>2, <2>1
<1>3. CASE 1 \notin yes
  <2>1. /\ \A i \in 1..0 : i \in yes
        /\ 0 < 1 => (0 + 1) \notin yes
        /\ ~\A i \in 1..1 : i \in yes
    BY <1>3
  <2> QED BY <1>1, <1>3, <2>1
<1> QED
  BY <1>2, <1>3

\* The empty list holds no time; a single range holds those between its ends.
LEMMA HoldsNone ==
    ASSUME NEW ts
    PROVE  ~TimeInBlockedRange(<<>>, ts)
BY DEF TimeInBlockedRange, Holding

LEMMA HoldsOne ==
    ASSUME NEW a \in Nat, NEW b \in Nat, NEW ts \in Nat, a <= ts
    PROVE  /\ TimeInBlockedRange(<<Span(a, b)>>, ts) <=> ts <= b
           /\ ts <= b => BlockRangeEndAt(<<Span(a, b)>>, ts) = b
<1> DEFINE s == <<Span(a, b)>>
<1>1. DOMAIN s = {1} /\ s[1].start = a /\ s[1].end = b
  BY DEF Span
<1> HIDE DEF s
<1>2. ts <= b => Holding(s, ts) = {1}
  BY <1>1 DEF Holding
<1>3. ~(ts <= b) => Holding(s, ts) = {}
  BY <1>1 DEF Holding
<1>4. TimeInBlockedRange(s, ts) <=> ts <= b
  BY <1>2, <1>3 DEF TimeInBlockedRange
<1>5. ts <= b => BlockRangeEndAt(s, ts) = b
  BY <1>1, <1>2 DEF BlockRangeEndAt
<1> QED
  BY <1>4, <1>5 DEF s

\* Nothing on one side of a range, and the range itself.
LEMMA PartsOfOne ==
    ASSUME NEW r \in BlockRange
    PROVE  /\ \A n \in Int, m \in Int : n < m => SubSeq(<<>>, m, n) = <<>>
           /\ SubSeq(<<r>>, 2, 1) = <<>>
           /\ SubSeq(<<r>>, 1, 0) = <<>>
           /\ SubSeq(<<r>>, 1, 1) = <<r>>
           /\ <<>> \o <<r>> \o <<>> = <<r>>
<1>1. <<r>> \in Seq(BlockRange) /\ Len(<<r>>) = 1
  OBVIOUS
<1>2. \A n \in Int, m \in Int : n < m => SubSeq(<<>>, m, n) = <<>>
  BY SubSeqEmpty
<1>3. SubSeq(<<r>>, 2, 1) = <<>> /\ SubSeq(<<r>>, 1, 0) = <<>>
  BY SubSeqEmpty
<1>4. SubSeq(<<r>>, 1, 1) = <<r>>
  <2> DEFINE t == SubSeq(<<r>>, 1, 1)
  <2>1. t \in Seq(BlockRange) /\ Len(t) = 1 /\ \A i \in 1..1 : t[i] = <<r>>[i]
    <3>1. \A i \in 1..1 : <<r>>[i] \in BlockRange
      OBVIOUS
    <3>2. /\ t \in Seq(BlockRange)
          /\ Len(t) = IF 1 <= 1 THEN 1 - 1 + 1 ELSE 0
          /\ \A i \in 1..(1 - 1 + 1) : t[i] = <<r>>[1 + i - 1]
      BY <1>1, <3>1, SubSeqProperties
    <3> HIDE DEF t
    <3> QED BY <3>2
  <2> HIDE DEF t
  <2>2. t = <<r>>
    BY <1>1, <2>1, SeqEqual
  <2> QED BY <2>2 DEF t
<1>5. <<>> \o <<r>> \o <<>> = <<r>>
  BY <1>1, ConcatEmptySeq
<1> QED
  BY <1>2, <1>3, <1>4, <1>5

\* A window in an empty list.
LEMMA WindowAlone ==
    ASSUME NEW ws \in Nat, NEW we \in Nat
    PROVE  ApplyBlockWindow(<<>>, ws, we) = <<Span(ws, we)>>
<1> DEFINE s == <<>>
           live   == PruneExpired(s, ws)
           pos    == LeadingIn(live, {i \in DOMAIN live : live[i].start < ws})
           joins  == pos > 0 /\ live[pos].end >= ws
           before == SubSeq(live, 1, IF joins THEN pos - 1 ELSE pos)
           after  == SubSeq(live, pos + 1, Len(live))
           from   == IF joins THEN live[pos].start ELSE ws
           own    == IF joins THEN Larger(live[pos].end, we) ELSE we
           reach(k) == IF k = 0 THEN own ELSE Larger(own, after[k].end)
           n      == LeadingIn(after, {i \in DOMAIN after : Reaches(reach(i - 1), after[i])})
           rest   == SubSeq(after, n + 1, Len(after))
           result == before \o <<Span(from, reach(n))>> \o rest
<1>1. Span(ws, we) \in BlockRange
  BY DEF Span, BlockRange
<1>2. Len(s) = 0 /\ 0 + 1 = 1 /\ SubSeq(s, 1, 0) = s
  BY <1>1, PartsOfOne
<1>3. live = s
  <2>1. LeadingIn(s, {i \in DOMAIN s : s[i].end < ws}) = 0
    BY LeadingOfNone
  <2> HIDE DEF s
  <2> QED BY <1>2, <2>1 DEF PruneExpired
<1>4. pos = 0
  <2>1. LeadingIn(s, {i \in DOMAIN s : s[i].start < ws}) = 0
    BY LeadingOfNone
  <2> HIDE DEF live, s
  <2> QED BY <1>3, <2>1
<1>5. result = ApplyBlockWindow(s, ws, we)
  BY DEF ApplyBlockWindow
<1> HIDE DEF live, pos
<1>6. ~joins /\ from = ws /\ own = we
  BY <1>4
<1>7. before = s /\ after = s
  <2> HIDE DEF joins, s
  <2> QED BY <1>2, <1>3, <1>4, <1>6
<1> HIDE DEF joins, before, after, from, own
<1>8. n = 0
  BY <1>7, LeadingOfNone
<1>9. reach(n) = we
  <2> HIDE DEF n
  <2> QED BY <1>6, <1>8
<1>10. rest = s
  <2> HIDE DEF n, s
  <2> QED BY <1>2, <1>7, <1>8
<1> HIDE DEF n, reach, rest
<1>11. result = s \o <<Span(ws, we)>> \o s
  BY <1>6, <1>7, <1>9, <1>10
<1>12. s \o <<Span(ws, we)>> \o s = <<Span(ws, we)>>
  BY <1>1, PartsOfOne
<1> HIDE DEF result, s
<1>13. ApplyBlockWindow(s, ws, we) = <<Span(ws, we)>>
  BY <1>5, <1>11, <1>12
<1> QED
  BY <1>13 DEF s

\* A window looks at what the pruning leaves and at nothing else.
LEMMA OnlyLiveCounts ==
    ASSUME NEW s, NEW u, NEW ws, NEW we, PruneExpired(s, ws) = PruneExpired(u, ws)
    PROVE  ApplyBlockWindow(s, ws, we) = ApplyBlockWindow(u, ws, we)
BY DEF ApplyBlockWindow

(***************************************************************************)
(* A window that ends where the only range ends or after it, and no sooner *)
(* than that range starts, leaves one range: the old one is dropped, grows *)
(* or is swallowed.                                                        *)
(***************************************************************************)
LEMMA WindowOverOne ==
    ASSUME NEW a \in Nat, NEW b \in Nat, NEW ws \in Nat, NEW we \in Nat,
           ws <= we, a <= we, b <= we, NEW s, s = <<Span(a, b)>>
    PROVE  \/ ApplyBlockWindow(s, ws, we) = <<Span(a, we)>>
           \/ ApplyBlockWindow(s, ws, we) = <<Span(ws, we)>>
<1> DEFINE r == Span(a, b)
           live   == PruneExpired(s, ws)
           pos    == LeadingIn(live, {i \in DOMAIN live : live[i].start < ws})
           joins  == pos > 0 /\ live[pos].end >= ws
           before == SubSeq(live, 1, IF joins THEN pos - 1 ELSE pos)
           after  == SubSeq(live, pos + 1, Len(live))
           from   == IF joins THEN live[pos].start ELSE ws
           own    == IF joins THEN Larger(live[pos].end, we) ELSE we
           reach(k) == IF k = 0 THEN own ELSE Larger(own, after[k].end)
           n      == LeadingIn(after, {i \in DOMAIN after : Reaches(reach(i - 1), after[i])})
           rest   == SubSeq(after, n + 1, Len(after))
           result == before \o <<Span(from, reach(n))>> \o rest
<1>1. /\ r \in BlockRange /\ r.start = a /\ r.end = b
      /\ Span(a, we) \in BlockRange /\ Span(ws, we) \in BlockRange
  BY DEF Span, BlockRange
<1>0. s = <<r>>
  OBVIOUS
<1> HIDE DEF r
<1>2. s \in Seq(BlockRange) /\ Len(s) = 1 /\ DOMAIN s = {1} /\ s[1] = r
  BY <1>1, <1>0
<1>3. live = IF b < ws THEN <<>> ELSE s
  <2>1. LeadingIn(s, {i \in DOMAIN s : s[i].end < ws}) = IF b < ws THEN 1 ELSE 0
    BY <1>1, <1>2, <1>0, LeadingOfOne
  <2>2. SubSeq(s, 2, 1) = <<>> /\ SubSeq(s, 1, 1) = s
    BY <1>1, <1>0, PartsOfOne
  <2> DEFINE k == LeadingIn(s, {i \in DOMAIN s : s[i].end < ws})
  <2>3. live = SubSeq(s, k + 1, Len(s))
    BY DEF PruneExpired
  <2> HIDE DEF live
  <2>4. k + 1 = IF b < ws THEN 2 ELSE 1
    BY <2>1
  <2> HIDE DEF k
  <2> QED
    BY <1>2, <2>2, <2>3, <2>4
<1>4. result = ApplyBlockWindow(s, ws, we)
  BY DEF ApplyBlockWindow
<1>5. CASE b < ws
  <2>1. live = PruneExpired(<<>>, ws)
    <3>1. LeadingIn(<<>>, {i \in DOMAIN <<>> : <<>>[i].end < ws}) = 0
      BY LeadingOfNone
    <3>2. SubSeq(<<>>, 0 + 1, 0) = <<>> /\ Len(<<>>) = 0
      BY <1>1, <1>0, PartsOfOne
    <3>3. PruneExpired(<<>>, ws) = <<>>
      BY <3>1, <3>2 DEF PruneExpired
    <3> QED
      BY <1>3, <1>5, <3>3
  <2>2. ApplyBlockWindow(s, ws, we) = ApplyBlockWindow(<<>>, ws, we)
    BY <2>1, OnlyLiveCounts
  <2> QED
    BY <2>2, WindowAlone
<1>6. CASE ~(b < ws) /\ a < ws
  <2>1. live = s
    BY <1>3, <1>6
  <2>2. pos = 1
    <3>1. 1 \in {i \in DOMAIN s : s[i].start < ws}
      BY <1>1, <1>2, <1>6
    <3>2. LeadingIn(s, {i \in DOMAIN s : s[i].start < ws}) = 1
      BY <1>1, <3>1, <1>0, LeadingOfOne
    <3> QED
      BY <2>1, <3>2
  <2> HIDE DEF live
  <2>3. joins /\ from = a /\ own = we
    <3> HIDE DEF pos
    <3> QED BY <1>1, <1>2, <1>6, <2>1, <2>2 DEF Larger
  <2>4. before = <<>> /\ after = <<>>
    <3>1. SubSeq(s, 1, 0) = <<>> /\ SubSeq(s, 2, 1) = <<>>
      BY <1>1, <1>0, PartsOfOne
    <3>2. pos - 1 = 0 /\ pos + 1 = 2
      BY <2>2
    <3> HIDE DEF pos, joins
    <3> QED BY <1>2, <2>1, <2>3, <3>1, <3>2
  <2> HIDE DEF pos, joins, before, after, from, own
  <2>5. n = 0 /\ reach(0) = we
    <3>1. n = 0
      BY <2>4, LeadingOfNone
    <3> QED BY <2>3, <3>1
  <2>6. rest = <<>>
    <3>1. SubSeq(<<>>, 1, 0) = <<>> /\ Len(<<>>) = 0
      BY <1>1, <1>0, PartsOfOne
    <3> HIDE DEF n
    <3> QED BY <2>4, <2>5, <3>1
  <2> HIDE DEF n, rest
  <2>7. result = <<>> \o <<Span(a, we)>> \o <<>>
    <3>1. reach(n) = we
      BY <2>5
    <3> HIDE DEF reach
    <3> QED BY <2>3, <2>4, <2>6, <3>1
  <2>8. <<>> \o <<Span(a, we)>> \o <<>> = <<Span(a, we)>>
    BY <1>1, <1>0, PartsOfOne
  <2> HIDE DEF result
  <2> QED
    BY <1>4, <2>7, <2>8 
<1>7. CASE ~(b < ws) /\ ~(a < ws)
  <2>1. live = s
    BY <1>3, <1>7
  <2>2. pos = 0
    <3>1. 1 \notin {i \in DOMAIN s : s[i].start < ws}
      BY <1>1, <1>2, <1>7
    <3>2. LeadingIn(s, {i \in DOMAIN s : s[i].start < ws}) = 0
      BY <1>1, <3>1, <1>0, LeadingOfOne
    <3> QED
      BY <2>1, <3>2
  <2> HIDE DEF live
  <2>3. ~joins /\ from = ws /\ own = we
    <3> HIDE DEF pos
    <3> QED BY <2>2
  <2>4. before = <<>> /\ after = s
    <3>1. SubSeq(s, 1, 0) = <<>> /\ SubSeq(s, 1, 1) = s
      BY <1>1, <1>0, PartsOfOne
    <3> HIDE DEF pos
    <3> QED BY <1>2, <2>1, <2>2, <2>3, <3>1
  <2> HIDE DEF pos, joins, before, after, from, own
  <2>5. reach(0) = we /\ reach(1) = we
    BY <1>1, <1>2, <2>3, <2>4 DEF Larger
  <2>6. n = 1
    <3>1. 1 \in DOMAIN after /\ Reaches(reach(1 - 1), after[1])
      <4>1. reach(1 - 1) = we
        BY <2>5
      <4> HIDE DEF reach
      <4> QED BY <1>1, <1>2, <2>4, <4>1 DEF Reaches
    <3>2. 1 \in {i \in DOMAIN after : Reaches(reach(i - 1), after[i])}
      BY <3>1
    <3> DEFINE yes == {i \in DOMAIN after : Reaches(reach(i - 1), after[i])}
    <3>3. after = <<r>>
      BY <2>4, <1>0
    <3> HIDE DEF yes
    <3>4. LeadingIn(after, yes) = 1
      <4>1. 1 \in yes
        BY <3>2 DEF yes
      <4> QED BY <1>1, <3>3, <4>1, <1>0, LeadingOfOne
    <3> QED BY <3>4 DEF yes
  <2>7. rest = <<>>
    <3>1. SubSeq(s, 2, 1) = <<>>
      BY <1>1, <1>0, PartsOfOne
    <3>2. n + 1 = 2
      BY <2>6
    <3> HIDE DEF n
    <3> QED BY <1>2, <2>4, <3>1, <3>2
  <2>8. reach(n) = we
    BY <2>5, <2>6
  <2> HIDE DEF n, rest, reach
  <2>9. result = <<>> \o <<Span(ws, we)>> \o <<>>
    BY <2>3, <2>4, <2>7, <2>8
  <2>10. <<>> \o <<Span(ws, we)>> \o <<>> = <<Span(ws, we)>>
    BY <1>1, <1>0, PartsOfOne
  <2> HIDE DEF result
  <2> QED
    BY <1>4, <2>9, <2>10 
<1> QED
  BY <1>5, <1>6, <1>7
-----------------------------------------------------------------------------
(***************************************************************************)
(* Timelines.                                                              *)
(***************************************************************************)
Timeline ==
    [frameCount : Nat, lastTs : Nat \cup {NoTime}, ranges : Seq(BlockRange),
     renewal : Nat, audioRequested : BOOLEAN, maskActive : BOOLEAN,
     sinceSample : Nat, streak : BOOLEAN]

LastPicture ==
    [due : BOOLEAN, verdict : {"none", "clean", "positive"},
     shown : {"nothing", "masked", "raw"}]

SyncTypes ==
    /\ mode \in ModeType
    /\ timeline \in Timeline
    /\ timeline.lastTs = NoTime => timeline = FreshTimeline
    /\ hostFailed \in BOOLEAN
    /\ arrived \in Nat
    /\ last \in LastPicture

\* Where the mask of a timeline ends, when it holds at most one range.
Until(t) == IF t.ranges = <<>> THEN NoTime ELSE t.ranges[1].end

\* At most one range, begun by the last picture and no longer than the padding after it.
AtMostOne(t) ==
    \/ t.ranges = <<>>
    \/ \E a \in Nat, b \in Nat :
          /\ a <= t.lastTs /\ b <= t.lastTs + PaddingMs
          /\ t.ranges = <<Span(a, b)>>

Shaped(t) == t.lastTs # NoTime => t.frameCount >= 1 /\ AtMostOne(t)

\* Times from one picture to the next that are no seek.
NormalSteps == {d \in Steps : 0 <= d /\ d <= SeekThreshold}

\* A picture at ts goes on with the timeline b, or begins one.
Follows(b, ts) ==
    \/ b = FreshTimeline
    \/ b.lastTs # NoTime /\ ts - b.lastTs \in NormalSteps

LEMMA PaddingIsTime == PaddingMs \in Nat /\ LeadMs \in Int
BY NumbersAssumption DEF PaddingMs, LeadMs

LEMMA FreshIsTimeline == FreshTimeline \in Timeline /\ Shaped(FreshTimeline)
<1>1. <<>> \in Seq(BlockRange)
  OBVIOUS
<1> QED
  BY <1>1 DEF FreshTimeline, Timeline, NoTime, Shaped

\* What the fields of a timeline are when the next picture is counted.
LEMMA NumberedFields ==
    ASSUME NEW b \in Timeline, NEW ts \in Nat
    PROVE  /\ Numbered(b, ts) \in Timeline
           /\ Numbered(b, ts).frameCount = b.frameCount + 1
           /\ Numbered(b, ts).lastTs = ts
           /\ Numbered(b, ts).ranges = b.ranges
           /\ Numbered(b, ts).renewal = b.renewal
           /\ Numbered(b, ts).sinceSample = b.sinceSample
           /\ Numbered(b, ts).streak = b.streak
<1> DEFINE t == Numbered(b, ts)
           n == b.frameCount + 1
<1>0. t = [b EXCEPT !.frameCount = n, !.lastTs = ts]
  BY DEF Numbered
<1> HIDE DEF n, t
<1>1. t = [frameCount |-> n, lastTs |-> ts, ranges |-> b.ranges,
           renewal |-> b.renewal, audioRequested |-> b.audioRequested,
           maskActive |-> b.maskActive, sinceSample |-> b.sinceSample,
           streak |-> b.streak]
  BY <1>0 DEF Timeline
<1>2. /\ n \in Nat /\ b.ranges \in Seq(BlockRange) /\ b.renewal \in Nat
      /\ b.sinceSample \in Nat
      /\ b.audioRequested \in BOOLEAN /\ b.maskActive \in BOOLEAN /\ b.streak \in BOOLEAN
  BY DEF Timeline, n
<1>3. t \in Timeline
  BY <1>1, <1>2 DEF Timeline
<1>4. /\ t.frameCount = b.frameCount + 1 /\ t.lastTs = ts /\ t.ranges = b.ranges
      /\ t.renewal = b.renewal /\ t.sinceSample = b.sinceSample /\ t.streak = b.streak
  BY <1>1 DEF n
<1> QED
  BY <1>3, <1>4 DEF t

\* And when a picture is output.
LEMMA DisplayedFields ==
    ASSUME NEW t \in Timeline, NEW how
    PROVE  /\ Displayed(t, how) \in Timeline
           /\ Displayed(t, how).frameCount = t.frameCount
           /\ Displayed(t, how).lastTs = t.lastTs
           /\ Displayed(t, how).ranges = t.ranges
           /\ Displayed(t, how).renewal = t.renewal
           /\ Displayed(t, how).sinceSample = t.sinceSample
           /\ Displayed(t, how).streak = t.streak
<1>1. (how = "masked") \in BOOLEAN
  OBVIOUS
<1>2. (how = "masked" \/ (t.audioRequested /\ ~t.maskActive)) \in BOOLEAN
  OBVIOUS
<1> QED
  BY <1>1, <1>2 DEF Displayed, Timeline

(***************************************************************************)
(* A call of Filter, whatever it decides about the time: it counts a       *)
(* picture on the running timeline, or on a new one.                       *)
(***************************************************************************)
LEMMA FilterCallBegins ==
    ASSUME SyncTypes, FilterCall
    PROVE  /\ UNCHANGED mode
           /\ arrived' \in Nat
           /\ \E b \in {timeline, FreshTimeline}, ts \in Nat, unsafe \in BOOLEAN :
                Follows(b, ts) /\ FilterPicture(Numbered(b, ts), ts, unsafe)
<1>1. UNCHANGED mode /\ arrived' \in Nat
  BY DEF FilterCall, SyncTypes
<1>2. PICK ts \in PictureTimes, unsafe \in BOOLEAN :
        \/ /\ ~Discontinuity(ts)
           /\ FilterPicture(Numbered(timeline, ts), ts, unsafe)
        \/ /\ Discontinuity(ts)
           /\ \E origin \in Origins :
                FilterPicture(Numbered(FreshTimeline, origin), origin, unsafe)
  BY DEF FilterCall
<1>3. CASE \E origin \in Origins :
              FilterPicture(Numbered(FreshTimeline, origin), origin, unsafe)
  <2>1. PICK origin \in Origins :
              FilterPicture(Numbered(FreshTimeline, origin), origin, unsafe)
    BY <1>3
  <2>2. origin \in Nat
    BY NumbersAssumption
  <2> QED
    BY <1>1, <2>1, <2>2 DEF Follows
<1>4. CASE ~Discontinuity(ts) /\ FilterPicture(Numbered(timeline, ts), ts, unsafe)
  <2>1. ts \in Nat
    BY NumbersAssumption DEF PictureTimes
  <2>2. Follows(timeline, ts)
    <3>1. CASE timeline.lastTs = NoTime
      BY <3>1 DEF Follows, SyncTypes
    <3>2. CASE timeline.lastTs # NoTime
      <4>1. timeline.lastTs \in Nat
        BY <3>2 DEF SyncTypes, Timeline
      <4>2. PICK d \in Steps : ts = timeline.lastTs + d
        BY <3>2 DEF PictureTimes
      <4>3. d \in Int /\ SeekThreshold \in Nat
        BY NumbersAssumption
      <4>4. ~(ts < timeline.lastTs) /\ ~(ts - timeline.lastTs > SeekThreshold)
        BY <1>4, <3>2 DEF Discontinuity
      <4>5. ts - timeline.lastTs = d /\ 0 <= d /\ d <= SeekThreshold
        BY <2>1, <4>1, <4>2, <4>3, <4>4
      <4> QED
        BY <3>2, <4>2, <4>5 DEF Follows, NormalSteps
    <3> QED
      BY <3>1, <3>2
  <2> QED
    BY <1>1, <1>4, <2>1, <2>2
<1> QED
  BY <1>2, <1>3, <1>4

(***************************************************************************)
(* The detector branch, in terms of the end of the only range.             *)
(***************************************************************************)
\* A picture at ts of the timeline t is analysed.
Due(t, ts) ==
    /\ StrideAligned(t.frameCount, Stride)
    /\ ts <= Until(t) => t.renewal # Until(t) /\ Until(t) - ts <= LeadMs

\* What BlockRangeEndAtLocked finds at the last picture.
LEMMA MaskAtLast ==
    ASSUME NEW t \in Timeline, NEW ts \in Nat, t.lastTs = ts, AtMostOne(t)
    PROVE  /\ Until(t) \in Nat \cup {NoTime}
           /\ Until(t) <= ts + PaddingMs
           /\ TimeInBlockedRange(t.ranges, ts) <=> ts <= Until(t)
           /\ ts <= Until(t) => BlockRangeEndAt(t.ranges, ts) = Until(t)
<1>1. PaddingMs \in Nat
  BY PaddingIsTime
<1>2. CASE t.ranges = <<>>
  <2>1. Until(t) = NoTime
    BY <1>2 DEF Until
  <2>2. ~TimeInBlockedRange(t.ranges, ts)
    BY <1>2, HoldsNone
  <2>3. NoTime \in Int /\ NoTime < 0
    BY DEF NoTime
  <2> QED
    BY <1>1, <2>1, <2>2, <2>3
<1>3. CASE t.ranges # <<>>
  <2>1. PICK a \in Nat, b \in Nat :
          /\ a <= ts /\ b <= ts + PaddingMs
          /\ t.ranges = <<Span(a, b)>>
    BY <1>3 DEF AtMostOne
  <2>2. Until(t) = b
    BY <1>3, <2>1 DEF Until, Span
  <2>3. /\ TimeInBlockedRange(<<Span(a, b)>>, ts) <=> ts <= b
        /\ ts <= b => BlockRangeEndAt(<<Span(a, b)>>, ts) = b
    BY <2>1, HoldsOne
  <2> QED
    BY <2>1, <2>2, <2>3
<1> QED
  BY <1>2, <1>3

\* ShouldScheduleAnalysisLocked and the renewal it takes.
LEMMA ScheduleAtLast ==
    ASSUME NEW t \in Timeline, NEW ts \in Nat, t.lastTs = ts, AtMostOne(t)
    PROVE  /\ ShouldScheduleAnalysis(t.ranges, t.renewal, t.frameCount, ts, Stride, LeadMs)
                <=> Due(t, ts)
           /\ RenewalAfterSchedule(t.ranges, t.renewal, t.frameCount, ts, Stride, LeadMs)
                = IF ts <= Until(t) /\ Due(t, ts) THEN Until(t) ELSE t.renewal
<1>1. /\ TimeInBlockedRange(t.ranges, ts) <=> ts <= Until(t)
      /\ ts <= Until(t) => BlockRangeEndAt(t.ranges, ts) = Until(t)
  BY MaskAtLast
<1>2. ShouldScheduleAnalysis(t.ranges, t.renewal, t.frameCount, ts, Stride, LeadMs)
                <=> Due(t, ts)
  BY <1>1 DEF ShouldScheduleAnalysis, RenewalDue, Due
<1> QED
  BY <1>1, <1>2 DEF RenewalAfterSchedule

(***************************************************************************)
(* RegisterPositiveDetection: the list is one range that ends the padding  *)
(* after the picture, and the renewal is forgotten unless it ended there   *)
(* before.                                                                 *)
(***************************************************************************)
LEMMA DetectionAtLast ==
    ASSUME NEW t \in Timeline, NEW ts \in Nat, t.lastTs = ts, AtMostOne(t),
           NEW renewal
    PROVE  /\ \E a \in Nat :
                /\ a <= ts
                /\ RangesAfterDetection(t.ranges, ts, PaddingMs) = <<Span(a, ts + PaddingMs)>>
           /\ \/ RenewalAfterDetection(t.ranges, renewal, ts, PaddingMs) = 0
              \/ Until(t) = ts + PaddingMs
<1> DEFINE ws == WindowStart(ts, PaddingMs)
           we == ts + PaddingMs
           updated == RangesAfterDetection(t.ranges, ts, PaddingMs)
<1>1. PaddingMs \in Nat
  BY PaddingIsTime
<1>2. ws \in Nat /\ we \in Nat /\ ws <= ts /\ ts <= we /\ ws <= we
  BY <1>1 DEF WindowStart
<1>3. updated = ApplyBlockWindow(t.ranges, ws, we)
  BY DEF RangesAfterDetection, WindowEnd
<1> HIDE DEF ws, we, updated
<1>4. \E a \in Nat : a <= ts /\ updated = <<Span(a, we)>>
  <2>1. CASE t.ranges = <<>>
    BY <1>2, <1>3, <2>1, WindowAlone
  <2>2. CASE t.ranges # <<>>
    <3>1. PICK a \in Nat, b \in Nat :
            /\ a <= ts /\ b <= ts + PaddingMs
            /\ t.ranges = <<Span(a, b)>>
      BY <2>2 DEF AtMostOne
    <3>2. a <= we /\ b <= we
      BY <1>1, <1>2, <3>1 DEF we
    <3>3. \/ ApplyBlockWindow(t.ranges, ws, we) = <<Span(a, we)>>
          \/ ApplyBlockWindow(t.ranges, ws, we) = <<Span(ws, we)>>
      BY <1>2, <3>1, <3>2, WindowOverOne
    <3> QED
      BY <1>2, <1>3, <3>1, <3>3
  <2> QED
    BY <2>1, <2>2
<1>5. /\ TimeInBlockedRange(updated, ts)
      /\ BlockRangeEndAt(updated, ts) = we
  <2>1. PICK a \in Nat : a <= ts /\ updated = <<Span(a, we)>>
    BY <1>4
  <2>2. /\ TimeInBlockedRange(<<Span(a, we)>>, ts) <=> ts <= we
        /\ ts <= we => BlockRangeEndAt(<<Span(a, we)>>, ts) = we
    BY <1>2, <2>1, HoldsOne
  <2> QED
    BY <1>2, <2>1, <2>2
<1>6. /\ Until(t) \in Nat \cup {NoTime}
      /\ Until(t) <= we
      /\ TimeInBlockedRange(t.ranges, ts) => BlockRangeEndAt(t.ranges, ts) = Until(t)
  BY MaskAtLast DEF we
<1>7. RenewalAfterDetection(t.ranges, renewal, ts, PaddingMs) = 0 \/ Until(t) = we
  <2>1. CASE TimeInBlockedRange(t.ranges, ts) /\ ~(we > Until(t))
    <3>1. Until(t) \in Int
      BY <1>6 DEF NoTime
    <3> QED
      BY <1>2, <1>6, <2>1, <3>1
  <2>2. CASE TimeInBlockedRange(t.ranges, ts) => we > Until(t)
    <3>1. TimeInBlockedRange(t.ranges, ts)
            => BlockRangeEndAt(updated, ts) > BlockRangeEndAt(t.ranges, ts)
      BY <1>5, <1>6, <2>2
    <3> QED
      BY <1>5, <3>1 DEF RenewalAfterDetection, updated
  <2> QED
    BY <2>1, <2>2
<1> QED
  BY <1>4, <1>7 DEF updated, we

(***************************************************************************)
(* What the detector branch leaves of a timeline with at most one range.   *)
(***************************************************************************)
Positive == last.verdict = "positive"

Analysed(t, ts) ==
    /\ timeline.frameCount = t.frameCount /\ timeline.lastTs = ts
    /\ last.due <=> Due(t, ts)
    /\ Positive => /\ last.due
                   /\ \E a \in Nat :
                        a <= ts /\ timeline.ranges = <<Span(a, ts + PaddingMs)>>
                   /\ timeline.renewal = 0 \/ Until(t) = ts + PaddingMs
    /\ ~Positive => /\ timeline.ranges = t.ranges
                    /\ timeline.renewal = IF ts <= Until(t) /\ last.due THEN Until(t)
                                                                        ELSE t.renewal
    /\ timeline.sinceSample = IF last.due THEN 0 ELSE t.sinceSample + 1
    /\ timeline.streak => Positive \/ (t.streak /\ ~last.due)
    /\ last.shown = "raw" => ~Positive /\ ~(ts <= Until(t))

LEMMA AnalyseEffect ==
    ASSUME NEW t \in Timeline, NEW ts \in Nat, t.lastTs = ts, AtMostOne(t),
           NEW unsafe \in BOOLEAN, SyncTypes, Analyse(t, ts, unsafe)
    PROVE  /\ timeline' \in Timeline
           /\ last' \in LastPicture
           /\ hostFailed' \in BOOLEAN
           /\ hostFailed => hostFailed'
           /\ hostFailed' /\ ~hostFailed => last'.shown = "masked"
           /\ Analysed(t, ts)'
<1> DEFINE due == ShouldScheduleAnalysis(t.ranges, t.renewal, t.frameCount, ts,
                                          Stride, LeadMs)
           renewed == RenewalAfterSchedule(t.ranges, t.renewal, t.frameCount, ts,
                                        Stride, LeadMs)
           inRange == TimeInBlockedRange(t.ranges, ts)
<1>1. PICK result \in IF due THEN Results ELSE {"skipped"} :
          LET verdict  == VerdictOf(result, unsafe)
              positive == verdict = "positive"
              sampled  ==
                [t EXCEPT
                    !.ranges  = IF positive THEN RangesAfterDetection(@, ts, PaddingMs)
                                            ELSE @,
                    !.renewal = IF positive
                                THEN RenewalAfterDetection(t.ranges, renewed, ts, PaddingMs)
                                ELSE renewed,
                    !.audioRequested = @ \/ positive,
                    !.sinceSample = IF due THEN 0 ELSE @ + 1,
                    !.streak = /\ unsafe
                               /\ positive \/ (@ /\ (due => verdict # "none"))]
          IN  \E how \in IF inRange \/ positive THEN {"masked"}
                        ELSE IF result \in {"skipped", "classified"} THEN {"raw"}
                        ELSE Fallback :
                /\ timeline' = Displayed(sampled, how)
                /\ last' = [due |-> due, verdict |-> verdict, shown |-> how]
                /\ hostFailed' = (hostFailed \/ result = "failed")
  BY DEF Analyse
<1> DEFINE verdict  == VerdictOf(result, unsafe)
           positive == verdict = "positive"
           ranges   == IF positive THEN RangesAfterDetection(t.ranges, ts, PaddingMs)
                                   ELSE t.ranges
           renewal  == IF positive
                       THEN RenewalAfterDetection(t.ranges, renewed, ts, PaddingMs)
                       ELSE renewed
           audio    == t.audioRequested \/ positive
           since    == IF due THEN 0 ELSE t.sinceSample + 1
           streak   == /\ unsafe
                       /\ positive \/ (t.streak /\ (due => verdict # "none"))
           sampled  == [t EXCEPT !.ranges = ranges, !.renewal = renewal,
                                 !.audioRequested = audio, !.sinceSample = since,
                                 !.streak = streak]
           hows     == IF inRange \/ positive THEN {"masked"}
                       ELSE IF result \in {"skipped", "classified"} THEN {"raw"}
                       ELSE Fallback
<1>2. PICK how \in hows :
                /\ timeline' = Displayed(sampled, how)
                /\ last' = [due |-> due, verdict |-> verdict, shown |-> how]
                /\ hostFailed' = (hostFailed \/ result = "failed")
  <2> HIDE DEF due, renewed, inRange
  <2> QED BY <1>1
<1>3. /\ due <=> Due(t, ts)
      /\ renewed = IF ts <= Until(t) /\ due THEN Until(t) ELSE t.renewal
      /\ inRange <=> ts <= Until(t)
      /\ due \in BOOLEAN /\ renewed \in Nat
  <2>1. t.ranges \in Seq(BlockRange) /\ t.renewal \in Nat
    BY DEF Timeline
  <2>2. due \in BOOLEAN
    BY DEF ShouldScheduleAnalysis
  <2>3. /\ due <=> Due(t, ts)
        /\ renewed = IF ts <= Until(t) /\ Due(t, ts) THEN Until(t) ELSE t.renewal
        /\ inRange <=> ts <= Until(t)
        /\ Until(t) \in Nat \cup {NoTime}
    BY ScheduleAtLast, MaskAtLast
  <2> HIDE DEF due, renewed, inRange
  <2> QED
    BY <2>1, <2>2, <2>3 DEF NoTime
<1>4. verdict \in {"none", "clean", "positive"}
  BY DEF VerdictOf
<1>5. /\ result \in Results \cup {"skipped"}
      /\ positive => due
      /\ verdict = "clean" => ~unsafe
      /\ result = "failed" => positive
  <2>1. /\ ~due => result = "skipped"
        /\ result \in Results \cup {"skipped"}
    <3> HIDE DEF due
    <3> QED BY <1>1
  <2> HIDE DEF due
  <2> QED
    BY <2>1 DEF VerdictOf, Results
<1>6. how \in {"masked", "raw"} /\ (how = "raw" => ~inRange /\ ~positive)
  <2>1. /\ hows \in SUBSET {"masked", "raw"}
        /\ inRange \/ positive => hows = {"masked"}
    <3> HIDE DEF inRange, positive
    <3>1. Fallback \in SUBSET {"masked", "raw"}
      BY DEF Fallback
    <3> QED BY <3>1
  <2> HIDE DEF hows, inRange, positive
  <2> QED
    BY <2>1
<1> HIDE DEF due, renewed, inRange, verdict, hows
<1>7. /\ ranges \in Seq(BlockRange) /\ renewal \in Nat /\ audio \in BOOLEAN
      /\ since \in Nat /\ streak \in BOOLEAN
  <2>1. /\ t.ranges \in Seq(BlockRange) /\ t.sinceSample \in Nat
        /\ t.audioRequested \in BOOLEAN /\ t.streak \in BOOLEAN
    BY DEF Timeline
  <2>2. ranges \in Seq(BlockRange)
    <3>1. PICK a \in Nat :
            RangesAfterDetection(t.ranges, ts, PaddingMs) = <<Span(a, ts + PaddingMs)>>
      BY DetectionAtLast
    <3>2. Span(a, ts + PaddingMs) \in BlockRange
      BY PaddingIsTime DEF Span, BlockRange
    <3>3. <<Span(a, ts + PaddingMs)>> \in Seq(BlockRange)
      BY <3>2
    <3> QED BY <2>1, <3>1, <3>3
  <2>3. renewal \in Nat
    BY <1>3 DEF RenewalAfterDetection
  <2>4. since \in Nat
    BY <2>1, <1>3
  <2>5. audio \in BOOLEAN /\ streak \in BOOLEAN
    BY <2>1, <1>3
  <2> QED
    BY <2>2, <2>3, <2>4, <2>5
<1>8. /\ positive => \E a \in Nat : a <= ts /\ ranges = <<Span(a, ts + PaddingMs)>>
      /\ positive => renewal = 0 \/ Until(t) = ts + PaddingMs
  BY DetectionAtLast
<1>9. streak => positive \/ (t.streak /\ ~due)
  BY <1>3, <1>4, <1>5
<1> HIDE DEF ranges, renewal, audio, since, streak
<1>10. /\ sampled \in Timeline
       /\ sampled.frameCount = t.frameCount /\ sampled.lastTs = t.lastTs
       /\ sampled.ranges = ranges /\ sampled.renewal = renewal
       /\ sampled.sinceSample = since /\ sampled.streak = streak
  <2>1. PICK au, st : au = audio /\ st = streak
    OBVIOUS
  <2>2. sampled = [t EXCEPT !.ranges = ranges, !.renewal = renewal, !.audioRequested = au,
                            !.sinceSample = since, !.streak = st]
    BY <2>1
  <2>3. sampled = [frameCount |-> t.frameCount, lastTs |-> t.lastTs, ranges |-> ranges,
                   renewal |-> renewal, audioRequested |-> au,
                   maskActive |-> t.maskActive, sinceSample |-> since, streak |-> st]
    <3> HIDE DEF sampled
    <3> QED BY <2>2 DEF Timeline
  <2>4. t.frameCount \in Nat /\ t.lastTs \in Nat \cup {NoTime} /\ t.maskActive \in BOOLEAN
    BY DEF Timeline
  <2> HIDE DEF sampled
  <2>5. sampled \in Timeline
    BY <1>7, <2>1, <2>3, <2>4 DEF Timeline
  <2>6. /\ sampled.frameCount = t.frameCount /\ sampled.lastTs = t.lastTs
        /\ sampled.ranges = ranges /\ sampled.renewal = renewal
        /\ sampled.sinceSample = since /\ sampled.streak = streak
    BY <2>1, <2>3
  <2> QED
    BY <2>5, <2>6
<1> HIDE DEF sampled
<1>11. /\ timeline' \in Timeline
       /\ timeline'.frameCount = t.frameCount /\ timeline'.lastTs = ts
       /\ timeline'.ranges = ranges /\ timeline'.renewal = renewal
       /\ timeline'.sinceSample = since /\ timeline'.streak = streak
  BY <1>2, <1>10, DisplayedFields
<1>12. /\ last'.due = due /\ last'.verdict = verdict /\ last'.shown = how
       /\ last' \in LastPicture
  BY <1>2, <1>3, <1>4, <1>6 DEF LastPicture
<1>13. /\ hostFailed' \in BOOLEAN
       /\ hostFailed => hostFailed'
       /\ hostFailed' /\ ~hostFailed => last'.shown = "masked"
  BY <1>2, <1>5, <1>6, <1>12 DEF SyncTypes
<1>14. Positive' <=> positive
  BY <1>12 DEF Positive
<1> HIDE DEF positive
<1>15. /\ last'.due <=> Due(t, ts)
       /\ Positive' => last'.due
       /\ timeline'.sinceSample = IF last'.due THEN 0 ELSE t.sinceSample + 1
       /\ timeline'.streak => Positive' \/ (t.streak /\ ~last'.due)
       /\ last'.shown = "raw" => ~Positive' /\ ~(ts <= Until(t))
  BY <1>3, <1>5, <1>6, <1>9, <1>11, <1>12, <1>14 DEF since
<1>16. ~Positive' => /\ timeline'.ranges = t.ranges
                     /\ timeline'.renewal = IF ts <= Until(t) /\ last'.due THEN Until(t)
                                                                           ELSE t.renewal
  BY <1>3, <1>11, <1>12, <1>14 DEF ranges, renewal
<1>17. Positive' => /\ \E a \in Nat :
                        a <= ts /\ timeline'.ranges = <<Span(a, ts + PaddingMs)>>
                    /\ timeline'.renewal = 0 \/ Until(t) = ts + PaddingMs
  BY <1>8, <1>11, <1>14
<1>18. Analysed(t, ts)'
  BY <1>11, <1>15, <1>16, <1>17 DEF Analysed
<1> QED
  BY <1>11, <1>12, <1>13, <1>18
-----------------------------------------------------------------------------
(***************************************************************************)
(* How far apart pictures may be.                                          *)
(***************************************************************************)
\* No two pictures bear one time.
TimeAdvances == \A d \in NormalSteps : d > 0

\* The Stride - 1 pictures after an aligned one fall within one lead of it ...
StepsWithinLead == \A d \in NormalSteps : (Stride - 1) * d <= LeadMs + 1

\* ... or within the padding of a detection.
StepsWithinPadding == \A d \in NormalSteps : (Stride - 1) * d <= PaddingMs

\* The second aligned picture after a detection lies beyond its window.
SecondSampleIsPast == \A d \in NormalSteps : 2 * (Stride * d) > PaddingMs

LEMMA NormalStepsAreTimes == NormalSteps \subseteq Nat
<1>1. ASSUME NEW d \in NormalSteps
      PROVE  d \in Nat
  <2>1. d \in Steps /\ 0 <= d
    BY DEF NormalSteps
  <2>2. d \in Int
    BY <2>1, NumbersAssumption
  <2> QED BY <2>1, <2>2
<1> QED
  BY <1>1

LEMMA ProductGrows ==
    ASSUME NEW k \in Nat, NEW m \in Nat, NEW d \in Nat, m <= d
    PROVE  k * m <= k * d
<1>1. k * (d - m) >= 0
  OBVIOUS
<1>2. k * (d - m) = k * d - k * m
  OBVIOUS
<1>3. k * m \in Int /\ k * d \in Int
  OBVIOUS
<1> QED
  BY <1>1, <1>2, <1>3

LEMMA OneMore ==
    ASSUME NEW k \in Int, NEW d \in Int
    PROVE  (k + 1) * d = k * d + d /\ k * d \in Int /\ (k - 1) * d = k * d - d
OBVIOUS

\* The lesser and the greater of two steps are steps.
LEMMA StepsCompare ==
    ASSUME NEW d \in NormalSteps, NEW e \in NormalSteps
    PROVE  /\ \E m \in NormalSteps : m <= d /\ m <= e
           /\ \E m \in NormalSteps : m >= d /\ m >= e
<1>1. d \in Nat /\ e \in Nat
  BY NormalStepsAreTimes
<1> QED
  BY <1>1

\* The age of the window's end, in pictures of some step.
LEMMA OlderByOne ==
    ASSUME NEW x \in Int, NEW l \in Int, x <= l, NEW k \in Nat, NEW d \in NormalSteps,
           k > 0 => \E e \in NormalSteps : x + k * e <= l
    PROVE  \E e \in NormalSteps : x + (k + 1) * e <= l + d
<1>0. d \in Nat
  BY NormalStepsAreTimes
<1>1. CASE k = 0
  <2>1. (k + 1) * d = d
    BY <1>0, <1>1
  <2> QED BY <1>0, <2>1
<1>2. CASE k > 0
  <2>1. PICK e \in NormalSteps : x + k * e <= l
    BY <1>2
  <2>2. PICK m \in NormalSteps : m <= d /\ m <= e
    BY StepsCompare
  <2>3. e \in Nat /\ m \in Nat
    BY NormalStepsAreTimes
  <2>4. k * m <= k * e /\ k * m \in Int /\ k * e \in Int
    BY <2>2, <2>3, ProductGrows
  <2>5. (k + 1) * m = k * m + m
    BY <2>3, OneMore
  <2>6. x + (k + 1) * m <= l + d
    BY <1>0, <2>1, <2>2, <2>3, <2>4, <2>5
  <2> QED BY <2>6
<1> QED
  BY <1>1, <1>2

\* What covers the next j pictures covers, a picture later, the next j - 1.
LEMMA StillCovered ==
    ASSUME NEW l \in Int, NEW u \in Int, NEW j \in Nat \ {0}, NEW d \in NormalSteps,
           \A e \in NormalSteps : l + j * e <= u
    PROVE  \A e \in NormalSteps : (l + d) + (j - 1) * e <= u
<1> TAKE e \in NormalSteps
<1>1. PICK m \in NormalSteps : m >= d /\ m >= e
  BY StepsCompare
<1>2. d \in Nat /\ e \in Nat /\ m \in Nat /\ j - 1 \in Nat
  BY NormalStepsAreTimes
<1>3. (j - 1) * e <= (j - 1) * m /\ (j - 1) * e \in Int
  BY <1>1, <1>2, ProductGrows
<1>4. (j - 1) * m = j * m - m /\ j * m \in Int
  BY <1>2, OneMore
<1>5. l + j * m <= u
  OBVIOUS
<1> QED
  BY <1>1, <1>2, <1>3, <1>4, <1>5

\* A time the j-th picture from here passes, the next one's (j - 1)-th passes.
LEMMA StillPassed ==
    ASSUME NEW l \in Int, NEW u \in Int, NEW j \in Nat \ {0}, NEW d \in NormalSteps,
           \A e \in NormalSteps : l + j * e > u
    PROVE  \A e \in NormalSteps : (l + d) + (j - 1) * e > u
<1> TAKE e \in NormalSteps
<1>1. PICK m \in NormalSteps : m <= d /\ m <= e
  BY StepsCompare
<1>2. d \in Nat /\ e \in Nat /\ m \in Nat /\ j - 1 \in Nat
  BY NormalStepsAreTimes
<1>3. (j - 1) * m <= (j - 1) * e /\ (j - 1) * e \in Int
  BY <1>1, <1>2, ProductGrows
<1>4. (j - 1) * m = j * m - m /\ j * m \in Int
  BY <1>2, OneMore
<1>5. l + j * m > u
  OBVIOUS
<1> QED
  BY <1>1, <1>2, <1>3, <1>4, <1>5

\* An aligned picture a stride after a detection: the next aligned one is past its window.
LEMMA NextSampleIsPast ==
    ASSUME SecondSampleIsPast, Stride > 0, NEW u \in Int, NEW ts \in Int,
           \E e \in NormalSteps : (u - PaddingMs) + Stride * e <= ts
    PROVE  \A d \in NormalSteps : ts + Stride * d > u
<1> TAKE d \in NormalSteps
<1>1. PICK e \in NormalSteps : (u - PaddingMs) + Stride * e <= ts
  OBVIOUS
<1>2. PICK m \in NormalSteps : m <= d /\ m <= e
  BY StepsCompare
<1>3. d \in Nat /\ e \in Nat /\ m \in Nat /\ Stride \in Nat /\ PaddingMs \in Nat
  BY NormalStepsAreTimes, NumbersAssumption, PaddingIsTime
<1>4. /\ Stride * m <= Stride * d /\ Stride * m <= Stride * e
      /\ Stride * m \in Int /\ Stride * d \in Int /\ Stride * e \in Int
  BY <1>2, <1>3, ProductGrows
<1>5. 2 * (Stride * m) > PaddingMs
  BY DEF SecondSampleIsPast
<1> QED
  BY <1>1, <1>3, <1>4, <1>5

\* Time passes with every picture.
LEMMA StepIsPositive ==
    ASSUME SecondSampleIsPast, NEW d \in NormalSteps
    PROVE  d > 0
<1>1. d \in Nat /\ PaddingMs \in Nat /\ Stride \in Nat
  BY NormalStepsAreTimes, PaddingIsTime, NumbersAssumption
<1>2. 2 * (Stride * d) > PaddingMs
  BY DEF SecondSampleIsPast
<1>3. CASE d = 0
  <2>1. 2 * (Stride * d) = 0
    BY <1>1, <1>3
  <2> QED BY <1>1, <1>2, <2>1
<1> QED
  BY <1>1, <1>3

(***************************************************************************)
(* Counting pictures.                                                      *)
(***************************************************************************)
\* Pictures since the last stride-aligned one.
SincePictures(t) == (t.frameCount - 1) % Stride

LEMMA NextRemainder ==
    ASSUME NEW n \in Nat, NEW m \in Nat \ {0}
    PROVE  /\ (n % m) \in 0..(m - 1)
           /\ ((n + 1) % m) = IF (n % m) = m - 1 THEN 0 ELSE (n % m) + 1
<1> DEFINE q == n \div m
           r == n % m
<1>1. q \in Nat /\ r \in 0..(m - 1) /\ n = m * q + r
  OBVIOUS
<1> HIDE DEF q, r
<1>2. CASE r = m - 1
  <2>1. n + 1 = m * (q + 1) + 0
    BY <1>1, <1>2
  <2>2. ((n + 1) % m) = 0
    BY <1>1, <2>1
  <2> QED BY <1>1, <1>2, <2>2 DEF r
<1>3. CASE r # m - 1
  <2>1. n + 1 = m * q + (r + 1) /\ r + 1 \in 0..(m - 1)
    BY <1>1, <1>3
  <2>2. ((n + 1) % m) = r + 1
    BY <1>1, <2>1
  <2> QED BY <1>1, <1>3, <2>2 DEF r
<1> QED
  BY <1>2, <1>3

(***************************************************************************)
(* The next picture of a timeline, before it is analysed: the first of a   *)
(* new one, or one normal step after the last.                             *)
(***************************************************************************)
First(t) ==
    /\ SincePictures(t) = 0 /\ t.ranges = <<>>
    /\ t.renewal = 0 /\ t.sinceSample = 0 /\ ~t.streak

Advanced(b, t, d) ==
    /\ t.lastTs = b.lastTs + d /\ b.lastTs \in Nat
    /\ Until(b) <= b.lastTs + PaddingMs
    /\ SincePictures(b) \in 0..(Stride - 1)
    /\ SincePictures(t) = IF SincePictures(b) = Stride - 1 THEN 0 ELSE SincePictures(b) + 1
    /\ t.ranges = b.ranges /\ t.renewal = b.renewal
    /\ t.sinceSample = b.sinceSample /\ t.streak = b.streak

LEMMA NextPicture ==
    ASSUME Stride > 0, NEW b \in Timeline, Shaped(b), NEW ts \in Nat, Follows(b, ts),
           NEW t, t = Numbered(b, ts)
    PROVE  /\ t \in Timeline /\ t.lastTs = ts /\ t.frameCount >= 1
           /\ AtMostOne(t)
           /\ StrideAligned(t.frameCount, Stride) <=> SincePictures(t) = 0
           /\ b.lastTs = NoTime => First(t)
           /\ b.lastTs # NoTime => \E d \in NormalSteps : Advanced(b, t, d)
<1>1. /\ t \in Timeline
      /\ t.frameCount = b.frameCount + 1 /\ t.lastTs = ts
      /\ t.ranges = b.ranges /\ t.renewal = b.renewal
      /\ t.sinceSample = b.sinceSample /\ t.streak = b.streak
  BY NumberedFields
<1>2. /\ b.frameCount \in Nat /\ b.lastTs \in Nat \cup {NoTime}
      /\ Stride \in Nat \ {0} /\ PaddingMs \in Nat
  BY NumbersAssumption, PaddingIsTime DEF Timeline
<1>3. t.frameCount >= 1
  BY <1>1, <1>2
<1>4. StrideAligned(t.frameCount, Stride) <=> SincePictures(t) = 0
  BY DEF StrideAligned, SincePictures
<1>5. CASE b.lastTs = NoTime
  <2>1. b = FreshTimeline
    BY <1>5 DEF Follows
  <2>2. /\ b.frameCount = 0 /\ b.ranges = <<>> /\ b.renewal = 0
        /\ b.sinceSample = 0 /\ b.streak = FALSE
    BY <2>1 DEF FreshTimeline
  <2>3. SincePictures(t) = 0
    <3>1. t.frameCount - 1 = 0
      BY <1>1, <2>2
    <3> QED BY <1>2, <3>1 DEF SincePictures
  <2>4. First(t) /\ AtMostOne(t)
    BY <1>1, <2>2, <2>3 DEF First, AtMostOne
  <2> QED
    BY <1>1, <1>3, <1>4, <1>5, <2>4
<1>6. CASE b.lastTs # NoTime
  <2>1. PICK d \in NormalSteps : d = ts - b.lastTs
    BY <1>6 DEF Follows, FreshTimeline
  <2>2. d \in Nat /\ b.lastTs \in Nat /\ ts = b.lastTs + d
    BY <1>2, <1>6, <2>1, NormalStepsAreTimes
  <2>3. b.frameCount >= 1 /\ AtMostOne(b)
    BY <1>6 DEF Shaped
  <2>4. Until(b) <= b.lastTs + PaddingMs
    BY <2>2, <2>3, MaskAtLast
  <2>5. AtMostOne(t)
    <3>1. CASE b.ranges = <<>>
      BY <1>1, <3>1 DEF AtMostOne
    <3>2. CASE b.ranges # <<>>
      <4>1. PICK x \in Nat, y \in Nat :
              x <= b.lastTs /\ y <= b.lastTs + PaddingMs /\ b.ranges = <<Span(x, y)>>
        BY <2>3, <3>2 DEF AtMostOne
      <4>2. x <= t.lastTs /\ y <= t.lastTs + PaddingMs
        BY <1>1, <1>2, <2>2, <4>1
      <4> QED
        BY <1>1, <4>1, <4>2 DEF AtMostOne
    <3> QED
      BY <3>1, <3>2
  <2>6. PICK n \in Nat : n = b.frameCount - 1
    BY <1>2, <2>3
  <2>7. SincePictures(b) = (n % Stride) /\ SincePictures(t) = ((n + 1) % Stride)
    <3>1. t.frameCount - 1 = n + 1
      BY <1>1, <1>2, <2>6
    <3> QED BY <2>6, <3>1 DEF SincePictures
  <2>8. /\ SincePictures(b) \in 0..(Stride - 1)
        /\ SincePictures(t) = IF SincePictures(b) = Stride - 1 THEN 0 ELSE SincePictures(b) + 1
    BY <1>2, <2>7, NextRemainder
  <2>9. Advanced(b, t, d)
    BY <1>1, <2>2, <2>4, <2>8 DEF Advanced
  <2> QED
    BY <1>1, <1>3, <1>4, <1>6, <2>5, <2>9
<1> QED
  BY <1>5, <1>6

\* Analysis leaves a timeline of the same form.
LEMMA AnalysedIsShaped ==
    ASSUME NEW t \in Timeline, NEW ts \in Nat, t.lastTs = ts, t.frameCount >= 1,
           AtMostOne(t), timeline' \in Timeline, Analysed(t, ts)'
    PROVE  /\ Shaped(timeline')
           /\ SincePictures(timeline') = SincePictures(t)
           /\ timeline'.lastTs = ts
           /\ Positive' => Until(timeline') = ts + PaddingMs
           /\ ~Positive' => Until(timeline') = Until(t)
<1>1. /\ timeline'.frameCount = t.frameCount /\ timeline'.lastTs = ts
      /\ Positive' => \E a \in Nat :
                        a <= ts /\ timeline'.ranges = <<Span(a, ts + PaddingMs)>>
      /\ ~Positive' => timeline'.ranges = t.ranges
  BY DEF Analysed
<1>2. SincePictures(timeline') = SincePictures(t)
  BY <1>1 DEF SincePictures
<1>3. PaddingMs \in Nat
  BY PaddingIsTime
<1>4. CASE Positive'
  <2>1. PICK a \in Nat : a <= ts /\ timeline'.ranges = <<Span(a, ts + PaddingMs)>>
    BY <1>1, <1>4
  <2>2. ts + PaddingMs \in Nat /\ ts + PaddingMs <= timeline'.lastTs + PaddingMs
    BY <1>1, <1>3
  <2>3. AtMostOne(timeline')
    BY <1>1, <2>1, <2>2 DEF AtMostOne
  <2>4. Until(timeline') = ts + PaddingMs
    BY <2>1 DEF Until, Span
  <2> QED
    BY <1>1, <1>2, <1>4, <2>3, <2>4 DEF Shaped
<1>5. CASE ~Positive'
  <2>1. AtMostOne(timeline') /\ Until(timeline') = Until(t)
    BY <1>1, <1>5 DEF AtMostOne, Until
  <2> QED
    BY <1>1, <1>2, <1>5, <2>1 DEF Shaped
<1> QED
  BY <1>4, <1>5
-----------------------------------------------------------------------------
(***************************************************************************)
(* The sampling of the stream.                                             *)
(***************************************************************************)
\* The mask of a timeline lasts through the last picture before the next aligned one.
CoveredToNext(t) ==
    /\ t.lastTs <= Until(t)
    /\ \A d \in NormalSteps : t.lastTs + ((Stride - 1) - SincePictures(t)) * d <= Until(t)

\* The next aligned picture lies beyond the mask.
PastNext(t) ==
    \A d \in NormalSteps : t.lastTs + (Stride - SincePictures(t)) * d > Until(t)

\* The detection that set the mask's end is as old as the last aligned picture.
Aged(t) ==
    SincePictures(t) > 0 =>
        \E e \in NormalSteps : (Until(t) - PaddingMs) + SincePictures(t) * e <= t.lastTs

\* The last aligned picture was sampled, or the mask lasts up to the next one.
Spaced(t) == t.sinceSample = SincePictures(t) \/ CoveredToNext(t)

\* The renewal of a mask was taken at the last aligned picture it holds.
RenewedOnce(t) == t.renewal = Until(t) /\ t.lastTs <= Until(t) => PastNext(t)

SamplingInv(t) == t.lastTs # NoTime => Aged(t) /\ Spaced(t) /\ RenewedOnce(t)

\* What covers a picture up to the next aligned one covers the picture after it.
LEMMA CoverGoesOn ==
    ASSUME Stride > 0, NEW b \in Timeline, NEW t, NEW d \in NormalSteps, Advanced(b, t, d),
           Until(b) \in Int, SincePictures(b) # Stride - 1, CoveredToNext(b)
    PROVE  CoveredToNext(t)
<1> DEFINE k  == SincePictures(t)
           kb == SincePictures(b)
           u  == Until(b)
           l  == b.lastTs
<1>1. /\ t.lastTs = l + d /\ l \in Nat /\ d \in Nat
      /\ kb \in 0..(Stride - 1) /\ k = kb + 1 /\ Stride \in Nat
  BY NormalStepsAreTimes, NumbersAssumption DEF Advanced
<1>2. Until(t) = u
  BY DEF Advanced, Until
<1>3. \A e \in NormalSteps : l + ((Stride - 1) - kb) * e <= u
  BY DEF CoveredToNext
<1> HIDE DEF k, kb, u, l
<1>4. PICK j \in Nat \ {0} : j = (Stride - 1) - kb
  BY <1>1 DEF kb
<1>5. j - 1 = (Stride - 1) - k
  BY <1>1, <1>4
<1>6. \A e \in NormalSteps : (l + d) + (j - 1) * e <= u
  BY <1>1, <1>3, <1>4, StillCovered DEF u
<1>7. l + d <= u
  <2>1. (j - 1) * d >= 0 /\ (j - 1) * d \in Int
    <3>1. PICK i \in Nat : i = j - 1
      OBVIOUS
    <3> QED BY <1>1, <3>1
  <2>2. (l + d) + (j - 1) * d <= u
    BY <1>6
  <2> QED BY <1>1, <2>1, <2>2 DEF u
<1> QED
  BY <1>1, <1>2, <1>5, <1>6, <1>7 DEF CoveredToNext, k

LEMMA SamplingStep ==
    ASSUME Stride > 0, StepsWithinLead, SecondSampleIsPast,
           NEW b \in Timeline, Shaped(b), SamplingInv(b),
           NEW ts \in Nat, Follows(b, ts), NEW t, t = Numbered(b, ts),
           timeline' \in Timeline, Analysed(t, ts)'
    PROVE  SamplingInv(timeline')
<1> DEFINE k == SincePictures(t)
           u == Until(t)
           due == last'.due
<1>1. /\ t \in Timeline /\ t.lastTs = ts /\ t.frameCount >= 1
      /\ AtMostOne(t)
      /\ StrideAligned(t.frameCount, Stride) <=> k = 0
      /\ b.lastTs = NoTime => First(t)
      /\ b.lastTs # NoTime => \E d \in NormalSteps : Advanced(b, t, d)
  BY NextPicture
<1>2. /\ SincePictures(timeline') = k
      /\ timeline'.lastTs = ts
      /\ Positive' => Until(timeline') = ts + PaddingMs
      /\ ~Positive' => Until(timeline') = u
  BY <1>1, AnalysedIsShaped
<1>3. /\ due <=> Due(t, ts)
      /\ Positive' => due /\ (timeline'.renewal = 0 \/ u = ts + PaddingMs)
      /\ ~Positive' => timeline'.renewal = IF ts <= u /\ due THEN u ELSE t.renewal
      /\ timeline'.sinceSample = IF due THEN 0 ELSE t.sinceSample + 1
  BY DEF Analysed
<1>4. due <=> k = 0 /\ (ts <= u => t.renewal # u /\ u - ts <= LeadMs)
  BY <1>1, <1>3 DEF Due
<1>5. /\ u \in Nat \cup {NoTime} /\ u <= ts + PaddingMs /\ PaddingMs \in Nat
      /\ Stride \in Nat \ {0} /\ LeadMs \in Int
      /\ u \in Int /\ (u = NoTime => u < 0)
  BY <1>1, MaskAtLast, PaddingIsTime, NumbersAssumption DEF NoTime
<1> HIDE DEF k, u, due
\* At an aligned picture nothing is owed to the ones before it.
<1>6. CASE Positive'
  <2>1. k = 0 /\ timeline'.sinceSample = 0
    BY <1>3, <1>4, <1>6
  <2>2. Aged(timeline') /\ Spaced(timeline')
    BY <1>2, <2>1 DEF Aged, Spaced
  <2>3. RenewedOnce(timeline')
    <3>1. u # ts + PaddingMs
      <4>1. CASE b.lastTs = NoTime
        BY <1>1, <1>5, <4>1 DEF First, Until, u, NoTime
      <4>2. CASE b.lastTs # NoTime
        <5>1. PICK d \in NormalSteps : Advanced(b, t, d)
          BY <1>1, <4>2
        <5>2. u = Until(b)
          BY <5>1 DEF Advanced, Until, u
        <5>3. d > 0
          BY <1>5, StepIsPositive
        <5> QED
          BY <1>1, <1>5, <5>1, <5>2, <5>3, NormalStepsAreTimes DEF Advanced
      <4> QED BY <4>1, <4>2
    <3>2. SUFFICES ASSUME ts + PaddingMs = 0, NEW d \in NormalSteps
                   PROVE  ts + (Stride - k) * d > ts + PaddingMs
      BY <1>2, <1>3, <1>6, <3>1 DEF RenewedOnce, PastNext
    <3>3. (Stride - k) * d = Stride * d
      BY <2>1, <1>5
    <3>4. Stride * d \in Int /\ 2 * (Stride * d) > PaddingMs
      BY <1>5, NormalStepsAreTimes DEF SecondSampleIsPast
    <3> QED BY <1>5, <3>2, <3>3, <3>4
  <2> QED
    BY <2>2, <2>3 DEF SamplingInv
<1>7. CASE ~Positive' /\ b.lastTs = NoTime
  <2>1. First(t) /\ k = 0
    BY <1>1, <1>7 DEF First, k
  <2>2. ~(ts <= u)
    BY <1>5, <2>1 DEF First, Until, u, NoTime
  <2>3. due /\ timeline'.sinceSample = 0
    BY <1>3, <1>4, <2>1, <2>2
  <2> QED
    BY <1>2, <1>7, <2>1, <2>2, <2>3 DEF SamplingInv, Aged, Spaced, RenewedOnce
<1>8. CASE ~Positive' /\ b.lastTs # NoTime
  <2> DEFINE kb == SincePictures(b)
             l  == b.lastTs
  <2>1. PICK d \in NormalSteps : Advanced(b, t, d)
    BY <1>1, <1>8
  <2>2. /\ ts = l + d /\ l \in Nat /\ d \in Nat
        /\ u = Until(b) /\ u - PaddingMs <= l
        /\ kb \in 0..(Stride - 1)
        /\ k = IF kb = Stride - 1 THEN 0 ELSE kb + 1
        /\ t.renewal = b.renewal /\ t.sinceSample = b.sinceSample
    <3>1. u = Until(b)
      BY <2>1 DEF Advanced, Until, u
    <3>2. ts = l + d /\ l \in Nat /\ Until(b) <= l + PaddingMs
      BY <1>1, <2>1 DEF Advanced
    <3>3. u - PaddingMs <= l
      BY <1>5, <3>1, <3>2
    <3> QED
      BY <2>1, <3>1, <3>2, <3>3, NormalStepsAreTimes DEF Advanced, k
  <2>3. Aged(b) /\ Spaced(b) /\ RenewedOnce(b)
    BY <1>8 DEF SamplingInv
  <2>4. kb > 0 => \E e \in NormalSteps : (u - PaddingMs) + kb * e <= l
    BY <2>2, <2>3 DEF Aged
  <2>6. b.renewal = u /\ l <= u => \A e \in NormalSteps : l + (Stride - kb) * e > u
    BY <2>2, <2>3 DEF RenewedOnce, PastNext
  <2>7. b.sinceSample \in Nat
    BY DEF Timeline
  <2> HIDE DEF kb, l
  <2>8. \E e \in NormalSteps : (u - PaddingMs) + (kb + 1) * e <= ts
    <3>1. u - PaddingMs \in Int /\ l \in Int /\ kb \in Nat
      BY <1>5, <2>2
    <3> QED BY <2>2, <2>4, <3>1, OlderByOne
  <2>9. Aged(timeline')
    BY <1>2, <1>8, <2>2, <2>8 DEF Aged
  <2>10. CASE kb # Stride - 1
    <3>1. /\ k = kb + 1 /\ k > 0 /\ ~due
          /\ timeline'.sinceSample = b.sinceSample + 1 /\ timeline'.renewal = b.renewal
      BY <1>3, <1>4, <1>8, <2>2, <2>10
    <3>2. PICK j \in Nat \ {0} : j = (Stride - 1) - kb
      BY <1>5, <2>2, <2>10
    <3>3. j - 1 = (Stride - 1) - k /\ j + 1 = Stride - kb /\ (j + 1) - 1 = Stride - k
      BY <1>5, <2>2, <3>1, <3>2
    <3>4. Spaced(timeline')
      <4>1. CASE b.sinceSample = kb
        BY <1>2, <2>2, <3>1, <4>1 DEF Spaced
      <4>2. CASE CoveredToNext(b)
        <5>1. CoveredToNext(t)
          BY <1>5, <2>1, <2>2, <2>10, <4>2, CoverGoesOn DEF kb
        <5>2. CoveredToNext(timeline')
          BY <1>1, <1>2, <1>8, <5>1 DEF CoveredToNext, k, u
        <5> QED BY <5>2 DEF Spaced
      <4> QED BY <2>3, <4>1, <4>2 DEF Spaced, kb
    <3>5. RenewedOnce(timeline')
      <4>1. SUFFICES ASSUME b.renewal = u, ts <= u
                     PROVE  \A e \in NormalSteps : ts + (Stride - k) * e > u
        BY <1>2, <1>8, <3>1 DEF RenewedOnce, PastNext
      <4>2. \A e \in NormalSteps : l + (j + 1) * e > u
        BY <1>5, <2>2, <2>6, <3>3, <4>1
      <4>3. \A e \in NormalSteps : (l + d) + ((j + 1) - 1) * e > u
        BY <1>5, <2>2, <4>2, StillPassed
      <4> QED
        BY <2>2, <3>3, <4>3
    <3> QED
      BY <2>9, <3>4, <3>5 DEF SamplingInv
  <2>11. CASE kb = Stride - 1 /\ due
    <3>1. k = 0 /\ kb + 1 = Stride /\ timeline'.sinceSample = 0
      BY <1>3, <1>4, <1>5, <2>11
    <3>2. RenewedOnce(timeline')
      <4>1. \A e \in NormalSteps : ts + Stride * e > u
        BY <1>5, <2>8, <3>1, NextSampleIsPast
      <4>2. Stride - k = Stride
        BY <1>5, <3>1
      <4> QED
        BY <1>2, <1>8, <4>1, <4>2 DEF RenewedOnce, PastNext
    <3> QED
      BY <1>2, <2>9, <3>1, <3>2 DEF SamplingInv, Spaced
  <2>12. CASE kb = Stride - 1 /\ ~due
    <3>1. k = 0 /\ ts <= u /\ (b.renewal = u \/ ~(u - ts <= LeadMs))
      BY <1>4, <2>2, <2>12
    <3>2. b.renewal # u
      <4>1. SUFFICES ASSUME b.renewal = u
                     PROVE  FALSE
        OBVIOUS
      <4>2. l + (Stride - kb) * d > u
        BY <1>5, <2>2, <2>6, <3>1, <4>1
      <4>3. (Stride - kb) * d = d
        <5>1. Stride - kb = 1
          BY <1>5, <2>12
        <5> QED BY <2>2, <5>1
      <4> QED BY <1>5, <2>2, <3>1, <4>2, <4>3
    <3>3. CoveredToNext(timeline')
      <4>1. (Stride - 1) - k = Stride - 1
        BY <1>5, <3>1
      <4>2. ASSUME NEW e \in NormalSteps
            PROVE  ts + (Stride - 1) * e <= u
        <5>1. (Stride - 1) * e <= LeadMs + 1
          BY DEF StepsWithinLead
        <5>2. (Stride - 1) * e \in Int
          BY <1>5, NormalStepsAreTimes
        <5> QED BY <1>5, <3>1, <3>2, <5>1, <5>2
      <4> QED
        BY <1>2, <1>8, <3>1, <4>1, <4>2 DEF CoveredToNext
    <3>4. RenewedOnce(timeline')
      BY <1>2, <1>3, <1>8, <2>2, <2>12, <3>2 DEF RenewedOnce
    <3> QED
      BY <2>9, <3>3, <3>4 DEF SamplingInv, Spaced
  <2> QED
    BY <2>10, <2>11, <2>12
<1> QED
  BY <1>6, <1>7, <1>8

(***************************************************************************)
(* The streak: pictures that are all unsafe since one of them was          *)
(* detected.                                                               *)
(***************************************************************************)
\* The mask covers the streak up to the next aligned picture, which renews it.
Streaked(t) == t.streak => t.renewal = 0 /\ CoveredToNext(t)

LEMMA StreakStep ==
    ASSUME Stride > 0, TimeAdvances, StepsWithinLead, StepsWithinPadding,
           NEW b \in Timeline, Shaped(b), Streaked(b),
           NEW ts \in Nat, Follows(b, ts), NEW t, t = Numbered(b, ts),
           timeline' \in Timeline, Analysed(t, ts)'
    PROVE  Streaked(timeline')
<1> DEFINE k == SincePictures(t)
           u == Until(t)
           due == last'.due
<1>1. /\ t \in Timeline /\ t.lastTs = ts /\ t.frameCount >= 1
      /\ AtMostOne(t)
      /\ StrideAligned(t.frameCount, Stride) <=> k = 0
      /\ b.lastTs = NoTime => First(t)
      /\ b.lastTs # NoTime => \E d \in NormalSteps : Advanced(b, t, d)
  BY NextPicture
<1>2. /\ SincePictures(timeline') = k
      /\ timeline'.lastTs = ts
      /\ Positive' => Until(timeline') = ts + PaddingMs
      /\ ~Positive' => Until(timeline') = u
  BY <1>1, AnalysedIsShaped
<1>3. /\ due <=> Due(t, ts)
      /\ Positive' => due /\ (timeline'.renewal = 0 \/ u = ts + PaddingMs)
      /\ ~Positive' => timeline'.renewal = IF ts <= u /\ due THEN u ELSE t.renewal
      /\ timeline'.streak => Positive' \/ (t.streak /\ ~due)
  BY DEF Analysed
<1>4. due <=> k = 0 /\ (ts <= u => t.renewal # u /\ u - ts <= LeadMs)
  BY <1>1, <1>3 DEF Due
<1>5. /\ u \in Nat \cup {NoTime} /\ u <= ts + PaddingMs /\ PaddingMs \in Nat
      /\ Stride \in Nat \ {0} /\ LeadMs \in Int
      /\ u \in Int /\ (u = NoTime => u < 0)
  BY <1>1, MaskAtLast, PaddingIsTime, NumbersAssumption DEF NoTime
<1> HIDE DEF k, u, due
<1>6. CASE Positive'
  <2>1. k = 0
    BY <1>3, <1>4, <1>6
  <2>2. u # ts + PaddingMs
    <3>1. CASE b.lastTs = NoTime
      BY <1>1, <1>5, <3>1 DEF First, Until, u, NoTime
    <3>2. CASE b.lastTs # NoTime
      <4>1. PICK d \in NormalSteps : Advanced(b, t, d)
        BY <1>1, <3>2
      <4>2. u = Until(b)
        BY <4>1 DEF Advanced, Until, u
      <4>3. d > 0
        BY DEF TimeAdvances
      <4> QED
        BY <1>1, <1>5, <4>1, <4>2, <4>3, NormalStepsAreTimes DEF Advanced
    <3> QED BY <3>1, <3>2
  <2>3. CoveredToNext(timeline')
    <3>1. (Stride - 1) - k = Stride - 1
      BY <1>5, <2>1
    <3>2. ASSUME NEW e \in NormalSteps
          PROVE  ts + (Stride - 1) * e <= ts + PaddingMs
      <4>1. (Stride - 1) * e <= PaddingMs
        BY DEF StepsWithinPadding
      <4>2. (Stride - 1) * e \in Int
        BY <1>5, NormalStepsAreTimes
      <4> QED BY <1>5, <4>1, <4>2
    <3> QED
      BY <1>2, <1>5, <1>6, <3>1, <3>2 DEF CoveredToNext
  <2> QED
    BY <1>3, <1>6, <2>2, <2>3 DEF Streaked
<1>7. CASE ~Positive'
  <2>1. SUFFICES ASSUME timeline'.streak
                 PROVE  timeline'.renewal = 0 /\ CoveredToNext(timeline')
    BY DEF Streaked
  <2>2. t.streak /\ ~due
    BY <1>3, <1>7, <2>1
  <2>3. b.lastTs # NoTime
    BY <1>1, <2>2 DEF First
  <2>4. PICK d \in NormalSteps : Advanced(b, t, d)
    BY <1>1, <2>3
  <2>5. /\ ts = b.lastTs + d /\ b.lastTs \in Nat /\ d \in Nat /\ d > 0
        /\ u = Until(b)
        /\ t.renewal = b.renewal /\ b.streak
    BY <1>1, <2>2, <2>4, NormalStepsAreTimes DEF Advanced, Until, u, TimeAdvances
  <2>6. b.renewal = 0 /\ CoveredToNext(b)
    BY <2>5 DEF Streaked
  <2>7. timeline'.renewal = 0
    BY <1>3, <1>7, <2>2, <2>5, <2>6
  <2>8. CoveredToNext(timeline')
    <3>1. CASE SincePictures(b) # Stride - 1
      <4>1. CoveredToNext(t)
        BY <1>5, <2>4, <2>5, <2>6, <3>1, CoverGoesOn
      <4> QED
        BY <1>1, <1>2, <1>7, <4>1 DEF CoveredToNext, k, u
    <3>2. CASE SincePictures(b) = Stride - 1
      <4>1. k = 0
        BY <2>4, <3>2 DEF Advanced, k
      <4>2. ts <= u /\ ~(u - ts <= LeadMs)
        <5>1. ts <= u /\ (t.renewal = u \/ ~(u - ts <= LeadMs))
          BY <1>4, <2>2, <4>1
        <5> QED BY <1>5, <2>5, <2>6, <5>1
      <4>3. (Stride - 1) - k = Stride - 1
        BY <1>5, <4>1
      <4>4. ASSUME NEW e \in NormalSteps
            PROVE  ts + (Stride - 1) * e <= u
        <5>1. (Stride - 1) * e <= LeadMs + 1
          BY DEF StepsWithinLead
        <5>2. (Stride - 1) * e \in Int
          BY <1>5, NormalStepsAreTimes
        <5> QED BY <1>5, <4>2, <5>1, <5>2
      <4> QED
        BY <1>2, <1>7, <4>2, <4>3, <4>4 DEF CoveredToNext
    <3> QED
      BY <3>1, <3>2
  <2> QED
    BY <2>7, <2>8
<1> QED
  BY <1>6, <1>7
-----------------------------------------------------------------------------
(***************************************************************************)
(* What a call of Filter or of Flush keeps.                                *)
(***************************************************************************)
\* A detector is asked about the pictures.
Judging == mode.detector /\ ~hostFailed

OutsideMask ==
    last.shown = "raw" => timeline.lastTs = NoTime \/ ~(timeline.lastTs <= Until(timeline))

SyncInv ==
    /\ SyncTypes
    /\ hostFailed => last.shown # "raw"
    /\ ~mode.detector => ~timeline.streak
    /\ Judging => Shaped(timeline) /\ OutsideMask

LEMMA SyncInit == Init => SyncInv
<1> SUFFICES ASSUME Init PROVE SyncInv
  OBVIOUS
<1>1. mode \in ModeType /\ timeline = FreshTimeline /\ hostFailed = FALSE /\ arrived = 0
  BY ModeAssumption DEF Init
<1>2. timeline \in Timeline /\ Shaped(timeline)
  BY <1>1, FreshIsTimeline
<1>3. last \in LastPicture /\ last.shown = "nothing"
  BY DEF Init, LastPicture
<1>4. SyncTypes
  BY <1>1, <1>2, <1>3 DEF SyncTypes
<1>5. ~timeline.streak
  BY <1>1 DEF FreshTimeline
<1> QED
  BY <1>1, <1>2, <1>3, <1>4, <1>5 DEF SyncInv, OutsideMask

\* A picture nobody judges leaves the ranges and the streak alone.
LEMMA UnjudgedEffect ==
    ASSUME NEW t \in Timeline, NEW hows \in SUBSET {"masked", "raw"}, Unjudged(t, hows)
    PROVE  /\ timeline' \in Timeline /\ timeline'.lastTs = t.lastTs
           /\ timeline'.streak = t.streak
           /\ last' \in LastPicture /\ last'.shown \in hows
           /\ hostFailed' = hostFailed
<1>1. PICK how \in hows :
        /\ timeline' = Displayed(t, how)
        /\ last' = [due |-> FALSE, verdict |-> "none", shown |-> how]
  BY DEF Unjudged
<1>2. last' \in LastPicture /\ last'.shown = how
  BY <1>1 DEF LastPicture
<1> QED
  BY <1>1, <1>2, DisplayedFields DEF Unjudged

LEMMA PictureKeeps ==
    ASSUME Stride > 0, SyncInv, UNCHANGED mode, arrived' \in Nat,
           NEW b \in {timeline, FreshTimeline}, NEW ts \in Nat, Follows(b, ts),
           NEW unsafe \in BOOLEAN, FilterPicture(Numbered(b, ts), ts, unsafe)
    PROVE  /\ SyncInv'
           /\ Judging' => /\ Judging /\ b \in Timeline /\ Shaped(b)
                          /\ timeline' \in Timeline
                          /\ Analysed(Numbered(b, ts), ts)'
<1> DEFINE t == Numbered(b, ts)
<1>1. /\ b \in Timeline /\ (Judging => Shaped(b))
      /\ ~mode.detector => ~b.streak
      /\ t \in Timeline /\ t.lastTs = ts /\ t.streak = b.streak
  <2>1. b \in Timeline /\ (Judging => Shaped(b)) /\ (~mode.detector => ~b.streak)
    <3>1. CASE b = timeline
      BY <3>1 DEF SyncInv, SyncTypes
    <3>2. CASE b = FreshTimeline
      BY <3>2, FreshIsTimeline DEF FreshTimeline
    <3> QED BY <3>1, <3>2
  <2> QED BY <2>1, NumberedFields
<1>2. ts # NoTime /\ mode \in ModeType /\ hostFailed \in BOOLEAN
  BY DEF NoTime, SyncInv, SyncTypes
<1>3. CASE hostFailed /\ Unjudged(t, AfterFailure)
  <2>1. /\ timeline' \in Timeline /\ timeline'.lastTs = ts /\ timeline'.streak = b.streak
        /\ last' \in LastPicture /\ last'.shown \in {"masked"}
        /\ hostFailed' = hostFailed
    BY <1>1, <1>3, UnjudgedEffect DEF AfterFailure
  <2>2. SyncTypes'
    BY <1>2, <2>1 DEF SyncTypes
  <2> QED
    BY <1>1, <1>3, <2>1, <2>2 DEF SyncInv, Judging
<1>4. CASE ~hostFailed /\ ~mode.detector /\ Unjudged(t, Fallback)
  <2>1. Fallback \in SUBSET {"masked", "raw"}
    BY DEF Fallback
  <2>2. /\ timeline' \in Timeline /\ timeline'.lastTs = ts /\ timeline'.streak = b.streak
        /\ last' \in LastPicture
        /\ hostFailed' = hostFailed
    BY <1>1, <1>4, <2>1, UnjudgedEffect
  <2>3. SyncTypes'
    BY <1>2, <2>2 DEF SyncTypes
  <2> QED
    BY <1>1, <1>4, <2>2, <2>3 DEF SyncInv, Judging
<1>5. CASE ~hostFailed /\ mode.detector /\ Analyse(t, ts, unsafe)
  <2>1. Judging /\ Shaped(b)
    BY <1>1, <1>5 DEF Judging
  <2>2. t.frameCount >= 1 /\ AtMostOne(t)
    BY <1>1, <2>1, NextPicture
  <2>3. SyncTypes
    BY DEF SyncInv
  <2> HIDE DEF t
  <2>4. /\ timeline' \in Timeline /\ last' \in LastPicture /\ hostFailed' \in BOOLEAN
        /\ hostFailed' /\ ~hostFailed => last'.shown = "masked"
        /\ Analysed(t, ts)'
    BY <1>1, <1>5, <2>2, <2>3, AnalyseEffect
  <2>5. /\ Shaped(timeline') /\ timeline'.lastTs = ts
        /\ ~Positive' => Until(timeline') = Until(t)
    BY <1>1, <2>2, <2>4, AnalysedIsShaped
  <2>6. last'.shown = "raw" => ~(timeline'.lastTs <= Until(timeline'))
    <3>1. last'.shown = "raw" => ~Positive' /\ ~(ts <= Until(t))
      BY <2>4 DEF Analysed
    <3> QED BY <2>5, <3>1
  <2>7. OutsideMask'
    BY <2>6 DEF OutsideMask
  <2>8. SyncTypes'
    BY <1>2, <2>4, <2>5 DEF SyncTypes
  <2>9. SyncInv'
    BY <1>5, <2>4, <2>5, <2>7, <2>8 DEF SyncInv
  <2> QED
    BY <1>1, <2>1, <2>4, <2>9 DEF t
<1> QED
  BY <1>3, <1>4, <1>5 DEF FilterPicture

LEMMA FlushKeeps ==
    ASSUME SyncInv, FlushCall
    PROVE  SyncInv' /\ (Judging' <=> Judging) /\ timeline' = FreshTimeline
<1>1. timeline' = FreshTimeline /\ UNCHANGED <<mode, hostFailed, arrived, last>>
  BY DEF FlushCall
<1>2. timeline' \in Timeline /\ Shaped(timeline')
  BY <1>1, FreshIsTimeline
<1>3. ~timeline'.streak /\ timeline'.lastTs = NoTime
  BY <1>1 DEF FreshTimeline
<1>4. SyncTypes'
  BY <1>1, <1>2 DEF SyncInv, SyncTypes
<1>5. OutsideMask'
  BY <1>3 DEF OutsideMask
<1> QED
  BY <1>1, <1>2, <1>3, <1>4, <1>5 DEF SyncInv, Judging

LEMMA StutterKeeps ==
    ASSUME SyncInv, UNCHANGED vars
    PROVE  SyncInv' /\ (Judging' <=> Judging) /\ timeline' = timeline
<1>1. UNCHANGED <<mode, timeline, hostFailed, arrived, last>>
  BY DEF vars
<1>2. SyncTypes' /\ OutsideMask' = OutsideMask /\ Judging' = Judging
  BY <1>1 DEF SyncInv, SyncTypes, OutsideMask, Judging
<1> QED
  BY <1>1, <1>2 DEF SyncInv
-----------------------------------------------------------------------------
(***************************************************************************)
(* Where the pixels cannot be read, a picture that requires analysis is    *)
(* shown unmasked only after a clean verdict, and with no detector none is *)
(* (README.md:106-107; the three ends of Filter, 791-799, 888-979 and      *)
(* 981-1015): for every configuration, with nothing assumed of the times.  *)
(***************************************************************************)
LEMMA UnreadableStep ==
    ASSUME UNCHANGED mode, NEW t, NEW ts, NEW unsafe \in BOOLEAN, FilterPicture(t, ts, unsafe)
    PROVE  UnreadableFailsClosed'
<1>1. Readable' <=> Readable
  BY DEF Readable
<1>2. SUFFICES ASSUME ~Readable, last'.shown = "raw"
               PROVE  mode.detector /\ (last'.due => last'.verdict = "clean")
  BY <1>1 DEF UnreadableFailsClosed
<1>3. Fallback = {"masked"}
  BY <1>2 DEF Fallback
<1>4. ASSUME NEW hows, hows = {"masked"}, Unjudged(t, hows)
      PROVE  FALSE
  <2>1. last'.shown \in hows
    BY <1>4 DEF Unjudged
  <2> QED BY <1>2, <1>4, <2>1
<1>5. ~hostFailed /\ mode.detector /\ Analyse(t, ts, unsafe)
  BY <1>3, <1>4 DEF FilterPicture, AfterFailure
<1> DEFINE due == ShouldScheduleAnalysis(t.ranges, t.renewal, t.frameCount, ts,
                                          Stride, LeadMs)
           inRange == TimeInBlockedRange(t.ranges, ts)
<1>6. PICK result \in IF due THEN Results ELSE {"skipped"} :
        \E how \in IF inRange \/ VerdictOf(result, unsafe) = "positive" THEN {"masked"}
                   ELSE IF result \in {"skipped", "classified"} THEN {"raw"}
                   ELSE Fallback :
          last' = [due |-> due, verdict |-> VerdictOf(result, unsafe), shown |-> how]
  BY <1>5 DEF Analyse
<1> DEFINE verdict == VerdictOf(result, unsafe)
<1>7. /\ result \in {"skipped", "classified"} /\ verdict # "positive"
      /\ last'.due = due /\ last'.verdict = verdict
  BY <1>2, <1>3, <1>6
<1>8. due => result = "classified"
  BY <1>6, <1>7 DEF Results
<1>9. result = "classified" => verdict \in {"clean", "positive"}
  BY DEF VerdictOf
<1> QED
  BY <1>5, <1>7, <1>8, <1>9

THEOREM UnreadableIsMasked == Spec => []UnreadableFailsClosed
<1>1. Init => UnreadableFailsClosed
  BY DEF Init, UnreadableFailsClosed
<1>2. UnreadableFailsClosed /\ [Next]_vars => UnreadableFailsClosed'
  <2> SUFFICES ASSUME UnreadableFailsClosed, [Next]_vars
               PROVE  UnreadableFailsClosed'
    OBVIOUS
  <2>1. CASE FilterCall
    <3>1. UNCHANGED mode
      BY <2>1 DEF FilterCall
    <3>2. PICK ts \in PictureTimes, unsafe \in BOOLEAN :
            \/ FilterPicture(Numbered(timeline, ts), ts, unsafe)
            \/ \E origin \in Origins :
                  FilterPicture(Numbered(FreshTimeline, origin), origin, unsafe)
      BY <2>1 DEF FilterCall
    <3>3. PICK t, now : FilterPicture(t, now, unsafe)
      BY <3>2
    <3> QED
      BY <3>1, <3>3, UnreadableStep
  <2>2. CASE FlushCall \/ UNCHANGED vars
    <3>1. UNCHANGED <<mode, last>>
      BY <2>2 DEF FlushCall, vars
    <3> QED
      BY <3>1 DEF UnreadableFailsClosed, Readable
  <2> QED
    BY <2>1, <2>2 DEF Next
<1> QED
  BY <1>1, <1>2, PTL DEF Spec

(***************************************************************************)
(* A picture shown unmasked is one that was analysed or has an analysed    *)
(* one among the stride - 1 before it (nsfw_filter.c:314), for every       *)
(* stride, padding and frame interval such that a stride of pictures fits  *)
(* in the renewal lead and the second aligned picture after a detection    *)
(* lies beyond its window.  Without the second hypothesis it is false: a   *)
(* window that ends on an aligned picture whose renewal was already taken  *)
(* lets up to 2 * Stride - 1 pictures pass unsampled.                      *)
(***************************************************************************)
THEOREM StreamIsSampled ==
    ASSUME Stride > 0, StepsWithinLead, SecondSampleIsPast
    PROVE  Spec => []SampleSpacing
<1> DEFINE Inv == SyncInv /\ (Judging => SamplingInv(timeline))
<1>1. Init => Inv
  <2>1. Init => timeline.lastTs = NoTime
    BY DEF Init, FreshTimeline
  <2> QED
    BY <2>1, SyncInit DEF SamplingInv
<1>2. Inv /\ [Next]_vars => Inv'
  <2> SUFFICES ASSUME Inv, [Next]_vars
               PROVE  Inv'
    OBVIOUS
  <2>0. SyncTypes
    BY DEF SyncInv
  <2>1. CASE FilterCall
    <3>1. PICK b \in {timeline, FreshTimeline}, ts \in Nat, unsafe \in BOOLEAN :
            Follows(b, ts) /\ FilterPicture(Numbered(b, ts), ts, unsafe)
      BY <2>0, <2>1, FilterCallBegins
    <3>2. UNCHANGED mode /\ arrived' \in Nat
      BY <2>0, <2>1, FilterCallBegins
    <3>3. /\ SyncInv'
          /\ Judging' => /\ Judging /\ b \in Timeline /\ Shaped(b)
                         /\ timeline' \in Timeline
                         /\ Analysed(Numbered(b, ts), ts)'
      BY <3>1, <3>2, PictureKeeps
    <3>4. ASSUME Judging'
          PROVE  SamplingInv(timeline')
      <4>1. SamplingInv(b)
        <5>1. SamplingInv(FreshTimeline)
          BY DEF SamplingInv, FreshTimeline
        <5> QED BY <3>3, <3>4, <5>1
      <4> QED
        BY <3>1, <3>3, <3>4, <4>1, SamplingStep
    <3> QED
      BY <3>3, <3>4
  <2>2. CASE FlushCall
    <3>1. SyncInv' /\ timeline' = FreshTimeline
      BY <2>2, FlushKeeps
    <3>2. timeline'.lastTs = NoTime
      BY <3>1 DEF FreshTimeline
    <3> QED
      BY <3>1, <3>2 DEF SamplingInv
  <2>3. CASE UNCHANGED vars
    BY <2>3, StutterKeeps DEF SamplingInv, Aged, Spaced, RenewedOnce, CoveredToNext, PastNext,
       SincePictures, Until
  <2> QED
    BY <2>1, <2>2, <2>3 DEF Next
<1>3. Inv => SampleSpacing
  <2> SUFFICES ASSUME Inv, mode.detector, last.shown = "raw"
               PROVE  timeline.sinceSample < Stride
    BY DEF SampleSpacing
  <2>1. Judging /\ Shaped(timeline) /\ OutsideMask /\ SamplingInv(timeline)
    BY DEF SyncInv, Judging
  <2>2. timeline \in Timeline /\ (timeline.lastTs = NoTime => timeline = FreshTimeline)
    BY DEF SyncInv, SyncTypes
  <2>3. CASE timeline.lastTs = NoTime
    BY <2>2, <2>3 DEF FreshTimeline
  <2>4. CASE timeline.lastTs # NoTime
    <3>1. ~(timeline.lastTs <= Until(timeline))
      BY <2>1, <2>4 DEF OutsideMask
    <3>2. timeline.sinceSample = SincePictures(timeline)
      BY <2>1, <2>4, <3>1 DEF SamplingInv, Spaced, CoveredToNext
    <3>3. PICK n \in Nat : n = timeline.frameCount - 1
      BY <2>1, <2>2, <2>4 DEF Shaped, Timeline
    <3>4. SincePictures(timeline) \in 0..(Stride - 1)
      <4>1. Stride \in Nat \ {0}
        BY NumbersAssumption
      <4> QED BY <3>3, <4>1, NextRemainder DEF SincePictures
    <3>5. Stride \in Nat
      BY NumbersAssumption
    <3> QED
      BY <3>2, <3>4, <3>5
  <2> QED
    BY <2>3, <2>4
<1> HIDE DEF Inv
<1> QED
  BY <1>1, <1>2, <1>3, PTL DEF Spec

(***************************************************************************)
(* Once a picture is detected none is shown unmasked while the content     *)
(* stays unsafe and the detector answers (README.md:74-75), for every      *)
(* stride, padding and frame interval such that a stride of pictures fits  *)
(* in the renewal lead and in the padding, and no two pictures bear one    *)
(* time.                                                                   *)
(***************************************************************************)
THEOREM DetectionIsContinuous ==
    ASSUME Stride > 0, TimeAdvances, StepsWithinLead, StepsWithinPadding
    PROVE  Spec => []NoRawFlash
<1> DEFINE Inv == SyncInv /\ (Judging => Streaked(timeline))
<1>0. Streaked(FreshTimeline)
  BY DEF Streaked, FreshTimeline
<1>1. Init => Inv
  <2>1. Init => timeline = FreshTimeline
    BY DEF Init
  <2> QED
    BY <1>0, <2>1, SyncInit
<1>2. Inv /\ [Next]_vars => Inv'
  <2> SUFFICES ASSUME Inv, [Next]_vars
               PROVE  Inv'
    OBVIOUS
  <2>0. SyncTypes
    BY DEF SyncInv
  <2>1. CASE FilterCall
    <3>1. PICK b \in {timeline, FreshTimeline}, ts \in Nat, unsafe \in BOOLEAN :
            Follows(b, ts) /\ FilterPicture(Numbered(b, ts), ts, unsafe)
      BY <2>0, <2>1, FilterCallBegins
    <3>2. UNCHANGED mode /\ arrived' \in Nat
      BY <2>0, <2>1, FilterCallBegins
    <3>3. /\ SyncInv'
          /\ Judging' => /\ Judging /\ b \in Timeline /\ Shaped(b)
                         /\ timeline' \in Timeline
                         /\ Analysed(Numbered(b, ts), ts)'
      BY <3>1, <3>2, PictureKeeps
    <3>4. ASSUME Judging'
          PROVE  Streaked(timeline')
      <4>1. Streaked(b)
        BY <1>0, <3>3, <3>4
      <4> QED
        BY <3>1, <3>3, <3>4, <4>1, StreakStep
    <3> QED
      BY <3>3, <3>4
  <2>2. CASE FlushCall
    <3>1. SyncInv' /\ timeline' = FreshTimeline
      BY <2>2, FlushKeeps
    <3>2. ~timeline'.streak
      BY <3>1 DEF FreshTimeline
    <3> QED
      BY <3>1, <3>2 DEF Streaked
  <2>3. CASE UNCHANGED vars
    BY <2>3, StutterKeeps DEF Streaked, CoveredToNext, SincePictures, Until
  <2> QED
    BY <2>1, <2>2, <2>3 DEF Next
<1>3. Inv => NoRawFlash
  <2> SUFFICES ASSUME Inv, timeline.streak, last.shown = "raw"
               PROVE  FALSE
    BY DEF NoRawFlash
  <2>1. Judging /\ OutsideMask /\ Streaked(timeline)
    BY DEF SyncInv, Judging
  <2>2. timeline.lastTs # NoTime
    BY DEF SyncInv, SyncTypes, FreshTimeline
  <2> QED
    BY <2>1, <2>2 DEF OutsideMask, Streaked, CoveredToNext
<1> HIDE DEF Inv
<1> QED
  BY <1>1, <1>2, <1>3, PTL DEF Spec
=============================================================================
