------------------------ MODULE PlaybackGuard_proofs ------------------------
(***************************************************************************)
(* Proofs about scan-ahead playback (ScanAhead, DecisionMap and            *)
(* PlaybackGuard) for every film, every pace of the scanner and every      *)
(* setting of the plugin and the guard: what has been published agrees     *)
(* with itself, a refresh misses nothing that was on disk when it began,   *)
(* playback stays behind the scan, and no picture that the scanner found   *)
(* to be masked is shown while the guard is at work.  The last three have  *)
(* hypotheses on the constants, stated and named below.                    *)
(***************************************************************************)
EXTENDS PlaybackGuard, SequenceTheorems, TLAPS

-----------------------------------------------------------------------------
(***************************************************************************)
(* Ranges.                                                                 *)
(***************************************************************************)

\* Both maps mask the same times before the limit.
AgreeBefore(limit, one, other) ==
    \A ts \in Nat : ts < limit =>
        (DecisionMapContains(one, ts) <=> DecisionMapContains(other, ts))

\* What the older map masks, the newer one masks too.
Covers(newer, older) ==
    \A ts \in Nat : DecisionMapContains(older, ts) => DecisionMapContains(newer, ts)

Interval == [start : Nat, end : Nat]

\* Larger returns one of its arguments, and neither is greater.
LEMMA LargerIsLarger ==
    ASSUME NEW a \in Nat, NEW b \in Nat
    PROVE  Larger(a, b) \in Nat /\ Larger(a, b) >= a /\ Larger(a, b) >= b
  BY DEF Larger

\* update_ranges where it extends the last range: that one ends later, or where it did.
LEMMA ExtendLast ==
    ASSUME NEW ranges \in Ranges, NEW start \in Nat, NEW end \in Nat,
           ranges # <<>>, start <= ranges[Len(ranges)].end
    PROVE  LET new == UpdateRanges(ranges, start, end)
               n   == Len(ranges)
           IN  /\ new \in Ranges
               /\ Len(new) = n
               /\ n \in 1..n
               /\ \A i \in 1..n : new[i].start = ranges[i].start
               /\ \A i \in 1..n : i # n => new[i] = ranges[i]
               /\ new[n].end = Larger(ranges[n].end, end)
               /\ ranges[n].end \in Nat
  <1> DEFINE n    == Len(ranges)
             last == [ranges[n] EXCEPT !.end = Larger(@, end)]
  <1>1. n \in Nat \ {0} /\ ranges \in Seq(Interval)
    BY EmptySeq DEF Ranges, Interval
  <1>2. n \in 1..n
    BY <1>1
  <1>3. ranges[n] \in Interval
    BY <1>1, <1>2, ElementOfSeq
  <1>4. last \in Interval /\ last.start = ranges[n].start /\ last.end = Larger(ranges[n].end, end)
    BY <1>3, LargerIsLarger DEF Interval
  <1>5. UpdateRanges(ranges, start, end) = [ranges EXCEPT ![n] = last]
    BY DEF UpdateRanges
  <1>6. /\ [ranges EXCEPT ![n] = last] \in Seq(Interval)
        /\ Len([ranges EXCEPT ![n] = last]) = n
        /\ \A j \in 1..n : [ranges EXCEPT ![n] = last][j] = IF j = n THEN last ELSE ranges[j]
    BY <1>1, <1>2, <1>4, ExceptSeq
  <1> HIDE DEF last
  <1> QED  BY <1>1, <1>2, <1>3, <1>4, <1>5, <1>6 DEF Ranges, Interval

\* update_ranges where it starts a new range behind the others.
LEMMA AppendNew ==
    ASSUME NEW ranges \in Ranges, NEW start \in Nat, NEW end \in Nat,
           ~(ranges # <<>> /\ start <= ranges[Len(ranges)].end)
    PROVE  LET new == UpdateRanges(ranges, start, end)
               n   == Len(ranges)
           IN  /\ new \in Ranges
               /\ n \in Nat
               /\ Len(new) = n + 1
               /\ \A i \in 1..n : new[i] = ranges[i]
               /\ new[n + 1] = Span(start, end)
  <1>1. UpdateRanges(ranges, start, end) = Append(ranges, Span(start, end))
    BY DEF UpdateRanges
  <1>2. Span(start, end) \in Interval /\ ranges \in Seq(Interval)
    BY DEF Span, Interval, Ranges
  <1> QED  BY <1>1, <1>2, AppendProperties DEF Ranges, Interval

\* What a map contains, by the length of the map.
LEMMA ContainsByLength ==
    ASSUME NEW ranges \in Ranges, NEW ts
    PROVE  DecisionMapContains(ranges, ts) <=>
             \E i \in 1..Len(ranges) : /\ ts < ranges[i].end
                                       /\ \A j \in 1..i : ts >= ranges[j].start
  BY LenProperties DEF DecisionMapContains, Ranges

\* A range once published stays masked: update_ranges never takes a time away.
LEMMA UpdateCovers ==
    ASSUME NEW ranges \in Ranges, NEW start \in Nat, NEW end \in Nat
    PROVE  /\ UpdateRanges(ranges, start, end) \in Ranges
           /\ Covers(UpdateRanges(ranges, start, end), ranges)
  <1> DEFINE n == Len(ranges)
  <1> PICK new : new = UpdateRanges(ranges, start, end)
    OBVIOUS
  <1>1. CASE ranges # <<>> /\ start <= ranges[n].end
    <2>0. LET e == UpdateRanges(ranges, start, end)
          IN  /\ e \in Ranges /\ Len(e) = n /\ n \in 1..n
              /\ \A i \in 1..n : e[i].start = ranges[i].start
              /\ \A i \in 1..n : i # n => e[i] = ranges[i]
              /\ e[n].end = Larger(ranges[n].end, end)
      BY <1>1, ExtendLast
    <2>1. /\ new \in Ranges /\ Len(new) = n /\ n \in 1..n
          /\ \A i \in 1..n : new[i].start = ranges[i].start
          /\ \A i \in 1..n : i # n => new[i] = ranges[i]
          /\ new[n].end = Larger(ranges[n].end, end)
      BY <2>0
    <2>2. ranges[n].end \in Nat
      BY <1>1, ExtendLast
    <2>3. new[n].end >= ranges[n].end /\ new[n].end \in Nat
      BY <2>1, <2>2, LargerIsLarger
    <2>4. \A ts \in Nat, i \in 1..n : ts < ranges[i].end => ts < new[i].end
      <3> SUFFICES ASSUME NEW ts \in Nat, NEW i \in 1..n, ts < ranges[i].end
                   PROVE  ts < new[i].end
        OBVIOUS
      <3>1. CASE i = n
        BY <3>1, <2>2, <2>3
      <3>2. CASE i # n
        BY <3>2, <2>1
      <3> QED  BY <3>1, <3>2
    <2>5. \A ts \in Nat, i \in 1..n :
            (\A j \in 1..i : ts >= ranges[j].start) => (\A j \in 1..i : ts >= new[j].start)
      BY <2>1
    <2> QED  BY <2>1, <2>4, <2>5, ContainsByLength DEF Covers
  <1>2. CASE ~(ranges # <<>> /\ start <= ranges[n].end)
    <2>0. LET e == UpdateRanges(ranges, start, end)
          IN  /\ e \in Ranges /\ n \in Nat /\ Len(e) = n + 1
              /\ \A i \in 1..n : e[i] = ranges[i]
      BY <1>2, AppendNew
    <2>1. /\ new \in Ranges /\ n \in Nat /\ Len(new) = n + 1
          /\ \A i \in 1..n : new[i] = ranges[i]
      BY <2>0
    <2>2. \A i \in 1..n : i \in 1..(n + 1) /\ \A j \in 1..i : j \in 1..n
      BY <2>1
    <2> QED  BY <2>1, <2>2, ContainsByLength DEF Covers
  <1> QED  BY <1>1, <1>2

\* Before its start, update_ranges changes nothing.
LEMMA UpdateAgreesBefore ==
    ASSUME NEW ranges \in Ranges, NEW start \in Nat, NEW end \in Nat
    PROVE  AgreeBefore(start, UpdateRanges(ranges, start, end), ranges)
  <1> DEFINE n == Len(ranges)
  <1> PICK new : new = UpdateRanges(ranges, start, end)
    OBVIOUS
  <1> SUFFICES ASSUME NEW ts \in Nat, ts < start, DecisionMapContains(new, ts)
               PROVE  DecisionMapContains(ranges, ts)
    BY UpdateCovers DEF AgreeBefore, Covers
  <1>1. CASE ranges # <<>> /\ start <= ranges[n].end
    <2>0. LET e == UpdateRanges(ranges, start, end)
          IN  /\ e \in Ranges /\ Len(e) = n /\ n \in 1..n
              /\ \A i \in 1..n : e[i].start = ranges[i].start
              /\ \A i \in 1..n : i # n => e[i] = ranges[i]
      BY <1>1, ExtendLast
    <2>1. /\ new \in Ranges /\ Len(new) = n /\ n \in 1..n
          /\ \A i \in 1..n : new[i].start = ranges[i].start
          /\ \A i \in 1..n : i # n => new[i] = ranges[i]
      BY <2>0
    <2>2. ranges[n].end \in Nat
      BY <1>1, ExtendLast
    <2>3. ts < ranges[n].end
      BY <1>1, <2>2
    <2>4. PICK i \in 1..n : ts < new[i].end /\ \A j \in 1..i : ts >= new[j].start
      BY <2>1, ContainsByLength
    <2>5. ts < ranges[i].end
      BY <2>1, <2>3, <2>4
    <2>6. \A j \in 1..i : ts >= ranges[j].start
      BY <2>1, <2>4
    <2> QED  BY <2>5, <2>6, ContainsByLength
  <1>2. CASE ~(ranges # <<>> /\ start <= ranges[n].end)
    <2>1. /\ new \in Ranges /\ n \in Nat /\ Len(new) = n + 1
          /\ \A i \in 1..n : new[i] = ranges[i]
          /\ new[n + 1].start = start
      <3>1. new[n + 1] = Span(start, end)
        BY <1>2, AppendNew
      <3>2. Span(start, end).start = start
        BY DEF Span
      <3> QED  BY <1>2, AppendNew, <3>1, <3>2
    <2>2. PICK i \in 1..(n + 1) : ts < new[i].end /\ \A j \in 1..i : ts >= new[j].start
      BY <2>1, ContainsByLength
    <2>3. i # n + 1
      BY <2>1, <2>2
    <2>4. i \in 1..n /\ \A j \in 1..i : j \in 1..n
      BY <2>1, <2>2, <2>3
    <2>5. ts < ranges[i].end /\ \A j \in 1..i : ts >= ranges[j].start
      BY <2>1, <2>2, <2>4
    <2> QED  BY <2>4, <2>5, ContainsByLength
  <1> QED  BY <1>1, <1>2

-----------------------------------------------------------------------------
(***************************************************************************)
(* What a step of the whole does to the scanner and to the plugin.         *)
(***************************************************************************)

\* The scanner ends before its time, alone or with the guard that started it.
ScanStops ==
    /\ scanPC # "finished"
    /\ scanPC' = "failed"
    /\ UNCHANGED <<film, scan, mapFile, statusFile, clock>>

LEMMA ScannerSteps ==
    ASSUME [Next]_vars
    PROVE  \/ ScanSample \/ ScanEnd \/ WriteDecisionMap \/ WriteStatus
           \/ ScanStops
           \/ UNCHANGED scanVars
  <1>1. CASE GuardStep
    <2>1. GuardConnect \/ GuardLeave => ScanStops \/ UNCHANGED scanVars
      BY DEF GuardConnect, GuardLeave, ScanStops, scanVars
    <2>2. \/ GuardBuffered \/ GuardLaunch \/ GuardReadStatus \/ GuardGetTime
          \/ GuardGetState \/ GuardToggle \/ GuardCheckScanner
          => UNCHANGED scanVars
      BY DEF GuardBuffered, GuardLaunch, GuardReadStatus, GuardGetTime, GuardGetState,
             GuardToggle, GuardCheckScanner
    <2> QED  BY <1>1, <2>1, <2>2 DEF GuardStep
  <1>2. CASE ScannerRuns
    BY <1>2 DEF ScannerRuns, ScanStep, ScanFail, ScanStops
  <1>3. CASE UserStarts \/ PluginOpen \/ PluginFilter \/ PluginFlush \/ PluginRuns \/ PlayerEnds
    BY <1>3 DEF UserStarts, PluginOpen, PluginFilter, PluginFlush, PluginRuns, PlayerEnds
  <1>4. CASE Ended \/ UNCHANGED vars
    BY <1>4 DEF Ended, vars
  <1> QED  BY <1>1, <1>2, <1>3, <1>4 DEF Next

LEMMA TimesAreNat == Times \subseteq Nat
  <1>1. Samples * Unit \in Nat /\ Duration \in Nat
    BY ScanAssumption
  <1>2. Larger(Duration, Samples * Unit) \in Nat
    BY <1>1 DEF Larger
  <1> QED  BY <1>2 DEF Times

\* A picture VLC delivers: the next one under the guard, any one without it.
Delivery(ts) == ts \in Nat /\ (guarded => ts = NextTime) /\ FilterCall(ts)

LEMMA PluginSteps ==
    ASSUME [Next]_vars
    PROVE  \/ OpenMap \/ CloseMap
           \/ FlushCall /\ ~guarded
           \/ \E ts : Delivery(ts)
           \/ SignMap \/ SignStatus \/ ReadMap \/ ReadStatus
           \/ FilterCount \/ FilterDecide
           \/ UNCHANGED pluginVars
  <1>1. CASE GuardStep
    BY <1>1 DEF GuardStep, GuardBuffered, GuardLaunch, GuardConnect, GuardReadStatus, GuardLeave,
                GuardGetTime, GuardGetState, GuardToggle, GuardCheckScanner, pluginVars
  <1>2. CASE PluginFilter
    <2>1. Times \subseteq Nat /\ SeekTimes \subseteq Nat
      BY ScanAssumption, GuardAssumption, TimesAreNat
    <2>2. PICK ts \in IF guarded THEN {NextTime} \cap Times ELSE SeekTimes : FilterCall(ts)
      BY <1>2 DEF PluginFilter
    <2>3. ts \in Nat /\ (guarded => ts = NextTime)
      BY <2>1, <2>2
    <2> QED  BY <2>2, <2>3 DEF Delivery
  <1>3. CASE PluginOpen \/ PluginFlush \/ PluginRuns \/ PlayerEnds
    BY <1>3 DEF PluginOpen, PluginFlush, PluginRuns, PluginStep, RefreshStep, PlayerEnds, FlushCall
  <1>4. CASE UserStarts \/ ScannerRuns
    BY <1>4 DEF UserStarts, ScannerRuns
  <1>5. CASE Ended \/ UNCHANGED vars
    BY <1>5 DEF Ended, vars
  <1>6. PluginFlush => FlushCall /\ ~guarded
    BY DEF PluginFlush
  <1> QED  BY <1>1, <1>2, <1>3, <1>4, <1>5, <1>6 DEF Next

\* The scanner and the plugin share nothing but the files: a step is of one of them at most.
LEMMA OneAtATime ==
    ASSUME [Next]_vars
    PROVE  UNCHANGED scanVars \/ UNCHANGED pluginVars
  <1>1. GuardStep => UNCHANGED pluginVars
    BY DEF GuardStep, GuardBuffered, GuardLaunch, GuardConnect, GuardReadStatus, GuardLeave,
           GuardGetTime, GuardGetState, GuardToggle, GuardCheckScanner, pluginVars
  <1>2. UserStarts \/ PluginOpen \/ PluginFilter \/ PluginFlush \/ PluginRuns \/ PlayerEnds
        => UNCHANGED scanVars
    BY DEF UserStarts, PluginOpen, PluginFilter, PluginFlush, PluginRuns, PlayerEnds
  <1>3. ScannerRuns \/ Ended \/ UNCHANGED vars => UNCHANGED pluginVars
    BY DEF ScannerRuns, Ended, vars
  <1> QED  BY <1>1, <1>2, <1>3 DEF Next

-----------------------------------------------------------------------------
(***************************************************************************)
(* Types, one part for each process.                                       *)
(***************************************************************************)

ScanTypes ==
    /\ film \in Films
    /\ scanPC \in ScanPCs
    /\ scan \in [processed : 0..Samples, until : Nat, ranges : Ranges]
    /\ mapFile = NoFile \/ mapFile \in [there : {TRUE}, content : Ranges, mtime : Nat]
    /\ statusFile = NoFile \/ statusFile \in [there : {TRUE}, content : Status, mtime : Nat]
    /\ clock \in Nat

Known     == [ranges : Ranges, scanned : Nat, done : BOOLEAN,
              mapSig : Nat \X Nat, statusSig : Nat \X Nat]
Refreshes == [force : BOOLEAN, mapSig : Nat \X Nat, statusSig : Nat \X Nat,
              ts : Nat, next : PluginPCs]

PluginTypes ==
    /\ pluginPC \in PluginPCs
    /\ known \in Known
    /\ refresh \in Refreshes
    /\ frames \in 0..(ReloadStride - 1)
    /\ lastTs \in Nat \cup {NoTime}
    /\ shown \in [ts : Nat, how : {"nothing", "raw", "masked"}]
    /\ atRefresh \in Ranges

GuardTypes ==
    /\ guarded \in BOOLEAN
    /\ guardPC \in GuardPCs
    /\ view \in [scanned : Nat, done : BOOLEAN, playback : Nat,
                 state : {"unknown", "off", "playing", "paused"}]
    /\ player \in {"off", "playing", "paused", "ended"}
    /\ env \in BOOLEAN
    /\ mode \in {"unopened", "live", "map"}
    /\ advanced \in Nat

LEMMA TypeParts == TypeOK <=> ScanTypes /\ PluginTypes /\ GuardTypes
  BY DEF TypeOK, ScanTypes, PluginTypes, GuardTypes, Known, Refreshes

LEMMA NoFileIsEmpty ==
    /\ NoFile.there = FALSE
    /\ NoFile.content = <<>>
    /\ NoFile.mtime = 0
    /\ <<>> \in Ranges
  BY EmptySeq DEF NoFile, Ranges

\* The numbers, each by itself.
LEMMA Numbers ==
    /\ Samples \in Nat \ {0} /\ Unit \in Nat \ {0} /\ WriteEvery \in Nat \ {0}
    /\ Hold \in Nat /\ Duration \in Nat
    /\ ReloadStride \in Nat \ {0} /\ SeekThreshold \in Nat
    /\ Second \in Nat \ {0} /\ PictureStep \in Nat \ {0}
    /\ Target \in Nat /\ MaxAdvance \in Nat
  BY ScanAssumption, ReloadAssumption, GuardAssumption

\* The time scanned, from one sample to the next.
LEMMA TimesOfScan ==
    ASSUME NEW n \in Nat
    PROVE  n * Unit \in Nat /\ (n + 1) * Unit = n * Unit + Unit
  BY Numbers

LEMMA ScanTypesStep ==
    ASSUME ScanTypes, [Next]_vars
    PROVE  ScanTypes'
  <1>1. CASE ScanSample
    <2>1. scan.processed \in 0..(Samples - 1) /\ scan.processed \in Nat
      BY <1>1, Numbers DEF ScanSample, Finished, ScanTypes
    <2>2. LastScanned \in Nat /\ Unit \in Nat /\ Hold \in Nat
      BY <2>1, TimesOfScan, Numbers DEF LastScanned
    <2> DEFINE end   == LastScanned + Unit
               until == IF scan.processed \in film THEN Larger(scan.until, end + Hold)
                        ELSE scan.until
    <2>3. scan.until \in Nat /\ scan.ranges \in Ranges
      BY DEF ScanTypes
    <2>4. end \in Nat /\ until \in Nat
      <3>1. end \in Nat /\ end + Hold \in Nat
        BY <2>2
      <3>2. Larger(scan.until, end + Hold) \in Nat
        BY <2>3, <3>1, LargerIsLarger
      <3> QED  BY <2>3, <3>1, <3>2
    <2>5. Larger(end, until) \in Nat
      BY <2>4, LargerIsLarger
    <2>6. UpdateRanges(scan.ranges, LastScanned, Larger(end, until)) \in Ranges
      BY <2>2, <2>3, <2>5, UpdateCovers
    <2>7. scan' = [processed |-> scan.processed + 1,
                   until     |-> until,
                   ranges    |-> IF LastScanned < until
                                 THEN UpdateRanges(scan.ranges, LastScanned, Larger(end, until))
                                 ELSE scan.ranges]
      BY <1>1 DEF ScanSample
    <2> HIDE DEF until, end
    <2>8. scan' \in [processed : 0..Samples, until : Nat, ranges : Ranges]
      BY <2>1, <2>3, <2>4, <2>6, <2>7, Numbers
    <2>9. scanPC' \in ScanPCs
      BY <1>1 DEF ScanSample, ScanPCs
    <2> QED  BY <1>1, <2>8, <2>9 DEF ScanTypes, ScanSample
  <1>2. CASE ScanEnd
    BY <1>2 DEF ScanEnd, ScanTypes, ScanPCs
  <1>3. CASE WriteDecisionMap
    <2>1. clock' \in Nat
      BY <1>3, ScanAssumption DEF WriteDecisionMap, ScanTypes
    <2>2. scanPC' \in ScanPCs
      BY <1>3 DEF WriteDecisionMap, Writing, AfterWrite, ScanPCs, ScanTypes, WriteOrder
    <2>3. mapFile' \in [there : {TRUE}, content : Ranges, mtime : Nat]
      BY <1>3, <2>1 DEF WriteDecisionMap, File, ScanTypes
    <2> QED  BY <1>3, <2>1, <2>2, <2>3 DEF WriteDecisionMap, ScanTypes
  <1>4. CASE WriteStatus
    <2>1. clock' \in Nat
      BY <1>4, ScanAssumption DEF WriteStatus, ScanTypes
    <2>2. scanPC' \in ScanPCs
      BY <1>4 DEF WriteStatus, Writing, AfterWrite, ScanPCs, ScanTypes, WriteOrder
    <2>3. LastScanned \in Nat /\ Duration \in Nat
      BY TimesOfScan, Numbers DEF LastScanned, ScanTypes
    <2>4. CurrentStatus \in Status
      BY <2>3 DEF CurrentStatus, Status
    <2>5. statusFile' \in [there : {TRUE}, content : Status, mtime : Nat]
      BY <1>4, <2>1, <2>4 DEF WriteStatus, File
    <2> QED  BY <1>4, <2>1, <2>2, <2>5 DEF WriteStatus, ScanTypes
  <1>5. CASE ScanStops
    BY <1>5 DEF ScanStops, ScanTypes, ScanPCs
  <1>6. CASE UNCHANGED scanVars
    BY <1>6 DEF scanVars, ScanTypes
  <1> QED  BY <1>1, <1>2, <1>3, <1>4, <1>5, <1>6, ScannerSteps

\* What can be read of the two files, whether they are there or not.
LEMMA FilesByKind ==
    ASSUME ScanTypes
    PROVE  /\ mapFile.there \in BOOLEAN /\ mapFile.content \in Ranges /\ mapFile.mtime \in Nat
           /\ ~mapFile.there => mapFile.content = <<>> /\ mapFile.mtime = 0
           /\ statusFile.there => statusFile.content \in Status
           /\ statusFile.mtime \in Nat
  <1>1. mapFile.there \in BOOLEAN
    BY NoFileIsEmpty DEF ScanTypes
  <1>2. /\ mapFile.content \in Ranges /\ mapFile.mtime \in Nat
        /\ ~mapFile.there => mapFile.content = <<>> /\ mapFile.mtime = 0
    <2>1. CASE mapFile = NoFile
      BY <2>1, NoFileIsEmpty
    <2>2. CASE mapFile # NoFile
      BY <2>2 DEF ScanTypes
    <2> QED  BY <2>1, <2>2
  <1>3. /\ statusFile.there => statusFile.content \in Status
        /\ statusFile.mtime \in Nat
    <2>1. CASE statusFile = NoFile
      BY <2>1, NoFileIsEmpty
    <2>2. CASE statusFile # NoFile
      BY <2>2 DEF ScanTypes
    <2> QED  BY <2>1, <2>2
  <1> QED  BY <1>1, <1>2, <1>3

LEMMA PluginTypesStep ==
    ASSUME ScanTypes, PluginTypes, [Next]_vars
    PROVE  PluginTypes'
  <1>1. /\ mapFile.there \in BOOLEAN /\ mapFile.content \in Ranges /\ mapFile.mtime \in Nat
        /\ statusFile.there => statusFile.content \in Status
        /\ statusFile.mtime \in Nat
    BY FilesByKind
  <1>2. MapSignature \in Nat \X Nat /\ StatusSignature \in Nat \X Nat
    <2>1. Len(mapFile.content) \in Nat
      BY <1>1, LenProperties DEF Ranges
    <2> QED  BY <1>1, <2>1 DEF MapSignature, StatusSignature, Signature
  <1>3. 0 \in 0..(ReloadStride - 1) /\ (frames + 1) % ReloadStride \in 0..(ReloadStride - 1)
    BY Numbers DEF PluginTypes
  <1>4. ASSUME NEW force \in BOOLEAN, NEW ts \in Nat, NEW next \in PluginPCs,
               StartRefresh(force, ts, next)
        PROVE  pluginPC' \in PluginPCs /\ refresh' \in Refreshes
    <2>1. refresh' = [force |-> force, mapSig |-> <<0, 0>>, statusSig |-> <<0, 0>>,
                      ts |-> ts, next |-> next]
      BY <1>4 DEF StartRefresh, NoRefresh
    <2> QED  BY <1>4, <2>1 DEF StartRefresh, PluginPCs, Refreshes
  <1>5. \A ts \in Nat : [NoRefresh EXCEPT !.ts = ts] \in Refreshes
    BY DEF NoRefresh, PluginPCs, Refreshes
  <1>6. /\ NothingShown \in [ts : Nat, how : {"nothing", "raw", "masked"}]
        /\ Unopened \in Known
        /\ NoRefresh \in Refreshes
    BY NoFileIsEmpty DEF NothingShown, Unopened, Known, NoRefresh, Refreshes, PluginPCs
  <1>7. CASE OpenMap
    BY <1>7, <1>4 DEF OpenMap, PluginTypes, PluginPCs
  <1>8. CASE CloseMap
    BY <1>8, <1>3, <1>6, NoFileIsEmpty DEF CloseMap, PluginTypes, PluginPCs
  <1>9. CASE FlushCall
    BY <1>9, <1>3, <1>4, <1>6 DEF FlushCall, PluginTypes, PluginPCs
  <1>10. CASE \E ts : Delivery(ts)
    <2>1. PICK ts \in Nat : FilterCall(ts)
      BY <1>10 DEF Delivery
    <2>2. CASE Discontinuity(ts)
      BY <2>1, <2>2, <1>3, <1>4 DEF FilterCall, PluginTypes, PluginPCs
    <2>3. CASE ~Discontinuity(ts)
      BY <2>1, <2>3, <1>5 DEF FilterCall, PluginTypes, PluginPCs
    <2> QED  BY <2>2, <2>3
  <1>11. CASE SignMap
    BY <1>11, <1>1, <1>2 DEF SignMap, PluginTypes, PluginPCs, Refreshes
  <1>12. CASE SignStatus
    BY <1>12, <1>2 DEF SignStatus, PluginTypes, PluginPCs, Refreshes
  <1>13. CASE ReadMap
    <2>1. known' \in Known
      BY <1>13, <1>1 DEF ReadMap, PluginTypes, Known, Refreshes
    <2> QED  BY <1>13, <2>1 DEF ReadMap, PluginTypes, PluginPCs
  <1>14. CASE ReadStatus
    <2>1. refresh.statusSig \in Nat \X Nat /\ refresh.ts \in Nat /\ refresh.next \in PluginPCs
      BY DEF PluginTypes, Refreshes
    <2> PICK signed : signed = [known EXCEPT !.statusSig = refresh.statusSig]
      OBVIOUS
    <2>2. signed \in Known
      BY <2>1 DEF PluginTypes, Known
    <2>3. CASE statusFile.there
      <3>1. statusFile.content.scanned \in Nat /\ statusFile.content.done \in BOOLEAN
        BY <2>3, <1>1 DEF Status
      <3>2. [signed EXCEPT !.scanned = statusFile.content.scanned,
                           !.done    = statusFile.content.done] \in Known
        BY <2>2, <3>1 DEF Known
      <3>3. \/ known' = [signed EXCEPT !.scanned = statusFile.content.scanned,
                                       !.done    = statusFile.content.done]
            \/ known' = known
        BY <1>14, <2>3 DEF ReadStatus
      <3> QED  BY <1>14, <1>5, <2>1, <3>2, <3>3 DEF ReadStatus, PluginTypes
    <2>4. CASE ~statusFile.there
      <3>1. known' = signed \/ known' = known
        BY <1>14, <2>4 DEF ReadStatus
      <3> QED  BY <1>14, <1>5, <2>1, <2>2, <3>1 DEF ReadStatus, PluginTypes
    <2> QED  BY <2>3, <2>4
  <1>15. CASE FilterCount
    BY <1>15, <1>3, <1>4 DEF FilterCount, PluginTypes, PluginPCs, Refreshes
  <1>16. CASE FilterDecide
    BY <1>16, <1>6 DEF FilterDecide, PluginTypes, PluginPCs, Refreshes
  <1>17. CASE UNCHANGED pluginVars
    BY <1>17 DEF pluginVars, PluginTypes
  <1> QED  BY <1>7, <1>8, <1>9, <1>10, <1>11, <1>12, <1>13, <1>14, <1>15, <1>16, <1>17, PluginSteps

LEMMA GuardTypesStep ==
    ASSUME ScanTypes, PluginTypes, GuardTypes, [Next]_vars
    PROVE  GuardTypes'
  <1>1. CASE GuardStep
    <2>1. ReadStatusFile \in Status
      BY FilesByKind DEF ReadStatusFile, Status
    <2>2. CASE GuardReadStatus
      BY <2>1, <2>2 DEF GuardReadStatus, GuardTypes, GuardPCs, playerVars, Status
    <2>3. CASE GuardGetTime
      <3>1. PlaybackMs \in Nat
        BY Numbers DEF PlaybackMs, PluginTypes, NoTime
      <3> QED  BY <2>3, <3>1 DEF GuardGetTime, GuardTypes, GuardPCs
    <2>4. CASE GuardGetState
      BY <2>4 DEF GuardGetState, GuardTypes, GuardPCs, playerVars
    <2>5. CASE GuardBuffered \/ GuardLaunch \/ GuardToggle
      BY <2>5 DEF GuardBuffered, GuardLaunch, GuardToggle, GuardTypes, GuardPCs, playerVars
    <2>6. CASE GuardConnect \/ GuardLeave \/ GuardCheckScanner
      BY <2>6 DEF GuardConnect, GuardLeave, GuardCheckScanner, GuardTypes, GuardPCs, playerVars
    <2> QED  BY <1>1, <2>2, <2>3, <2>4, <2>5, <2>6 DEF GuardStep
  <1>2. CASE UserStarts
    BY <1>2 DEF UserStarts, GuardTypes, guardVars
  <1>3. CASE PluginOpen
    BY <1>3, GuardAssumption DEF PluginOpen, EnvAfterSync, GuardTypes, guardVars
  <1>4. CASE PluginFilter
    BY <1>4 DEF PluginFilter, GuardTypes, guardVars
  <1>5. CASE PluginFlush \/ PluginRuns \/ ScannerRuns
    BY <1>5 DEF PluginFlush, PluginRuns, ScannerRuns, GuardTypes, guardVars, playerVars
  <1>6. CASE PlayerEnds
    BY <1>6 DEF PlayerEnds, GuardTypes, guardVars
  <1>7. CASE Ended \/ UNCHANGED vars
    BY <1>7 DEF Ended, vars, GuardTypes, guardVars, playerVars
  <1> QED  BY <1>1, <1>2, <1>3, <1>4, <1>5, <1>6, <1>7 DEF Next

LEMMA InitTypes == Init => TypeOK
  <1> SUFFICES ASSUME Init  PROVE ScanTypes /\ PluginTypes /\ GuardTypes
    BY TypeParts
  <1>1. ScanTypes
    BY Numbers, NoFileIsEmpty DEF Init, ScanInit, ScanTypes, ScanPCs
  <1>2. PluginTypes
    <2>1. /\ NothingShown \in [ts : Nat, how : {"nothing", "raw", "masked"}]
          /\ Unopened \in Known
          /\ NoRefresh \in Refreshes
      BY NoFileIsEmpty DEF NothingShown, Unopened, Known, NoRefresh, Refreshes, PluginPCs
    <2> QED  BY <2>1, Numbers, NoFileIsEmpty DEF Init, PluginInit, PluginTypes, PluginPCs
  <1>3. GuardTypes
    BY GuardAssumption DEF Init, GuardTypes, GuardPCs, NoView
  <1> QED  BY <1>1, <1>2, <1>3

\* Every variable of the three processes holds a value of its kind.
THEOREM PlaybackTypes == Spec => []TypeOK
  <1>1. TypeOK /\ [Next]_vars => TypeOK'
    <2> SUFFICES ASSUME TypeOK, [Next]_vars  PROVE TypeOK'
      OBVIOUS
    <2>1. ScanTypes' /\ PluginTypes' /\ GuardTypes'
      BY TypeParts, ScanTypesStep, PluginTypesStep, GuardTypesStep
    <2> QED  BY <2>1 DEF TypeOK, ScanTypes, PluginTypes, GuardTypes, Known, Refreshes
  <1> QED  BY <1>1, InitTypes, PTL DEF Spec

-----------------------------------------------------------------------------
(***************************************************************************)
(* What the scanner has published.  Between the two writes the map is the  *)
(* scanner's own; a status vouches for times the scanner has left behind,  *)
(* and one that says it is done for all of them.                           *)
(***************************************************************************)

MapFirst ==
    scanPC \in {"second", "lastSecond"} => mapFile.there /\ mapFile.content = scan.ranges

Vouched ==
    statusFile.there =>
        mapFile.there /\ AgreeBefore(statusFile.content.scanned, mapFile.content, scan.ranges)

DoneIsLast ==
    statusFile.there /\ statusFile.content.done =>
        scanPC = "finished" /\ mapFile.content = scan.ranges

BehindScanner ==
    statusFile.there /\ ~statusFile.content.done =>
        statusFile.content.scanned <= LastScanned /\ statusFile.content.scanned <= Duration

Published == MapFirst /\ Vouched /\ DoneIsLast /\ BehindScanner

LEMMA AgreeFurther ==
    ASSUME NEW near \in Int, NEW far \in Int, near <= far, NEW one, NEW other,
           AgreeBefore(far + 1, one, other)
    PROVE  AgreeBefore(near + 1, one, other)
  <1>1. \A ts \in Nat : ts < near + 1 => ts < far + 1
    OBVIOUS
  <1> QED  BY <1>1 DEF AgreeBefore

LEMMA AgreementIsTransitive ==
    ASSUME NEW limit, NEW further, NEW a, NEW b, NEW c,
           AgreeBefore(limit, a, b), AgreeBefore(further, b, c),
           limit \in Nat, further \in Nat, limit <= further
    PROVE  AgreeBefore(limit, a, c)
  BY DEF AgreeBefore

\* A round of the scanner leaves the ranges before it as they are, and takes no time away.
LEMMA SampleAgreesBefore ==
    ASSUME ScanTypes, ScanSample
    PROVE  /\ LastScanned \in Nat
           /\ LastScanned' = LastScanned + Unit
           /\ AgreeBefore(LastScanned, scan'.ranges, scan.ranges)
           /\ Covers(scan'.ranges, scan.ranges)
  <1> DEFINE end   == LastScanned + Unit
             until == IF scan.processed \in film THEN Larger(scan.until, end + Hold)
                      ELSE scan.until
  <1>1. scan.processed \in Nat /\ scan.until \in Nat /\ scan.ranges \in Ranges
    BY DEF ScanTypes
  <1>2. LastScanned \in Nat /\ Unit \in Nat /\ Hold \in Nat
    BY <1>1, TimesOfScan, Numbers DEF LastScanned
  <1>3. end \in Nat /\ until \in Nat
    <2>1. end \in Nat /\ end + Hold \in Nat
      BY <1>2
    <2>2. Larger(scan.until, end + Hold) \in Nat
      BY <1>1, <2>1, LargerIsLarger
    <2> QED  BY <1>1, <2>1, <2>2
  <1>4. Larger(end, until) \in Nat
    BY <1>3, LargerIsLarger
  <1>5. scan' = [processed |-> scan.processed + 1,
                 until     |-> until,
                 ranges    |-> IF LastScanned < until
                               THEN UpdateRanges(scan.ranges, LastScanned, Larger(end, until))
                               ELSE scan.ranges]
    BY DEF ScanSample
  <1> HIDE DEF until, end
  <1>6. \/ scan'.ranges = scan.ranges
        \/ scan'.ranges = UpdateRanges(scan.ranges, LastScanned, Larger(end, until))
    BY <1>5
  <1>7. LastScanned' = LastScanned + Unit
    <2>1. scan'.processed = scan.processed + 1
      BY <1>5
    <2> QED  BY <1>1, <2>1, TimesOfScan DEF LastScanned
  <1>8. AgreeBefore(LastScanned, scan'.ranges, scan.ranges) /\ Covers(scan'.ranges, scan.ranges)
    <2>1. CASE scan'.ranges = scan.ranges
      BY <2>1 DEF AgreeBefore, Covers
    <2>2. CASE scan'.ranges = UpdateRanges(scan.ranges, LastScanned, Larger(end, until))
      BY <1>1, <1>2, <1>4, <2>2, UpdateAgreesBefore, UpdateCovers
    <2> QED  BY <1>6, <2>1, <2>2
  <1> QED  BY <1>2, <1>7, <1>8

LEMMA PublishedStep ==
    ASSUME ScanTypes, Published, [Next]_vars
    PROVE  Published'
  <1>1. CASE ScanSample
    <2>1. scanPC = "sample" /\ scanPC' \in {"first", "sample"}
      BY <1>1 DEF ScanSample
    <2>2. UNCHANGED <<mapFile, statusFile>>
      BY <1>1 DEF ScanSample
    <2>3. statusFile.there => ~statusFile.content.done
      BY <2>1 DEF Published, DoneIsLast
    <2>4. ASSUME statusFile.there
          PROVE  /\ statusFile.content.scanned \in Nat
                 /\ statusFile.content.scanned <= LastScanned
                 /\ statusFile.content.scanned <= Duration
      BY <2>3, <2>4, FilesByKind DEF Published, BehindScanner, Status
    <2>5. Vouched'
      <3> SUFFICES ASSUME statusFile.there
                   PROVE  AgreeBefore(statusFile.content.scanned, mapFile.content, scan'.ranges)
        BY <2>2 DEF Vouched, Published
      <3>1. AgreeBefore(statusFile.content.scanned, mapFile.content, scan.ranges)
        BY DEF Vouched, Published
      <3>2. AgreeBefore(LastScanned, scan.ranges, scan'.ranges)
        BY <1>1, SampleAgreesBefore DEF AgreeBefore
      <3> QED  BY <1>1, <2>4, <3>1, <3>2, AgreementIsTransitive, SampleAgreesBefore
    <2>6. BehindScanner'
      <3>1. LastScanned \in Nat /\ LastScanned' = LastScanned + Unit
        BY <1>1, SampleAgreesBefore
      <3>2. ASSUME statusFile.there
            PROVE  statusFile.content.scanned <= LastScanned' 
        BY <2>4, <3>1, <3>2, Numbers
      <3> QED  BY <2>2, <2>4, <3>2, Numbers DEF BehindScanner
    <2> QED  BY <2>1, <2>2, <2>3, <2>5, <2>6 DEF Published, MapFirst, DoneIsLast
  <1>2. CASE ScanEnd
    BY <1>2 DEF ScanEnd, Published, MapFirst, Vouched, DoneIsLast, BehindScanner, LastScanned
  <1>3. CASE WriteDecisionMap
    <2>1. mapFile'.there /\ mapFile'.content = scan'.ranges
      BY <1>3 DEF WriteDecisionMap, File
    <2>2. scanPC # "finished"
      BY <1>3 DEF WriteDecisionMap, Writing, WriteOrder
    <2>3. UNCHANGED <<scan, statusFile>>
      BY <1>3 DEF WriteDecisionMap
    <2>4. AgreeBefore(statusFile.content.scanned, scan.ranges, scan.ranges)
      BY DEF AgreeBefore
    <2> QED  BY <2>1, <2>2, <2>3, <2>4
             DEF Published, MapFirst, Vouched, DoneIsLast, BehindScanner, LastScanned
  <1>4. CASE WriteStatus
    <2>1. scanPC \in {"second", "lastSecond"}
      BY <1>4 DEF WriteStatus, Writing, WriteOrder
    <2>2. mapFile.there /\ mapFile.content = scan.ranges
      BY <2>1 DEF Published, MapFirst
    <2>3. /\ UNCHANGED <<scan, mapFile>>
          /\ scanPC' = IF scanPC = "second" THEN "sample" ELSE "finished"
      BY <1>4, <2>1 DEF WriteStatus, AfterWrite
    <2>4. statusFile'.there /\ statusFile'.content = CurrentStatus
      BY <1>4 DEF WriteStatus, File
    <2>5. AgreeBefore(CurrentStatus.scanned, scan.ranges, scan.ranges)
      BY DEF AgreeBefore
    <2>6. CurrentStatus.done <=> scanPC = "lastSecond"
      BY <2>1 DEF CurrentStatus
    <2>7. ~CurrentStatus.done => CurrentStatus.scanned <= LastScanned
                                 /\ CurrentStatus.scanned <= Duration
      <3>1. LastScanned \in Nat /\ Duration \in Nat
        BY TimesOfScan, Numbers DEF LastScanned, ScanTypes
      <3>2. ~CurrentStatus.done => CurrentStatus.scanned = IF Duration < LastScanned
                                                           THEN Duration ELSE LastScanned
        BY DEF CurrentStatus
      <3> QED  BY <3>1, <3>2
    <2>8. LastScanned' = LastScanned
      BY <2>3 DEF LastScanned
    <2>9. MapFirst' /\ Vouched'
      BY <2>2, <2>3, <2>4, <2>5 DEF MapFirst, Vouched
    <2>10. DoneIsLast' /\ BehindScanner'
      BY <2>2, <2>3, <2>4, <2>6, <2>7, <2>8, Numbers DEF DoneIsLast, BehindScanner
    <2> QED  BY <2>9, <2>10 DEF Published
  <1>5. CASE ScanStops
    BY <1>5 DEF ScanStops, Published, MapFirst, Vouched, DoneIsLast, BehindScanner, LastScanned
  <1>6. CASE UNCHANGED scanVars
    BY <1>6 DEF scanVars, Published, MapFirst, Vouched, DoneIsLast, BehindScanner, LastScanned
  <1> QED  BY <1>1, <1>2, <1>3, <1>4, <1>5, <1>6, ScannerSteps

LEMMA InitPublished == Init => Published
  BY NoFileIsEmpty DEF Init, ScanInit, Published, MapFirst, Vouched, DoneIsLast, BehindScanner

(***************************************************************************)
(* What is published agrees with itself at every moment, between the two   *)
(* writes of a round and after a crash of the scanner, for every film,     *)
(* interval, hold time and writing stride.                                 *)
(***************************************************************************)
THEOREM PublishedMapsAgree == Spec => []StatusVouchesForMap
  <1>1. ScanTypes /\ Published => StatusVouchesForMap
    <2> SUFFICES ASSUME ScanTypes, Published, statusFile.there, NEW ts \in Times,
                        ts < statusFile.content.scanned
                 PROVE  /\ mapFile.there
                        /\ DecisionMapContains(mapFile.content, ts)
                               <=> DecisionMapContains(scan.ranges, ts)
      BY DEF StatusVouchesForMap, Published, Vouched
    <2> QED  BY TimesAreNat DEF Published, Vouched, AgreeBefore
  <1>2. Published /\ TypeOK /\ [Next]_vars => Published'
    BY TypeParts, PublishedStep
  <1>3. TypeOK => ScanTypes
    BY TypeParts
  <1> QED  BY <1>1, <1>2, <1>3, InitPublished, PlaybackTypes, PTL DEF Spec

-----------------------------------------------------------------------------
(***************************************************************************)
(* Signatures.  Where two writes never fall into one second, the           *)
(* modification time alone tells the versions of the map apart.  The code  *)
(* does not see to that: the theorems that need it have it as hypothesis.  *)
(***************************************************************************)
WritesApart == 0 \notin Elapsed

\* No time of a file is ahead of the clock, and a file that is there has one.
TimesPassed ==
    /\ clock >= 1
    /\ mapFile.there => mapFile.mtime >= 1
    /\ mapFile.mtime <= clock
    /\ known.mapSig[1] <= clock
    /\ refresh.mapSig[1] <= clock

\* What the plugin has loaded under a map's modification time is that map.
SignedMap == mapFile.mtime = known.mapSig[1] => known.ranges = mapFile.content

LEMMA SignatureTypes ==
    ASSUME ScanTypes, PluginTypes
    PROVE  /\ known.mapSig[1] \in Nat /\ refresh.mapSig[1] \in Nat
           /\ mapFile.mtime \in Nat /\ clock \in Nat
           /\ mapFile.content \in Ranges
           /\ MapSignature[1] = mapFile.mtime
  <1>1. MapSignature[1] = mapFile.mtime
    BY FilesByKind DEF MapSignature, Signature
  <1> QED  BY <1>1, FilesByKind DEF ScanTypes, PluginTypes, Known, Refreshes

\* StartRefresh, NoRefresh and Unopened know no file yet.
LEMMA NothingSigned ==
    /\ NoRefresh.mapSig[1] = 0 /\ Unopened.mapSig[1] = 0 /\ Unopened.ranges = <<>>
    /\ \A force, ts, next : StartRefresh(force, ts, next) => refresh'.mapSig[1] = 0
    /\ \A ts : [NoRefresh EXCEPT !.ts = ts].mapSig[1] = 0
  <1>1. NoRefresh.mapSig = <<0, 0>> /\ Unopened.mapSig = <<0, 0>> /\ Unopened.ranges = <<>>
    BY DEF NoRefresh, Unopened
  <1>2. ASSUME NEW force, NEW ts, NEW next, StartRefresh(force, ts, next)
        PROVE  refresh'.mapSig = <<0, 0>>
    <2>1. refresh' = [force |-> force, mapSig |-> <<0, 0>>, statusSig |-> <<0, 0>>,
                      ts |-> ts, next |-> next]
      BY <1>2 DEF StartRefresh, NoRefresh
    <2> QED  BY <2>1
  <1>3. ASSUME NEW ts
        PROVE  [NoRefresh EXCEPT !.ts = ts].mapSig = <<0, 0>>
    BY DEF NoRefresh
  <1> QED  BY <1>1, <1>2, <1>3

LEMMA SignedMapStep ==
    ASSUME WritesApart, ScanTypes, PluginTypes, TimesPassed, SignedMap, [Next]_vars
    PROVE  TimesPassed' /\ SignedMap'
  <1>1. CASE UNCHANGED pluginVars
    <2>1. known' = known /\ refresh' = refresh
      BY <1>1 DEF pluginVars
    <2>2. CASE WriteDecisionMap
      <3>1. PICK gap \in Elapsed : clock' = clock + gap
        BY <2>2 DEF WriteDecisionMap
      <3>2. gap \in Nat \ {0} /\ clock \in Nat
        BY <3>1, ScanAssumption DEF WritesApart, ScanTypes
      <3>3. mapFile'.mtime = clock' /\ clock' > clock
        BY <2>2, <3>1, <3>2 DEF WriteDecisionMap, File
      <3>4. known.mapSig[1] < clock' /\ refresh.mapSig[1] < clock' /\ clock' \in Nat
        BY <3>1, <3>2, <3>3, SignatureTypes DEF TimesPassed
      <3> QED  BY <2>1, <3>1, <3>2, <3>3, <3>4, SignatureTypes DEF TimesPassed, SignedMap
    <2>3. CASE WriteStatus
      <3>1. clock' >= clock /\ clock \in Nat /\ clock' \in Nat
        BY <2>3, ScanAssumption DEF WriteStatus, ScanTypes
      <3>2. mapFile' = mapFile
        BY <2>3 DEF WriteStatus
      <3> QED  BY <2>1, <3>1, <3>2, SignatureTypes DEF TimesPassed, SignedMap
    <2>4. CASE ScanSample \/ ScanEnd \/ ScanStops \/ UNCHANGED scanVars
      <3>1. clock' = clock /\ mapFile' = mapFile
        BY <2>4 DEF ScanSample, ScanEnd, ScanStops, scanVars
      <3> QED  BY <2>1, <3>1 DEF TimesPassed, SignedMap
    <2> QED  BY <2>2, <2>3, <2>4, ScannerSteps
  <1>2. CASE UNCHANGED scanVars
    <2>1. clock' = clock /\ mapFile' = mapFile
      BY <1>2 DEF scanVars
    <2>2. CASE OpenMap \/ FlushCall \/ FilterCount \/ FilterDecide \/ \E ts : Delivery(ts)
      <3>1. known' = known
        BY <2>2 DEF OpenMap, FlushCall, FilterCount, FilterDecide, Delivery, FilterCall
      <3>2. refresh'.mapSig[1] = 0 \/ refresh' = refresh
        BY <2>2, NothingSigned
           DEF OpenMap, FlushCall, FilterCount, FilterDecide, Delivery, FilterCall
      <3> QED  BY <2>1, <3>1, <3>2, SignatureTypes DEF TimesPassed, SignedMap
    <2>3. CASE CloseMap
      <3>1. known'.mapSig[1] = 0 /\ refresh'.mapSig[1] = 0 /\ known'.ranges = <<>>
        BY <2>3, NothingSigned DEF CloseMap
      <3>2. mapFile.mtime = 0 => mapFile.content = <<>>
        BY FilesByKind DEF TimesPassed
      <3> QED  BY <2>1, <3>1, <3>2, SignatureTypes DEF TimesPassed, SignedMap
    <2>4. CASE SignMap
      <3>1. known' = known /\ refresh'.mapSig = MapSignature
        BY <2>4 DEF SignMap, PluginTypes, Refreshes
      <3> QED  BY <2>1, <3>1, SignatureTypes DEF TimesPassed, SignedMap
    <2>5. CASE SignStatus
      <3>1. known' = known /\ refresh'.mapSig = refresh.mapSig
        BY <2>5 DEF SignStatus, PluginTypes, Refreshes
      <3> QED  BY <2>1, <3>1 DEF TimesPassed, SignedMap
    <2>6. CASE ReadMap
      <3>1. refresh' = refresh
        BY <2>6 DEF ReadMap
      <3>2. \/ known' = known
            \/ known'.mapSig = refresh.mapSig /\ known'.ranges = mapFile.content
        BY <2>6 DEF ReadMap, PluginTypes, Known
      <3> QED  BY <2>1, <3>1, <3>2 DEF TimesPassed, SignedMap
    <2>7. CASE ReadStatus
      <3>1. known'.mapSig = known.mapSig /\ known'.ranges = known.ranges
        BY <2>7 DEF ReadStatus, PluginTypes, Known
      <3>2. refresh'.mapSig[1] = 0
        BY <2>7, NothingSigned DEF ReadStatus
      <3> QED  BY <2>1, <3>1, <3>2, SignatureTypes DEF TimesPassed, SignedMap
    <2>8. CASE UNCHANGED pluginVars
      BY <2>1, <2>8 DEF pluginVars, TimesPassed, SignedMap
    <2> QED  BY <2>2, <2>3, <2>4, <2>5, <2>6, <2>7, <2>8, PluginSteps
  <1> QED  BY <1>1, <1>2, OneAtATime

-----------------------------------------------------------------------------
(***************************************************************************)
(* The refresh.  The maps get newer from the plugin's to the disk's to the *)
(* scanner's: what the plugin holds covers what was on disk when the last  *)
(* refresh began, in between only if it need not read the map again.       *)
(***************************************************************************)
Refreshing == {"signMap", "signStatus", "readMap", "readStatus"}

\* Where a refresh goes on, and that nothing is shown before Filter has been called.
CallOrder ==
    /\ pluginPC = "closed" => shown.how = "nothing"
    /\ pluginPC \in Refreshing =>
        /\ refresh.next \in {"idle", "count", "decide"}
        /\ refresh.next = "idle" => shown.how = "nothing"

\* What was shown raw is clear in the map the plugin holds.
RawIsClear == JustShown("raw") => ~DecisionMapContains(known.ranges, shown.ts)

\* The map the plugin holds is the one it wants after this refresh.
UpToDate == pluginPC \in {"signStatus", "readMap"} => refresh.mapSig = known.mapSig

NotOlder ==
    /\ Covers(scan.ranges, mapFile.content)
    /\ Covers(mapFile.content, atRefresh)
    /\ UpToDate => Covers(known.ranges, atRefresh)

LEMMA CoversIsPreorder ==
    /\ \A a : Covers(a, a)
    /\ \A a, b, c : Covers(a, b) /\ Covers(b, c) => Covers(a, c)
    /\ \A a : Covers(a, <<>>)
  BY DEF Covers, DecisionMapContains

LEMMA StartRefreshFields ==
    ASSUME NEW force, NEW ts, NEW next, StartRefresh(force, ts, next)
    PROVE  /\ pluginPC' = "signMap"
           /\ refresh' = [force |-> force, mapSig |-> <<0, 0>>, statusSig |-> <<0, 0>>,
                          ts |-> ts, next |-> next]
           /\ refresh'.next = next /\ refresh'.ts = ts
  BY DEF StartRefresh, NoRefresh

LEMMA CallOrderStep ==
    ASSUME PluginTypes, CallOrder, RawIsClear, [Next]_vars
    PROVE  CallOrder' /\ RawIsClear'
  <1>1. CASE OpenMap
    BY <1>1, StartRefreshFields DEF OpenMap, CallOrder, RawIsClear, JustShown, Refreshing
  <1>2. CASE CloseMap
    BY <1>2 DEF CloseMap, CallOrder, RawIsClear, JustShown, Refreshing, NothingShown
  <1>3. CASE FlushCall
    BY <1>3, StartRefreshFields DEF FlushCall, CallOrder, RawIsClear, JustShown, Refreshing,
       NothingShown
  <1>4. CASE \E ts : Delivery(ts)
    <2>1. PICK ts : FilterCall(ts)
      BY <1>4 DEF Delivery
    <2>2. CASE Discontinuity(ts)
      <3>1. StartRefresh(TRUE, ts, "count")
        BY <2>1, <2>2 DEF FilterCall
      <3>2. pluginPC' = "signMap" /\ refresh'.next = "count"
        BY <3>1, StartRefreshFields
      <3> QED  BY <3>2 DEF CallOrder, RawIsClear, JustShown, Refreshing
    <2>3. CASE ~Discontinuity(ts)
      BY <2>1, <2>3 DEF FilterCall, CallOrder, RawIsClear, JustShown, Refreshing
    <2> QED  BY <2>2, <2>3
  <1>5. CASE SignMap \/ SignStatus
    <2>1. refresh'.next = refresh.next
      BY <1>5 DEF SignMap, SignStatus, PluginTypes, Refreshes
    <2> QED  BY <1>5, <2>1
             DEF SignMap, SignStatus, CallOrder, RawIsClear, JustShown, Refreshing
  <1>6. CASE ReadMap
    BY <1>6 DEF ReadMap, CallOrder, RawIsClear, JustShown, Refreshing
  <1>7. CASE ReadStatus
    <2>1. pluginPC' \in {"idle", "count", "decide"} /\ (pluginPC' = "idle" => shown'.how = "nothing")
      BY <1>7 DEF ReadStatus, CallOrder, Refreshing
    <2> QED  BY <2>1 DEF CallOrder, RawIsClear, JustShown, Refreshing
  <1>8. CASE FilterCount
    <2>1. pluginPC' = "decide" \/ (pluginPC' = "signMap" /\ refresh'.next = "decide")
      BY <1>8, StartRefreshFields DEF FilterCount
    <2> QED  BY <2>1 DEF CallOrder, RawIsClear, JustShown, Refreshing
  <1>9. CASE FilterDecide
    <2>1. /\ pluginPC' = "idle" /\ known' = known
          /\ shown'.ts = refresh.ts
          /\ shown'.how = "raw" => ~DecisionMapContains(known.ranges, refresh.ts)
      BY <1>9 DEF FilterDecide
    <2> QED  BY <2>1 DEF CallOrder, RawIsClear, JustShown, Refreshing
  <1>10. CASE UNCHANGED pluginVars
    BY <1>10 DEF pluginVars, CallOrder, RawIsClear, JustShown
  <1> QED  BY <1>1, <1>2, <1>3, <1>4, <1>5, <1>6, <1>7, <1>8, <1>9, <1>10, PluginSteps

LEMMA NotOlderStep ==
    ASSUME ScanTypes, PluginTypes, TimesPassed, SignedMap, NotOlder, [Next]_vars
    PROVE  NotOlder'
  <1>1. CASE UNCHANGED pluginVars
    <2>1. known' = known /\ refresh' = refresh /\ pluginPC' = pluginPC /\ atRefresh' = atRefresh
      BY <1>1 DEF pluginVars
    <2>2. Covers(scan'.ranges, mapFile'.content) /\ Covers(mapFile'.content, atRefresh)
      <3>1. CASE ScanSample
        <4>1. Covers(scan'.ranges, scan.ranges) /\ mapFile' = mapFile
          BY <3>1, SampleAgreesBefore DEF ScanSample
        <4> QED  BY <4>1, CoversIsPreorder DEF NotOlder
      <3>2. CASE WriteDecisionMap
        <4>1. scan' = scan /\ mapFile'.content = scan.ranges
          BY <3>2 DEF WriteDecisionMap, File
        <4> QED  BY <4>1, CoversIsPreorder DEF NotOlder
      <3>3. CASE ScanEnd \/ WriteStatus \/ ScanStops \/ UNCHANGED scanVars
        <4>1. scan' = scan /\ mapFile' = mapFile
          BY <3>3 DEF ScanEnd, WriteStatus, ScanStops, scanVars
        <4> QED  BY <4>1 DEF NotOlder
      <3> QED  BY <3>1, <3>2, <3>3, ScannerSteps
    <2> QED  BY <2>1, <2>2 DEF NotOlder, UpToDate
  <1>2. CASE UNCHANGED scanVars
    <2>1. scan' = scan /\ mapFile' = mapFile
      BY <1>2 DEF scanVars
    <2>2. CASE CloseMap
      <3>1. atRefresh' = <<>>
        BY <2>2 DEF CloseMap
      <3> QED  BY <2>1, <3>1, CoversIsPreorder DEF NotOlder
    <2>3. CASE SignMap
      <3>1. /\ known' = known /\ atRefresh' = mapFile.content
            /\ pluginPC' = "signStatus" /\ refresh'.mapSig = MapSignature
        BY <2>3 DEF SignMap, PluginTypes, Refreshes
      <3>2. UpToDate' => known.ranges = mapFile.content
        BY <3>1, SignatureTypes DEF UpToDate, SignedMap
      <3> QED  BY <2>1, <3>1, <3>2, CoversIsPreorder DEF NotOlder
    <2>4. CASE SignStatus
      <3>1. /\ known' = known /\ atRefresh' = atRefresh /\ refresh'.mapSig = refresh.mapSig
            /\ pluginPC = "signStatus" /\ pluginPC' = "readMap"
        BY <2>4 DEF SignStatus, PluginTypes, Refreshes
      <3>2. UpToDate' => UpToDate
        BY <3>1 DEF UpToDate
      <3> QED  BY <2>1, <3>1, <3>2 DEF NotOlder
    <2>5. CASE ReadMap
      <3>1. pluginPC = "readMap" /\ atRefresh' = atRefresh
        BY <2>5 DEF ReadMap
      <3>2. CASE (refresh.force \/ refresh.mapSig # known.mapSig) /\ mapFile.there
        <4>1. known'.ranges = mapFile.content
          BY <2>5, <3>2 DEF ReadMap, PluginTypes, Known
        <4> QED  BY <2>1, <3>1, <4>1 DEF NotOlder
      <3>3. CASE refresh.mapSig = known.mapSig /\ known' = known
        BY <2>1, <3>1, <3>3 DEF NotOlder, UpToDate
      <3>4. CASE ~mapFile.there
        <4>1. mapFile.content = <<>>
          BY <3>4, FilesByKind
        <4>2. \A a : Covers(a, atRefresh)
          BY <4>1, CoversIsPreorder DEF NotOlder
        <4> QED  BY <2>1, <3>1, <4>2 DEF NotOlder
      <3>5. known' = known \/ ((refresh.force \/ refresh.mapSig # known.mapSig) /\ mapFile.there)
        BY <2>5 DEF ReadMap
      <3>6. ~(refresh.force \/ refresh.mapSig # known.mapSig) => known' = known
        BY <2>5 DEF ReadMap
      <3> QED  BY <3>2, <3>3, <3>4, <3>5, <3>6
    <2>6. CASE ReadStatus
      <3>1. known'.ranges = known.ranges /\ atRefresh' = atRefresh /\ pluginPC = "readStatus"
        BY <2>6 DEF ReadStatus, PluginTypes, Known
      <3>2. UpToDate
        BY <3>1 DEF UpToDate
      <3> QED  BY <2>1, <3>1, <3>2 DEF NotOlder
    <2>7. CASE OpenMap \/ FlushCall \/ FilterCount \/ FilterDecide \/ \E ts : Delivery(ts)
      <3>1. /\ known' = known /\ atRefresh' = atRefresh
            /\ pluginPC \notin {"signStatus", "readMap"}
        BY <2>7 DEF OpenMap, FlushCall, FilterCount, FilterDecide, Delivery, FilterCall
      <3>2. UpToDate
        BY <3>1 DEF UpToDate
      <3> QED  BY <2>1, <3>1, <3>2 DEF NotOlder
    <2>8. CASE UNCHANGED pluginVars
      BY <2>1, <2>8 DEF pluginVars, NotOlder, UpToDate
    <2> QED  BY <2>2, <2>3, <2>4, <2>5, <2>6, <2>7, <2>8, PluginSteps
  <1> QED  BY <1>1, <1>2, OneAtATime

Refreshed == TimesPassed /\ SignedMap /\ CallOrder /\ RawIsClear /\ NotOlder

LEMMA InitRefreshed == Init => Refreshed
  <1> SUFFICES ASSUME Init  PROVE Refreshed
    OBVIOUS
  <1>1. /\ mapFile = NoFile /\ clock = 1 /\ known = Unopened /\ refresh = NoRefresh
        /\ pluginPC = "closed" /\ shown = NothingShown /\ atRefresh = <<>>
        /\ scan.ranges = <<>>
    BY DEF Init, ScanInit, PluginInit
  <1>2. TimesPassed /\ SignedMap
    BY <1>1, NoFileIsEmpty, NothingSigned DEF TimesPassed, SignedMap
  <1>3. CallOrder /\ RawIsClear
    BY <1>1 DEF CallOrder, RawIsClear, JustShown, Refreshing, NothingShown
  <1>4. NotOlder
    BY <1>1, NoFileIsEmpty, CoversIsPreorder DEF NotOlder
  <1> QED  BY <1>2, <1>3, <1>4 DEF Refreshed

(***************************************************************************)
(* No picture is judged by a map older than the one on disk when the last  *)
(* refresh began, whatever the scanner writes between the four calls of    *)
(* the refresh, for every stride: if no two writes share a second.         *)
(***************************************************************************)
THEOREM RefreshMissesNothing ==
    ASSUME WritesApart
    PROVE  Spec => []NoStaleMap
  <1>1. Refreshed /\ TypeOK => NoStaleMap
    <2> SUFFICES ASSUME RawIsClear, NotOlder, PluginTypes, JustShown("raw")
                 PROVE  ~DecisionMapContains(atRefresh, shown.ts)
      BY TypeParts DEF NoStaleMap, Refreshed
    <2>1. shown.ts \in Nat /\ UpToDate
      BY DEF PluginTypes, JustShown, UpToDate
    <2> QED  BY <2>1 DEF RawIsClear, NotOlder, Covers
  <1>2. Refreshed /\ TypeOK /\ [Next]_vars => Refreshed'
    BY WritesApart, TypeParts, SignedMapStep, CallOrderStep, NotOlderStep DEF Refreshed
  <1> QED  BY <1>1, <1>2, InitRefreshed, PlaybackTypes, PTL DEF Spec

-----------------------------------------------------------------------------
(***************************************************************************)
(* Playback under the guard.  Only the guard's playback is ordered: each   *)
(* picture is the next one, and no step between two is a discontinuity.    *)
(***************************************************************************)

\* The time of some pictures.
Steps(n) == n * PictureStep

LEMMA StepsGrow ==
    ASSUME NEW n \in Nat
    PROVE  /\ Steps(n) \in Nat
           /\ Steps(n + 1) = Steps(n) + PictureStep
           /\ \A m \in Nat : n <= m => Steps(n) <= Steps(m)
  <1>1. Steps(n) \in Nat /\ Steps(n + 1) = Steps(n) + PictureStep
    BY Numbers DEF Steps
  <1>2. ASSUME NEW m \in Nat, n <= m
        PROVE  Steps(n) <= Steps(m)
    <2>1. PICK k \in Nat : m = n + k
      <3>1. m - n \in Nat /\ m = n + (m - n)
        BY <1>2
      <3> QED  BY <3>1
    <2>2. m * PictureStep = n * PictureStep + k * PictureStep
      BY <2>1, Numbers
    <2>3. k * PictureStep >= 0 /\ n * PictureStep \in Nat /\ k * PictureStep \in Nat
      BY Numbers
    <2> QED  BY <2>2, <2>3 DEF Steps
  <1> QED  BY <1>1, <1>2

\* A step from one picture to the next is none the plugin takes for a seek.
StepsAreNoSeeks == PictureStep <= SeekThreshold

NotYetPlaying ==
    guardPC \in {"buffer", "launch"} =>
        player = "off" /\ pluginPC = "closed" /\ lastTs = NoTime /\ frames = 0 /\ advanced = 0

\* In the guard's playback, the picture in Filter's hands and the picture shown last.
InOrder ==
    guarded =>
        /\ pluginPC \in Refreshing => refresh.next # "count"
        /\ pluginPC = "count" => refresh.ts = NextTime
        /\ pluginPC = "decide" \/ (pluginPC \in Refreshing /\ refresh.next = "decide")
              => refresh.ts = lastTs
        /\ shown.how # "nothing" => shown.ts <= lastTs

GuardedPlay == (guarded <=> guardPC # "none") /\ NotYetPlaying /\ InOrder

\* How far playback has got, the picture in Filter's hands included.
Position == IF pluginPC = "count" THEN refresh.ts ELSE lastTs

LEMMA NextTimeIsLater ==
    ASSUME PluginTypes
    PROVE  /\ lastTs \in Int /\ lastTs >= -1 /\ Position \in Int /\ Position >= -1
           /\ NextTime \in Nat /\ lastTs <= NextTime /\ NextTime <= lastTs + PictureStep
  <1>1. lastTs \in Int /\ lastTs >= -1 /\ refresh.ts \in Nat
    BY DEF PluginTypes, Refreshes, NoTime
  <1>2. NextTime \in Nat /\ lastTs <= NextTime /\ NextTime <= lastTs + PictureStep
    BY <1>1, Numbers DEF NextTime, NoTime
  <1> QED  BY <1>1, <1>2 DEF Position

LEMMA NextTimeIsNoSeek ==
    ASSUME StepsAreNoSeeks, PluginTypes
    PROVE  ~Discontinuity(NextTime)
  <1>1. NextTime - lastTs <= SeekThreshold /\ ~(NextTime < lastTs)
    BY NextTimeIsLater, Numbers DEF StepsAreNoSeeks
  <1>2. lastTs \in Int /\ NextTime \in Int
    BY NextTimeIsLater
  <1> QED  BY <1>1, <1>2, Numbers DEF Discontinuity

\* In the guard's playback every delivery goes straight to the count.
LEMMA GuardedDelivery ==
    ASSUME StepsAreNoSeeks, PluginTypes, guarded, NEW ts, Delivery(ts)
    PROVE  /\ pluginPC = "idle" /\ pluginPC' = "count"
           /\ refresh'.ts = NextTime
           /\ UNCHANGED <<frames, lastTs, known, shown, atRefresh>>
  <1>1. FilterCall(NextTime) /\ ~Discontinuity(NextTime)
    BY NextTimeIsNoSeek DEF Delivery
  <1>2. refresh' = [NoRefresh EXCEPT !.ts = NextTime]
    BY <1>1 DEF FilterCall
  <1> QED  BY <1>1, <1>2 DEF FilterCall, NoRefresh

LEMMA GuardedStays ==
    ASSUME [Next]_vars
    PROVE  guarded' = guarded
  BY DEF Next, GuardStep, GuardBuffered, GuardLaunch, GuardConnect, GuardReadStatus, GuardLeave,
         GuardGetTime, GuardGetState, GuardToggle, GuardCheckScanner, UserStarts, PluginOpen,
         PluginFilter, PluginFlush, PluginRuns, PlayerEnds, ScannerRuns, Ended, vars

LEMMA NotYetPlayingStep ==
    ASSUME PluginTypes, GuardTypes, GuardedPlay, [Next]_vars
    PROVE  (guarded <=> guardPC # "none")' /\ NotYetPlaying'
  <1>1. CASE GuardStep
    <2>1. guardPC # "none" /\ guardPC' # "none" /\ guarded' = guarded
      BY <1>1 DEF GuardStep, GuardBuffered, GuardLaunch, GuardConnect, GuardReadStatus,
         GuardLeave, GuardGetTime, GuardGetState, GuardToggle, GuardCheckScanner
    <2>2. guardPC' \in {"buffer", "launch"} => GuardBuffered
      BY <1>1 DEF GuardStep, GuardBuffered, GuardLaunch, GuardConnect, GuardReadStatus,
         GuardLeave, GuardGetTime, GuardGetState, GuardToggle, GuardCheckScanner
    <2>3. GuardBuffered => NotYetPlaying'
      BY DEF GuardBuffered, GuardedPlay, NotYetPlaying, pluginVars, playerVars
    <2> QED  BY <2>1, <2>2, <2>3 DEF GuardedPlay, NotYetPlaying
  <1>2. CASE UserStarts
    BY <1>2 DEF UserStarts, GuardedPlay, NotYetPlaying, guardVars
  <1>3. CASE PluginOpen \/ PluginFilter \/ PlayerEnds
    <2>1. player # "off" /\ guardPC' = guardPC /\ guarded' = guarded
      BY <1>3 DEF PluginOpen, PluginFilter, PlayerEnds, guardVars
    <2> QED  BY <2>1 DEF GuardedPlay, NotYetPlaying
  <1>4. CASE PluginFlush
    BY <1>4 DEF PluginFlush, GuardedPlay, NotYetPlaying, guardVars
  <1>5. CASE PluginRuns
    <2>1. pluginPC # "closed" /\ guardPC' = guardPC /\ guarded' = guarded
      BY <1>5 DEF PluginRuns, PluginStep, RefreshStep, SignMap, SignStatus, ReadMap, ReadStatus,
         FilterCount, FilterDecide, guardVars
    <2> QED  BY <2>1 DEF GuardedPlay, NotYetPlaying
  <1>6. CASE ScannerRuns \/ Ended \/ UNCHANGED vars
    BY <1>6 DEF ScannerRuns, Ended, vars, guardVars, playerVars, pluginVars, GuardedPlay,
       NotYetPlaying
  <1> QED  BY <1>1, <1>2, <1>3, <1>4, <1>5, <1>6 DEF Next

LEMMA InOrderStep ==
    ASSUME StepsAreNoSeeks, PluginTypes, CallOrder, GuardedPlay, [Next]_vars
    PROVE  InOrder'
  <1> SUFFICES ASSUME guarded, guarded'  PROVE InOrder'
    BY GuardedStays DEF InOrder
  <1>1. CASE OpenMap
    <2>1. pluginPC' = "signMap" /\ refresh'.next = "idle" /\ lastTs' = lastTs /\ shown' = shown
      BY <1>1, StartRefreshFields DEF OpenMap
    <2> QED  BY <2>1 DEF InOrder, GuardedPlay, Refreshing
  <1>2. CASE CloseMap
    BY <1>2 DEF CloseMap, InOrder, Refreshing, NothingShown
  <1>3. CASE \E ts : Delivery(ts)
    <2>1. PICK ts : Delivery(ts)
      BY <1>3
    <2>2. /\ pluginPC' = "count" /\ refresh'.ts = NextTime /\ lastTs' = lastTs /\ shown' = shown
      BY <2>1, GuardedDelivery
    <2>3. NextTime' = NextTime
      BY <2>2 DEF NextTime
    <2> QED  BY <2>2, <2>3 DEF InOrder, GuardedPlay, Refreshing
  <1>4. CASE SignMap \/ SignStatus \/ ReadMap
    <2>1. /\ pluginPC \in Refreshing /\ pluginPC' \in Refreshing
          /\ pluginPC' \notin {"count", "decide"}
          /\ refresh'.next = refresh.next /\ refresh'.ts = refresh.ts
          /\ lastTs' = lastTs /\ shown' = shown
      BY <1>4 DEF SignMap, SignStatus, ReadMap, Refreshing, PluginTypes, Refreshes
    <2> QED  BY <2>1 DEF InOrder, GuardedPlay
  <1>5. CASE ReadStatus
    <2>1. /\ pluginPC \in Refreshing /\ pluginPC' = refresh.next
          /\ pluginPC' \notin Refreshing
          /\ refresh'.ts = refresh.ts
          /\ lastTs' = lastTs /\ shown' = shown
      BY <1>5 DEF ReadStatus, Refreshing, CallOrder, NoRefresh
    <2>2. pluginPC' # "count" /\ (pluginPC' = "decide" => refresh.ts = lastTs)
      BY <2>1 DEF InOrder, GuardedPlay
    <2> QED  BY <2>1, <2>2 DEF InOrder, GuardedPlay
  <1>6. CASE FilterCount
    <2>1. /\ pluginPC' = "decide" \/ (pluginPC' = "signMap" /\ refresh'.next = "decide")
          /\ refresh'.ts = refresh.ts /\ lastTs' = refresh.ts /\ shown' = shown
      BY <1>6, StartRefreshFields DEF FilterCount
    <2>2. lastTs <= refresh.ts
      BY <1>6, NextTimeIsLater DEF FilterCount, GuardedPlay, InOrder
    <2>3. shown.how # "nothing" => shown.ts <= refresh.ts
      <3>1. shown.ts \in Int /\ lastTs \in Int /\ refresh.ts \in Int
        BY DEF PluginTypes, Refreshes, NoTime
      <3> QED  BY <2>2, <3>1 DEF GuardedPlay, InOrder
    <2> QED  BY <2>1, <2>3 DEF InOrder, Refreshing
  <1>7. CASE FilterDecide
    <2>1. /\ pluginPC = "decide" /\ pluginPC' = "idle"
          /\ shown'.ts = refresh.ts /\ lastTs' = lastTs
      BY <1>7 DEF FilterDecide
    <2>2. refresh.ts = lastTs /\ lastTs \in Int
      BY <2>1, NextTimeIsLater DEF InOrder, GuardedPlay
    <2> QED  BY <2>1, <2>2 DEF InOrder, Refreshing
  <1>8. CASE UNCHANGED pluginVars
    BY <1>8 DEF pluginVars, InOrder, GuardedPlay, NextTime
  <1> QED  BY <1>1, <1>2, <1>3, <1>4, <1>5, <1>6, <1>7, <1>8, PluginSteps

LEMMA PositionStep ==
    ASSUME StepsAreNoSeeks, PluginTypes, CallOrder, GuardedPlay, guarded, [Next]_vars
    PROVE  \/ Position' <= Position
           \/ PluginFilter /\ Position' <= Position + PictureStep
  <1>1. Position \in Int /\ lastTs \in Int /\ Position >= -1 /\ PictureStep \in Nat
    BY NextTimeIsLater, Numbers
  <1>2. CASE PluginFilter
    <2>1. PICK ts : Delivery(ts)
      <3>1. PICK ts \in {NextTime} \cap Times : FilterCall(ts)
        BY <1>2 DEF PluginFilter
      <3>2. ts \in Nat /\ ts = NextTime
        BY <3>1, NextTimeIsLater
      <3> QED  BY <3>1, <3>2 DEF Delivery
    <2>2. Position = lastTs /\ Position' = NextTime
      BY <2>1, GuardedDelivery DEF Position
    <2> QED  BY <1>1, <1>2, <2>2, NextTimeIsLater
  <1>3. CASE GuardStep \/ UserStarts \/ ScannerRuns \/ Ended \/ UNCHANGED vars
    <2>1. UNCHANGED pluginVars
      BY <1>3 DEF GuardStep, GuardBuffered, GuardLaunch, GuardConnect, GuardReadStatus,
         GuardLeave, GuardGetTime, GuardGetState, GuardToggle, GuardCheckScanner, UserStarts,
         ScannerRuns, Ended, vars, pluginVars
    <2>2. Position' = Position
      BY <2>1 DEF pluginVars, Position
    <2> QED  BY <1>1, <2>2
  <1>4. CASE PluginOpen
    <2>1. OpenMap \/ UNCHANGED pluginVars
      BY <1>4 DEF PluginOpen
    <2>2. OpenMap => Position' = Position
      BY DEF OpenMap, StartRefresh, Position
    <2>3. UNCHANGED pluginVars => Position' = Position
      BY DEF pluginVars, Position
    <2> QED  BY <1>1, <2>1, <2>2, <2>3
  <1>5. CASE PlayerEnds
    <2>1. CloseMap \/ UNCHANGED pluginVars
      BY <1>5 DEF PlayerEnds
    <2>2. CloseMap => Position' = -1
      BY DEF CloseMap, Position, NoTime
    <2>3. UNCHANGED pluginVars => Position' = Position
      BY DEF pluginVars, Position
    <2> QED  BY <1>1, <2>1, <2>2, <2>3
  <1>6. CASE PluginRuns
    <2>1. CASE SignMap \/ SignStatus \/ ReadMap \/ FilterDecide
      BY <1>1, <2>1 DEF SignMap, SignStatus, ReadMap, FilterDecide, Position
    <2>2. CASE ReadStatus
      <3>1. /\ pluginPC = "readStatus" /\ pluginPC' = refresh.next /\ lastTs' = lastTs
            /\ refresh.next # "count"
        BY <2>2 DEF ReadStatus, GuardedPlay, InOrder, Refreshing
      <3> QED  BY <1>1, <3>1 DEF Position
    <2>3. CASE FilterCount
      <3>1. pluginPC = "count" /\ pluginPC' # "count" /\ lastTs' = refresh.ts
        BY <2>3 DEF FilterCount, StartRefresh
      <3> QED  BY <1>1, <3>1 DEF Position
    <2> QED  BY <1>6, <2>1, <2>2, <2>3 DEF PluginRuns, PluginStep, RefreshStep
  <1>7. CASE PluginFlush
    BY <1>7 DEF PluginFlush
  <1> QED  BY <1>2, <1>3, <1>4, <1>5, <1>6, <1>7 DEF Next

\* What the status says only gets more: a later status vouches for what an earlier one did.
LEMMA StatusProgress ==
    ASSUME ScanTypes, Published, [Next]_vars, statusFile.there
    PROVE  /\ statusFile'.there
           /\ statusFile.content.done => statusFile'.content.done
           /\ ~statusFile'.content.done =>
                statusFile.content.scanned <= statusFile'.content.scanned
  <1>1. statusFile.content.scanned \in Nat /\ statusFile.content.done \in BOOLEAN
    BY FilesByKind DEF Status
  <1>2. CASE WriteStatus
    <2>1. scanPC # "finished"
      BY <1>2 DEF WriteStatus, Writing, WriteOrder
    <2>2. ~statusFile.content.done
      BY <2>1 DEF Published, DoneIsLast
    <2>3. statusFile'.there /\ statusFile'.content = CurrentStatus
      BY <1>2 DEF WriteStatus, File
    <2>4. CurrentStatus.scanned \in {Duration, LastScanned}
      BY DEF CurrentStatus
    <2>5. statusFile.content.scanned <= LastScanned /\ statusFile.content.scanned <= Duration
      BY <2>2 DEF Published, BehindScanner
    <2> QED  BY <2>2, <2>3, <2>4, <2>5
  <1>3. CASE \/ ScanSample \/ ScanEnd \/ WriteDecisionMap \/ ScanStops \/ UNCHANGED scanVars
    <2>1. statusFile' = statusFile
      BY <1>3 DEF ScanSample, ScanEnd, WriteDecisionMap, ScanStops, scanVars
    <2> QED  BY <1>1, <2>1
  <1> QED  BY <1>2, <1>3, ScannerSteps

-----------------------------------------------------------------------------
(***************************************************************************)
(* How far playback may be behind the watermark.  A round of the guard     *)
(* looks at the status, asks for the time (which is rounded down, and one  *)
(* picture may be in Filter's hands), and pauses if the two are too close; *)
(* MaxAdvance pictures are shown before the time is asked for, and as many *)
(* before the toggle.                                                      *)
(***************************************************************************)
Rounds == 1 + 2 * MaxAdvance

\* A watermark high enough for what the guard cannot see.
WatermarkHolds == Target >= Second + Steps(Rounds)

\* Playback has come up to the watermark by no more than the rounding and k pictures.
Within(k) ==
    \/ statusFile.content.done
    \/ Position + Target < statusFile.content.scanned + Second + Steps(k)

\* How many pictures playback may have got ahead at this point of a round.
Lead == IF guardPC \in {"state", "toggle"} THEN 1 + MaxAdvance + advanced ELSE 1 + advanced

Buffered ==
    /\ guardPC = "launch" \/ Watched => statusFile.there
    /\ guardPC = "launch" => statusFile.content.done \/ statusFile.content.scanned >= Target

InReach ==
    Watched =>
        /\ advanced <= MaxAdvance
        /\ player # "off"
        /\ Within(Rounds)
        /\ player = "playing" => Within(Lead)

\* What the guard knows is no more than what is on disk, and how old its time may be.
Informed ==
    /\ guardPC \in {"time", "state", "toggle"} /\ ~statusFile.content.done =>
           ~view.done /\ view.scanned <= statusFile.content.scanned
    /\ guardPC \in {"state", "toggle"} =>
           Position < view.playback + Second + Steps(1 + advanced)
    /\ guardPC = "toggle" /\ player # "ended" => (player = "paused") # ShouldPause

KeptBehind == Buffered /\ InReach /\ Informed

LEMMA WithinStays ==
    ASSUME ScanTypes, Published, PluginTypes, PluginTypes', [Next]_vars, statusFile.there,
           NEW k \in Nat, NEW m \in Nat, Within(k),
           \/ Position' <= Position /\ k <= m
           \/ Position' <= Position + PictureStep /\ k + 1 <= m
    PROVE  Within(m)'
  <1>1. CASE statusFile'.content.done
    BY <1>1 DEF Within
  <1>2. CASE ~statusFile'.content.done
    <2>1. /\ statusFile.content.scanned <= statusFile'.content.scanned
          /\ ~statusFile.content.done /\ statusFile'.there
      BY <1>2, StatusProgress
    <2>2. /\ statusFile.content.scanned \in Nat /\ statusFile'.content.scanned \in Nat
      <3>1. ScanTypes'
        BY ScanTypesStep
      <3>2. statusFile'.content \in Status
        <4>1. CASE statusFile' = NoFile
          BY <2>1, <4>1, NoFileIsEmpty
        <4>2. CASE statusFile' # NoFile
          BY <3>1, <4>2 DEF ScanTypes
        <4> QED  BY <4>1, <4>2
      <3> QED  BY <3>2, FilesByKind DEF Status
    <2>3. Position + Target < statusFile.content.scanned + Second + Steps(k)
      BY <2>1 DEF Within
    <2>4. Position \in Int /\ Position' \in Int
      <3>1. Position' \in Int
        BY DEF PluginTypes, Refreshes, NoTime, Position
      <3> QED  BY <3>1, NextTimeIsLater
    <2>5. /\ Steps(k) \in Nat /\ Steps(m) \in Nat
          /\ k <= m => Steps(k) <= Steps(m)
          /\ k + 1 <= m => Steps(k) + PictureStep <= Steps(m)
      <3>1. Steps(k + 1) = Steps(k) + PictureStep /\ k + 1 \in Nat
        BY StepsGrow
      <3> QED  BY <3>1, StepsGrow
    <2>6. Position' + Target < statusFile'.content.scanned + Second + Steps(m)
      BY <2>1, <2>2, <2>3, <2>4, <2>5, Numbers
    <2> QED  BY <2>6 DEF Within, Steps
  <1> QED  BY <1>1, <1>2

\* The premises every step of the guarded playback starts from.
Premises ==
    /\ ScanTypes /\ PluginTypes /\ GuardTypes
    /\ Published /\ CallOrder /\ GuardedPlay /\ KeptBehind

LEMMA LeadIsBounded ==
    ASSUME Premises, Watched
    PROVE  /\ Lead \in Nat /\ Rounds \in Nat /\ Lead <= Rounds
           /\ advanced \in Nat /\ MaxAdvance \in Nat /\ advanced <= MaxAdvance
           /\ 1 + advanced <= Lead
           /\ statusFile.there /\ guarded
           /\ player # "off" /\ Within(Rounds) /\ (player = "playing" => Within(Lead))
  <1>1. advanced \in Nat /\ MaxAdvance \in Nat /\ advanced <= MaxAdvance
    BY Numbers DEF Premises, GuardTypes, KeptBehind, InReach
  <1>2. statusFile.there /\ guarded
    BY DEF Premises, KeptBehind, Buffered, GuardedPlay, Watched
  <1>3. Lead \in Nat /\ Rounds \in Nat /\ Lead <= Rounds /\ 1 + advanced <= Lead
    BY <1>1 DEF Lead, Rounds
  <1> QED  BY <1>1, <1>2, <1>3 DEF Premises, KeptBehind, InReach

\* A step that moves neither the guard nor the player, nor playback further.
LEMMA QuietStep ==
    ASSUME Premises, PluginTypes', [Next]_vars,
           UNCHANGED <<guardPC, view, player, advanced>>,
           guarded => Position' <= Position
    PROVE  KeptBehind'
  <1>1. (guardPC = "launch" \/ Watched) => guarded /\ statusFile.there
    BY DEF Premises, KeptBehind, Buffered, GuardedPlay, Watched
  <1>2. statusFile.there =>
          /\ statusFile'.there
          /\ statusFile.content.done => statusFile'.content.done
          /\ ~statusFile'.content.done =>
                statusFile.content.scanned <= statusFile'.content.scanned
    BY StatusProgress DEF Premises
  <1>3. statusFile.there => statusFile.content.scanned \in Nat /\ statusFile'.content.scanned \in Nat
    <2>1. ScanTypes'
      BY ScanTypesStep DEF Premises
    <2>2. statusFile'.there => statusFile'.content \in Status
      <3>1. CASE statusFile' = NoFile
        BY <3>1, NoFileIsEmpty
      <3>2. CASE statusFile' # NoFile
        BY <2>1, <3>2 DEF ScanTypes
      <3> QED  BY <3>1, <3>2
    <2> QED  BY <1>2, <2>2, FilesByKind DEF Premises, Status
  <1>4. Watched' = Watched /\ Lead' = Lead /\ ShouldPause' = ShouldPause
    BY DEF Watched, Lead, ShouldPause
  <1>5. Buffered'
    <2>1. (guardPC = "launch")' \/ Watched' => guardPC = "launch" \/ Watched
      BY <1>4
    <2>2. ASSUME guardPC = "launch", ~statusFile'.content.done
          PROVE  statusFile'.content.scanned >= Target
      <3>1. statusFile.content.scanned >= Target
        BY <1>1, <1>2, <2>2 DEF Premises, KeptBehind, Buffered
      <3> QED  BY <1>1, <1>2, <1>3, <2>2, <3>1, Numbers
    <2> QED  BY <1>1, <1>2, <1>4, <2>1, <2>2 DEF Buffered
  <1>6. InReach'
    <2> SUFFICES ASSUME Watched
                 PROVE  /\ advanced <= MaxAdvance /\ player # "off"
                        /\ Within(Rounds)'
                        /\ player = "playing" => Within(Lead)'
      BY <1>4 DEF InReach
    <2>1. Position' <= Position
      BY <1>1
    <2>2. Rounds \in Nat /\ Lead \in Nat /\ Within(Rounds) /\ (player = "playing" => Within(Lead))
      BY LeadIsBounded
    <2>3. Within(Rounds)'
      BY <1>1, <2>1, <2>2, WithinStays DEF Premises
    <2>4. ASSUME player = "playing"  PROVE Within(Lead)'
      <3> PICK k : k = Lead
        OBVIOUS
      <3>1. k \in Nat /\ Within(k)
        BY <2>2, <2>4
      <3>2. Within(k)'
        BY <1>1, <2>1, <3>1, WithinStays DEF Premises
      <3> QED  BY <1>4, <3>2 DEF Within
    <2> QED  BY <2>3, <2>4, LeadIsBounded
  <1>7. Informed'
    <2>1. ASSUME guardPC \in {"time", "state", "toggle"}, ~statusFile'.content.done
          PROVE  ~view.done /\ view.scanned <= statusFile'.content.scanned
      <3>1. Watched
        BY <2>1 DEF Watched
      <3>2. ~view.done /\ view.scanned <= statusFile.content.scanned
        BY <1>1, <1>2, <2>1, <3>1 DEF Premises, KeptBehind, Informed
      <3>3. view.scanned \in Nat
        BY DEF Premises, GuardTypes
      <3> QED  BY <1>1, <1>2, <1>3, <2>1, <3>1, <3>2, <3>3
    <2>2. ASSUME guardPC \in {"state", "toggle"}
          PROVE  Position' < view.playback + Second + Steps(1 + advanced)
      <3>1. Watched /\ Position' <= Position
        BY <1>1, <2>2 DEF Watched
      <3>2. Position < view.playback + Second + Steps(1 + advanced)
        BY <2>2 DEF Premises, KeptBehind, Informed
      <3>3. /\ Position \in Int /\ Position' \in Int /\ view.playback \in Nat
            /\ Steps(1 + advanced) \in Nat
        <4>1. Position' \in Int
          BY DEF PluginTypes, Refreshes, NoTime, Position
        <4>2. 1 + advanced \in Nat /\ view.playback \in Nat
          BY DEF Premises, GuardTypes
        <4> QED  BY <4>1, <4>2, NextTimeIsLater, StepsGrow DEF Premises
      <3> QED  BY <3>1, <3>2, <3>3, Numbers
    <2> QED  BY <1>4, <2>1, <2>2 DEF Informed, Premises, KeptBehind, Steps
  <1> QED  BY <1>5, <1>6, <1>7 DEF KeptBehind

\* Where the guard lets VLC play, playback is within the pictures shown since it asked.
LEMMA ResumeIsSafe ==
    ASSUME Premises, guardPC \in {"state", "toggle"}, ~ShouldPause
    PROVE  Within(1 + advanced)
  <1>1. CASE statusFile.content.done
    BY <1>1 DEF Within
  <1>2. CASE ~statusFile.content.done
    <2>1. statusFile.there
      BY DEF Premises, KeptBehind, Buffered, Watched
    <2>2. ~view.done /\ view.scanned <= statusFile.content.scanned
      BY <1>2 DEF Premises, KeptBehind, Informed
    <2>3. ~(view.scanned - view.playback < Target)
      BY <2>2 DEF ShouldPause
    <2>4. Position < view.playback + Second + Steps(1 + advanced)
      BY DEF Premises, KeptBehind, Informed
    <2>5. /\ Position \in Int /\ Steps(1 + advanced) \in Nat
          /\ view.playback \in Nat /\ view.scanned \in Nat
          /\ statusFile.content.scanned \in Nat
      <3>1. 1 + advanced \in Nat /\ view.playback \in Nat /\ view.scanned \in Nat
        BY DEF Premises, GuardTypes
      <3>2. statusFile.content.scanned \in Nat
        BY <2>1, FilesByKind DEF Premises, Status
      <3> QED  BY <3>1, <3>2, NextTimeIsLater, StepsGrow DEF Premises
    <2>6. Position + Target < statusFile.content.scanned + Second + Steps(1 + advanced)
      BY <2>2, <2>3, <2>4, <2>5, Numbers
    <2> QED  BY <2>6 DEF Within
  <1> QED  BY <1>1, <1>2

\* The guard's own steps move neither playback nor the status.
LEMMA GuardMovesNothing ==
    ASSUME GuardStep
    PROVE  /\ statusFile' = statusFile /\ Position' = Position /\ lastTs' = lastTs
           /\ guarded' = guarded
           /\ \A k : Within(k)' <=> Within(k)
  <1>1. UNCHANGED <<statusFile, pluginVars, guarded>>
    BY DEF GuardStep, GuardBuffered, GuardLaunch, GuardConnect, GuardReadStatus, GuardLeave,
           GuardGetTime, GuardGetState, GuardToggle, GuardCheckScanner, scanVars, pluginVars
  <1>2. Position' = Position /\ lastTs' = lastTs
    BY <1>1 DEF pluginVars, Position
  <1> QED  BY <1>1, <1>2 DEF Within, Steps

LEMMA GuardKeepsBehind ==
    ASSUME WatermarkHolds, Premises, GuardStep
    PROVE  KeptBehind'
  <1>1. /\ statusFile' = statusFile /\ Position' = Position /\ lastTs' = lastTs
        /\ \A k : Within(k)' <=> Within(k)
    BY GuardMovesNothing
  <1>2. Target > 0
    <2>1. Steps(Rounds) \in Nat
      BY Numbers, StepsGrow DEF Rounds
    <2> QED  BY <2>1, Numbers DEF WatermarkHolds
  <1>3. advanced \in Nat /\ MaxAdvance \in Nat
    BY Numbers DEF Premises, GuardTypes
  <1>4. CASE GuardBuffered
    <2>1. guardPC' = "launch"
      BY <1>4 DEF GuardBuffered
    <2>2. statusFile.there /\ (statusFile.content.done \/ statusFile.content.scanned >= Target)
      BY <1>2, <1>4, Numbers DEF GuardBuffered, ReadStatusFile
    <2> QED  BY <1>1, <2>1, <2>2 DEF KeptBehind, Buffered, InReach, Informed, Watched
  <1>5. CASE GuardLaunch
    <2>1. /\ guardPC = "launch" /\ guardPC' = "connect" /\ player' = "playing"
          /\ advanced' = advanced
      BY <1>5 DEF GuardLaunch
    <2>2. /\ statusFile.there
          /\ statusFile.content.done \/ statusFile.content.scanned >= Target
      BY <2>1 DEF Premises, KeptBehind, Buffered
    <2>3. lastTs = NoTime /\ advanced = 0 /\ pluginPC = "closed"
      BY <2>1 DEF Premises, GuardedPlay, NotYetPlaying
    <2>4. Position = -1
      BY <2>3 DEF Position, NoTime
    <2>5. ASSUME NEW k \in Nat
          PROVE  Within(k)
      <3>1. statusFile.content.scanned \in Nat /\ Steps(k) \in Nat
        BY <2>2, StepsGrow, FilesByKind DEF Premises, Status
      <3> QED  BY <2>2, <2>4, <3>1, Numbers DEF Within
    <2>6. Lead' = 1 /\ Rounds \in Nat
      BY <1>3, <2>1, <2>3 DEF Lead, Rounds
    <2>7. Within(Rounds)' /\ Within(Lead)'
      <3>1. Within(Rounds)' /\ Within(1)'
        BY <1>1, <2>5, <2>6 DEF Rounds
      <3> QED  BY <2>6, <3>1 DEF Within
    <2> QED  BY <1>1, <1>3, <2>1, <2>2, <2>3, <2>7
             DEF KeptBehind, Buffered, InReach, Informed, Watched
  <1>6. CASE GuardConnect \/ GuardLeave \/ GuardCheckScanner \/ GuardReadStatus
    <2>1. /\ guardPC \in {"connect", "status", "time", "state", "toggle", "check"}
          /\ guardPC' \notin {"launch", "state", "toggle"}
          /\ player' = player /\ advanced' = advanced
          /\ Watched' => guardPC \notin {"state", "toggle"}
          /\ guardPC' = "time" => guardPC = "status" /\ GuardReadStatus
      BY <1>6 DEF GuardConnect, GuardLeave, GuardCheckScanner, GuardReadStatus, playerVars, Watched
    <2>2. Watched
      BY <2>1 DEF Watched
    <2>3. Buffered'
      BY <1>1, <2>1, <2>2 DEF Premises, KeptBehind, Buffered
    <2>4. InReach'
      <3>1. Watched' => Lead' = Lead
        BY <2>1 DEF Lead
      <3>2. Within(Lead)' <=> Within(Lead')
        BY <1>1 DEF Within, Steps
      <3>3. ASSUME Watched', player = "playing"
            PROVE  Within(Lead)'
        <4>1. Within(Lead) /\ Lead' = Lead
          BY <2>2, <3>1, <3>3, LeadIsBounded
        <4> QED  BY <1>1, <4>1 DEF Within
      <3> QED  BY <1>1, <2>1, <2>2, <3>3, LeadIsBounded DEF InReach, Rounds
    <2>5. Informed'
      <3>1. ASSUME guardPC' = "time"
            PROVE  /\ view'.scanned = statusFile.content.scanned
                   /\ view'.done = statusFile.content.done
                   /\ statusFile.content.scanned \in Nat
        <4>1. statusFile.there /\ GuardReadStatus
          BY <2>1, <2>2, <3>1, LeadIsBounded
        <4> QED  BY <4>1, FilesByKind
                 DEF GuardReadStatus, ReadStatusFile, Premises, GuardTypes, Status
      <3> QED  BY <1>1, <2>1, <3>1 DEF Informed
    <2> QED  BY <2>3, <2>4, <2>5 DEF KeptBehind
  <1>7. CASE GuardGetTime /\ guardPC' = "status"
    <2>1. guardPC = "time" /\ player' = player /\ advanced' = advanced /\ Watched
      BY <1>7 DEF GuardGetTime, Watched
    <2>2. Lead' = Lead
      BY <1>7, <2>1 DEF Lead
    <2>3. player = "playing" => Within(Lead)'
      <3>1. player = "playing" => Within(Lead)
        BY <2>1, LeadIsBounded
      <3> QED  BY <1>1, <2>2, <3>1 DEF Within
    <2>4. InReach'
      BY <1>1, <2>1, <2>3, LeadIsBounded DEF InReach, Rounds
    <2> QED  BY <1>1, <1>7, <2>1, <2>4, LeadIsBounded DEF KeptBehind, Buffered, Informed
  <1>8. CASE GuardGetTime /\ guardPC' = "state"
    <2>1. /\ guardPC = "time" /\ player' = player /\ advanced' = 0 /\ Watched
          /\ view' = [view EXCEPT !.playback = PlaybackMs]
      BY <1>8 DEF GuardGetTime, Watched
    <2>2. /\ view'.playback = PlaybackMs /\ view'.done = view.done
          /\ view'.scanned = view.scanned
      BY <2>1 DEF Premises, GuardTypes
    <2>3. Lead = 1 + advanced /\ Lead' = 1 + MaxAdvance /\ Lead <= 1 + MaxAdvance
      BY <1>3, <1>8, <2>1, LeadIsBounded DEF Lead
    <2>4. ASSUME player = "playing"  PROVE Within(Lead)'
      <3>1. Within(Lead) /\ Lead \in Nat /\ statusFile.there
        BY <2>1, <2>4, LeadIsBounded
      <3>2. Within(1 + MaxAdvance)
        <4>1. Steps(Lead) <= Steps(1 + MaxAdvance) /\ Steps(Lead) \in Nat
              /\ Steps(1 + MaxAdvance) \in Nat
          BY <1>3, <2>3, <3>1, StepsGrow
        <4>2. Position \in Int /\ statusFile.content.scanned \in Nat
          BY <3>1, NextTimeIsLater, FilesByKind DEF Premises, Status
        <4> QED  BY <3>1, <4>1, <4>2, Numbers DEF Within
      <3> QED  BY <1>1, <2>3, <3>2 DEF Within
    <2>5. Position < PlaybackMs + Second + Steps(1)
      <3>1. Steps(1) = PictureStep
        BY Numbers DEF Steps
      <3>2. lastTs \in Nat \cup {NoTime} /\ lastTs \in Int
        BY NextTimeIsLater DEF Premises, PluginTypes
      <3>3. lastTs < PlaybackMs + Second /\ PlaybackMs \in Nat
        <4>1. CASE lastTs = NoTime
          BY <4>1, Numbers DEF PlaybackMs, NoTime
        <4>2. CASE lastTs # NoTime
          <5>1. lastTs \in Nat /\ lastTs \div Second \in Nat
                /\ lastTs % Second < Second /\ lastTs % Second \in Nat
            BY <3>2, <4>2, Numbers
          <5>2. lastTs = Second * (lastTs \div Second) + (lastTs % Second)
            BY <5>1, Numbers
          <5>3. PlaybackMs = (lastTs \div Second) * Second
            BY <4>2 DEF PlaybackMs
          <5>4. (lastTs \div Second) * Second = Second * (lastTs \div Second)
                /\ Second * (lastTs \div Second) \in Nat
            BY <5>1, Numbers
          <5> QED  BY <5>1, <5>2, <5>3, <5>4, Numbers
        <4> QED  BY <4>1, <4>2
      <3>4. guarded
        BY <2>1, LeadIsBounded
      <3>5. Position <= lastTs + PictureStep
        <4>1. pluginPC = "count" => Position = NextTime
          BY <3>4 DEF Premises, GuardedPlay, InOrder, Position
        <4>2. pluginPC # "count" => Position = lastTs
          BY DEF Position
        <4> QED  BY <3>2, <4>1, <4>2, NextTimeIsLater, Numbers DEF Premises
      <3> QED  BY <3>1, <3>2, <3>3, <3>5, NextTimeIsLater, Numbers DEF Premises
    <2>6. InReach'
      BY <1>1, <1>3, <2>1, <2>4, LeadIsBounded DEF InReach, Rounds
    <2>7. Informed'
      BY <1>1, <1>8, <2>1, <2>2, <2>5 DEF Informed, Premises, KeptBehind, Steps
    <2> QED  BY <1>1, <1>8, <2>1, <2>6, <2>7, LeadIsBounded DEF KeptBehind, Buffered
  <1>9. CASE GuardGetState
    <2>1. /\ guardPC = "state" /\ player' = player /\ advanced' = advanced /\ Watched
          /\ guardPC' = IF (player = "paused") = ShouldPause THEN "check" ELSE "toggle"
          /\ player # "ended"
          /\ view' = [view EXCEPT !.state = player]
      BY <1>9 DEF GuardGetState, Watched, playerVars
    <2>2. /\ view'.playback = view.playback /\ view'.done = view.done
          /\ view'.scanned = view.scanned
      BY <2>1 DEF Premises, GuardTypes
    <2>3. ShouldPause' = ShouldPause
      BY <2>2 DEF ShouldPause
    <2>4. ASSUME player = "playing"  PROVE Within(Lead)'
      <3>1. CASE guardPC' = "toggle"
        <4>1. Within(Lead) /\ Lead' = Lead
          BY <2>1, <2>4, <3>1, LeadIsBounded DEF Lead
        <4> QED  BY <1>1, <4>1 DEF Within
      <3>2. CASE guardPC' = "check"
        <4>1. ~ShouldPause
          BY <2>1, <2>4, <3>2
        <4>2. Within(1 + advanced) /\ Lead' = 1 + advanced
          BY <2>1, <3>2, <4>1, ResumeIsSafe DEF Lead
        <4> QED  BY <1>1, <4>2 DEF Within
      <3> QED  BY <2>1, <3>1, <3>2
    <2>5. InReach'
      BY <1>1, <2>1, <2>4, LeadIsBounded DEF InReach, Rounds
    <2>6. Informed'
      BY <1>1, <2>1, <2>2, <2>3 DEF Informed, Premises, KeptBehind, Steps
    <2> QED  BY <1>1, <2>1, <2>5, <2>6, LeadIsBounded DEF KeptBehind, Buffered
  <1>10. CASE GuardToggle
    <2>1. /\ guardPC = "toggle" /\ guardPC' = "check" /\ advanced' = advanced /\ Watched
          /\ player # "ended"
          /\ player' = IF player = "playing" THEN "paused" ELSE "playing"
      BY <1>10 DEF GuardToggle, Watched
    <2>2. player \in {"playing", "paused"}
      BY <2>1, LeadIsBounded DEF Premises, GuardTypes
    <2>3. ASSUME player' = "playing"  PROVE Within(Lead)'
      <3>1. ~ShouldPause
        BY <2>1, <2>2, <2>3 DEF Premises, KeptBehind, Informed, ShouldPause
      <3>2. Within(1 + advanced) /\ Lead' = 1 + advanced
        BY <2>1, <3>1, ResumeIsSafe DEF Lead
      <3> QED  BY <1>1, <3>2 DEF Within
    <2>4. InReach'
      BY <1>1, <2>1, <2>3, LeadIsBounded DEF InReach, Rounds
    <2> QED  BY <1>1, <2>1, <2>4, LeadIsBounded DEF KeptBehind, Buffered, Informed
  <1>11. GuardGetTime => guardPC' \in {"state", "status"}
    BY DEF GuardGetTime
  <1> QED  BY <1>4, <1>5, <1>6, <1>7, <1>8, <1>9, <1>10, <1>11 DEF GuardStep

LEMMA KeptBehindStep ==
    ASSUME WatermarkHolds, StepsAreNoSeeks, Premises, [Next]_vars
    PROVE  KeptBehind'
  <1>1. PluginTypes'
    BY PluginTypesStep DEF Premises
  <1>2. guarded => \/ Position' <= Position
                   \/ PluginFilter /\ Position' <= Position + PictureStep
    BY PositionStep DEF Premises
  <1>3. CASE GuardStep
    BY <1>3, GuardKeepsBehind
  <1>4. CASE UserStarts
    <2>1. guardPC = "none" /\ guardPC' = guardPC /\ ~guarded
      BY <1>4 DEF UserStarts, Premises, GuardedPlay, guardVars
    <2> QED  BY <2>1 DEF KeptBehind, Buffered, InReach, Informed, Watched
  <1>5. CASE PluginOpen \/ PluginFlush \/ PluginRuns \/ ScannerRuns \/ Ended \/ UNCHANGED vars
    <2>1. UNCHANGED <<guardPC, view, player, advanced>>
      BY <1>5 DEF PluginOpen, PluginFlush, PluginRuns, ScannerRuns, Ended, vars, guardVars,
         playerVars
    <2>2. ~PluginFilter \/ Position' <= Position \/ ~guarded
      <3>1. PluginFilter => pluginPC = "idle" /\ (guarded => pluginPC' \in {"count", "signMap"})
        BY DEF PluginFilter, FilterCall, StartRefresh
      <3>2. PluginOpen => pluginPC' = "signMap" \/ pluginPC' = pluginPC
        BY DEF PluginOpen, OpenMap, StartRefresh, pluginVars
      <3>3. PluginFlush => ~guarded
        BY DEF PluginFlush
      <3>4. PluginRuns => pluginPC # "idle"
        BY DEF PluginRuns, PluginStep, RefreshStep, SignMap, SignStatus, ReadMap, ReadStatus,
           FilterCount, FilterDecide
      <3>5. PluginOpen => pluginPC # "idle" \/ pluginPC' = pluginPC
        BY DEF PluginOpen, OpenMap, pluginVars
      <3>6. ScannerRuns \/ Ended \/ UNCHANGED vars => pluginPC' = pluginPC
        BY DEF ScannerRuns, Ended, vars, pluginVars
      <3> QED  BY <1>5, <3>1, <3>3, <3>4, <3>5, <3>6
    <2> QED  BY <1>1, <1>2, <2>1, <2>2, QuietStep
  <1>6. CASE PluginFilter
    <2>1. /\ player = "playing" /\ player' = player /\ guardPC' = guardPC /\ view' = view
          /\ Watched => advanced < MaxAdvance
          /\ advanced' = IF Watched THEN advanced + 1 ELSE advanced
          /\ UNCHANGED scanVars
      BY <1>6 DEF PluginFilter, guardVars
    <2>2. statusFile' = statusFile /\ Watched' = Watched
      BY <2>1 DEF scanVars, Watched
    <2>3. CASE ~Watched
      <3>1. guardPC # "launch"
        BY <2>1 DEF Premises, GuardedPlay, NotYetPlaying
      <3> QED  BY <2>1, <2>2, <2>3, <3>1 DEF KeptBehind, Buffered, InReach, Informed, Watched
    <2>4. CASE Watched
      <3>1. /\ Lead \in Nat /\ Lead' = Lead + 1 /\ Lead + 1 <= Rounds /\ Rounds \in Nat
            /\ advanced \in Nat /\ advanced' = advanced + 1 /\ advanced' <= MaxAdvance
            /\ Within(Lead) /\ statusFile.there /\ guarded
        <4>1. /\ Lead \in Nat /\ Rounds \in Nat /\ Within(Lead) /\ statusFile.there /\ guarded
              /\ advanced \in Nat /\ MaxAdvance \in Nat
          BY <2>1, <2>4, LeadIsBounded
        <4>2. advanced' = advanced + 1 /\ advanced' <= MaxAdvance
          BY <2>1, <2>4, <4>1
        <4>3. Lead' = Lead + 1 /\ Lead + 1 <= Rounds
          BY <2>1, <4>1, <4>2 DEF Lead, Rounds
        <4> QED  BY <4>1, <4>2, <4>3
      <3>2. Position' <= Position + PictureStep
        BY <1>2, <3>1, NextTimeIsLater, Numbers, <1>1 DEF Premises, PluginTypes, Refreshes, NoTime,
           Position
      <3> PICK k : k = Lead
        OBVIOUS
      <3>3. k \in Nat /\ Within(k) /\ k + 1 <= Rounds /\ Lead' = k + 1
        BY <3>1
      <3>4. Within(k + 1)' /\ Within(Rounds)'
        BY <1>1, <3>1, <3>2, <3>3, WithinStays DEF Premises
      <3>5. InReach'
        <4>1. Within(Lead)'
          BY <3>3, <3>4 DEF Within
        <4> QED  BY <2>1, <2>2, <3>1, <3>4, <4>1 DEF InReach
      <3>6. Informed'
        <4>1. ShouldPause' = ShouldPause
          BY <2>1 DEF ShouldPause
        <4>2. ASSUME guardPC \in {"state", "toggle"}
              PROVE  Position' < view.playback + Second + Steps(1 + advanced')
          <5>1. Position < view.playback + Second + Steps(1 + advanced)
            BY <4>2 DEF Premises, KeptBehind, Informed
          <5>2. /\ Steps(1 + advanced') = Steps(1 + advanced) + PictureStep
                /\ Steps(1 + advanced) \in Nat
            <6>1. 1 + advanced \in Nat /\ 1 + advanced' = (1 + advanced) + 1
              BY <3>1
            <6> QED  BY <6>1, StepsGrow
          <5>3. Position \in Int /\ Position' \in Int /\ view.playback \in Nat
            <6>1. Position' \in Int
              BY <1>1 DEF PluginTypes, Refreshes, NoTime, Position
            <6> QED  BY <6>1, NextTimeIsLater DEF Premises, GuardTypes
          <5> QED  BY <3>2, <5>1, <5>2, <5>3, Numbers
        <4> QED  BY <2>1, <2>2, <4>1, <4>2 DEF Informed, Premises, KeptBehind, Steps
      <3> QED  BY <2>1, <2>2, <2>4, <3>1, <3>5, <3>6, LeadIsBounded DEF KeptBehind, Buffered, Watched
    <2> QED  BY <2>3, <2>4
  <1>7. CASE PlayerEnds
    <2>1. /\ player' = "ended" /\ guardPC' = guardPC /\ view' = view /\ advanced' = advanced
          /\ UNCHANGED scanVars /\ player # "off"
      BY <1>7 DEF PlayerEnds, guardVars
    <2>2. statusFile' = statusFile /\ Watched' = Watched
      BY <2>1 DEF scanVars, Watched
    <2>3. ~(guardPC = "launch")
      BY <2>1 DEF Premises, GuardedPlay, NotYetPlaying
    <2>4. ASSUME Watched  PROVE Position' <= Position /\ Within(Rounds)' /\ statusFile.there
      <3>1. guarded /\ statusFile.there /\ Within(Rounds) /\ Rounds \in Nat
        BY <2>4, LeadIsBounded
      <3>2. CloseMap \/ UNCHANGED pluginVars
        BY <1>7 DEF PlayerEnds
      <3>3. Position' <= Position
        <4>1. CloseMap => Position' = -1
          BY DEF CloseMap, Position, NoTime
        <4>2. UNCHANGED pluginVars => Position' = Position
          BY DEF pluginVars, Position
        <4> QED  BY <3>2, <4>1, <4>2, NextTimeIsLater DEF Premises
      <3> QED  BY <1>1, <3>1, <3>3, WithinStays DEF Premises
    <2>5. Buffered'
      BY <2>1, <2>2, <2>3, <2>4 DEF Buffered
    <2>6. InReach'
      BY <2>1, <2>2, <2>4, LeadIsBounded DEF InReach
    <2>7. Informed'
      <3>1. ASSUME guardPC \in {"state", "toggle"}
            PROVE  Position' < view.playback + Second + Steps(1 + advanced)
        <4>1. Watched /\ Position < view.playback + Second + Steps(1 + advanced)
          BY <3>1 DEF Premises, KeptBehind, Informed, Watched
        <4>2. /\ Position \in Int /\ Position' \in Int /\ view.playback \in Nat
              /\ Steps(1 + advanced) \in Nat
          <5>1. Position' \in Int
            BY <1>1 DEF PluginTypes, Refreshes, NoTime, Position
          <5>2. 1 + advanced \in Nat /\ view.playback \in Nat
            BY DEF Premises, GuardTypes
          <5> QED  BY <5>1, <5>2, NextTimeIsLater, StepsGrow DEF Premises
        <4> QED  BY <2>4, <4>1, <4>2, Numbers
      <3> QED  BY <2>1, <2>2, <3>1 DEF Informed, Premises, KeptBehind, Steps
    <2> QED  BY <2>5, <2>6, <2>7 DEF KeptBehind
  <1> QED  BY <1>3, <1>4, <1>5, <1>6, <1>7 DEF Next

LEMMA InitGuarded == Init => Published /\ CallOrder /\ GuardedPlay /\ KeptBehind
  <1> SUFFICES ASSUME Init  PROVE CallOrder /\ GuardedPlay /\ KeptBehind
    BY InitPublished
  <1>1. /\ pluginPC = "closed" /\ shown = NothingShown /\ lastTs = NoTime /\ frames = 0
        /\ guardPC = IF guarded THEN "buffer" ELSE "none"
        /\ player = "off" /\ advanced = 0 /\ guarded \in BOOLEAN
    BY GuardAssumption DEF Init, PluginInit
  <1> QED  BY <1>1 DEF CallOrder, GuardedPlay, NotYetPlaying, InOrder, Refreshing, NothingShown,
              KeptBehind, Buffered, InReach, Informed, Watched

LEMMA GuardedStep ==
    ASSUME WatermarkHolds, StepsAreNoSeeks, TypeOK, RawIsClear,
           Published, CallOrder, GuardedPlay, KeptBehind, [Next]_vars
    PROVE  /\ Published' /\ CallOrder' /\ RawIsClear' /\ GuardedPlay' /\ KeptBehind'
  <1>1. Premises
    BY TypeParts DEF Premises
  <1>2. Published' /\ CallOrder' /\ RawIsClear'
    BY <1>1, PublishedStep, CallOrderStep DEF Premises
  <1>3. GuardedPlay'
    BY <1>1, NotYetPlayingStep, InOrderStep DEF Premises, GuardedPlay
  <1> QED  BY <1>1, <1>2, <1>3, KeptBehindStep

\* Where playback is in reach of the watermark, what was shown has been scanned.
LEMMA ShownIsVouched ==
    ASSUME WatermarkHolds, Premises, Watched, shown.how # "nothing"
    PROVE  /\ statusFile.there
           /\ shown.ts \in Nat
           /\ ~statusFile.content.done =>
                /\ statusFile.content.scanned \in Nat
                /\ lastTs < statusFile.content.scanned
                /\ shown.ts < statusFile.content.scanned
  <1>1. guarded /\ statusFile.there /\ Within(Rounds) /\ Rounds \in Nat
    BY LeadIsBounded
  <1>2. statusFile.content.scanned \in Nat /\ Steps(Rounds) \in Nat
    BY <1>1, FilesByKind, StepsGrow DEF Premises, Status
  <1>3. /\ Position \in Int /\ lastTs \in Int /\ lastTs <= Position
    <2>1. lastTs <= Position
      BY <1>1, NextTimeIsLater DEF Premises, GuardedPlay, InOrder, Position
    <2> QED  BY <2>1, NextTimeIsLater DEF Premises
  <1>4. shown.ts \in Nat /\ shown.ts <= lastTs
    BY <1>1 DEF Premises, PluginTypes, GuardedPlay, InOrder
  <1>5. ~statusFile.content.done => Position < statusFile.content.scanned
    BY <1>1, <1>2, <1>3, Numbers DEF Within, WatermarkHolds
  <1> QED  BY <1>1, <1>2, <1>3, <1>4, <1>5

(***************************************************************************)
(* While the guard is at work no picture is shown that the status on disk  *)
(* does not vouch for, whatever the scanner's pace: with a watermark above *)
(* the rounding of the time and the pictures two rounds of the guard let   *)
(* through, and pictures no further apart than what counts as a seek.      *)
(***************************************************************************)
THEOREM PlaybackStaysBehind ==
    ASSUME WatermarkHolds, StepsAreNoSeeks
    PROVE  Spec => []PlaybackBehindScan
  <1> DEFINE IInv == Published /\ CallOrder /\ RawIsClear /\ GuardedPlay /\ KeptBehind
  <1>1. TypeOK /\ IInv => PlaybackBehindScan
    <2> SUFFICES ASSUME TypeOK, IInv, Watched, shown.how # "nothing"
                 PROVE  statusFile.content.done \/ shown.ts < statusFile.content.scanned
      BY DEF PlaybackBehindScan
    <2>1. Premises
      BY TypeParts DEF Premises
    <2> QED  BY <2>1, WatermarkHolds, ShownIsVouched
  <1>2. Init => IInv
    BY InitGuarded, InitRefreshed DEF Refreshed
  <1>3. TypeOK /\ IInv /\ [Next]_vars => IInv'
    BY WatermarkHolds, StepsAreNoSeeks, GuardedStep
  <1> QED  BY <1>1, <1>2, <1>3, PlaybackTypes, PTL DEF Spec

-----------------------------------------------------------------------------
(***************************************************************************)
(* The map the plugin holds, as far as the pictures before its next        *)
(* refresh: the watermark must also cover the reload stride.               *)
(***************************************************************************)
WatermarkCoversStride == Target >= Second + Steps(Rounds) + Steps(ReloadStride - 1)

LeftAfter(count) == IF count = 0 THEN 0 ELSE ReloadStride - count

PicturesLeft == LeftAfter(frames)

LEMMA LeftIsBounded ==
    ASSUME NEW count \in 0..(ReloadStride - 1)
    PROVE  LeftAfter(count) \in Nat /\ LeftAfter(count) <= ReloadStride - 1
  BY Numbers DEF LeftAfter

\* The last picture before the next refresh.
Reach == lastTs + Steps(PicturesLeft)

KnownAhead ==
    Watched /\ pluginPC # "signMap" /\ UpToDate =>
        AgreeBefore(Reach + 1, known.ranges, scan.ranges)

LEMMA StrideImpliesWatermark ==
    ASSUME WatermarkCoversStride
    PROVE  WatermarkHolds
  <1>1. Rounds \in Nat /\ ReloadStride - 1 \in Nat
    BY Numbers DEF Rounds
  <1>2. Steps(Rounds) \in Nat /\ Steps(ReloadStride - 1) \in Nat
    BY <1>1, StepsGrow
  <1> QED  BY <1>2, Numbers DEF WatermarkCoversStride, WatermarkHolds

\* All the pictures before the next refresh have been scanned.
LEMMA ReachIsVouched ==
    ASSUME WatermarkCoversStride, Premises, Watched
    PROVE  /\ statusFile.there
           /\ Reach \in Int /\ Reach + 1 \in Int /\ lastTs <= Reach
           /\ ~statusFile.content.done =>
                statusFile.content.scanned \in Nat /\ Reach < statusFile.content.scanned
  <1>1. guarded /\ statusFile.there /\ Within(Rounds) /\ Rounds \in Nat
    BY LeadIsBounded
  <1>2. PicturesLeft \in Nat /\ PicturesLeft <= ReloadStride - 1 /\ ReloadStride - 1 \in Nat
    BY Numbers, LeftIsBounded DEF Premises, PluginTypes, PicturesLeft
  <1>3. /\ Steps(PicturesLeft) \in Nat /\ Steps(ReloadStride - 1) \in Nat /\ Steps(Rounds) \in Nat
        /\ Steps(PicturesLeft) <= Steps(ReloadStride - 1)
    BY <1>1, <1>2, StepsGrow
  <1>4. Position \in Int /\ lastTs \in Int /\ lastTs <= Position
    <2>1. lastTs <= Position
      BY <1>1, NextTimeIsLater DEF Premises, GuardedPlay, InOrder, Position
    <2> QED  BY <2>1, NextTimeIsLater DEF Premises
  <1>5. statusFile.content.scanned \in Nat
    BY <1>1, FilesByKind DEF Premises, Status
  <1>6. ~statusFile.content.done => Reach < statusFile.content.scanned
    BY <1>1, <1>3, <1>4, <1>5, Numbers DEF Within, WatermarkCoversStride, Reach
  <1>7. Reach \in Int /\ lastTs <= Reach
    BY <1>3, <1>4 DEF Reach
  <1> QED  BY <1>1, <1>5, <1>6, <1>7

\* The map on disk is right as far as the next refresh.
LEMMA DiskReaches ==
    ASSUME WatermarkCoversStride, Premises, Watched
    PROVE  mapFile.there /\ AgreeBefore(Reach + 1, mapFile.content, scan.ranges)
  <1>1. statusFile.there /\ mapFile.there
    BY ReachIsVouched DEF Premises, Published, Vouched
  <1>2. CASE statusFile.content.done
    <2>1. mapFile.content = scan.ranges
      BY <1>1, <1>2 DEF Premises, Published, DoneIsLast
    <2> QED  BY <1>1, <2>1 DEF AgreeBefore
  <1>3. CASE ~statusFile.content.done
    <2>1. Reach \in Int /\ statusFile.content.scanned \in Nat
          /\ Reach < statusFile.content.scanned
      BY <1>3, ReachIsVouched
    <2>2. AgreeBefore(statusFile.content.scanned, mapFile.content, scan.ranges)
      BY <1>1 DEF Premises, Published, Vouched
    <2>3. \A ts \in Nat : ts < Reach + 1 => ts < statusFile.content.scanned
      BY <2>1
    <2> QED  BY <1>1, <2>2, <2>3 DEF AgreeBefore
  <1> QED  BY <1>2, <1>3

\* The scanner only adds ranges behind the pictures before the next refresh.
LEMMA ScannerStaysAhead ==
    ASSUME WatermarkCoversStride, Premises, Watched, [Next]_vars,
           NEW limit \in Nat, limit <= Reach + 1 \/ limit <= statusFile.content.scanned
    PROVE  AgreeBefore(limit, scan.ranges, scan'.ranges)
  <1>1. CASE ScanSample
    <2>1. statusFile.there /\ Reach \in Int /\ scanPC # "finished"
      BY <1>1, ReachIsVouched DEF ScanSample
    <2>2. ~statusFile.content.done
      BY <2>1 DEF Premises, Published, DoneIsLast
    <2>3. statusFile.content.scanned \in Nat /\ Reach < statusFile.content.scanned
      BY <2>2, ReachIsVouched
    <2>4. statusFile.content.scanned <= LastScanned
      BY <2>1, <2>2 DEF Premises, Published, BehindScanner
    <2>5. AgreeBefore(LastScanned, scan'.ranges, scan.ranges) /\ LastScanned \in Nat
      BY <1>1, SampleAgreesBefore DEF Premises
    <2>6. limit <= LastScanned
      BY <2>1, <2>3, <2>4, <2>5
    <2>7. \A ts \in Nat : ts < limit => ts < LastScanned
      BY <2>5, <2>6
    <2> QED  BY <2>5, <2>7 DEF AgreeBefore
  <1>2. CASE \/ ScanEnd \/ WriteDecisionMap \/ WriteStatus \/ ScanStops \/ UNCHANGED scanVars
    <2>1. scan' = scan
      BY <1>2 DEF ScanEnd, WriteDecisionMap, WriteStatus, ScanStops, scanVars
    <2> QED  BY <2>1 DEF AgreeBefore
  <1> QED  BY <1>1, <1>2, ScannerSteps

\* Nothing has been played when the guard's watch begins.
LEMMA WatchBegins ==
    ASSUME Premises, [Next]_vars, Watched', ~Watched
    PROVE  UNCHANGED pluginVars /\ lastTs = NoTime /\ frames = 0 /\ pluginPC = "closed"
  <1>1. CASE GuardStep
    <2>1. guardPC = "launch" /\ UNCHANGED pluginVars
      BY <1>1 DEF GuardStep, GuardBuffered, GuardLaunch, GuardConnect, GuardReadStatus,
         GuardLeave, GuardGetTime, GuardGetState, GuardToggle, GuardCheckScanner, Watched
    <2> QED  BY <2>1 DEF Premises, GuardedPlay, NotYetPlaying
  <1>2. CASE ~GuardStep
    <2>1. guardPC' = guardPC
      BY <1>2 DEF Next, UserStarts, PluginOpen, PluginFilter, PluginFlush, PluginRuns, PlayerEnds,
         ScannerRuns, Ended, vars, guardVars
    <2> QED  BY <2>1 DEF Watched
  <1> QED  BY <1>1, <1>2

LEMMA KnownAheadStep ==
    ASSUME WatermarkCoversStride, StepsAreNoSeeks, Premises,
           TimesPassed, SignedMap, KnownAhead, [Next]_vars
    PROVE  KnownAhead'
  <1> SUFFICES ASSUME Watched', pluginPC' # "signMap", UpToDate'
               PROVE  AgreeBefore(Reach + 1, known.ranges, scan.ranges)'
    BY DEF KnownAhead
  <1>1. CASE ~Watched
    <2>1. UNCHANGED pluginVars /\ lastTs = NoTime /\ frames = 0
      BY <1>1, WatchBegins
    <2>2. Reach' = -1
      BY <2>1, Numbers DEF pluginVars, Reach, PicturesLeft, LeftAfter, Steps, NoTime
    <2> QED  BY <2>2 DEF AgreeBefore
  <1>2. CASE Watched /\ UNCHANGED pluginVars
    <2>1. UpToDate' = UpToDate /\ Reach' = Reach /\ pluginPC' = pluginPC /\ known' = known
      BY <1>2 DEF pluginVars, UpToDate, Reach, PicturesLeft, Steps
    <2>2. AgreeBefore(Reach + 1, known.ranges, scan.ranges)
      BY <1>2, <2>1 DEF KnownAhead
    <2>3. Reach + 1 \in Nat
      <3>1. Reach \in Int /\ lastTs <= Reach
        BY <1>2, ReachIsVouched
      <3> QED  BY <3>1, NextTimeIsLater DEF Premises
    <2>4. AgreeBefore(Reach + 1, scan.ranges, scan'.ranges)
      <3> PICK limit : limit = Reach + 1
        OBVIOUS
      <3>1. limit \in Nat /\ limit <= Reach + 1
        BY <2>3
      <3>2. AgreeBefore(limit, scan.ranges, scan'.ranges)
        BY <1>2, <3>1, ScannerStaysAhead
      <3> QED  BY <3>2
    <2> QED  BY <2>1, <2>2, <2>4 DEF AgreeBefore
  <1>3. CASE Watched /\ UNCHANGED scanVars
    <2>1. scan' = scan /\ mapFile' = mapFile /\ guarded /\ pluginPC' # "signMap"
      BY <1>3, LeadIsBounded DEF scanVars
    <2>2. CASE OpenMap \/ FlushCall
      BY <2>1, <2>2, StartRefreshFields DEF OpenMap, FlushCall
    <2>3. CASE CloseMap
      <3>1. Reach' = -1
        BY <2>3, Numbers DEF CloseMap, Reach, PicturesLeft, LeftAfter, Steps, NoTime
      <3> QED  BY <3>1 DEF AgreeBefore
    <2>4. CASE (\E ts : Delivery(ts)) \/ FilterDecide
      <3>1. /\ pluginPC \in {"idle", "decide"}
            /\ UNCHANGED <<known, frames, lastTs>>
        <4>1. CASE \E ts : Delivery(ts)
          BY <2>1, <4>1, GuardedDelivery DEF Premises
        <4>2. CASE FilterDecide
          BY <4>2 DEF FilterDecide
        <4> QED  BY <2>4, <4>1, <4>2
      <3>2. UpToDate /\ Reach' = Reach
        BY <3>1 DEF UpToDate, Reach, PicturesLeft, Steps
      <3>3. AgreeBefore(Reach + 1, known.ranges, scan.ranges)
        BY <1>3, <3>1, <3>2 DEF KnownAhead
      <3> QED  BY <2>1, <3>1, <3>2, <3>3 DEF AgreeBefore
    <2>5. CASE SignMap
      <3>1. /\ known' = known /\ lastTs' = lastTs /\ frames' = frames
            /\ pluginPC' = "signStatus" /\ refresh'.mapSig = MapSignature
        BY <2>5 DEF SignMap, Premises, PluginTypes, Refreshes
      <3>2. known.ranges = mapFile.content
        <4>1. MapSignature = known.mapSig
          BY <3>1 DEF UpToDate
        <4> QED  BY <4>1, SignatureTypes DEF SignedMap, Premises
      <3>3. Reach' = Reach
        BY <3>1 DEF Reach, PicturesLeft, Steps
      <3>4. AgreeBefore(Reach + 1, mapFile.content, scan.ranges)
        BY <1>3, DiskReaches
      <3> QED  BY <2>1, <3>1, <3>2, <3>3, <3>4 DEF AgreeBefore
    <2>6. CASE SignStatus
      <3>1. /\ known' = known /\ lastTs' = lastTs /\ frames' = frames
            /\ pluginPC = "signStatus" /\ pluginPC' = "readMap"
            /\ refresh'.mapSig = refresh.mapSig
        BY <2>6 DEF SignStatus, Premises, PluginTypes, Refreshes
      <3>2. UpToDate /\ Reach' = Reach
        BY <3>1 DEF UpToDate, Reach, PicturesLeft, Steps
      <3>3. AgreeBefore(Reach + 1, known.ranges, scan.ranges)
        BY <1>3, <3>1, <3>2 DEF KnownAhead
      <3> QED  BY <2>1, <3>1, <3>2, <3>3 DEF AgreeBefore
    <2>7. CASE ReadMap
      <3>1. pluginPC = "readMap" /\ lastTs' = lastTs /\ frames' = frames
        BY <2>7 DEF ReadMap
      <3>2. Reach' = Reach
        BY <3>1 DEF Reach, PicturesLeft, Steps
      <3>3. mapFile.there /\ AgreeBefore(Reach + 1, mapFile.content, scan.ranges)
        BY <1>3, DiskReaches
      <3>4. CASE refresh.force \/ refresh.mapSig # known.mapSig
        <4>1. known'.ranges = mapFile.content
          BY <2>7, <3>3, <3>4 DEF ReadMap, Premises, PluginTypes, Known
        <4> QED  BY <2>1, <3>2, <3>3, <4>1 DEF AgreeBefore
      <3>5. CASE ~(refresh.force \/ refresh.mapSig # known.mapSig)
        <4>1. known' = known /\ UpToDate
          BY <2>7, <3>5 DEF ReadMap, UpToDate
        <4>2. AgreeBefore(Reach + 1, known.ranges, scan.ranges)
          BY <1>3, <3>1, <4>1 DEF KnownAhead
        <4> QED  BY <2>1, <3>2, <4>1, <4>2 DEF AgreeBefore
      <3> QED  BY <3>4, <3>5
    <2>8. CASE ReadStatus
      <3>1. /\ pluginPC = "readStatus" /\ lastTs' = lastTs /\ frames' = frames
            /\ known'.ranges = known.ranges
        BY <2>8 DEF ReadStatus, Premises, PluginTypes, Known
      <3>2. UpToDate /\ Reach' = Reach
        BY <3>1 DEF UpToDate, Reach, PicturesLeft, Steps
      <3>3. AgreeBefore(Reach + 1, known.ranges, scan.ranges)
        BY <1>3, <3>1, <3>2 DEF KnownAhead
      <3> QED  BY <2>1, <3>1, <3>2, <3>3 DEF AgreeBefore
    <2>9. CASE FilterCount
      <3>1. /\ pluginPC = "count" /\ frames # 0 /\ known' = known
            /\ frames' = (frames + 1) % ReloadStride /\ lastTs' = refresh.ts
        BY <2>1, <2>9 DEF FilterCount, StartRefresh
      <3>2. refresh.ts = NextTime /\ UpToDate
        BY <2>1, <3>1 DEF Premises, GuardedPlay, InOrder, UpToDate
      <3>3. AgreeBefore(Reach + 1, known.ranges, scan.ranges)
        BY <1>3, <3>1, <3>2 DEF KnownAhead
      <3>4. Reach' <= Reach
        <4>1. frames \in Nat /\ frames # 0 /\ frames < ReloadStride
          BY <3>1, Numbers DEF Premises, PluginTypes
        <4>2. frames' = IF frames + 1 = ReloadStride THEN 0 ELSE frames + 1
          BY <3>1, <4>1, Numbers
        <4>3. PicturesLeft = PicturesLeft' + 1 /\ PicturesLeft' \in Nat
          BY <4>1, <4>2, Numbers DEF PicturesLeft, LeftAfter
        <4> PICK left : left = PicturesLeft'
          OBVIOUS
        <4>4. Steps(left + 1) = Steps(left) + PictureStep /\ Steps(left) \in Nat
          BY <4>3, StepsGrow
        <4>5. Reach = lastTs + Steps(left + 1) /\ Reach' = NextTime + Steps(left)
          BY <3>1, <3>2, <4>3 DEF Reach, Steps
        <4> QED  BY <4>4, <4>5, NextTimeIsLater, Numbers DEF Premises
      <3>5. Reach \in Int /\ Reach' \in Int
        <4>1. lastTs' \in Int /\ PicturesLeft' \in Nat
          <5>1. PluginTypes'
            BY PluginTypesStep DEF Premises
          <5>2. lastTs' \in Int /\ frames' \in 0..(ReloadStride - 1)
            BY <5>1 DEF PluginTypes, NoTime
          <5> QED  BY <5>2, LeftIsBounded DEF PicturesLeft
        <4> PICK left : left = PicturesLeft'
          OBVIOUS
        <4>2. Steps(left) \in Nat
          BY <4>1, StepsGrow
        <4>3. Reach' = lastTs' + Steps(left)
          BY DEF Reach, Steps
        <4> QED  BY <1>3, <4>1, <4>2, <4>3, ReachIsVouched
      <3>6. AgreeBefore(Reach' + 1, known.ranges, scan.ranges)
        BY <3>3, <3>4, <3>5, AgreeFurther
      <3> QED  BY <2>1, <3>1, <3>6 DEF AgreeBefore
    <2>10. CASE UNCHANGED pluginVars
      BY <1>2, <1>3, <2>10
    <2> QED  BY <2>2, <2>3, <2>4, <2>5, <2>6, <2>7, <2>8, <2>9, <2>10, PluginSteps
  <1> QED  BY <1>1, <1>2, <1>3, OneAtATime

LEMMA NoMappedPictureStep ==
    ASSUME WatermarkCoversStride, StepsAreNoSeeks, Premises,
           KnownAhead, NoMappedPictureShown, [Next]_vars
    PROVE  NoMappedPictureShown'
  <1> SUFFICES ASSUME Watched', JustShown("raw")'
               PROVE  ~DecisionMapContains(scan'.ranges, shown'.ts)
    BY DEF NoMappedPictureShown
  <1>1. Watched
    <2>1. ~Watched => pluginPC' = "closed"
      BY WatchBegins DEF pluginVars
    <2> QED  BY <2>1 DEF JustShown
  <1>2. CASE UNCHANGED pluginVars
    <2>1. shown' = shown /\ JustShown("raw")
      BY <1>2 DEF pluginVars, JustShown
    <2>2. ~DecisionMapContains(scan.ranges, shown.ts) /\ shown.how # "nothing"
      BY <1>1, <2>1 DEF NoMappedPictureShown, JustShown
    <2>3. statusFile.there /\ shown.ts \in Nat /\ lastTs <= Reach /\ Reach \in Int
      BY <1>1, <2>2, ShownIsVouched, ReachIsVouched, StrideImpliesWatermark
    <2>4. shown.ts <= lastTs /\ lastTs \in Int
      <3>1. guarded
        BY <1>1, LeadIsBounded
      <3> QED  BY <2>2, <3>1, NextTimeIsLater DEF Premises, GuardedPlay, InOrder
    <2> PICK limit : limit = shown.ts + 1
      OBVIOUS
    <2>5. limit \in Nat /\ limit <= Reach + 1
      BY <2>3, <2>4
    <2>6. AgreeBefore(limit, scan.ranges, scan'.ranges)
      BY <1>1, <2>5, ScannerStaysAhead
    <2> QED  BY <2>1, <2>2, <2>3, <2>6 DEF AgreeBefore
  <1>3. CASE FilterDecide /\ UNCHANGED scanVars
    <2>1. /\ pluginPC = "decide" /\ known' = known /\ lastTs' = lastTs /\ scan' = scan
          /\ shown'.ts = refresh.ts
          /\ ~DecisionMapContains(known.ranges, refresh.ts)
      BY <1>3 DEF FilterDecide, JustShown, scanVars
    <2>2. refresh.ts = lastTs /\ refresh.ts \in Nat /\ UpToDate
      <3>1. guarded
        BY <1>1, LeadIsBounded
      <3> QED  BY <2>1, <3>1 DEF Premises, GuardedPlay, InOrder, PluginTypes, Refreshes, UpToDate
    <2>3. AgreeBefore(Reach + 1, known.ranges, scan.ranges)
      BY <1>1, <2>1, <2>2 DEF KnownAhead
    <2>4. refresh.ts < Reach + 1
      BY <1>1, <2>2, ReachIsVouched
    <2> QED  BY <2>1, <2>2, <2>3, <2>4 DEF AgreeBefore
  <1>4. CASE ReadStatus
    <2>1. pluginPC' = refresh.next /\ shown' = shown /\ pluginPC \in Refreshing
      BY <1>4 DEF ReadStatus, Refreshing
    <2> QED  BY <2>1 DEF JustShown, Premises, CallOrder
  <1>5. CASE OpenMap \/ CloseMap \/ FlushCall \/ SignMap \/ SignStatus \/ ReadMap \/ FilterCount
    <2>1. pluginPC' # "idle"
      BY <1>5 DEF OpenMap, CloseMap, FlushCall, SignMap, SignStatus, ReadMap, FilterCount,
         StartRefresh
    <2> QED  BY <2>1 DEF JustShown
  <1>6. CASE \E ts : Delivery(ts)
    <2>1. pluginPC' # "idle"
      BY <1>6 DEF Delivery, FilterCall, StartRefresh
    <2> QED  BY <2>1 DEF JustShown
  <1>7. CASE FilterDecide /\ UNCHANGED pluginVars
    BY <1>2, <1>7
  <1> QED  BY <1>2, <1>3, <1>4, <1>5, <1>6, <1>7, PluginSteps, OneAtATime

(***************************************************************************)
(* While the guard is at work, no picture that the scanner found to be     *)
(* masked is shown, although map and status are read apart and the map     *)
(* only every ReloadStride pictures: with a watermark that covers the      *)
(* stride as well, and no two writes within one second.                    *)
(***************************************************************************)
THEOREM GuardKeepsPromise ==
    ASSUME WatermarkCoversStride, StepsAreNoSeeks, WritesApart
    PROVE  Spec => []NoMappedPictureShown
  <1> DEFINE IInv == /\ Refreshed /\ Published /\ GuardedPlay /\ KeptBehind
                     /\ KnownAhead /\ NoMappedPictureShown
  <1>1. Init => IInv
    <2>1. Init => ~Watched
      BY DEF Init, Watched
    <2> QED  BY <2>1, InitGuarded, InitRefreshed DEF KnownAhead, NoMappedPictureShown
  <1>2. TypeOK /\ IInv /\ [Next]_vars => IInv'
    <2> SUFFICES ASSUME TypeOK, IInv, [Next]_vars  PROVE IInv'
      OBVIOUS
    <2>1. Premises /\ TimesPassed /\ SignedMap /\ RawIsClear /\ NotOlder /\ WatermarkHolds
      BY TypeParts, WatermarkCoversStride, StrideImpliesWatermark DEF Premises, Refreshed
    <2>2. Published' /\ CallOrder' /\ RawIsClear' /\ GuardedPlay' /\ KeptBehind'
      BY <2>1, StepsAreNoSeeks, GuardedStep DEF Premises
    <2>3. TimesPassed' /\ SignedMap' /\ NotOlder'
      BY <2>1, WritesApart, SignedMapStep, NotOlderStep DEF Premises
    <2>4. KnownAhead' /\ NoMappedPictureShown'
      BY <2>1, WatermarkCoversStride, StepsAreNoSeeks, KnownAheadStep, NoMappedPictureStep
    <2> QED  BY <2>2, <2>3, <2>4 DEF Refreshed
  <1> QED  BY <1>1, <1>2, PlaybackTypes, PTL DEF Spec

=============================================================================
