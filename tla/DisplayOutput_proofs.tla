------------------------ MODULE DisplayOutput_proofs ------------------------
(***************************************************************************)
(* GPU pictures, for any surfaces, pictures and size of the view cache:    *)
(* every surface has one holder, the detector sees the picture it was      *)
(* asked about, and the viewer gets what the verdict asks for.  The first  *)
(* invariant adds to the first two properties what each step of VLC's      *)
(* thread holds (Handling), that a view belongs to its key, and that the   *)
(* worker's view stays cached while it has the lock (Reading).  OutputInv  *)
(* adds what the picture in hand shows at each step: the raw picture until *)
(* it is masked, then what its verdict asks for (Making); that what left   *)
(* is what was due (ShownDue); that the panel's texture holds the score it *)
(* was drawn for (DebugCached); and that nothing is in hand before the     *)
(* backend is settled (NotYet).  Software pictures leave every surface     *)
(* alone, so what is proved of the backends' steps holds of DisplayOutput. *)
(* Opening is proved along its script: what a call takes is given back by  *)
(* a later one, by the close function, or owed to the part of the script   *)
(* that follows (Settled), so what is held at each step of Open has one    *)
(* that will release it (Owned).                                           *)
(* For software pictures the invariant (PixelInv) says what the picture is *)
(* at each step, and its consequences are lemmas about pictures of any     *)
(* size: rectangles are cut to their plane, blocks of luma and of chroma   *)
(* have the same corners, what one function encodes the other decodes, and *)
(* the two marks of the warning meet.                                      *)
(***************************************************************************)
EXTENDS DisplayOutput, FiniteSetTheorems, SequenceTheorems, WellFoundedInduction, TLAPS

SurfaceOrNone == Surfaces \cup {NoSurface}

Steps == {"idle", "mask", "panel", "effect", "compose"}

\* The records and functions have the fields and domains that the steps update.
Shape ==
    /\ surface = [s \in Surfaces |-> [owner |-> surface[s].owner, shows |-> surface[s].shows]]
    /\ home \in [Pictures -> SurfaceOrNone]
    /\ fate \in [Pictures -> {"coming", "queued", "decided", "leaving", "dropped", "shown"}]
    /\ filter \in [step : Steps, pic : Pictures \cup {0}, source : SurfaceOrNone,
                   out : SurfaceOrNone, view : SurfaceOrNone]
    /\ worker \in [step : {"idle", "read"}, pic : Pictures \cup {0}, view : SurfaceOrNone]
    /\ views \in [1 .. MaxViews -> [key : SurfaceOrNone, input : SurfaceOrNone]]
    /\ next_view \in 0 .. MaxViews - 1

\* What VLC's thread has in hand at each of its steps.
Handling ==
    /\ filter.step = "idle" => filter.source = NoSurface /\ filter.out = NoSurface
    /\ filter.step # "idle" => /\ filter.pic \in Pictures /\ fate[filter.pic] = "leaving"
                               /\ filter.source \in Surfaces
    /\ filter.step = "mask" => filter.out = NoSurface
    /\ filter.step = "panel" => filter.out \in {NoSurface, filter.source}
    /\ filter.step \in {"effect", "compose"} =>
            /\ filter.out \in Surfaces /\ filter.out # filter.source
            /\ api_lock = "filter"

ViewsMatch == \A i \in 1 .. MaxViews : views[i].input \in {NoSurface, views[i].key}

\* The worker's view is the one of its picture's surface and nobody evicts it.
Reading ==
    worker.step = "read" => /\ worker.pic \in Pictures /\ fate[worker.pic] = "queued"
                            /\ worker.view = home[worker.pic]
                            /\ Live(worker.view)
                            /\ api_lock = "worker"

BackendInv == Shape /\ Handling /\ ViewsMatch /\ Reading /\ SurfacesAccountedFor /\ ReadbackIsThePicture
-----------------------------------------------------------------------------
NatLess == {p \in Nat \X Nat : p[1] < p[2]}

\* The oldest of some pictures, or the first of some entries, is one of them.
LEMMA OldestIsOne ==
    ASSUME NEW ps \in SUBSET Nat, ps # {}
    PROVE  Oldest(ps) \in ps
<1>1. IsWellFoundedOn(OpToRel(<, Nat), Nat)
  BY NatLessThanWellFounded
<1>2. OpToRel(<, Nat) = NatLess
  BY DEF OpToRel, NatLess
<1>3. PICK m \in ps : \A n \in ps : <<n, m>> \notin NatLess
  BY <1>1, <1>2, WFMin
<1>4. ASSUME NEW n \in ps
      PROVE  m <= n
  <2>1. <<n, m>> \in Nat \X Nat /\ <<n, m>>[1] = n /\ <<n, m>>[2] = m
    OBVIOUS
  <2>2. ~(n < m)
    BY <1>3, <2>1 DEF NatLess
  <2> QED
    BY <2>2
<1> QED
  BY <1>4 DEF Oldest

\* The entry that GetInputView fills is one of the cache's.
LEMMA EntryIsOne ==
    ASSUME Shape, NEW s \in Surfaces
    PROVE  EntryOf(s) \in 1 .. MaxViews /\ (Keyed(s) # {} => views[EntryOf(s)].key = s)
<1>1. Keyed(s) \in SUBSET Nat /\ Keyed(NoSurface) \in SUBSET Nat
  BY ViewsAssumption DEF Keyed
<1>2. Keyed(s) # {} => Oldest(Keyed(s)) \in Keyed(s)
  BY <1>1, OldestIsOne
<1>3. Keyed(NoSurface) # {} => Oldest(Keyed(NoSurface)) \in Keyed(NoSurface)
  BY <1>1, OldestIsOne
<1> QED
  BY <1>2, <1>3, ViewsAssumption DEF EntryOf, Keyed, Shape

\* GetInputView yields the surface's own view, cached, or none.
LEMMA ViewOfSurface ==
    ASSUME Shape, ViewsMatch, NEW s \in Surfaces, NEW view, GetInputView(s, view)
    PROVE  /\ view \in {s, NoSurface}
           /\ views' \in [1 .. MaxViews -> [key : SurfaceOrNone, input : SurfaceOrNone]]
           /\ next_view' \in 0 .. MaxViews - 1
           /\ ViewsMatch'
           /\ view # NoSurface => Live(view)'
<1> DEFINE e == EntryOf(s)
<1>1. e \in 1 .. MaxViews /\ (Keyed(s) # {} => views[e].key = s)
  BY EntryIsOne
<1>2. view \in {s, NoSurface}
  BY <1>1 DEF GetInputView, KeptInput, ViewsMatch
<1>3. views' = [views EXCEPT ![e] = [key |-> s, input |-> view]]
  BY DEF GetInputView
<1> HIDE DEF e
<1>4. views' \in [1 .. MaxViews -> [key : SurfaceOrNone, input : SurfaceOrNone]]
  BY <1>1, <1>2, <1>3 DEF Shape, SurfaceOrNone
<1>5. next_view' \in 0 .. MaxViews - 1
  BY ViewsAssumption DEF GetInputView, Shape
<1>6. ViewsMatch'
  BY <1>1, <1>2, <1>3 DEF Shape, ViewsMatch
<1>7. views'[e].input = view
  BY <1>1, <1>3 DEF Shape
<1> QED
  BY <1>1, <1>2, <1>4, <1>5, <1>6, <1>7 DEF Live

\* What Given leaves on each surface.
LEMMA GivenSurfaces ==
    ASSUME Shape, NEW to, NEW ss
    PROVE  Given(to, ss) = [s \in Surfaces |->
               [owner |-> IF s \in ss THEN to ELSE surface[s].owner, shows |-> surface[s].shows]]
<1>1. ASSUME NEW s \in Surfaces
      PROVE  /\ [surface[s] EXCEPT !.owner = to] = [owner |-> to, shows |-> surface[s].shows]
             /\ surface[s] = [owner |-> surface[s].owner, shows |-> surface[s].shows]
  <2>1. surface[s] = [owner |-> surface[s].owner, shows |-> surface[s].shows]
    BY DEF Shape
  <2> QED
    BY <2>1
<1> QED
  BY <1>1 DEF Given
-----------------------------------------------------------------------------
LEMMA InitBackend == BackendInit => BackendInv
<1> SUFFICES ASSUME BackendInit PROVE BackendInv
  OBVIOUS
<1> USE DEF BackendInit
<1>1. Shape
  BY ViewsAssumption DEF Shape, SurfaceOrNone, Steps, IdleFilter, IdleWorker
<1>2. Handling /\ ViewsMatch /\ Reading
  BY DEF Handling, ViewsMatch, Reading, IdleFilter, IdleWorker
<1>3. Inside = {}
  BY DEF Inside
<1>4. SurfacesAccountedFor
  BY <1>3 DEF SurfacesAccountedFor, IdleFilter
<1>5. ReadbackIsThePicture
  BY DEF ReadbackIsThePicture, Nobody
<1> QED
  BY <1>1, <1>2, <1>4, <1>5 DEF BackendInv

LEMMA SameSurfaces ==
    ASSUME BackendInv, UNCHANGED gpuVars, backend' = "d3d11" => backend = "d3d11"
    PROVE  BackendInv'
<1> USE DEF BackendInv, gpuVars
<1>1. Shape'
  BY DEF Shape
<1>2. Handling' /\ ViewsMatch' /\ Reading'
  BY DEF Handling, ViewsMatch, Reading, Live
<1>3. Inside' = Inside
  BY DEF Inside
<1>4. SurfacesAccountedFor' /\ ReadbackIsThePicture'
  BY <1>3 DEF SurfacesAccountedFor, ReadbackIsThePicture
<1> QED
  BY <1>1, <1>2, <1>4

LEMMA StepOpen == ASSUME BackendInv, OpenBackend PROVE BackendInv'
<1>1. backend' = "d3d11" => backend = "d3d11"
  BY DEF OpenBackend, OpenResources, Acquire, GoWithout, FailToOpen, FallBack, Opened
<1> QED
  BY <1>1, SameSurfaces DEF OpenBackend

LEMMA StepDecode == ASSUME BackendInv, Decode PROVE BackendInv'
<1> USE DEF BackendInv
<1>1. PICK p \in Pictures, s \in Free :
          /\ fate[p] = "coming"
          /\ fate' = [fate EXCEPT ![p] = "queued"]
          /\ home' = [home EXCEPT ![p] = s]
          /\ surface' = [surface EXCEPT ![s] = [owner |-> "queue", shows |-> Raw(p)]]
  BY DEF Decode
<1>2. /\ UNCHANGED <<backend, seen, filter, worker, api_lock, views, next_view>>
      /\ s \in Surfaces /\ surface[s].owner = "free"
  BY DEF Decode, resourceVars, Free
<1>3. Shape'
  BY <1>1, <1>2 DEF Shape, SurfaceOrNone
<1>4. Handling' /\ ViewsMatch' /\ Reading'
  BY <1>1, <1>2 DEF Handling, ViewsMatch, Reading, Live, Shape
<1>5. Inside' = Inside \cup {p} /\ p \notin Inside
  BY <1>1 DEF Inside, Shape
<1>6. \A t \in Surfaces : surface'[t] = IF t = s THEN [owner |-> "queue", shows |-> Raw(p)] ELSE surface[t]
  BY <1>1 DEF Shape
<1>7. \A q \in Pictures : home'[q] = IF q = p THEN s ELSE home[q]
  BY <1>1 DEF Shape
<1>8. \A q \in Inside : q \in Pictures /\ home[q] \in Surfaces /\ home[q] # s
  <2> SUFFICES ASSUME NEW q \in Inside PROVE q \in Pictures /\ home[q] \in Surfaces /\ home[q] # s
    OBVIOUS
  <2>1. q \in Pictures /\ surface[home[q]].owner = "queue" /\ home[q] \in {t \in Surfaces : surface[t].owner = "queue"}
    BY DEF Inside, SurfacesAccountedFor
  <2> QED
    BY <2>1, <1>2
<1>9. SurfacesAccountedFor'
  <2>1. \A q \in Inside' : surface'[home'[q]] = [owner |-> "queue", shows |-> Raw(q)]
    BY <1>2, <1>5, <1>6, <1>7, <1>8 DEF SurfacesAccountedFor
  <2>2. \A q, r \in Inside' : q # r => home'[q] # home'[r]
    BY <1>5, <1>7, <1>8 DEF SurfacesAccountedFor
  <2>3. {t \in Surfaces : surface'[t].owner = "filter"} = {filter'.source, filter'.out} \ {NoSurface}
    BY <1>2, <1>6 DEF SurfacesAccountedFor
  <2>4. {t \in Surfaces : surface'[t].owner = "queue"} = {home'[q] : q \in Inside'}
    BY <1>2, <1>5, <1>6, <1>7, <1>8 DEF SurfacesAccountedFor
  <2>5. backend' = "d3d11" => \A t \in Surfaces : surface'[t].owner # "lost"
    BY <1>2, <1>6 DEF SurfacesAccountedFor
  <2>6. Raw(p)' = Raw(p) /\ \A q : Raw(q)' = Raw(q)
    BY DEF Raw, Nothing
  <2> QED
    BY <2>1, <2>2, <2>3, <2>4, <2>5 DEF SurfacesAccountedFor
<1> QED
  BY <1>2, <1>3, <1>4, <1>9 DEF ReadbackIsThePicture
-----------------------------------------------------------------------------
(***************************************************************************)
(* The detector worker.                                                    *)
(***************************************************************************)
LEMMA HomeOfInside ==
    ASSUME BackendInv
    PROVE  \A p \in Inside : home[p] \in Surfaces /\ surface[home[p]].owner = "queue"
<1> SUFFICES ASSUME NEW p \in Inside
             PROVE  home[p] \in Surfaces /\ surface[home[p]].owner = "queue"
  OBVIOUS
<1>1. home[p] \in {home[q] : q \in Inside}
  OBVIOUS
<1> QED
  BY <1>1 DEF BackendInv, SurfacesAccountedFor

\* The surface of a picture that waits shows it.
LEMMA HomeShows ==
    ASSUME BackendInv, NEW p \in Inside
    PROVE  surface[home[p]].shows = Raw(p)
<1>1. surface[home[p]] = [owner |-> "queue", shows |-> Raw(p)]
  BY DEF BackendInv, SurfacesAccountedFor
<1> QED
  BY <1>1

LEMMA NextIsQueued ==
    ASSUME BackendInv, NEW p, NextToRead(p)
    PROVE  p \in Pictures /\ fate[p] = "queued" /\ worker.step = "idle" /\ p \in Inside
<1>1. Queued \in SUBSET Nat
  BY PicturesAssumption DEF Queued
<1>2. p \in Queued
  BY <1>1, OldestIsOne DEF NextToRead
<1> QED
  BY <1>2 DEF NextToRead, Queued, Inside

\* A verdict leaves the surfaces alone.
LEMMA SameHolders ==
    ASSUME BackendInv, UNCHANGED <<surface, home, backend, filter>>, Inside' = Inside
    PROVE  SurfacesAccountedFor'
BY DEF BackendInv, SurfacesAccountedFor

LEMMA Decided ==
    ASSUME BackendInv, NEW p \in Pictures, fate[p] = "queued",
           fate' = [fate EXCEPT ![p] = "decided"]
    PROVE  /\ Inside' = Inside
           /\ fate' \in [Pictures -> {"coming", "queued", "decided", "leaving", "dropped", "shown"}]
           /\ \A q \in Pictures : q # p => fate'[q] = fate[q]
           /\ \A q \in Pictures : fate[q] = "leaving" => fate'[q] = "leaving"
BY DEF BackendInv, Shape, Inside

LEMMA StepUnsampled == ASSUME BackendInv, Unsampled PROVE BackendInv'
<1>1. PICK p \in Pictures : NextToRead(p) /\ fate' = [fate EXCEPT ![p] = "decided"]
  BY DEF Unsampled
<1>2. /\ p \in Pictures /\ fate[p] = "queued" /\ worker.step = "idle"
      /\ UNCHANGED <<backend, surface, home, filter, worker, seen, views, next_view, api_lock>>
  BY <1>1, NextIsQueued DEF Unsampled, resourceVars
<1>3. SurfacesAccountedFor'
  BY <1>1, <1>2, Decided, SameHolders
<1>4. Shape'
  BY <1>1, <1>2, Decided DEF BackendInv, Shape
<1>5. Handling' /\ ViewsMatch' /\ Reading'
  BY <1>1, <1>2, Decided DEF BackendInv, Handling, ViewsMatch, Reading
<1> QED
  BY <1>2, <1>3, <1>4, <1>5 DEF BackendInv, ReadbackIsThePicture

LEMMA StepBeginReadback == ASSUME BackendInv, BeginReadback PROVE BackendInv'
<1>1. PICK p \in Pictures, view \in SurfaceOrNone :
          /\ NextToRead(p)
          /\ GetInputView(home[p], view)
          /\ IF view = NoSurface
             THEN api_lock = "free" /\ Judge(p, Nothing) /\ UNCHANGED <<worker, api_lock>>
             ELSE /\ Lock("worker")
                  /\ worker' = [step |-> "read", pic |-> p, view |-> view]
                  /\ UNCHANGED <<fate, evaluation, seen>>
  BY DEF BeginReadback, SurfaceOrNone
<1>2. /\ p \in Pictures /\ fate[p] = "queued" /\ worker.step = "idle" /\ home[p] \in Surfaces
      /\ UNCHANGED <<backend, surface, home, filter>>
  BY <1>1, NextIsQueued, HomeOfInside DEF BeginReadback, resourceVars
<1>3. /\ view \in {home[p], NoSurface}
      /\ views' \in [1 .. MaxViews -> [key : SurfaceOrNone, input : SurfaceOrNone]]
      /\ next_view' \in 0 .. MaxViews - 1
      /\ ViewsMatch'
      /\ view # NoSurface => Live(view)'
  BY <1>1, <1>2, ViewOfSurface DEF BackendInv
<1>4. CASE view = NoSurface
  <2>1. /\ UNCHANGED <<worker, api_lock>>
        /\ fate' = [fate EXCEPT ![p] = "decided"] /\ seen' = [pic |-> p, content |-> Nothing]
    BY <1>1, <1>4 DEF Judge
  <2>2. Shape'
    BY <1>2, <1>3, <2>1, Decided DEF BackendInv, Shape
  <2>3. Handling' /\ Reading'
    BY <1>2, <2>1, Decided DEF BackendInv, Handling, Reading
  <2>4. SurfacesAccountedFor'
    BY <1>2, <2>1, Decided, SameHolders
  <2> QED
    BY <1>3, <2>1, <2>2, <2>3, <2>4 DEF BackendInv, ReadbackIsThePicture, Nothing
<1>5. CASE view # NoSurface
  <2>1. /\ api_lock = "free" /\ api_lock' = "worker"
        /\ worker' = [step |-> "read", pic |-> p, view |-> view]
        /\ UNCHANGED <<fate, seen>>
    BY <1>1, <1>5 DEF Lock
  <2>2. Shape'
    BY <1>2, <1>3, <2>1 DEF BackendInv, Shape, SurfaceOrNone
  <2>3. Handling' /\ Reading'
    BY <1>2, <1>3, <1>5, <2>1 DEF BackendInv, Handling, Reading, Live
  <2>4. SurfacesAccountedFor'
    BY <1>2, <2>1, SameHolders DEF Inside
  <2> QED
    BY <1>3, <2>1, <2>2, <2>3, <2>4 DEF BackendInv, ReadbackIsThePicture
<1> QED
  BY <1>4, <1>5

LEMMA StepEndReadback == ASSUME BackendInv, EndReadback PROVE BackendInv'
<1>0. PICK p : p = worker.pic
  OBVIOUS
<1>1. PICK content \in {Nothing, Through(worker.view)} : Judge(p, content)
  BY <1>0 DEF EndReadback
<1>2. /\ p \in Pictures /\ fate[p] = "queued" /\ worker.view = home[p] /\ Live(worker.view)
      /\ UNCHANGED <<backend, surface, home, filter, views, next_view>>
      /\ worker' = IdleWorker /\ api_lock = "worker" /\ api_lock' = "free"
  BY <1>0 DEF EndReadback, BackendInv, Reading, resourceVars, Unlock
<1>3. Through(worker.view) = Raw(p)
  BY <1>2, HomeShows DEF Through, Inside
<1>4. fate' = [fate EXCEPT ![p] = "decided"] /\ seen' = [pic |-> p, content |-> content]
  BY <1>1 DEF Judge
<1>5. Shape'
  BY <1>2, <1>4, Decided DEF BackendInv, Shape, IdleWorker, SurfaceOrNone
<1>6. Handling' /\ ViewsMatch' /\ Reading'
  BY <1>2, <1>4, Decided DEF BackendInv, Handling, ViewsMatch, Reading, IdleWorker
<1>7. SurfacesAccountedFor'
  BY <1>2, <1>4, Decided, SameHolders
<1>8. ReadbackIsThePicture'
  BY <1>1, <1>3, <1>4 DEF ReadbackIsThePicture, Raw, Nothing
<1> QED
  BY <1>5, <1>6, <1>7, <1>8 DEF BackendInv

LEMMA StepReadSurface == ASSUME BackendInv, ReadSurface PROVE BackendInv'
<1>0. PICK p \in Pictures : /\ NextToRead(p)
                            /\ Judge(p, surface[home[p]].shows) \/ Judge(p, Nothing)
  BY DEF ReadSurface
<1>1. PICK content \in {Nothing, surface[home[p]].shows} : Judge(p, content)
  BY <1>0
<1>2. /\ p \in Inside /\ fate[p] = "queued" /\ worker.step = "idle"
      /\ UNCHANGED <<backend, surface, home, filter, worker, views, next_view, api_lock>>
  BY <1>0, NextIsQueued DEF ReadSurface, resourceVars
<1>3. surface[home[p]].shows = Raw(p)
  BY <1>2, HomeShows
<1>4. fate' = [fate EXCEPT ![p] = "decided"] /\ seen' = [pic |-> p, content |-> content]
  BY <1>1 DEF Judge
<1>5. Shape'
  BY <1>2, <1>4, Decided DEF BackendInv, Shape
<1>6. Handling' /\ ViewsMatch' /\ Reading'
  BY <1>2, <1>4, Decided DEF BackendInv, Handling, ViewsMatch, Reading
<1>7. SurfacesAccountedFor'
  BY <1>2, <1>4, Decided, SameHolders
<1>8. ReadbackIsThePicture'
  BY <1>1, <1>3, <1>4 DEF ReadbackIsThePicture, Raw, Nothing
<1> QED
  BY <1>5, <1>6, <1>7, <1>8 DEF BackendInv
-----------------------------------------------------------------------------
(***************************************************************************)
(* VLC's thread.                                                           *)
(***************************************************************************)
Framed(f) == f = [s \in Surfaces |-> [owner |-> f[s].owner, shows |-> f[s].shows]]

\* Whom each surface belongs to after a step of VLC's thread.
Holders ==
    /\ Framed(surface)'
    /\ \A s \in Surfaces : surface[s].owner = "queue" => surface'[s] = surface[s]
    /\ \A s \in Surfaces : surface'[s].owner = "queue" => surface[s].owner = "queue"
    /\ {s \in Surfaces : surface'[s].owner = "filter"} = {filter'.source, filter'.out} \ {NoSurface}
    /\ backend = "d3d11" => \A s \in Surfaces : surface'[s].owner # "lost"

\* The view cache after a step of VLC's thread.
Caching ==
    /\ views' \in [1 .. MaxViews -> [key : SurfaceOrNone, input : SurfaceOrNone]]
    /\ next_view' \in 0 .. MaxViews - 1
    /\ ViewsMatch'
    /\ worker.step = "read" => UNCHANGED <<views, api_lock>>

FilterTyped == filter \in [step : Steps, pic : Pictures \cup {0}, source : SurfaceOrNone,
                           out : SurfaceOrNone, view : SurfaceOrNone]

\* A step on a picture in hand keeps the invariant if it respects what waits.
LEMMA FilterStepKeeps ==
    ASSUME BackendInv, filter.step # "idle", UNCHANGED <<backend, home, worker, seen>>,
           \/ fate' = fate
           \/ \E end \in {"dropped", "shown"} : fate' = [fate EXCEPT ![filter.pic] = end],
           FilterTyped', Handling', Holders, Caching
    PROVE  BackendInv'
<1> USE DEF BackendInv
<1>1. filter.pic \in Pictures /\ fate[filter.pic] = "leaving"
  BY DEF Handling
<1>2. /\ fate' \in [Pictures -> {"coming", "queued", "decided", "leaving", "dropped", "shown"}]
      /\ \A p \in Pictures : p # filter.pic => fate'[p] = fate[p]
      /\ fate'[filter.pic] \in {"leaving", "dropped", "shown"}
  BY <1>1 DEF Shape
<1>3. Inside' = Inside
  BY <1>1, <1>2 DEF Inside
<1>4. Shape'
  BY <1>2 DEF Shape, Framed, Holders, Caching, FilterTyped
<1>5. Reading'
  BY <1>1, <1>2 DEF Reading, Caching, Live
<1>6. SurfacesAccountedFor'
  <2>1. \A p \in Inside : surface'[home[p]] = [owner |-> "queue", shows |-> Raw(p)]
    BY HomeOfInside DEF Holders, SurfacesAccountedFor
  <2>2. {s \in Surfaces : surface'[s].owner = "queue"} = {s \in Surfaces : surface[s].owner = "queue"}
    BY DEF Holders
  <2> QED
    BY <1>3, <2>1, <2>2 DEF SurfacesAccountedFor, Holders, Raw, Nothing
<1>7. ReadbackIsThePicture'
  BY DEF ReadbackIsThePicture, Raw, Nothing
<1> QED
  BY <1>4, <1>5, <1>6, <1>7 DEF Caching

\* The surfaces in hand are the filter's, and no others are.
LEMMA InHand ==
    ASSUME BackendInv, filter.step # "idle"
    PROVE  /\ filter.pic \in Pictures /\ filter.source \in Surfaces /\ filter.out \in SurfaceOrNone
           /\ fate[filter.pic] = "leaving"
           /\ Framed(surface) /\ FilterTyped
           /\ \A s \in Surfaces : surface[s].owner = "filter" <=> s \in {filter.source, filter.out}
<1> USE DEF BackendInv
<1>1. filter.pic \in Pictures /\ filter.source \in Surfaces /\ fate[filter.pic] = "leaving"
  BY DEF Handling
<1>2. filter.out \in SurfaceOrNone /\ FilterTyped /\ Framed(surface)
  BY DEF Shape, Framed, FilterTyped
<1>3. \A s \in Surfaces : surface[s].owner = "filter" <=> s \in {filter.source, filter.out} \ {NoSurface}
  BY DEF SurfacesAccountedFor
<1> QED
  BY <1>1, <1>2, <1>3, SurfacesAssumption

\* One surface is handed over and another shows something else.
Showing(to, source, out, what) == [Given(to, {source}) EXCEPT ![out].shows = what]

Become(g, to, source, out, what) ==
    /\ Framed(g)
    /\ \A s \in Surfaces :
        /\ g[s].owner = IF s = source THEN to ELSE surface[s].owner
        /\ g[s].shows = IF s = out THEN what ELSE surface[s].shows

LEMMA ShowingSurfaces ==
    ASSUME Shape, NEW to, NEW source, NEW out \in Surfaces, NEW what,
           NEW g, g = Showing(to, source, out, what)
    PROVE  Become(g, to, source, out, what)
<1>1. PICK now : now = Given(to, {source})
  OBVIOUS
<1>2. now = [s \in Surfaces |-> [owner |-> IF s \in {source} THEN to ELSE surface[s].owner,
                                 shows |-> surface[s].shows]]
  BY <1>1, GivenSurfaces
<1>3. ASSUME NEW s \in Surfaces
      PROVE  [now EXCEPT ![out].shows = what][s] =
               [owner |-> IF s = source THEN to ELSE surface[s].owner,
                shows |-> IF s = out THEN what ELSE surface[s].shows]
  BY <1>2
<1>4. Showing(to, source, out, what) = [now EXCEPT ![out].shows = what]
  BY <1>1 DEF Showing
<1>5. [now EXCEPT ![out].shows = what] = [s \in Surfaces |->
               [owner |-> IF s = source THEN to ELSE surface[s].owner,
                shows |-> IF s = out THEN what ELSE surface[s].shows]]
  BY <1>2, <1>3
<1>6. g = [s \in Surfaces |->
               [owner |-> IF s = source THEN to ELSE surface[s].owner,
                shows |-> IF s = out THEN what ELSE surface[s].shows]]
  BY <1>4, <1>5
<1>7. \A s \in Surfaces :
         /\ g[s].owner = IF s = source THEN to ELSE surface[s].owner
         /\ g[s].shows = IF s = out THEN what ELSE surface[s].shows
  BY <1>6
<1>8. Framed(g)
  BY <1>6 DEF Framed
<1> QED
  BY <1>7, <1>8 DEF Become

\* The end of a call leaves nothing in hand.
LEMMA Finished ==
    ASSUME BackendInv, filter.step # "idle", filter' = IdleFilter
    PROVE  FilterTyped' /\ Handling' /\ filter'.source = NoSurface /\ filter'.out = NoSurface
BY DEF IdleFilter, FilterTyped, Handling, SurfaceOrNone, Steps

LEMMA SameCache ==
    ASSUME BackendInv, UNCHANGED <<views, next_view>>, worker.step = "read" => UNCHANGED api_lock
    PROVE  Caching
BY DEF BackendInv, Caching, Shape, ViewsMatch

\* The lock keeps VLC's thread from the views that the worker reads through.
LEMMA NewView ==
    ASSUME BackendInv, api_lock = "free", filter.source \in Surfaces, NEW view,
           GetInputView(filter.source, view)
    PROVE  Caching /\ view \in SurfaceOrNone
<1>1. worker.step # "read"
  BY DEF BackendInv, Reading
<1> QED
  BY <1>1, ViewOfSurface DEF BackendInv, Caching, SurfaceOrNone

\* Both surfaces are handed over, to the pool or to nobody.
LEMMA HandOver ==
    ASSUME BackendInv, filter.step # "idle", filter' = IdleFilter, UNCHANGED backend,
           NEW ss, NEW to \in {"free", "lost"}, backend = "d3d11" => to = "free",
           \A s \in Surfaces : s \in {filter.source, filter.out} <=> s \in ss,
           surface' = Given(to, ss)
    PROVE  Holders
<1>1. /\ filter.source \in Surfaces
      /\ \A s \in Surfaces : surface[s].owner = "filter" <=> s \in {filter.source, filter.out}
  BY InHand
<1>2. surface' = [s \in Surfaces |->
                     [owner |-> IF s \in ss THEN to ELSE surface[s].owner, shows |-> surface[s].shows]]
  BY GivenSurfaces DEF BackendInv
<1>3. \A s \in Surfaces : surface[s] = [owner |-> surface[s].owner, shows |-> surface[s].shows]
  BY DEF BackendInv, Shape
<1>4. Framed(surface)'
  BY <1>2 DEF Framed
<1>5. \A s \in Surfaces : surface'[s].owner # "filter"
  BY <1>1, <1>2
<1>6. backend = "d3d11" => \A s \in Surfaces : surface'[s].owner # "lost"
  BY <1>2 DEF BackendInv, SurfacesAccountedFor
<1>7. \A s \in Surfaces : surface[s].owner = "queue" => surface'[s] = surface[s]
  BY <1>1, <1>2, <1>3
<1>8. \A s \in Surfaces : surface'[s].owner = "queue" => surface[s].owner = "queue"
  BY <1>2
<1>9. {s \in Surfaces : surface'[s].owner = "filter"} = {filter'.source, filter'.out} \ {NoSurface}
  BY <1>5, Finished
<1> QED
  BY <1>4, <1>6, <1>7, <1>8, <1>9 DEF Holders

\* What the surfaces have become when `out' is shown: the other one in hand goes
\* to the pool or to nobody, and nothing else changes.
Spares(now, out) ==
    /\ Framed(now)
    /\ \A s \in Surfaces \ {out} : s \notin {filter.source, filter.out} =>
           now[s].owner = surface[s].owner
    /\ \A s \in Surfaces \ {out} : s \in {filter.source, filter.out} =>
           now[s].owner = "free" \/ (backend # "d3d11" /\ now[s].owner = "lost")
    /\ \A s \in Surfaces : surface[s].owner = "queue" => s # out /\ now[s].shows = surface[s].shows

LEMMA HandOut ==
    ASSUME BackendInv, filter.step # "idle", filter' = IdleFilter, UNCHANGED backend,
           NEW now, NEW out \in Surfaces, Show(out, now), Spares(now, out)
    PROVE  Holders
<1> USE DEF Spares
<1>1. /\ filter.source \in Surfaces
      /\ \A s \in Surfaces : surface[s].owner = "filter" <=> s \in {filter.source, filter.out}
  BY InHand
<1>2. surface' = [s \in Surfaces |->
                     [owner |-> IF s = out THEN "display" ELSE now[s].owner, shows |-> now[s].shows]]
  <2>1. surface' = [now EXCEPT ![out].owner = "display"]
    BY DEF Show
  <2>2. [now EXCEPT ![out].owner = "display"] = [s \in Surfaces |->
            [owner |-> IF s = out THEN "display" ELSE now[s].owner, shows |-> now[s].shows]]
    <3>1. ASSUME NEW s \in Surfaces
          PROVE  [now EXCEPT ![out].owner = "display"][s] =
                    [owner |-> IF s = out THEN "display" ELSE now[s].owner, shows |-> now[s].shows]
      <4>1. now[s] = [owner |-> now[s].owner, shows |-> now[s].shows]
        BY DEF Framed
      <4> QED
        BY <4>1 DEF Framed
    <3> QED
      BY <3>1 DEF Framed
  <2> QED
    BY <2>1, <2>2
<1>3. \A s \in Surfaces : surface[s] = [owner |-> surface[s].owner, shows |-> surface[s].shows]
  BY DEF BackendInv, Shape
<1>4. Framed(surface)'
  BY <1>2 DEF Framed
<1>5. \A s \in Surfaces : surface'[s].owner # "filter"
  BY <1>1, <1>2
<1>6. backend = "d3d11" => \A s \in Surfaces : surface'[s].owner # "lost"
  BY <1>2 DEF BackendInv, SurfacesAccountedFor
<1>7. \A s \in Surfaces : surface[s].owner = "queue" => surface'[s] = surface[s]
  BY <1>1, <1>2, <1>3
<1>8. \A s \in Surfaces : surface'[s].owner = "queue" => surface[s].owner = "queue"
  BY <1>1, <1>2
<1>9. {s \in Surfaces : surface'[s].owner = "filter"} = {filter'.source, filter'.out} \ {NoSurface}
  BY <1>5, Finished
<1> QED
  BY <1>4, <1>6, <1>7, <1>8, <1>9 DEF Holders

\* The source itself goes to the display.
LEMMA ShowSource ==
    ASSUME BackendInv, filter.step = "panel", Show(filter.source, surface),
           UNCHANGED <<backend, home, worker, seen>>, Caching
    PROVE  BackendInv'
<1>1. filter' = IdleFilter /\ fate' = [fate EXCEPT ![filter.pic] = "shown"]
  BY DEF Show
<1>2. /\ filter.source \in Surfaces /\ Framed(surface)
      /\ filter.out \in {NoSurface, filter.source}
      /\ \A s \in Surfaces : surface[s].owner = "filter" <=> s \in {filter.source, filter.out}
  BY <1>1, InHand DEF BackendInv, Handling
<1>3. Spares(surface, filter.source)
  BY <1>2, SurfacesAssumption DEF Spares
<1>4. Holders
  BY <1>1, <1>2, <1>3, HandOut
<1> QED
  BY <1>1, <1>4, Finished, FilterStepKeeps

LEMMA StepShowWithoutPanel == ASSUME BackendInv, ShowWithoutPanel PROVE BackendInv'
<1>1. /\ filter.step = "panel" /\ Show(filter.source, surface)
      /\ UNCHANGED <<backend, home, worker, seen, views, next_view, api_lock>>
  BY DEF ShowWithoutPanel, resourceVars
<1> QED
  BY <1>1, SameCache, ShowSource

LEMMA StepMaskConverter == ASSUME BackendInv, MaskConverter PROVE BackendInv'
<1>1. /\ filter.step = "mask" /\ filter' = IdleFilter /\ backend = "converter"
      /\ fate' = [fate EXCEPT ![filter.pic] = "dropped"]
      /\ surface' = Given("lost", {filter.source})
      /\ UNCHANGED <<backend, home, worker, seen, views, next_view, api_lock>>
  BY DEF MaskConverter, Drop, resourceVars
<1>2. filter.out = NoSurface
  BY <1>1 DEF BackendInv, Handling
<1>3. Holders
  BY <1>1, <1>2, HandOver, SurfacesAssumption
<1>4. Caching
  BY <1>1, SameCache
<1> QED
  BY <1>1, <1>3, <1>4, Finished, FilterStepKeeps

\* An output surface is taken for the treatment of the source.
LEMMA Taken ==
    ASSUME BackendInv, NEW out \in Free, NEW view \in SurfaceOrNone, NEW step \in {"effect", "compose"},
           filter.step # "idle", filter.out \in {NoSurface, filter.source}, UNCHANGED <<backend, fate>>,
           filter' = [filter EXCEPT !.step = step, !.out = out, !.view = view],
           surface' = Given("filter", {out}), Lock("filter")
    PROVE  FilterTyped' /\ Handling' /\ Holders
<1>1. /\ out \in Surfaces /\ surface[out].owner = "free"
      /\ filter.source \in Surfaces /\ out \notin {filter.source, filter.out}
      /\ filter.pic \in Pictures /\ fate[filter.pic] = "leaving" /\ FilterTyped
      /\ \A s \in Surfaces : surface[s].owner = "filter" <=> s \in {filter.source, filter.out}
  BY InHand DEF Free
<1>2. FilterTyped' /\ filter'.step = step /\ filter'.out = out /\ filter'.source = filter.source
      /\ filter'.pic = filter.pic
  BY <1>1 DEF FilterTyped, Steps, SurfaceOrNone
<1>3. Handling'
  BY <1>1, <1>2 DEF Handling, Lock
<1>4. surface' = [s \in Surfaces |->
                     [owner |-> IF s \in {out} THEN "filter" ELSE surface[s].owner, shows |-> surface[s].shows]]
  BY GivenSurfaces DEF BackendInv
<1>5. \A s \in Surfaces : surface[s] = [owner |-> surface[s].owner, shows |-> surface[s].shows]
  BY DEF BackendInv, Shape
<1>6. Framed(surface)'
  BY <1>4 DEF Framed
<1>7. \A s \in Surfaces : surface'[s].owner = "filter" <=> s \in {filter.source, out}
  BY <1>1, <1>4, SurfacesAssumption
<1>8. backend = "d3d11" => \A s \in Surfaces : surface'[s].owner # "lost"
  <2>1. backend = "d3d11" => \A s \in Surfaces : surface[s].owner # "lost"
    BY DEF BackendInv, SurfacesAccountedFor
  <2> QED
    BY <1>4, <2>1
<1>9. \A s \in Surfaces : surface[s].owner = "queue" => surface'[s] = surface[s]
  BY <1>1, <1>4, <1>5
<1>10. \A s \in Surfaces : surface'[s].owner = "queue" => surface[s].owner = "queue"
  BY <1>4
<1>11. {s \in Surfaces : surface'[s].owner = "filter"} = {filter'.source, filter'.out} \ {NoSurface}
  BY <1>1, <1>2, <1>7, SurfacesAssumption
<1> QED
  BY <1>2, <1>3, <1>6, <1>8, <1>9, <1>10, <1>11 DEF Holders

LEMMA StepMaskD3D11 == ASSUME BackendInv, MaskD3D11 PROVE BackendInv'
<1>1. /\ filter.step = "mask" /\ backend = "d3d11"
      /\ UNCHANGED <<backend, home, worker, seen>>
  BY DEF MaskD3D11, resourceVars
<1>2. filter.out = NoSurface /\ filter.source \in Surfaces
  BY <1>1 DEF BackendInv, Handling
<1>3. ASSUME Drop, surface' = HandBack, Caching
      PROVE  BackendInv'
  <2>1. filter' = IdleFilter /\ fate' = [fate EXCEPT ![filter.pic] = "dropped"]
    BY <1>3 DEF Drop
  <2>2. Holders
    BY <1>1, <1>3, <2>1, HandOver DEF HandBack, Released
  <2> QED
    BY <1>1, <1>3, <2>1, <2>2, Finished, FilterStepKeeps
<1>4. CASE Drop /\ surface' = HandBack /\ UNCHANGED <<api_lock, views, next_view>>
  BY <1>3, <1>4, SameCache
<1>5. ASSUME NEW out \in Free, NEW view, GetInputView(filter.source, view), api_lock = "free",
             Drop, surface' = HandBack
      PROVE  BackendInv'
  BY <1>2, <1>3, <1>5, NewView
<1>6. ASSUME NEW out \in Free, NEW view, GetInputView(filter.source, view), Lock("filter"),
             filter' = [filter EXCEPT !.step = "effect", !.out = out, !.view = view],
             surface' = Given("filter", {out}), UNCHANGED fate
      PROVE  BackendInv'
  <2>1. Caching /\ view \in SurfaceOrNone
    BY <1>2, <1>6, NewView DEF Lock
  <2>2. FilterTyped' /\ Handling' /\ Holders
    BY <1>1, <1>2, <1>6, <2>1, Taken
  <2> QED
    BY <1>1, <1>6, <2>1, <2>2, FilterStepKeeps
<1> QED
  BY <1>4, <1>5, <1>6 DEF MaskD3D11

LEMMA StepEffectD3D11 == ASSUME BackendInv, EffectD3D11 PROVE BackendInv'
<1>1. /\ filter.step = "effect" /\ Unlock
      /\ UNCHANGED <<backend, home, worker, seen, views, next_view>>
  BY DEF EffectD3D11, resourceVars
<1>2. /\ filter.source \in Surfaces /\ filter.out \in Surfaces /\ filter.out # filter.source
      /\ filter.pic \in Pictures /\ fate[filter.pic] = "leaving" /\ FilterTyped /\ Framed(surface)
      /\ \A s \in Surfaces : surface[s].owner = "filter" <=> s \in {filter.source, filter.out}
      /\ worker.step # "read"
  BY <1>1, InHand DEF BackendInv, Handling, Reading
<1>3. Caching
  BY <1>1, <1>2, SameCache
<1>4. CASE Drop /\ surface' = HandBack
  <2>1. filter' = IdleFilter /\ fate' = [fate EXCEPT ![filter.pic] = "dropped"]
    BY <1>4 DEF Drop
  <2>2. Holders
    BY <1>1, <1>4, <2>1, HandOver DEF HandBack, Released
  <2> QED
    BY <1>1, <1>3, <2>1, <2>2, Finished, FilterStepKeeps
<1>5. CASE /\ filter' = [filter EXCEPT !.step = "panel", !.source = filter.out]
           /\ surface' = [Released({filter.source}) EXCEPT ![filter.out].shows = render']
           /\ UNCHANGED fate
  <2>1. /\ FilterTyped' /\ filter'.step = "panel" /\ filter'.source = filter.out
        /\ filter'.out = filter.out /\ filter'.pic = filter.pic
    BY <1>2, <1>5 DEF FilterTyped, Steps, SurfaceOrNone
  <2>2. Handling'
    BY <1>2, <1>5, <2>1 DEF Handling
  <2>0. PICK what : what = render'
    OBVIOUS
  <2>3. surface' = Showing("free", filter.source, filter.out, what)
    BY <1>5, <2>0 DEF Showing, Released
  <2>4. /\ Framed(surface)'
        /\ \A s \in Surfaces :
               /\ surface'[s].owner = IF s = filter.source THEN "free" ELSE surface[s].owner
               /\ surface'[s].shows = IF s = filter.out THEN what ELSE surface[s].shows
    <3>1. Shape
      BY DEF BackendInv
    <3>2. PICK now : now = Showing("free", filter.source, filter.out, what)
      OBVIOUS
    <3>3. Become(now, "free", filter.source, filter.out, what)
      BY <1>2, <3>1, <3>2, ShowingSurfaces
    <3> QED
      BY <2>3, <3>2, <3>3 DEF Framed, Become
  <2>5. \A s \in Surfaces : surface[s] = [owner |-> surface[s].owner, shows |-> surface[s].shows]
    BY DEF BackendInv, Shape
  <2>6. \A s \in Surfaces : surface'[s] = [owner |-> surface'[s].owner, shows |-> surface'[s].shows]
    BY <2>4 DEF Framed
  <2>7. \A s \in Surfaces : surface'[s].owner = "filter" <=> s = filter.out
    BY <1>2, <2>4
  <2>8. backend = "d3d11" => \A s \in Surfaces : surface'[s].owner # "lost"
    <3>1. backend = "d3d11" => \A s \in Surfaces : surface[s].owner # "lost"
      BY DEF BackendInv, SurfacesAccountedFor
    <3> QED
      BY <2>4, <3>1
  <2>9. \A s \in Surfaces : surface[s].owner = "queue" => surface'[s] = surface[s]
    BY <1>2, <2>4, <2>5, <2>6
  <2>10. \A s \in Surfaces : surface'[s].owner = "queue" => surface[s].owner = "queue"
    BY <2>4
  <2>11. {s \in Surfaces : surface'[s].owner = "filter"} = {filter'.source, filter'.out} \ {NoSurface}
    BY <1>2, <2>1, <2>7, SurfacesAssumption
  <2>12. Holders
    BY <2>4, <2>8, <2>9, <2>10, <2>11 DEF Holders
  <2> QED
    BY <1>1, <1>2, <1>3, <1>5, <2>1, <2>2, <2>12, FilterStepKeeps
<1> QED
  BY <1>4, <1>5 DEF EffectD3D11

LEMMA StepPanelD3D11 == ASSUME BackendInv, PanelD3D11 PROVE BackendInv'
<1>1. filter.step = "panel" /\ UNCHANGED <<backend, home, worker, seen>>
  BY DEF PanelD3D11, WantsPanel, resourceVars
<1>2. filter.source \in Surfaces /\ filter.out \in {NoSurface, filter.source}
  BY <1>1 DEF BackendInv, Handling
<1>3. CASE Show(filter.source, surface) /\ UNCHANGED <<api_lock, views, next_view>>
  BY <1>1, <1>3, SameCache, ShowSource
<1>4. ASSUME NEW view, GetInputView(filter.source, view), api_lock = "free",
             Show(filter.source, surface)
      PROVE  BackendInv'
  BY <1>1, <1>2, <1>4, NewView, ShowSource
<1>5. ASSUME NEW out \in Free, NEW view, GetInputView(filter.source, view), Lock("filter"),
             filter' = [filter EXCEPT !.step = "compose", !.out = out, !.view = view],
             surface' = Given("filter", {out}), UNCHANGED fate
      PROVE  BackendInv'
  <2>1. Caching /\ view \in SurfaceOrNone
    BY <1>2, <1>5, NewView DEF Lock
  <2>2. FilterTyped' /\ Handling' /\ Holders
    BY <1>1, <1>2, <1>5, <2>1, Taken
  <2> QED
    BY <1>1, <1>5, <2>1, <2>2, FilterStepKeeps
<1> QED
  BY <1>3, <1>4, <1>5 DEF PanelD3D11

LEMMA StepComposeD3D11 == ASSUME BackendInv, ComposeD3D11 PROVE BackendInv'
<1>1. /\ filter.step = "compose" /\ Unlock
      /\ UNCHANGED <<backend, home, worker, seen, views, next_view>>
  BY DEF ComposeD3D11, resourceVars
<1>2. /\ filter.source \in Surfaces /\ filter.out \in Surfaces /\ filter.out # filter.source
      /\ \A s \in Surfaces : surface[s].owner = "filter" <=> s \in {filter.source, filter.out}
      /\ worker.step # "read"
  BY <1>1, InHand DEF BackendInv, Handling, Reading
<1>3. Caching
  BY <1>1, <1>2, SameCache
<1>4. ASSUME NEW now, Show(filter.out, now), NEW what, now = Showing("free", filter.source, filter.out, what)
      PROVE  BackendInv'
  <2>1. /\ Framed(now)
        /\ \A s \in Surfaces :
               /\ now[s].owner = IF s = filter.source THEN "free" ELSE surface[s].owner
               /\ now[s].shows = IF s = filter.out THEN what ELSE surface[s].shows
    <3>1. Shape
      BY DEF BackendInv
    <3>2. Become(now, "free", filter.source, filter.out, what)
      BY <1>2, <1>4, <3>1, ShowingSurfaces
    <3> QED
      BY <3>2 DEF Become
  <2>2. filter' = IdleFilter /\ fate' = [fate EXCEPT ![filter.pic] = "shown"]
    BY <1>4 DEF Show
  <2>3. Spares(now, filter.out)
    BY <1>2, <2>1 DEF Spares
  <2>4. Holders
    BY <1>1, <1>2, <1>4, <2>2, <2>3, HandOut
  <2> QED
    BY <1>1, <1>3, <2>2, <2>4, Finished, FilterStepKeeps
<1>5. ASSUME NEW now, Show(filter.source, now), now = Released({filter.out})
      PROVE  BackendInv'
  <2>1. now = [s \in Surfaces |->
            [owner |-> IF s \in {filter.out} THEN "free" ELSE surface[s].owner,
             shows |-> surface[s].shows]]
    BY <1>5, GivenSurfaces DEF BackendInv, Released
  <2>2. filter' = IdleFilter /\ fate' = [fate EXCEPT ![filter.pic] = "shown"]
    BY <1>5 DEF Show
  <2>3. Spares(now, filter.source)
    BY <1>2, <2>1 DEF Spares, Framed
  <2>4. Holders
    BY <1>1, <1>2, <1>5, <2>2, <2>3, HandOut
  <2> QED
    BY <1>1, <1>3, <2>2, <2>4, Finished, FilterStepKeeps
<1>6. CASE Show(filter.out, [Released({filter.source}) EXCEPT ![filter.out].shows = render'])
  <2>1. PICK what : what = render'
    OBVIOUS
  <2>2. PICK now : now = [Released({filter.source}) EXCEPT ![filter.out].shows = what]
    OBVIOUS
  <2>3. now = Showing("free", filter.source, filter.out, what)
    BY <2>2 DEF Showing, Released
  <2>4. Show(filter.out, now)
    BY <1>6, <2>1, <2>2
  <2> QED
    BY <1>4, <2>3, <2>4
<1>7. CASE Show(filter.source, Released({filter.out}))
  BY <1>5, <1>7
<1> QED
  BY <1>6, <1>7 DEF ComposeD3D11

LEMMA StepMaskVaapi == ASSUME BackendInv, MaskVaapi PROVE BackendInv'
<1>1. /\ filter.step = "mask" /\ backend = "vaapi"
      /\ UNCHANGED <<backend, home, worker, seen, views, next_view, api_lock>>
  BY DEF MaskVaapi, resourceVars
<1>2. /\ filter.source \in Surfaces /\ filter.out = NoSurface /\ FilterTyped
      /\ filter.pic \in Pictures /\ fate[filter.pic] = "leaving"
      /\ \A s \in Surfaces : surface[s].owner = "filter" <=> s = filter.source
  BY <1>1, InHand, SurfacesAssumption DEF BackendInv, Handling
<1>3. Caching
  BY <1>1, SameCache
<1>4. CASE Drop /\ surface' = Given("lost", {filter.source})
  <2>1. filter' = IdleFilter /\ fate' = [fate EXCEPT ![filter.pic] = "dropped"]
    BY <1>4 DEF Drop
  <2>2. Holders
    BY <1>1, <1>2, <1>4, <2>1, HandOver, SurfacesAssumption
  <2> QED
    BY <1>1, <1>3, <2>1, <2>2, Finished, FilterStepKeeps
<1>5. ASSUME NEW out \in Free, NEW content, UNCHANGED fate,
             filter' = [filter EXCEPT !.step = "panel", !.source = out],
             surface' = [Given("lost", {filter.source}) EXCEPT ![out] = [owner |-> "filter", shows |-> content]]
      PROVE  BackendInv'
  <2>1. out \in Surfaces /\ surface[out].owner = "free" /\ out # filter.source
    BY <1>2, <1>5 DEF Free
  <2>2. FilterTyped' /\ filter'.step = "panel" /\ filter'.source = out
        /\ filter'.out = NoSurface /\ filter'.pic = filter.pic
    BY <1>2, <1>5, <2>1 DEF FilterTyped, Steps, SurfaceOrNone
  <2>3. Handling'
    BY <1>2, <1>5, <2>1, <2>2 DEF Handling
  <2>4. PICK now : now = Given("lost", {filter.source})
    OBVIOUS
  <2>5. now = [s \in Surfaces |-> [owner |-> IF s \in {filter.source} THEN "lost" ELSE surface[s].owner,
                                   shows |-> surface[s].shows]]
    BY <2>4, GivenSurfaces DEF BackendInv
  <2>6. surface' = [now EXCEPT ![out] = [owner |-> "filter", shows |-> content]]
    BY <1>5, <2>4
  <2>7. \A s \in Surfaces : surface[s] = [owner |-> surface[s].owner, shows |-> surface[s].shows]
    BY DEF BackendInv, Shape
  <2>8. /\ surface'[out] = [owner |-> "filter", shows |-> content]
        /\ surface'[filter.source] = [owner |-> "lost", shows |-> surface[filter.source].shows]
        /\ \A s \in Surfaces \ {out, filter.source} : surface'[s] = surface[s]
    BY <1>2, <2>1, <2>5, <2>6, <2>7
  <2>9. Framed(surface)'
    <3>1. surface' = [s \in Surfaces |-> surface'[s]]
      BY <2>5, <2>6
    <3>2. \A s \in Surfaces : surface'[s] = [owner |-> surface'[s].owner, shows |-> surface'[s].shows]
      BY <2>7, <2>8
    <3> QED
      BY <3>1, <3>2 DEF Framed
  <2>10. \A s \in Surfaces : surface'[s].owner = "filter" <=> s = out
    BY <1>2, <2>1, <2>8
  <2>11. \A s \in Surfaces : surface[s].owner = "queue" => surface'[s] = surface[s]
    BY <1>2, <2>1, <2>7, <2>8
  <2>12. \A s \in Surfaces : surface'[s].owner = "queue" => surface[s].owner = "queue"
    BY <2>1, <2>8
  <2>13. {s \in Surfaces : surface'[s].owner = "filter"} = {filter'.source, filter'.out} \ {NoSurface}
    BY <2>1, <2>2, <2>10, SurfacesAssumption
  <2>14. Holders
    BY <1>1, <2>9, <2>11, <2>12, <2>13 DEF Holders
  <2> QED
    BY <1>1, <1>3, <1>5, <2>2, <2>3, <2>14, FilterStepKeeps
<1> QED
  BY <1>4, <1>5 DEF MaskVaapi

LEMMA StepPanelVaapi == ASSUME BackendInv, PanelVaapi PROVE BackendInv'
<1>1. /\ filter.step = "panel" /\ backend = "vaapi"
      /\ UNCHANGED <<backend, home, worker, seen, views, next_view, api_lock>>
  BY DEF PanelVaapi, WantsPanel, resourceVars
<1>2. /\ filter.source \in Surfaces /\ filter.out \in {NoSurface, filter.source}
      /\ \A s \in Surfaces : surface[s].owner = "filter" <=> s = filter.source
  BY <1>1, InHand, SurfacesAssumption DEF BackendInv, Handling
<1>3. Caching
  BY <1>1, SameCache
<1>4. CASE Show(filter.source, surface)
  BY <1>1, <1>3, <1>4, ShowSource
<1>5. CASE Drop /\ surface' = Given("lost", {filter.source})
  <2>1. filter' = IdleFilter /\ fate' = [fate EXCEPT ![filter.pic] = "dropped"]
    BY <1>5 DEF Drop
  <2>2. Holders
    BY <1>1, <1>2, <1>5, <2>1, HandOver, SurfacesAssumption
  <2> QED
    BY <1>1, <1>3, <2>1, <2>2, Finished, FilterStepKeeps
<1>6. ASSUME NEW out \in Free, NEW now, Show(out, now),
             now = [Given("lost", {filter.source}) EXCEPT ![out].shows = surface[filter.source].shows]
      PROVE  BackendInv'
  <2>1. PICK what : what = surface[filter.source].shows
    OBVIOUS
  <2>2. now = Showing("lost", filter.source, out, what)
    BY <1>6, <2>1 DEF Showing
  <2>3. out \in Surfaces /\ surface[out].owner = "free" /\ Shape
    BY <1>6 DEF Free, BackendInv
  <2>4. /\ Framed(now)
        /\ \A s \in Surfaces :
               /\ now[s].owner = IF s = filter.source THEN "lost" ELSE surface[s].owner
               /\ now[s].shows = IF s = out THEN what ELSE surface[s].shows
    <3>1. Become(now, "lost", filter.source, out, what)
      BY <2>2, <2>3, ShowingSurfaces
    <3> QED
      BY <3>1 DEF Become
  <2>5. filter' = IdleFilter /\ fate' = [fate EXCEPT ![filter.pic] = "shown"]
    BY <1>6 DEF Show
  <2>6. Spares(now, out)
    BY <1>1, <1>2, <2>3, <2>4, SurfacesAssumption DEF Spares
  <2>7. Holders
    BY <1>1, <1>6, <2>3, <2>5, <2>6, HandOut
  <2> QED
    BY <1>1, <1>3, <2>5, <2>7, Finished, FilterStepKeeps
<1>7. ASSUME NEW out \in Free,
             Show(out, [Given("lost", {filter.source}) EXCEPT ![out].shows = surface[filter.source].shows])
      PROVE  BackendInv'
  <2>1. PICK now : now = [Given("lost", {filter.source}) EXCEPT ![out].shows = surface[filter.source].shows]
    OBVIOUS
  <2>2. Show(out, now)
    BY <1>7, <2>1
  <2> QED
    BY <1>6, <1>7, <2>1, <2>2
<1> QED
  BY <1>4, <1>5, <1>7 DEF PanelVaapi

LEMMA StepTakeOutput == ASSUME BackendInv, TakeOutput PROVE BackendInv'
<1> USE DEF BackendInv
<1>1. PICK p : p = Oldest(Inside)
  OBVIOUS
<1>2. /\ filter.step = "idle" /\ p \in Inside /\ p \in Pictures /\ fate[p] = "decided"
      /\ home[p] \in Surfaces /\ surface[home[p]].owner = "queue"
  <2>1. Inside \in SUBSET Nat /\ Inside \subseteq Pictures
    BY PicturesAssumption DEF Inside
  <2>2. filter.step = "idle" /\ Inside # {} /\ fate[p] = "decided"
    BY <1>1 DEF TakeOutput
  <2>3. p \in Inside
    BY <1>1, <2>1, <2>2, OldestIsOne
  <2> QED
    BY <2>1, <2>2, <2>3, HomeOfInside
<1>3. /\ filter' = [IdleFilter EXCEPT !.step = IF evaluation[p].blocked THEN "mask" ELSE "panel",
                                     !.pic = p, !.source = home[p]]
      /\ fate' = [fate EXCEPT ![p] = "leaving"]
      /\ home' = [home EXCEPT ![p] = NoSurface]
      /\ surface' = Given("filter", {home[p]})
      /\ seen' = IF seen.pic = p THEN Nobody ELSE seen
      /\ UNCHANGED <<backend, worker, api_lock, views, next_view>>
  BY <1>1 DEF TakeOutput, resourceVars
<1>4. PICK step \in {"mask", "panel"} :
          filter' = [step |-> step, pic |-> p, source |-> home[p], out |-> NoSurface, view |-> NoSurface]
  BY <1>3 DEF IdleFilter
<1>5. /\ fate' \in [Pictures -> {"coming", "queued", "decided", "leaving", "dropped", "shown"}]
      /\ fate'[p] = "leaving" /\ \A q \in Pictures \ {p} : fate'[q] = fate[q]
      /\ home' \in [Pictures -> SurfaceOrNone] /\ \A q \in Pictures \ {p} : home'[q] = home[q]
  BY <1>2, <1>3 DEF Shape, SurfaceOrNone
<1>6. Inside' = Inside \ {p}
  BY <1>2, <1>5 DEF Inside
<1>7. surface' = [s \in Surfaces |-> [owner |-> IF s \in {home[p]} THEN "filter" ELSE surface[s].owner,
                                      shows |-> surface[s].shows]]
  BY <1>3, GivenSurfaces
<1>8. \A s \in Surfaces : surface[s] = [owner |-> surface[s].owner, shows |-> surface[s].shows]
  BY DEF Shape
<1>9. surface'[home[p]].owner = "filter" /\ \A s \in Surfaces \ {home[p]} : surface'[s] = surface[s]
  BY <1>2, <1>7, <1>8
<1>10. Shape'
  <2>1. Framed(surface)'
    BY <1>7 DEF Framed
  <2>2. FilterTyped'
    BY <1>2, <1>4 DEF FilterTyped, Steps, SurfaceOrNone
  <2> QED
    BY <1>3, <1>5, <2>1, <2>2 DEF Shape, Framed, FilterTyped
<1>11. Handling' /\ ViewsMatch' /\ Reading'
  <2>1. Handling'
    BY <1>2, <1>4, <1>5 DEF Handling
  <2>2. ViewsMatch'
    BY <1>3 DEF ViewsMatch
  <2>3. Reading'
    BY <1>2, <1>3, <1>5 DEF Reading, Live
  <2> QED
    BY <2>1, <2>2, <2>3
<1>12. SurfacesAccountedFor'
  <2>1. \A q \in Inside' : q \in Inside /\ q \in Pictures \ {p} /\ home'[q] = home[q]
                            /\ home[q] \in Surfaces \ {home[p]}
    BY <1>2, <1>5, <1>6, HomeOfInside DEF Inside, SurfacesAccountedFor
  <2>2. \A q \in Inside' : surface'[home'[q]] = [owner |-> "queue", shows |-> Raw(q)]
    BY <1>9, <2>1 DEF SurfacesAccountedFor
  <2>3. \A q, r \in Inside' : q # r => home'[q] # home'[r]
    BY <2>1 DEF SurfacesAccountedFor
  <2>4. {s \in Surfaces : surface'[s].owner = "filter"} = {filter'.source, filter'.out} \ {NoSurface}
    <3>1. {s \in Surfaces : surface[s].owner = "filter"} = {}
      BY <1>2 DEF Handling, SurfacesAccountedFor
    <3>2. {s \in Surfaces : surface'[s].owner = "filter"} = {home[p]}
      BY <1>2, <1>9, <3>1
    <3> QED
      BY <1>2, <1>4, <3>2, SurfacesAssumption
  <2>5. {s \in Surfaces : surface'[s].owner = "queue"} = {home'[q] : q \in Inside'}
    <3>1. {s \in Surfaces : surface[s].owner = "queue"} = {home[q] : q \in Inside}
      BY DEF SurfacesAccountedFor
    <3>2. {s \in Surfaces : surface'[s].owner = "queue"} = {home[q] : q \in Inside} \ {home[p]}
      BY <1>2, <1>9, <3>1
    <3>3. {home'[q] : q \in Inside'} = {home[q] : q \in Inside} \ {home[p]}
      BY <1>6, <2>1
    <3> QED
      BY <3>2, <3>3
  <2>6. backend' = "d3d11" => \A s \in Surfaces : surface'[s].owner # "lost"
    <3>1. backend = "d3d11" => \A s \in Surfaces : surface[s].owner # "lost"
      BY DEF SurfacesAccountedFor
    <3>2. backend' = backend
      BY <1>3
    <3> QED
      BY <1>7, <3>1, <3>2
  <2> QED
    BY <2>2, <2>3, <2>4, <2>5, <2>6 DEF SurfacesAccountedFor, Raw, Nothing
<1>13. ReadbackIsThePicture'
  BY <1>3 DEF ReadbackIsThePicture, Nobody, Raw, Nothing
<1> QED
  BY <1>10, <1>11, <1>12, <1>13
-----------------------------------------------------------------------------
(***************************************************************************)
(* The display and Close.                                                  *)
(***************************************************************************)
LEMMA StepDisplayDone == ASSUME BackendInv, DisplayDone PROVE BackendInv'
<1> USE DEF BackendInv
<1>1. PICK d \in Surfaces : surface[d].owner = "display" /\ surface' = Released({d})
  BY DEF DisplayDone
<1>2. UNCHANGED <<backend, home, fate, seen, filter, worker, api_lock, views, next_view>>
  BY DEF DisplayDone, resourceVars
<1>3. surface' = [s \in Surfaces |-> [owner |-> IF s \in {d} THEN "free" ELSE surface[s].owner,
                                      shows |-> surface[s].shows]]
  BY <1>1, GivenSurfaces DEF Released
<1>4. \A s \in Surfaces : surface[s] = [owner |-> surface[s].owner, shows |-> surface[s].shows]
  BY DEF Shape
<1>5. surface'[d].owner = "free" /\ \A s \in Surfaces \ {d} : surface'[s] = surface[s]
  BY <1>3, <1>4
<1>6. Shape'
  <2>1. Framed(surface)'
    BY <1>3 DEF Framed
  <2> QED
    BY <1>2, <2>1 DEF Shape, Framed
<1>7. Handling' /\ ViewsMatch' /\ Reading'
  BY <1>2 DEF Handling, ViewsMatch, Reading, Live
<1>8. Inside' = Inside
  BY <1>2 DEF Inside
<1>9. SurfacesAccountedFor'
  <2>1. \A p \in Inside : surface'[home[p]] = [owner |-> "queue", shows |-> Raw(p)]
    <3>1. \A p \in Inside : home[p] \in Surfaces \ {d}
      BY <1>1, HomeOfInside
    <3>2. \A p \in Inside : surface[home[p]] = [owner |-> "queue", shows |-> Raw(p)]
      BY DEF SurfacesAccountedFor
    <3> QED
      BY <1>5, <3>1, <3>2
  <2>2. {s \in Surfaces : surface'[s].owner = "filter"} = {s \in Surfaces : surface[s].owner = "filter"}
    BY <1>1, <1>5
  <2>3. {s \in Surfaces : surface'[s].owner = "queue"} = {s \in Surfaces : surface[s].owner = "queue"}
    BY <1>1, <1>5
  <2>4. backend = "d3d11" => \A s \in Surfaces : surface'[s].owner # "lost"
    BY <1>5 DEF SurfacesAccountedFor
  <2> QED
    BY <1>2, <1>8, <2>1, <2>2, <2>3, <2>4 DEF SurfacesAccountedFor, Raw, Nothing
<1> QED
  BY <1>2, <1>6, <1>7, <1>9 DEF ReadbackIsThePicture, Raw, Nothing

LEMMA StepCloseBackend == ASSUME BackendInv, CloseBackend PROVE BackendInv'
<1> USE DEF BackendInv
<1>1. /\ filter.step = "idle" /\ worker.step = "idle"
      /\ surface' = Released({home[p] : p \in Inside})
      /\ home' = [p \in Pictures |-> NoSurface]
      /\ fate' = [p \in Pictures |-> IF p \in Inside THEN "dropped" ELSE fate[p]]
      /\ views' = [i \in 1 .. MaxViews |-> [key |-> NoSurface, input |-> NoSurface]]
      /\ UNCHANGED <<seen, filter, worker, api_lock, next_view>>
  BY DEF CloseBackend
<1>2. UNCHANGED backend
  BY DEF CloseBackend, CloseResources
<1>3. PICK waiting : waiting = {home[p] : p \in Inside}
  OBVIOUS
<1>4. surface' = [s \in Surfaces |-> [owner |-> IF s \in waiting THEN "free" ELSE surface[s].owner,
                                      shows |-> surface[s].shows]]
  BY <1>1, <1>3, GivenSurfaces DEF Released
<1>5. waiting = {s \in Surfaces : surface[s].owner = "queue"}
  BY <1>3 DEF SurfacesAccountedFor
<1>6. Inside' = {}
  BY <1>1 DEF Inside
<1>7. Shape'
  <2>1. Framed(surface)'
    BY <1>4 DEF Framed
  <2>2. home' \in [Pictures -> SurfaceOrNone]
    BY <1>1 DEF SurfaceOrNone
  <2>3. fate' \in [Pictures -> {"coming", "queued", "decided", "leaving", "dropped", "shown"}]
    BY <1>1 DEF Shape
  <2>4. views' \in [1 .. MaxViews -> [key : SurfaceOrNone, input : SurfaceOrNone]]
    BY <1>1 DEF SurfaceOrNone
  <2> QED
    BY <1>1, <2>1, <2>2, <2>3, <2>4 DEF Shape, Framed
<1>8. Handling' /\ ViewsMatch' /\ Reading'
  BY <1>1 DEF Handling, ViewsMatch, Reading
<1>9. SurfacesAccountedFor'
  <2>1. {s \in Surfaces : surface'[s].owner = "filter"} = {s \in Surfaces : surface[s].owner = "filter"}
    BY <1>4, <1>5
  <2>2. {s \in Surfaces : surface'[s].owner = "queue"} = {}
    BY <1>4, <1>5
  <2>3. backend = "d3d11" => \A s \in Surfaces : surface'[s].owner # "lost"
    <3>1. backend = "d3d11" => \A s \in Surfaces : surface[s].owner # "lost"
      BY DEF SurfacesAccountedFor
    <3> QED
      BY <1>4, <3>1
  <2> QED
    BY <1>1, <1>2, <1>6, <2>1, <2>2, <2>3 DEF SurfacesAccountedFor
<1> QED
  BY <1>1, <1>7, <1>8, <1>9 DEF ReadbackIsThePicture, Raw, Nothing
-----------------------------------------------------------------------------
LEMMA BackendStep == BackendInv /\ [BackendNext]_backendVars => BackendInv'
<1> SUFFICES ASSUME BackendInv, [BackendNext]_backendVars PROVE BackendInv'
  OBVIOUS
<1>1. CASE UNCHANGED backendVars
  <2>1. UNCHANGED gpuVars /\ UNCHANGED backend
    BY <1>1 DEF backendVars, resourceVars
  <2> QED
    BY <2>1, SameSurfaces
<1>2. CASE OpenBackend \/ Decode \/ DisplayDone \/ CloseBackend
  BY <1>2, StepOpen, StepDecode, StepDisplayDone, StepCloseBackend
<1>3. CASE WorkerStep
  BY <1>3, StepUnsampled, StepBeginReadback, StepEndReadback, StepReadSurface DEF WorkerStep
<1>4. CASE FilterStep
  BY <1>4, StepTakeOutput, StepMaskConverter, StepShowWithoutPanel, StepMaskD3D11, StepEffectD3D11,
     StepPanelD3D11, StepComposeD3D11, StepMaskVaapi, StepPanelVaapi DEF FilterStep
<1> QED
  BY <1>1, <1>2, <1>3, <1>4 DEF BackendNext

LEMMA DisplayStep == BackendInv /\ [Next]_vars => BackendInv'
<1>1. [Next]_vars => [BackendNext]_backendVars
  BY DEF Next, vars, OpenInstance, SoftwareOutput, HardwareOutput, BackendNext
<1> QED
  BY <1>1, BackendStep

-----------------------------------------------------------------------------
(***************************************************************************)
(* What VLC gets: the verdict is carried out between TakeOutput and Show,  *)
(* on the picture itself or on the output made of it, and the score on the *)
(* panel is written last.                                                  *)
(***************************************************************************)
Bare(p, mask, score) == [pic |-> p, mask |-> mask, panel |-> score]

\* What VLC may get for a picture, with a score on its panel.
Due(p, score) ==
    IF evaluation[p].blocked /\ ~(backend = "vaapi" /\ block_style = "warning")
    THEN {Bare(p, block_style, score), Bare(0, "black", score)}
    ELSE {Bare(p, "none", score)}

\* The backend is settled before the first picture.
NotYet ==
    phase \in {"opening", "failed"} =>
        /\ filter.step = "idle" /\ shown.pic = 0
        /\ \A p \in Pictures : fate[p] = "coming"

\* What the source shows at each step, and the view it is seen through.
Making ==
    /\ filter.step # "idle" => shown.pic = 0
    /\ filter.step \in {"mask", "effect"} =>
           evaluation[filter.pic].blocked /\ surface[filter.source].shows = Raw(filter.pic)
    /\ filter.step \in {"panel", "compose"} => surface[filter.source].shows \in Due(filter.pic, NoScore)
    /\ filter.step \in {"effect", "compose"} =>
           filter.view = filter.source /\ Live(filter.view) /\ backend = "d3d11"

ShownDue ==
    shown.pic # 0 =>
        /\ shown.pic \in Pictures /\ fate[shown.pic] = "shown"
        /\ \E score \in {NoScore, debug_score} : shown.content \in Due(shown.pic, score)

DebugCached == debug.valid => debug.shows = debug.score

OutputInv ==
    /\ NotYet /\ Making /\ ShownDue /\ DebugCached
    /\ block_style \in Styles /\ DOMAIN evaluation = Pictures

LEMMA InitOutput == BackendInit => OutputInv
BY DEF BackendInit, ResourcesInit, OutputInv, NotYet, Making, ShownDue, DebugCached,
       IdleFilter, Nobody

\* A step of another actor leaves what VLC's thread has in hand.
LEMMA OthersKeepOutput ==
    ASSUME BackendInv, OutputInv,
           UNCHANGED <<backend, phase, block_style, shown, filter, debug, debug_score>>,
           \A p \in Pictures : fate[p] \in {"leaving", "shown"} =>
               fate'[p] = fate[p] /\ evaluation'[p] = evaluation[p],
           phase \in {"opening", "failed"} => fate' = fate,
           \A s \in Surfaces : surface[s].owner = "filter" => surface'[s].shows = surface[s].shows,
           api_lock = "filter" => UNCHANGED views, DOMAIN evaluation' = Pictures
    PROVE  OutputInv'
<1> USE DEF OutputInv
<1>1. NotYet'
  BY DEF NotYet
<1>2. Making'
  <2>1. CASE filter.step = "idle"
    BY <2>1 DEF Making
  <2>2. CASE filter.step # "idle"
    <3>1. /\ fate[filter.pic] = "leaving" /\ filter.pic \in Pictures
          /\ evaluation'[filter.pic] = evaluation[filter.pic]
          /\ surface'[filter.source].shows = surface[filter.source].shows
      BY <2>2, InHand
    <3>2. filter.step \in {"effect", "compose"} => api_lock = "filter"
      BY DEF BackendInv, Handling
    <3> QED
      BY <3>1, <3>2 DEF Making, Due, Bare, Raw, Nothing, Live
  <2> QED
    BY <2>1, <2>2
<1>3. ShownDue'
  BY DEF ShownDue, Due, Bare
<1>4. DebugCached'
  BY DEF DebugCached
<1> QED
  BY <1>1, <1>2, <1>3, <1>4

\* A call that ends without a picture.
LEMMA DroppedOutput ==
    ASSUME BackendInv, OutputInv, filter.step # "idle", filter' = IdleFilter,
           UNCHANGED <<phase, block_style, evaluation, shown>>, DebugCached'
    PROVE  OutputInv'
BY DEF OutputInv, NotYet, Making, ShownDue, IdleFilter

\* A call that ends with one that is due.
LEMMA ShownOutput ==
    ASSUME BackendInv, OutputInv, filter.step # "idle",
           UNCHANGED <<phase, backend, block_style, evaluation>>, DebugCached',
           NEW s \in Surfaces, NEW now, Show(s, now),
           \E score \in {NoScore, debug_score'} : now[s].shows \in Due(filter.pic, score)
    PROVE  OutputInv'
<1> USE DEF OutputInv
<1>1. PICK p \in Pictures : p = filter.pic
  BY InHand
<1>2. shown' = [pic |-> p, content |-> now[s].shows] /\ filter' = IdleFilter
  BY <1>1 DEF Show
<1>3. fate'[p] = "shown"
  BY <1>1, InHand DEF Show, BackendInv, Shape
<1>4. p # 0
  BY PicturesAssumption
<1>5. PICK score \in {NoScore, debug_score'} : now[s].shows \in Due(p, score)
  BY <1>1
<1>6. ShownDue'
  BY <1>2, <1>3, <1>5 DEF ShownDue, Due, Bare
<1>7. NotYet' /\ Making'
  BY <1>2 DEF NotYet, Making, IdleFilter
<1> QED
  BY <1>6, <1>7

LEMMA ShownSource ==
    ASSUME BackendInv, OutputInv, filter.step \in {"panel", "compose"},
           UNCHANGED <<phase, backend, block_style, evaluation>>, DebugCached',
           NEW now, Show(filter.source, now), now[filter.source].shows = surface[filter.source].shows
    PROVE  OutputInv'
<1>1. now[filter.source].shows \in Due(filter.pic, NoScore) /\ filter.source \in Surfaces
  BY InHand DEF OutputInv, Making
<1> QED
  BY <1>1, ShownOutput

\* A surface is taken for the output, and the source's view is at hand.
LEMMA TakenOutput ==
    ASSUME BackendInv, OutputInv, backend = "d3d11", filter.step # "idle",
           UNCHANGED <<phase, backend, block_style, evaluation, shown, debug>>,
           NEW out \in Free, NEW view, view # NoSurface, GetInputView(filter.source, view),
           NEW step, \/ filter.step = "mask" /\ step = "effect"
                     \/ filter.step = "panel" /\ step = "compose",
           filter' = [filter EXCEPT !.step = step, !.out = out, !.view = view],
           surface' = Given("filter", {out})
    PROVE  OutputInv'
<1> USE DEF OutputInv
<1>1. filter.source \in Surfaces /\ filter.pic \in Pictures /\ FilterTyped /\ Shape /\ ViewsMatch
  BY InHand DEF BackendInv
<1>2. view = filter.source /\ Live(view)'
  BY <1>1, ViewOfSurface
<1>3. /\ filter'.step = step /\ filter'.pic = filter.pic /\ filter'.source = filter.source
      /\ filter'.view = filter.source
  BY <1>1, <1>2 DEF FilterTyped
<1>4. surface'[filter.source].shows = surface[filter.source].shows
  BY <1>1, GivenSurfaces
<1>5. Making'
  BY <1>2, <1>3, <1>4 DEF Making, Due, Bare, Raw, Nothing, Live
<1>6. NotYet' /\ ShownDue' /\ DebugCached'
  BY DEF NotYet, Making, ShownDue, DebugCached
<1> QED
  BY <1>5, <1>6

\* A treatment: what it made becomes the source.
LEMMA TreatedOutput ==
    ASSUME BackendInv, OutputInv, filter.step \in {"mask", "effect"}, DebugCached',
           UNCHANGED <<phase, backend, block_style, evaluation, shown>>,
           NEW out \in Surfaces, filter' = [filter EXCEPT !.step = "panel", !.source = out],
           surface'[out].shows \in Due(filter.pic, NoScore)
    PROVE  OutputInv'
<1> USE DEF OutputInv
<1>1. FilterTyped
  BY InHand
<1>2. filter'.step = "panel" /\ filter'.pic = filter.pic /\ filter'.source = out
  BY <1>1 DEF FilterTyped
<1>3. Making'
  BY <1>2 DEF Making, Due, Bare
<1>4. NotYet' /\ ShownDue'
  BY DEF NotYet, Making, ShownDue
<1> QED
  BY <1>3, <1>4

LEMMA OutputOpen == ASSUME BackendInv, OutputInv, OpenBackend PROVE OutputInv'
<1> USE DEF OutputInv
<1>1. /\ UNCHANGED <<block_style, surface, fate, evaluation, shown, filter, views, debug, debug_score>>
      /\ phase \in {"opening", "failed"}
  BY DEF OpenBackend, OpenResources, Acquire, GoWithout, FailToOpen, FallBack, Opened, options, gpuVars
<1> QED
  BY <1>1 DEF NotYet, Making, ShownDue, DebugCached

LEMMA OutputDecode == ASSUME BackendInv, OutputInv, Decode PROVE OutputInv'
<1>1. PICK p \in Pictures, s \in Free :
          /\ fate[p] = "coming"
          /\ fate' = [fate EXCEPT ![p] = "queued"]
          /\ surface' = [surface EXCEPT ![s] = [owner |-> "queue", shows |-> Raw(p)]]
  BY DEF Decode
<1>2. /\ UNCHANGED <<backend, phase, block_style, evaluation, shown, filter, views, debug, debug_score>>
      /\ phase = "open" /\ surface[s].owner = "free"
  BY DEF Decode, resourceVars, options, Free
<1>3. Shape
  BY DEF BackendInv
<1>4. \A t \in Surfaces : surface[t].owner = "filter" => surface'[t].shows = surface[t].shows
  BY <1>1, <1>2, <1>3 DEF Shape
<1>5. \A q \in Pictures : fate[q] \in {"leaving", "shown"} => fate'[q] = fate[q]
  BY <1>1, <1>3 DEF Shape
<1> QED
  BY <1>2, <1>4, <1>5, OthersKeepOutput DEF OutputInv

LEMMA OutputDisplayDone == ASSUME BackendInv, OutputInv, DisplayDone PROVE OutputInv'
<1>1. /\ \E d \in Surfaces : surface' = Given("free", {d})
      /\ UNCHANGED <<backend, phase, block_style, fate, evaluation, shown, filter, views, debug, debug_score>>
  BY DEF DisplayDone, Released, resourceVars, options
<1>2. \A s \in Surfaces : surface'[s].shows = surface[s].shows
  BY <1>1, GivenSurfaces DEF BackendInv
<1> QED
  BY <1>1, <1>2, OthersKeepOutput DEF OutputInv

LEMMA OutputCloseBackend == ASSUME BackendInv, OutputInv, CloseBackend PROVE OutputInv'
<1> USE DEF OutputInv
<1>1. /\ filter.step = "idle" /\ phase' = "closed"
      /\ fate' = [p \in Pictures |-> IF p \in Inside THEN "dropped" ELSE fate[p]]
      /\ UNCHANGED <<backend, block_style, evaluation, shown, filter, debug, debug_score>>
  BY DEF CloseBackend, CloseResources, options
<1> QED
  BY <1>1 DEF NotYet, Making, ShownDue, DebugCached, Due, Inside

\* A verdict is never passed again on a picture that is on its way out.
LEMMA JudgedOnce ==
    ASSUME BackendInv, OutputInv, NEW p \in Pictures, fate[p] = "queued",
           UNCHANGED <<backend, phase, block_style, surface, shown, filter, debug, debug_score>>,
           fate' = [fate EXCEPT ![p] = "decided"],
           NEW e, evaluation' = [evaluation EXCEPT ![p] = e],
           api_lock = "filter" => UNCHANGED views
    PROVE  OutputInv'
<1>1. phase \notin {"opening", "failed"}
  BY DEF OutputInv, NotYet
<1>2. /\ \A q \in Pictures : fate[q] \in {"leaving", "shown"} =>
             fate'[q] = fate[q] /\ evaluation'[q] = evaluation[q]
      /\ DOMAIN evaluation' = Pictures
  BY DEF BackendInv, Shape, OutputInv
<1> QED
  BY <1>1, <1>2, OthersKeepOutput

\* The same for Judge, whatever was read back.
LEMMA JudgedOutput ==
    ASSUME BackendInv, OutputInv, NEW p \in Pictures, fate[p] = "queued",
           UNCHANGED <<backend, phase, block_style, surface, shown, filter, debug, debug_score>>,
           NEW content, Judge(p, content), api_lock = "filter" => UNCHANGED views
    PROVE  OutputInv'
<1>1. PICK e : evaluation' = [evaluation EXCEPT ![p] = e]
  BY DEF Judge
<1> QED
  BY <1>1, JudgedOnce DEF Judge

LEMMA OutputUnsampled == ASSUME BackendInv, OutputInv, Unsampled PROVE OutputInv'
<1>1. PICK p \in Pictures, blocked \in BOOLEAN :
          /\ NextToRead(p)
          /\ evaluation' = [evaluation EXCEPT ![p].blocked = blocked]
          /\ fate' = [fate EXCEPT ![p] = "decided"]
  BY DEF Unsampled
<1>2. /\ UNCHANGED <<backend, phase, block_style, surface, shown, filter, views, debug, debug_score>>
      /\ fate[p] = "queued"
  BY <1>1, NextIsQueued DEF Unsampled, resourceVars, options
<1>3. evaluation' = [evaluation EXCEPT ![p] = [evaluation[p] EXCEPT !.blocked = blocked]]
  BY <1>1
<1> QED
  BY <1>1, <1>2, <1>3, JudgedOnce

LEMMA OutputBeginReadback == ASSUME BackendInv, OutputInv, BeginReadback PROVE OutputInv'
<1>1. PICK p \in Pictures, view \in SurfaceOrNone :
          /\ NextToRead(p)
          /\ IF view = NoSurface
             THEN api_lock = "free" /\ Judge(p, Nothing)
             ELSE Lock("worker") /\ UNCHANGED <<fate, evaluation>>
  BY DEF BeginReadback, SurfaceOrNone
<1>2. /\ UNCHANGED <<backend, phase, block_style, surface, shown, filter, debug, debug_score>>
      /\ fate[p] = "queued" /\ api_lock = "free"
  BY <1>1, NextIsQueued DEF BeginReadback, resourceVars, options, Lock
<1>3. CASE Judge(p, Nothing)
  BY <1>2, <1>3, JudgedOutput
<1>4. CASE UNCHANGED <<fate, evaluation>>
  BY <1>2, <1>4, OthersKeepOutput DEF OutputInv
<1> QED
  BY <1>1, <1>3, <1>4

LEMMA OutputEndReadback == ASSUME BackendInv, OutputInv, EndReadback PROVE OutputInv'
<1>1. PICK p : p = worker.pic
  OBVIOUS
<1>2. PICK content : Judge(p, content)
  BY <1>1 DEF EndReadback
<1>3. /\ UNCHANGED <<backend, phase, block_style, surface, shown, filter, views, debug, debug_score>>
      /\ p \in Pictures /\ fate[p] = "queued"
  BY <1>1 DEF EndReadback, BackendInv, Reading, resourceVars, options
<1> QED
  BY <1>2, <1>3, JudgedOutput

LEMMA OutputReadSurface == ASSUME BackendInv, OutputInv, ReadSurface PROVE OutputInv'
<1>1. PICK p \in Pictures : /\ NextToRead(p)
                            /\ Judge(p, surface[home[p]].shows) \/ Judge(p, Nothing)
  BY DEF ReadSurface
<1>2. PICK content : Judge(p, content)
  BY <1>1
<1>3. /\ UNCHANGED <<backend, phase, block_style, surface, shown, filter, views, debug, debug_score>>
      /\ fate[p] = "queued"
  BY <1>1, NextIsQueued DEF ReadSurface, resourceVars, options
<1> QED
  BY <1>2, <1>3, JudgedOutput

LEMMA OutputTakeOutput == ASSUME BackendInv, OutputInv, TakeOutput PROVE OutputInv'
<1> USE DEF OutputInv
<1>1. PICK p : p = Oldest(Inside)
  OBVIOUS
<1>2. /\ p \in Inside /\ p \in Pictures /\ fate[p] = "decided"
      /\ filter' = [IdleFilter EXCEPT !.step = IF evaluation[p].blocked THEN "mask" ELSE "panel",
                                     !.pic = p, !.source = home[p]]
      /\ surface' = Given("filter", {home[p]})
      /\ shown' = Nobody
      /\ UNCHANGED <<backend, phase, block_style, evaluation, debug, debug_score>>
  <2>1. Inside \in SUBSET Nat /\ Inside \subseteq Pictures
    BY PicturesAssumption DEF Inside
  <2>2. Inside # {} /\ fate[p] = "decided"
    BY <1>1 DEF TakeOutput
  <2>3. p \in Inside
    BY <1>1, <2>1, <2>2, OldestIsOne
  <2> QED
    BY <1>1, <2>1, <2>2, <2>3 DEF TakeOutput, resourceVars, options
<1>3. home[p] \in Surfaces /\ surface[home[p]].shows = Raw(p)
  BY <1>2, HomeOfInside, HomeShows
<1>4. surface'[home[p]].shows = Raw(p)
  BY <1>2, <1>3, GivenSurfaces DEF BackendInv
<1>5. /\ filter'.pic = p /\ filter'.source = home[p]
      /\ filter'.step = IF evaluation[p].blocked THEN "mask" ELSE "panel"
  BY <1>2 DEF IdleFilter
<1>6. phase \notin {"opening", "failed"}
  BY <1>2 DEF NotYet
<1>7. Making'
  BY <1>2, <1>4, <1>5 DEF Making, Due, Bare, Raw, Nothing, Nobody, NoScore
<1>8. NotYet' /\ ShownDue' /\ DebugCached'
  BY <1>2, <1>6 DEF NotYet, ShownDue, DebugCached, Nobody
<1> QED
  BY <1>2, <1>7, <1>8

LEMMA OutputMaskConverter == ASSUME BackendInv, OutputInv, MaskConverter PROVE OutputInv'
BY DroppedOutput DEF MaskConverter, Drop, resourceVars, options, OutputInv, DebugCached

LEMMA OutputShowWithoutPanel == ASSUME BackendInv, OutputInv, ShowWithoutPanel PROVE OutputInv'
<1>1. /\ filter.step = "panel" /\ Show(filter.source, surface)
      /\ UNCHANGED <<backend, phase, block_style, evaluation, debug>>
  BY DEF ShowWithoutPanel, resourceVars, options
<1> QED
  BY <1>1, ShownSource DEF OutputInv, DebugCached

LEMMA OutputMaskD3D11 == ASSUME BackendInv, OutputInv, MaskD3D11 PROVE OutputInv'
<1>1. /\ filter.step = "mask" /\ backend = "d3d11"
      /\ UNCHANGED <<backend, phase, block_style, evaluation, debug, debug_score>>
  BY DEF MaskD3D11, resourceVars, options
<1>2. CASE Drop
  BY <1>1, <1>2, DroppedOutput DEF Drop, OutputInv, DebugCached
<1>3. ASSUME NEW out \in Free, NEW view, view # NoSurface, GetInputView(filter.source, view),
             filter' = [filter EXCEPT !.step = "effect", !.out = out, !.view = view],
             surface' = Given("filter", {out}), UNCHANGED shown
      PROVE  OutputInv'
  BY <1>1, <1>3, TakenOutput
<1> QED
  BY <1>2, <1>3 DEF MaskD3D11

\* What the shader or the processor makes of the source is due.
LEMMA EffectIsDue ==
    ASSUME BackendInv, OutputInv, filter.step = "effect", NEW content, content = Raw(filter.pic),
           blur' \in Blurred(content)
    PROVE  Effect(block_style, content) \in Due(filter.pic, NoScore)
<1>1. evaluation[filter.pic].blocked /\ backend = "d3d11"
  BY DEF OutputInv, Making
<1>2. block_style \in {"black", "blur", "warning"}
  BY StylesAssumption DEF OutputInv
<1>3. CASE block_style = "black"
  BY <1>1, <1>3 DEF Effect, Due, Bare, Black, NoScore
<1>4. CASE block_style = "warning"
  <2>1. Effect(block_style, content) = [content EXCEPT !.mask = "warning"]
    BY <1>4 DEF Effect
  <2>2. content = Bare(filter.pic, "none", NoScore)
    BY DEF Raw, Nothing, Bare
  <2>3. Effect(block_style, content) = Bare(filter.pic, "warning", NoScore)
    BY <2>1, <2>2 DEF Bare
  <2> QED
    BY <1>1, <1>4, <2>3 DEF Due
<1>5. CASE block_style = "blur"
  BY <1>1, <1>5 DEF Effect, Blurred, Due, Bare, Raw, Nothing, NoScore
<1> QED
  BY <1>2, <1>3, <1>4, <1>5

LEMMA OutputEffectD3D11 == ASSUME BackendInv, OutputInv, EffectD3D11 PROVE OutputInv'
<1>1. /\ filter.step = "effect"
      /\ UNCHANGED <<backend, phase, block_style, evaluation, debug, debug_score>>
  BY DEF EffectD3D11, resourceVars, options
<1>2. DebugCached'
  BY <1>1 DEF OutputInv, DebugCached
<1>3. CASE Drop
  BY <1>1, <1>2, <1>3, DroppedOutput DEF Drop
<1>4. Through(filter.view) = Raw(filter.pic)
  BY <1>1 DEF OutputInv, Making, Through
<1>5. filter.out \in Surfaces /\ filter.source \in Surfaces
  BY <1>1 DEF BackendInv, Handling
<1>6. ASSUME filter' = [filter EXCEPT !.step = "panel", !.source = filter.out], UNCHANGED shown,
             surface' = [Released({filter.source}) EXCEPT ![filter.out].shows = render'],
             render' \in Due(filter.pic, NoScore)
      PROVE  OutputInv'
  <2>1. PICK what : what = render'
    OBVIOUS
  <2>2. PICK now : now = Showing("free", filter.source, filter.out, what)
    OBVIOUS
  <2>3. surface' = now
    BY <1>6, <2>1, <2>2 DEF Showing, Released
  <2>4. Become(now, "free", filter.source, filter.out, what)
    BY <1>5, <2>2, ShowingSurfaces DEF BackendInv
  <2>5. surface'[filter.out].shows = what
    BY <1>5, <2>3, <2>4 DEF Become
  <2> QED
    BY <1>1, <1>2, <1>5, <1>6, <2>1, <2>5, TreatedOutput
<1>7. Black \in Due(filter.pic, NoScore)
  BY <1>1 DEF OutputInv, Making, Due, Bare, Black, NoScore
<1>8. blur' \in Blurred(Raw(filter.pic)) => Effect(block_style, Raw(filter.pic)) \in Due(filter.pic, NoScore)
  BY <1>1, EffectIsDue
<1> QED
  BY <1>3, <1>4, <1>6, <1>7, <1>8 DEF EffectD3D11

LEMMA OutputPanelD3D11 == ASSUME BackendInv, OutputInv, PanelD3D11 PROVE OutputInv'
<1>1. /\ filter.step = "panel" /\ backend = "d3d11"
      /\ UNCHANGED <<backend, phase, block_style, evaluation, debug>>
  BY DEF PanelD3D11, WantsPanel, resourceVars, options
<1>2. DebugCached'
  BY <1>1 DEF OutputInv, DebugCached
<1>3. CASE Show(filter.source, surface)
  BY <1>1, <1>2, <1>3, ShownSource
<1>4. ASSUME NEW out \in Free, NEW view, view # NoSurface, GetInputView(filter.source, view),
             filter' = [filter EXCEPT !.step = "compose", !.out = out, !.view = view],
             surface' = Given("filter", {out}), UNCHANGED shown
      PROVE  OutputInv'
  BY <1>1, <1>4, TakenOutput
<1> QED
  BY <1>3, <1>4 DEF PanelD3D11

\* The cached panel is the score's, or is made anew.
LEMMA UpdatedPanel ==
    ASSUME DebugCached, NEW score, UpdateDebugTexture(score)
    PROVE  DebugCached' /\ debug'.shows = score
BY DEF DebugCached, UpdateDebugTexture

LEMMA OutputComposeD3D11 == ASSUME BackendInv, OutputInv, ComposeD3D11 PROVE OutputInv'
<1>1. /\ filter.step = "compose"
      /\ UNCHANGED <<backend, phase, block_style, evaluation, debug_score>>
      /\ filter.out \in Surfaces /\ filter.source \in Surfaces /\ filter.out # filter.source
  BY DEF ComposeD3D11, resourceVars, options, BackendInv, Handling
<1>2. DebugCached' /\ debug'.shows = debug_score
  BY UpdatedPanel DEF ComposeD3D11, OutputInv
<1>3. CASE Show(filter.source, Released({filter.out}))
  <2>1. PICK now : now = Released({filter.out})
    OBVIOUS
  <2>2. now[filter.source].shows = surface[filter.source].shows
    BY <1>1, <2>1, GivenSurfaces DEF Released, BackendInv
  <2> QED
    BY <1>1, <1>2, <1>3, <2>1, <2>2, ShownSource
<1>4. CASE /\ render' = [Through(filter.view) EXCEPT !.panel = debug'.shows]
           /\ Show(filter.out, [Released({filter.source}) EXCEPT ![filter.out].shows = render'])
  <2>1. PICK what : what = render'
    OBVIOUS
  <2>2. PICK now : now = Showing("free", filter.source, filter.out, what)
    OBVIOUS
  <2>3. Show(filter.out, now)
    BY <1>4, <2>1, <2>2 DEF Showing, Released
  <2>4. Become(now, "free", filter.source, filter.out, what)
    BY <1>1, <2>2, ShowingSurfaces DEF BackendInv
  <2>5. now[filter.out].shows = what
    BY <1>1, <2>4 DEF Become
  <2>6. Through(filter.view) \in Due(filter.pic, NoScore)
    BY <1>1 DEF OutputInv, Making, Through
  <2>7. what = [Through(filter.view) EXCEPT !.panel = debug_score]
    BY <1>2, <1>4, <2>1
  <2>8. what \in Due(filter.pic, debug_score)
    BY <2>6, <2>7 DEF Due, Bare
  <2> QED
    BY <1>1, <1>2, <2>3, <2>5, <2>8, ShownOutput
<1> QED
  BY <1>3, <1>4 DEF ComposeD3D11

LEMMA OutputMaskVaapi == ASSUME BackendInv, OutputInv, MaskVaapi PROVE OutputInv'
<1>1. /\ filter.step = "mask" /\ backend = "vaapi" /\ evaluation[filter.pic].blocked
      /\ surface[filter.source].shows = Raw(filter.pic)
      /\ filter.source \in Surfaces /\ surface[filter.source].owner = "filter"
      /\ UNCHANGED <<backend, phase, block_style, evaluation, debug, debug_score>>
  BY InHand DEF MaskVaapi, resourceVars, options, OutputInv, Making
<1>2. DebugCached'
  BY <1>1 DEF OutputInv, DebugCached
<1>3. CASE Drop
  BY <1>1, <1>2, <1>3, DroppedOutput DEF Drop
<1>4. VaapiEffects(Raw(filter.pic)) \subseteq Due(filter.pic, NoScore)
  <2>1. block_style \in {"black", "blur", "warning"}
    BY StylesAssumption DEF OutputInv
  <2>2. Raw(filter.pic) = Bare(filter.pic, "none", NoScore)
    BY DEF Raw, Nothing, Bare
  <2>3. CASE block_style = "black"
    BY <1>1, <2>3 DEF VaapiEffects, Due, Bare, Black
  <2>4. CASE block_style = "warning"
    <3>1. VaapiEffects(Raw(filter.pic)) = {Raw(filter.pic)}
      BY <2>4 DEF VaapiEffects
    <3> QED
      BY <1>1, <2>2, <2>4, <3>1 DEF Due
  <2>5. CASE block_style = "blur"
    <3>1. VaapiEffects(Raw(filter.pic)) = {[Raw(filter.pic) EXCEPT !.mask = "blur"], Black}
      BY <2>5 DEF VaapiEffects
    <3>2. [Raw(filter.pic) EXCEPT !.mask = "blur"] = Bare(filter.pic, "blur", NoScore)
      BY <2>2 DEF Bare
    <3> QED
      BY <1>1, <2>5, <3>1, <3>2 DEF Due, Bare, Black
  <2> QED
    BY <2>1, <2>3, <2>4, <2>5
<1>5. ASSUME NEW out \in Free, NEW content \in VaapiEffects(surface[filter.source].shows),
             filter' = [filter EXCEPT !.step = "panel", !.source = out], UNCHANGED shown,
             surface' = [Given("lost", {filter.source}) EXCEPT ![out] = [owner |-> "filter", shows |-> content]]
      PROVE  OutputInv'
  <2>1. out \in Surfaces
    BY <1>5 DEF Free
  <2>2. PICK now : now = Given("lost", {filter.source})
    OBVIOUS
  <2>3. now = [s \in Surfaces |-> [owner |-> IF s \in {filter.source} THEN "lost" ELSE surface[s].owner,
                                   shows |-> surface[s].shows]]
    BY <2>2, GivenSurfaces DEF BackendInv
  <2>4. surface'[out].shows = content
    BY <1>5, <2>1, <2>2, <2>3
  <2>5. content \in Due(filter.pic, NoScore)
    BY <1>1, <1>4, <1>5
  <2> QED
    BY <1>1, <1>2, <1>5, <2>1, <2>4, <2>5, TreatedOutput
<1> QED
  BY <1>3, <1>5 DEF MaskVaapi

LEMMA OutputPanelVaapi == ASSUME BackendInv, OutputInv, PanelVaapi PROVE OutputInv'
<1>1. /\ filter.step = "panel" /\ filter.source \in Surfaces
      /\ UNCHANGED <<backend, phase, block_style, evaluation>>
  BY InHand DEF PanelVaapi, WantsPanel, resourceVars, options
<1>2. DebugCached'
  BY UpdatedPanel DEF PanelVaapi, OutputInv
<1>3. CASE Show(filter.source, surface)
  BY <1>1, <1>2, <1>3, ShownSource
<1>4. CASE Drop
  BY <1>1, <1>2, <1>4, DroppedOutput DEF Drop
<1>5. ASSUME NEW out \in Free,
             Show(out, [Given("lost", {filter.source}) EXCEPT ![out].shows = surface[filter.source].shows])
      PROVE  OutputInv'
  <2>1. PICK what : what = surface[filter.source].shows
    OBVIOUS
  <2>2. PICK now : now = Showing("lost", filter.source, out, what)
    OBVIOUS
  <2>3. Show(out, now) /\ out \in Surfaces
    BY <1>5, <2>1, <2>2 DEF Showing, Free
  <2>4. Become(now, "lost", filter.source, out, what)
    BY <2>2, <2>3, ShowingSurfaces DEF BackendInv
  <2>5. now[out].shows \in Due(filter.pic, NoScore)
    BY <1>1, <2>1, <2>3, <2>4 DEF Become, OutputInv, Making
  <2> QED
    BY <1>1, <1>2, <2>3, <2>5, ShownOutput
<1> QED
  BY <1>3, <1>4, <1>5 DEF PanelVaapi

LEMMA OutputStep == BackendInv /\ OutputInv /\ [BackendNext]_backendVars => OutputInv'
<1> SUFFICES ASSUME BackendInv, OutputInv, [BackendNext]_backendVars PROVE OutputInv'
  OBVIOUS
<1>1. CASE UNCHANGED backendVars
  <2>1. /\ UNCHANGED <<backend, phase, block_style, fate, evaluation, surface, shown, filter>>
        /\ UNCHANGED <<api_lock, views, debug, debug_score>>
    BY <1>1 DEF backendVars, resourceVars, options, gpuVars
  <2> QED
    BY <2>1, OthersKeepOutput DEF OutputInv
<1>2. CASE OpenBackend \/ Decode \/ DisplayDone \/ CloseBackend
  BY <1>2, OutputOpen, OutputDecode, OutputDisplayDone, OutputCloseBackend
<1>3. CASE WorkerStep
  BY <1>3, OutputUnsampled, OutputBeginReadback, OutputEndReadback, OutputReadSurface DEF WorkerStep
<1>4. CASE FilterStep
  BY <1>4, OutputTakeOutput, OutputMaskConverter, OutputShowWithoutPanel, OutputMaskD3D11,
     OutputEffectD3D11, OutputPanelD3D11, OutputComposeD3D11, OutputMaskVaapi, OutputPanelVaapi
     DEF FilterStep
<1> QED
  BY <1>1, <1>2, <1>3, <1>4 DEF BackendNext

LEMMA DueIsVerdict == OutputInv => OutputIsTheVerdict
<1> SUFFICES ASSUME OutputInv, shown.pic # 0 PROVE OutputIsTheVerdict
  BY DEF OutputIsTheVerdict
<1>1. PICK score \in {NoScore, debug_score} : shown.content \in Due(shown.pic, score)
  BY DEF OutputInv, ShownDue
<1>2. shown.content.panel = score
  BY <1>1 DEF Due, Bare
<1>3. [Black EXCEPT !.panel = score] = Bare(0, "black", score)
  BY DEF Black, Bare
<1>4. [Raw(shown.pic) EXCEPT !.panel = score] = Bare(shown.pic, "none", score)
  <2>1. Raw(shown.pic) = Bare(shown.pic, "none", NoScore)
    BY DEF Raw, Nothing, Bare
  <2> QED
    BY <2>1 DEF Bare
<1>5. <<backend, block_style>> # <<"vaapi", "warning">> <=> ~(backend = "vaapi" /\ block_style = "warning")
  OBVIOUS
<1>6. CASE evaluation[shown.pic].blocked /\ ~(backend = "vaapi" /\ block_style = "warning")
  BY <1>1, <1>2, <1>3, <1>5, <1>6 DEF OutputIsTheVerdict, Treated, Due, Bare
<1>7. CASE ~(evaluation[shown.pic].blocked /\ ~(backend = "vaapi" /\ block_style = "warning"))
  BY <1>1, <1>2, <1>4, <1>5, <1>7 DEF OutputIsTheVerdict, Due
<1> QED
  BY <1>6, <1>7

\* Whatever calls of the driver fail, and however VLC's thread and the worker
\* interleave, every surface keeps its one holder (HandBack, Show, Close).
THEOREM SurfacesStayAccountedFor == Spec => []SurfacesAccountedFor
<1>1. Init => BackendInv
  BY InitBackend DEF Init
<1>2. BackendInv => SurfacesAccountedFor
  BY DEF BackendInv
<1> QED
  BY <1>1, <1>2, DisplayStep, PTL DEF Spec

\* The worker never reads another surface, nor one through an evicted view
\* (nsfw_d3d11_readback_rgb, GetInputView, BackendLock).
THEOREM ReadbackIsRight == Spec => []ReadbackIsThePicture
<1>1. Init => BackendInv
  BY InitBackend DEF Init
<1>2. BackendInv => ReadbackIsThePicture
  BY DEF BackendInv
<1> QED
  BY <1>1, <1>2, DisplayStep, PTL DEF Spec

\* VLC gets the picture it is due, masked or not as the verdict says, and never
\* what a target, a recycled surface or an evicted view showed before, and the
\* score on its panel is the last one (render_blocked, render_debug_overlay).
THEOREM VerdictReachesViewer == Spec => []OutputIsTheVerdict
<1>1. Init => BackendInv /\ OutputInv
  BY InitBackend, InitOutput DEF Init
<1>2. BackendInv /\ OutputInv /\ [Next]_vars => OutputInv'
  <2>1. [Next]_vars => [BackendNext]_backendVars
    BY DEF Next, vars, OpenInstance, SoftwareOutput, HardwareOutput, BackendNext
  <2> QED
    BY <2>1, OutputStep
<1> QED
  BY <1>1, <1>2, DisplayStep, DueIsVerdict, PTL DEF Spec
-----------------------------------------------------------------------------
(***************************************************************************)
(* What Open takes.  A script is settled when each call it makes is given  *)
(* back by a later one of it, is the close function's to release, or is    *)
(* owed: left to the script that follows.  Settled scripts join where what *)
(* the first owes the second repays (SettledTogether), so each helper of   *)
(* Open is looked at alone.                                                *)
(***************************************************************************)
Act(call) == call[1]
What(call) == call[2]

\* A call about something that the backend's close function releases, or that takes nothing.
Kept(call, b) == Act(call) \in {"give", "risk"} \/ What(call) \in CloseReleases(b)
Known(b) == Locals \cup CloseReleases(b)
Calls(b) == {Get(r) : r \in Known(b)} \cup {Take(r) : r \in Known(b)}
              \cup {Try(r) : r \in Known(b)} \cup {Give(r) : r \in Known(b)}
              \cup {Risk(r) : r \in Known(b)}

\* What the i-th call takes is given back by a later one.
Returned(s, i) == \E j \in i + 1 .. Len(s) : s[j] = Give(What(s[i]))

Settled(s, owed, b) ==
    /\ s \in Seq(Calls(b))
    /\ \A i \in 1 .. Len(s) : Kept(s[i], b) \/ What(s[i]) \in owed \/ Returned(s, i)

\* What was owed is given back in t, or still owed.
Repays(t, owed, rest) == \A r \in owed : r \in rest \/ \E j \in 1 .. Len(t) : t[j] = Give(r)

LEMMA CallParts ==
    ASSUME NEW r
    PROVE  /\ What(Get(r)) = r /\ What(Take(r)) = r /\ What(Try(r)) = r /\ What(Give(r)) = r
           /\ What(Risk(r)) = r /\ Act(Risk(r)) = "risk"
           /\ Act(Give(r)) = "give" /\ Act(Get(r)) = "get" /\ Act(Take(r)) = "take" /\ Act(Try(r)) = "try"
BY DEF Get, Take, Try, Give, Risk, Act, What

LEMMA CallsOf ==
    ASSUME NEW b, NEW r \in Known(b)
    PROVE  {Get(r), Take(r), Try(r), Give(r), Risk(r)} \subseteq Calls(b)
BY DEF Calls

LEMMA SettledTogether ==
    ASSUME NEW b, NEW s, NEW t, NEW owed, NEW rest, Settled(s, owed, b), Settled(t, rest, b),
           Repays(t, owed, rest)
    PROVE  Settled(s \o t, rest, b)
<1> DEFINE both == s \o t
<1>1. /\ both \in Seq(Calls(b)) /\ Len(both) = Len(s) + Len(t)
      /\ Len(s) \in Nat /\ Len(t) \in Nat
      /\ \A i \in 1 .. Len(s) : both[i] = s[i]
      /\ \A j \in 1 .. Len(t) : both[Len(s) + j] = t[j]
  BY DEF Settled
<1> HIDE DEF both
<1>2. ASSUME NEW i \in 1 .. Len(both)
      PROVE  Kept(both[i], b) \/ What(both[i]) \in rest \/ Returned(both, i)
  <2>1. CASE i <= Len(s)
    <3>1. i \in 1 .. Len(s) /\ both[i] = s[i]
      BY <1>1, <2>1
    <3>2. ASSUME NEW j \in i + 1 .. Len(s), s[j] = Give(What(s[i]))
          PROVE  j \in i + 1 .. Len(both) /\ both[j] = Give(What(both[i]))
      BY <1>1, <3>1, <3>2
    <3>3. ASSUME NEW j \in 1 .. Len(t), t[j] = Give(What(s[i]))
          PROVE  Len(s) + j \in i + 1 .. Len(both) /\ both[Len(s) + j] = Give(What(both[i]))
      BY <1>1, <2>1, <3>1, <3>3
    <3> QED
      BY <3>1, <3>2, <3>3 DEF Settled, Returned, Repays
  <2>2. CASE i > Len(s)
    <3>1. PICK k \in 1 .. Len(t) : i = Len(s) + k
      <4>1. i - Len(s) \in 1 .. Len(t) /\ i = Len(s) + (i - Len(s))
        BY <1>1, <2>2
      <4> QED BY <4>1
    <3>2. both[i] = t[k]
      BY <1>1, <3>1
    <3>3. ASSUME NEW j \in k + 1 .. Len(t), t[j] = Give(What(t[k]))
          PROVE  Len(s) + j \in i + 1 .. Len(both) /\ both[Len(s) + j] = Give(What(both[i]))
      BY <1>1, <3>1, <3>2, <3>3
    <3> QED
      BY <3>2, <3>3 DEF Settled, Returned
  <2> QED
    BY <1>1, <2>1, <2>2
<1> QED
  BY <1>1, <1>2 DEF Settled, both


\* A call about something that the close function releases; and one about a local.
LEMMA OwnCalls ==
    ASSUME NEW b, NEW r \in CloseReleases(b)
    PROVE  /\ Get(r) \in Calls(b) /\ Take(r) \in Calls(b) /\ Try(r) \in Calls(b) /\ Give(r) \in Calls(b)
           /\ Kept(Get(r), b) /\ Kept(Take(r), b) /\ Kept(Try(r), b) /\ Kept(Give(r), b)
BY CallParts, CallsOf DEF Kept, Known

LEMMA LocalCalls ==
    ASSUME NEW b, NEW r \in Locals
    PROVE  /\ Take(r) \in Calls(b) /\ Give(r) \in Calls(b) /\ Risk(r) \in Calls(b)
           /\ Kept(Give(r), b) /\ Kept(Risk(r), b)
BY CallParts, CallsOf DEF Kept, Known

LEMMA GivenLater ==
    ASSUME NEW s, NEW i, NEW j \in i + 1 .. Len(s), NEW r, s[i] = Take(r), s[j] = Give(r)
    PROVE  Returned(s, i)
<1>1. What(s[i]) = r
  BY CallParts
<1> QED
  BY <1>1 DEF Returned

\* One call, two calls and the calls of an upload.
LEMMA OneCall ==
    ASSUME NEW b, NEW c \in Calls(b), NEW owed, Kept(c, b) \/ What(c) \in owed
    PROVE  Settled(<<c>>, owed, b)
<1>1. <<c>> \in Seq(Calls(b)) /\ Len(<<c>>) = 1 /\ <<c>>[1] = c
  OBVIOUS
<1>2. ASSUME NEW i \in 1 .. 1 PROVE i = 1
  OBVIOUS
<1> QED
  BY <1>1, <1>2 DEF Settled

LEMMA StaticInputSettled ==
    ASSUME NEW b, NEW texture \in CloseReleases(b), NEW input \in CloseReleases(b)
    PROVE  Settled(StaticInput(texture, input), {}, b)
<1>1. PICK c : c = Take(texture)
  OBVIOUS
<1>2. PICK d : d = Take(input)
  OBVIOUS
<1>3. c \in Calls(b) /\ d \in Calls(b) /\ Kept(c, b) /\ Kept(d, b)
  BY <1>1, <1>2, OwnCalls
<1>4. <<c, d>> \in Seq(Calls(b)) /\ Len(<<c, d>>) = 2 /\ <<c, d>>[1] = c /\ <<c, d>>[2] = d
  BY <1>3
<1>5. ASSUME NEW i \in 1 .. 2 PROVE Kept(<<c, d>>[i], b)
  BY <1>3, <1>4
<1>6. Settled(<<c, d>>, {}, b)
  BY <1>4, <1>5 DEF Settled
<1> QED
  BY <1>1, <1>2, <1>6 DEF StaticInput

LEMMA UploadSettled ==
    ASSUME NEW b, NEW image \in Locals, NEW created \in CloseReleases(b)
    PROVE  Settled(BgraSurface(image, created), {}, b)
<1>1. PICK s : s = BgraSurface(image, created)
  OBVIOUS
<1>0. Len(s) = 6
  BY <1>1 DEF BgraSurface
<1>2. /\ s = <<s[1], s[2], s[3], s[4], s[5], s[6]>>
      /\ s[1] = Take(image) /\ s[2] = Take("new surface") /\ s[3] = Risk("new surface")
      /\ s[4] = Give(image) /\ s[5] = Get(created) /\ s[6] = Give("new surface")
  BY <1>1 DEF BgraSurface
<1>3. "new surface" \in Locals
  BY DEF Locals
<1>4. /\ s[1] \in Calls(b) /\ s[2] \in Calls(b) /\ s[3] \in Calls(b)
      /\ s[4] \in Calls(b) /\ s[5] \in Calls(b) /\ s[6] \in Calls(b)
      /\ Kept(s[3], b) /\ Kept(s[4], b) /\ Kept(s[5], b) /\ Kept(s[6], b)
  BY <1>2, <1>3, OwnCalls, LocalCalls
<1>5. s \in Seq(Calls(b))
  <2>1. <<s[1], s[2], s[3], s[4], s[5], s[6]>> \in Seq(Calls(b))
    BY <1>4
  <2> QED BY <1>2, <2>1
<1>6. Returned(s, 1) /\ Returned(s, 2)
  <2>1. 4 \in 1 + 1 .. Len(s) /\ 6 \in 2 + 1 .. Len(s)
    BY <1>0
  <2> QED BY <1>2, <2>1, GivenLater
<1>7. ASSUME NEW i \in 1 .. 6, i # 1, i # 2 PROVE Kept(s[i], b)
  BY <1>4, <1>7
<1> QED
  BY <1>0, <1>1, <1>5, <1>6, <1>7 DEF Settled

LEMMA DeviceSettled == Settled(D3D11Device, {}, "d3d11")
<1>1. PICK s : s = D3D11Device
  OBVIOUS
<1>0. Len(s) = 9
  BY <1>1 DEF D3D11Device
<1>2. /\ s = <<s[1], s[2], s[3], s[4], s[5], s[6], s[7], s[8], s[9]>>
      /\ s[1] = Get("api lock") /\ s[2] = Take("probe") /\ s[3] = Get("context")
      /\ s[4] = Get("device") /\ s[5] = Give("probe") /\ s[6] = Take("video device")
      /\ s[7] = Take("video context") /\ s[8] = Take("enumerator") /\ s[9] = Take("processor")
  BY <1>1 DEF D3D11Device
<1>3. /\ "api lock" \in CloseReleases("d3d11") /\ "context" \in CloseReleases("d3d11")
      /\ "device" \in CloseReleases("d3d11") /\ "enumerator" \in CloseReleases("d3d11")
      /\ "processor" \in CloseReleases("d3d11") /\ "video context" \in CloseReleases("d3d11")
      /\ "video device" \in CloseReleases("d3d11") /\ "probe" \in Locals
  BY DEF CloseReleases, Locals
<1>4. /\ s[1] \in Calls("d3d11") /\ s[2] \in Calls("d3d11") /\ s[3] \in Calls("d3d11")
      /\ s[4] \in Calls("d3d11") /\ s[5] \in Calls("d3d11") /\ s[6] \in Calls("d3d11")
      /\ s[7] \in Calls("d3d11") /\ s[8] \in Calls("d3d11") /\ s[9] \in Calls("d3d11")
  BY <1>2, <1>3, OwnCalls, LocalCalls
<1>5. /\ Kept(s[1], "d3d11") /\ Kept(s[3], "d3d11") /\ Kept(s[4], "d3d11")
      /\ Kept(s[5], "d3d11") /\ Kept(s[6], "d3d11") /\ Kept(s[7], "d3d11")
      /\ Kept(s[8], "d3d11") /\ Kept(s[9], "d3d11")
  BY <1>2, <1>3, OwnCalls, LocalCalls
<1>6. s \in Seq(Calls("d3d11"))
  <2>1. <<s[1], s[2], s[3], s[4], s[5], s[6], s[7], s[8], s[9]>> \in Seq(Calls("d3d11"))
    BY <1>4
  <2> QED BY <1>2, <2>1
<1>7. ASSUME NEW i \in 1 .. 9, i # 2 PROVE Kept(s[i], "d3d11")
  BY <1>5, <1>7
<1>8. Returned(s, 2)
  <2>1. 5 \in 2 + 1 .. Len(s)
    BY <1>0
  <2> QED BY <1>2, <2>1, GivenLater
<1> QED
  BY <1>0, <1>1, <1>6, <1>7, <1>8 DEF Settled

LEMMA ShadersSettled == Settled(D3D11Shaders, {}, "d3d11")
<1>1. PICK s : s = D3D11Shaders
  OBVIOUS
<1>0. Len(s) = 8
  BY <1>1 DEF D3D11Shaders
<1>2. /\ s = <<s[1], s[2], s[3], s[4], s[5], s[6], s[7], s[8]>>
      /\ s[1] = Take("vertex blob") /\ s[2] = Take("vertex shader") /\ s[3] = Take("pixel blob")
      /\ s[4] = Take("pixel shader") /\ s[5] = Take("sampler") /\ s[6] = Take("constants")
      /\ s[7] = Give("vertex blob") /\ s[8] = Give("pixel blob")
  BY <1>1 DEF D3D11Shaders
<1>3. /\ "constants" \in CloseReleases("d3d11") /\ "pixel shader" \in CloseReleases("d3d11")
      /\ "sampler" \in CloseReleases("d3d11") /\ "vertex shader" \in CloseReleases("d3d11")
      /\ "pixel blob" \in Locals /\ "vertex blob" \in Locals
  BY DEF CloseReleases, Locals
<1>4. /\ s[1] \in Calls("d3d11") /\ s[2] \in Calls("d3d11") /\ s[3] \in Calls("d3d11")
      /\ s[4] \in Calls("d3d11") /\ s[5] \in Calls("d3d11") /\ s[6] \in Calls("d3d11")
      /\ s[7] \in Calls("d3d11") /\ s[8] \in Calls("d3d11")
  BY <1>2, <1>3, OwnCalls, LocalCalls
<1>5. /\ Kept(s[2], "d3d11") /\ Kept(s[4], "d3d11") /\ Kept(s[5], "d3d11")
      /\ Kept(s[6], "d3d11") /\ Kept(s[7], "d3d11") /\ Kept(s[8], "d3d11")
  BY <1>2, <1>3, OwnCalls, LocalCalls
<1>6. s \in Seq(Calls("d3d11"))
  <2>1. <<s[1], s[2], s[3], s[4], s[5], s[6], s[7], s[8]>> \in Seq(Calls("d3d11"))
    BY <1>4
  <2> QED BY <1>2, <2>1
<1>7. ASSUME NEW i \in 1 .. 8, i # 1, i # 3 PROVE Kept(s[i], "d3d11")
  BY <1>5, <1>7
<1>8. Returned(s, 1)
  <2>1. 7 \in 1 + 1 .. Len(s)
    BY <1>0
  <2> QED BY <1>2, <2>1, GivenLater
<1>9. Returned(s, 3)
  <2>1. 8 \in 3 + 1 .. Len(s)
    BY <1>0
  <2> QED BY <1>2, <2>1, GivenLater
<1> QED
  BY <1>0, <1>1, <1>6, <1>7, <1>8, <1>9 DEF Settled

LEMMA QueriesSettled == Settled(D3D11Queries, {}, "d3d11")
<1>1. PICK s : s = D3D11Queries
  OBVIOUS
<1>0. Len(s) = 3
  BY <1>1 DEF D3D11Queries
<1>2. /\ s = <<s[1], s[2], s[3]>>
      /\ s[1] = Take("disjoint query") /\ s[2] = Take("start query") /\ s[3] = Take("end query")
  BY <1>1 DEF D3D11Queries
<1>3. /\ "disjoint query" \in CloseReleases("d3d11") /\ "end query" \in CloseReleases("d3d11")
      /\ "start query" \in CloseReleases("d3d11")
  BY DEF CloseReleases
<1>4. /\ s[1] \in Calls("d3d11") /\ s[2] \in Calls("d3d11") /\ s[3] \in Calls("d3d11")
  BY <1>2, <1>3, OwnCalls
<1>5. /\ Kept(s[1], "d3d11") /\ Kept(s[2], "d3d11") /\ Kept(s[3], "d3d11")
  BY <1>2, <1>3, OwnCalls
<1>6. s \in Seq(Calls("d3d11"))
  <2>1. <<s[1], s[2], s[3]>> \in Seq(Calls("d3d11"))
    BY <1>4
  <2> QED BY <1>2, <2>1
<1>7. ASSUME NEW i \in 1 .. 3 PROVE Kept(s[i], "d3d11")
  BY <1>5
<1> QED
  BY <1>0, <1>1, <1>6, <1>7 DEF Settled

LEMMA AnalysisSettled == Settled(D3D11Analysis, {}, "d3d11")
<1>1. PICK s : s = D3D11Analysis
  OBVIOUS
<1>0. Len(s) = 3
  BY <1>1 DEF D3D11Analysis
<1>2. /\ s = <<s[1], s[2], s[3]>>
      /\ s[1] = Take("analysis texture") /\ s[2] = Take("analysis output")
      /\ s[3] = Take("analysis staging")
  BY <1>1 DEF D3D11Analysis
<1>3. /\ "analysis output" \in CloseReleases("d3d11")
      /\ "analysis staging" \in CloseReleases("d3d11")
      /\ "analysis texture" \in CloseReleases("d3d11")
  BY DEF CloseReleases
<1>4. /\ s[1] \in Calls("d3d11") /\ s[2] \in Calls("d3d11") /\ s[3] \in Calls("d3d11")
  BY <1>2, <1>3, OwnCalls
<1>5. /\ Kept(s[1], "d3d11") /\ Kept(s[2], "d3d11") /\ Kept(s[3], "d3d11")
  BY <1>2, <1>3, OwnCalls
<1>6. s \in Seq(Calls("d3d11"))
  <2>1. <<s[1], s[2], s[3]>> \in Seq(Calls("d3d11"))
    BY <1>4
  <2> QED BY <1>2, <2>1
<1>7. ASSUME NEW i \in 1 .. 3 PROVE Kept(s[i], "d3d11")
  BY <1>5
<1> QED
  BY <1>0, <1>1, <1>6, <1>7 DEF Settled

LEMMA TargetsSettled == Settled(D3D11Targets, {"watermark pixels"}, "d3d11")
<1>1. PICK s : s = D3D11Targets
  OBVIOUS
<1>0. Len(s) = 11
  BY <1>1 DEF D3D11Targets
<1>2. /\ s = <<s[1], s[2], s[3], s[4], s[5], s[6], s[7], s[8], s[9], s[10], s[11]>>
      /\ s[1] = Take("render texture") /\ s[2] = Take("render output")
      /\ s[3] = Take("blur texture 0") /\ s[4] = Take("blur target 0")
      /\ s[5] = Take("blur resource 0") /\ s[6] = Take("blur texture 1")
      /\ s[7] = Take("blur target 1") /\ s[8] = Take("blur resource 1")
      /\ s[9] = Take("blur down output") /\ s[10] = Take("blur up input")
      /\ s[11] = Take("watermark pixels")
  BY <1>1 DEF D3D11Targets
<1>3. /\ "blur down output" \in CloseReleases("d3d11")
      /\ "blur resource 0" \in CloseReleases("d3d11")
      /\ "blur resource 1" \in CloseReleases("d3d11")
      /\ "blur target 0" \in CloseReleases("d3d11")
      /\ "blur target 1" \in CloseReleases("d3d11")
      /\ "blur texture 0" \in CloseReleases("d3d11")
      /\ "blur texture 1" \in CloseReleases("d3d11")
      /\ "blur up input" \in CloseReleases("d3d11")
      /\ "render output" \in CloseReleases("d3d11")
      /\ "render texture" \in CloseReleases("d3d11") /\ "watermark pixels" \in Locals
  BY DEF CloseReleases, Locals
<1>4. /\ s[1] \in Calls("d3d11") /\ s[2] \in Calls("d3d11") /\ s[3] \in Calls("d3d11")
      /\ s[4] \in Calls("d3d11") /\ s[5] \in Calls("d3d11") /\ s[6] \in Calls("d3d11")
      /\ s[7] \in Calls("d3d11") /\ s[8] \in Calls("d3d11") /\ s[9] \in Calls("d3d11")
      /\ s[10] \in Calls("d3d11") /\ s[11] \in Calls("d3d11")
  BY <1>2, <1>3, OwnCalls, LocalCalls
<1>5. /\ Kept(s[1], "d3d11") /\ Kept(s[2], "d3d11") /\ Kept(s[3], "d3d11")
      /\ Kept(s[4], "d3d11") /\ Kept(s[5], "d3d11") /\ Kept(s[6], "d3d11")
      /\ Kept(s[7], "d3d11") /\ Kept(s[8], "d3d11") /\ Kept(s[9], "d3d11")
      /\ Kept(s[10], "d3d11")
  BY <1>2, <1>3, OwnCalls, LocalCalls
<1>6. s \in Seq(Calls("d3d11"))
  <2>1. <<s[1], s[2], s[3], s[4], s[5], s[6], s[7], s[8], s[9], s[10], s[11]>> \in Seq(Calls("d3d11"))
    BY <1>4
  <2> QED BY <1>2, <2>1
<1>7. ASSUME NEW i \in 1 .. 11, i # 11 PROVE Kept(s[i], "d3d11")
  BY <1>5, <1>7
<1>8. What(s[11]) \in {"watermark pixels"}
  <2>1. s[11] = Take("watermark pixels")
    BY <1>2
  <2>2. What(Take("watermark pixels")) = "watermark pixels"
    BY CallParts
  <2> QED BY <2>1, <2>2
<1> QED
  BY <1>0, <1>1, <1>6, <1>7, <1>8 DEF Settled

LEMMA ContextSettled == Settled(VaapiContext, {"probe", "black pixels"}, "vaapi")
<1>1. PICK s : s = VaapiContext
  OBVIOUS
<1>0. Len(s) = 6
  BY <1>1 DEF VaapiContext
<1>2. /\ s = <<s[1], s[2], s[3], s[4], s[5], s[6]>>
      /\ s[1] = Take("probe") /\ s[2] = Take("api lock") /\ s[3] = Take("config")
      /\ s[4] = Take("context") /\ s[5] = Take("render surface") /\ s[6] = Take("black pixels")
  BY <1>1 DEF VaapiContext
<1>3. /\ "api lock" \in CloseReleases("vaapi") /\ "config" \in CloseReleases("vaapi")
      /\ "context" \in CloseReleases("vaapi") /\ "render surface" \in CloseReleases("vaapi")
      /\ "black pixels" \in Locals /\ "probe" \in Locals
  BY DEF CloseReleases, Locals
<1>4. /\ s[1] \in Calls("vaapi") /\ s[2] \in Calls("vaapi") /\ s[3] \in Calls("vaapi")
      /\ s[4] \in Calls("vaapi") /\ s[5] \in Calls("vaapi") /\ s[6] \in Calls("vaapi")
  BY <1>2, <1>3, OwnCalls, LocalCalls
<1>5. /\ Kept(s[2], "vaapi") /\ Kept(s[3], "vaapi") /\ Kept(s[4], "vaapi")
      /\ Kept(s[5], "vaapi")
  BY <1>2, <1>3, OwnCalls, LocalCalls
<1>6. s \in Seq(Calls("vaapi"))
  <2>1. <<s[1], s[2], s[3], s[4], s[5], s[6]>> \in Seq(Calls("vaapi"))
    BY <1>4
  <2> QED BY <1>2, <2>1
<1>7. ASSUME NEW i \in 1 .. 6, i # 1, i # 6 PROVE Kept(s[i], "vaapi")
  BY <1>5, <1>7
<1>8. What(s[1]) \in {"probe", "black pixels"} /\ What(s[6]) \in {"probe", "black pixels"}
  <2>1. s[1] = Take("probe") /\ s[6] = Take("black pixels")
    BY <1>2
  <2>2. What(Take("probe")) = "probe" /\ What(Take("black pixels")) = "black pixels"
    BY CallParts
  <2> QED BY <2>1, <2>2
<1> QED
  BY <1>0, <1>1, <1>6, <1>7, <1>8 DEF Settled

LEMMA BlurSettled == Settled(VaapiBlur, {"watermark pixels"}, "vaapi")
<1>1. PICK s : s = VaapiBlur
  OBVIOUS
<1>0. Len(s) = 6
  BY <1>1 DEF VaapiBlur
<1>2. /\ s = <<s[1], s[2], s[3], s[4], s[5], s[6]>>
      /\ s[1] = Give("black pixels") /\ s[2] = Take("blur surface 0")
      /\ s[3] = Take("blur surface 1") /\ s[4] = Try("blur image 0")
      /\ s[5] = Try("blur image 1") /\ s[6] = Take("watermark pixels")
  BY <1>1 DEF VaapiBlur
<1>3. /\ "blur image 0" \in CloseReleases("vaapi") /\ "blur image 1" \in CloseReleases("vaapi")
      /\ "blur surface 0" \in CloseReleases("vaapi")
      /\ "blur surface 1" \in CloseReleases("vaapi") /\ "black pixels" \in Locals
      /\ "watermark pixels" \in Locals
  BY DEF CloseReleases, Locals
<1>4. /\ s[1] \in Calls("vaapi") /\ s[2] \in Calls("vaapi") /\ s[3] \in Calls("vaapi")
      /\ s[4] \in Calls("vaapi") /\ s[5] \in Calls("vaapi") /\ s[6] \in Calls("vaapi")
  BY <1>2, <1>3, OwnCalls, LocalCalls
<1>5. /\ Kept(s[1], "vaapi") /\ Kept(s[2], "vaapi") /\ Kept(s[3], "vaapi")
      /\ Kept(s[4], "vaapi") /\ Kept(s[5], "vaapi")
  BY <1>2, <1>3, OwnCalls, LocalCalls
<1>6. s \in Seq(Calls("vaapi"))
  <2>1. <<s[1], s[2], s[3], s[4], s[5], s[6]>> \in Seq(Calls("vaapi"))
    BY <1>4
  <2> QED BY <1>2, <2>1
<1>7. ASSUME NEW i \in 1 .. 6, i # 6 PROVE Kept(s[i], "vaapi")
  BY <1>5, <1>7
<1>8. What(s[6]) \in {"watermark pixels"}
  <2>1. s[6] = Take("watermark pixels")
    BY <1>2
  <2>2. What(Take("watermark pixels")) = "watermark pixels"
    BY CallParts
  <2> QED BY <2>1, <2>2
<1> QED
  BY <1>0, <1>1, <1>6, <1>7, <1>8 DEF Settled

LEMMA PanelSettled == Settled(VaapiPanel, {}, "vaapi")
<1>1. PICK s : s = VaapiPanel
  OBVIOUS
<1>0. Len(s) = 4
  BY <1>1 DEF VaapiPanel
<1>2. /\ s = <<s[1], s[2], s[3], s[4]>>
      /\ s[1] = Give("watermark pixels") /\ s[2] = Take("debug image")
      /\ s[3] = Take("debug surface") /\ s[4] = Give("probe")
  BY <1>1 DEF VaapiPanel
<1>3. /\ "debug image" \in CloseReleases("vaapi") /\ "debug surface" \in CloseReleases("vaapi")
      /\ "probe" \in Locals /\ "watermark pixels" \in Locals
  BY DEF CloseReleases, Locals
<1>4. /\ s[1] \in Calls("vaapi") /\ s[2] \in Calls("vaapi") /\ s[3] \in Calls("vaapi")
      /\ s[4] \in Calls("vaapi")
  BY <1>2, <1>3, OwnCalls, LocalCalls
<1>5. /\ Kept(s[1], "vaapi") /\ Kept(s[2], "vaapi") /\ Kept(s[3], "vaapi")
      /\ Kept(s[4], "vaapi")
  BY <1>2, <1>3, OwnCalls, LocalCalls
<1>6. s \in Seq(Calls("vaapi"))
  <2>1. <<s[1], s[2], s[3], s[4]>> \in Seq(Calls("vaapi"))
    BY <1>4
  <2> QED BY <1>2, <2>1
<1>7. ASSUME NEW i \in 1 .. 4 PROVE Kept(s[i], "vaapi")
  BY <1>5
<1> QED
  BY <1>0, <1>1, <1>6, <1>7 DEF Settled

\* Sequences that owe nothing stay settled together.
LEMMA SettledFree ==
    ASSUME NEW b, NEW s, NEW t, NEW rest, Settled(s, {}, b), Settled(t, rest, b)
    PROVE  Settled(s \o t, rest, b)
BY SettledTogether DEF Repays

LEMMA OwesNothing ==
    ASSUME NEW b, NEW s, NEW rest, Settled(s, {}, b)
    PROVE  Settled(s, rest, b)
BY DEF Settled

LEMMA OwesTheSame == ASSUME NEW t, NEW owed PROVE Repays(t, owed, owed)
BY DEF Repays

LEMMA EffectsSettled == Settled(D3D11Effects, {}, "d3d11")
<1>1. /\ "watermark texture" \in CloseReleases("d3d11") /\ "watermark input" \in CloseReleases("d3d11")
      /\ "black texture" \in CloseReleases("d3d11") /\ "black input" \in CloseReleases("d3d11")
      /\ "debug texture" \in CloseReleases("d3d11") /\ "debug input" \in CloseReleases("d3d11")
      /\ "debug pixels" \in CloseReleases("d3d11") /\ "watermark pixels" \in Locals
  BY DEF CloseReleases, Locals
<1>2. PICK end : end = <<Give("watermark pixels")>>
  OBVIOUS
<1>3. Settled(end, {}, "d3d11")
  BY <1>1, <1>2, OneCall, LocalCalls
<1>8. Repays(end, {"watermark pixels"}, {})
  <2>1. Len(end) = 1
    BY <1>2
  <2>2. end[1] = Give("watermark pixels")
    BY <1>2
  <2>3. 1 \in 1 .. Len(end)
    BY <2>1
  <2>4. \A r \in {"watermark pixels"} : end[1] = Give(r)
    BY <2>2
  <2> QED BY ONLY <2>3, <2>4 DEF Repays
<1>4. Settled(<<Take("debug pixels")>>, {}, "d3d11")
  BY <1>1, OneCall, OwnCalls
<1>5. /\ Settled(StaticInput("watermark texture", "watermark input"), {}, "d3d11")
      /\ Settled(StaticInput("black texture", "black input"), {}, "d3d11")
      /\ Settled(StaticInput("debug texture", "debug input"), {}, "d3d11")
  BY <1>1, StaticInputSettled
<1>6. Settled(D3D11Targets \o StaticInput("watermark texture", "watermark input"),
              {"watermark pixels"}, "d3d11")
  BY <1>5, TargetsSettled, OwesNothing, OwesTheSame, SettledTogether
<1>7. Settled(D3D11Targets \o StaticInput("watermark texture", "watermark input") \o end, {}, "d3d11")
  BY ONLY <1>3, <1>6, <1>8, SettledTogether
<1> QED
  BY <1>2, <1>4, <1>5, <1>7, SettledFree DEF D3D11Effects

LEMMA VaapiSettled == Settled(VaapiOpen, {}, "vaapi")
<1>1. /\ "black surface" \in CloseReleases("vaapi") /\ "watermark surface" \in CloseReleases("vaapi")
      /\ "black image" \in Locals /\ "watermark image" \in Locals
  BY DEF CloseReleases, Locals
<1>2. /\ Settled(BgraSurface("black image", "black surface"), {}, "vaapi")
      /\ Settled(BgraSurface("watermark image", "watermark surface"), {}, "vaapi")
  BY <1>1, UploadSettled
<1>3. PICK s : s = VaapiContext \o BgraSurface("black image", "black surface")
  OBVIOUS
<1>4. Settled(s, {"probe", "black pixels"}, "vaapi")
  BY <1>2, <1>3, ContextSettled, OwesNothing, OwesTheSame, SettledTogether
<1>5. 1 \in 1 .. Len(VaapiBlur) /\ VaapiBlur[1] = Give("black pixels")
  BY DEF VaapiBlur
<1>6. Settled(VaapiBlur, {"probe", "watermark pixels"}, "vaapi")
  BY BlurSettled DEF Settled
<1>7. Settled(s \o VaapiBlur, {"probe", "watermark pixels"}, "vaapi")
  <2>1. Repays(VaapiBlur, {"probe", "black pixels"}, {"probe", "watermark pixels"})
    BY <1>5 DEF Repays
  <2> QED BY ONLY <1>4, <1>6, <2>1, SettledTogether
<1>8. PICK t : t = s \o VaapiBlur \o BgraSurface("watermark image", "watermark surface")
  OBVIOUS
<1>9. Settled(t, {"probe", "watermark pixels"}, "vaapi")
  BY <1>2, <1>7, <1>8, OwesNothing, OwesTheSame, SettledTogether
<1>10. /\ 1 \in 1 .. Len(VaapiPanel) /\ VaapiPanel[1] = Give("watermark pixels")
       /\ 4 \in 1 .. Len(VaapiPanel) /\ VaapiPanel[4] = Give("probe")
  BY DEF VaapiPanel
<1>11. Settled(t \o VaapiPanel, {}, "vaapi")
  <2>1. Repays(VaapiPanel, {"probe", "watermark pixels"}, {})
    BY <1>10 DEF Repays
  <2> QED BY ONLY <1>9, <2>1, PanelSettled, SettledTogether
<1> QED
  BY <1>3, <1>8, <1>11 DEF VaapiOpen

\* Whatever Open takes, the script or Close gives back.
LEMMA ScriptsSettled ==
    ASSUME NEW b \in {"d3d11", "vaapi", "converter", "cpu"}, NEW s \in Scripts(b)
    PROVE  Settled(s, {}, b)
<1>1. CASE b = "d3d11"
  <2>1. PICK queries \in {<<>>, D3D11Queries} :
            s = D3D11Device \o D3D11Shaders \o D3D11Effects \o queries \o D3D11Analysis
    BY <1>1 DEF Scripts
  <2>2. Settled(<<>>, {}, "d3d11")
    BY DEF Settled
  <2>3. Settled(D3D11Device \o D3D11Shaders \o D3D11Effects, {}, "d3d11")
    BY DeviceSettled, ShadersSettled, EffectsSettled, SettledFree
  <2>4. Settled(D3D11Device \o D3D11Shaders \o D3D11Effects \o queries, {}, "d3d11")
    BY <2>2, <2>3, QueriesSettled, SettledFree
  <2> QED
    BY <1>1, <2>1, <2>4, AnalysisSettled, SettledFree
<1>2. CASE b = "vaapi"
  <2>1. s = VaapiOpen \o VaapiAnalysis
    BY <1>2 DEF Scripts
  <2>2. "analysis image" \in CloseReleases("vaapi")
    BY DEF CloseReleases
  <2>3. Settled(VaapiAnalysis, {}, "vaapi")
    BY <2>2, OneCall, OwnCalls DEF VaapiAnalysis
  <2> QED
    BY <1>2, <2>1, <2>3, VaapiSettled, SettledFree
<1>3. CASE b = "converter"
  <2>1. s = <<Take("image handler")>>
    BY <1>3 DEF Scripts
  <2>2. "image handler" \in CloseReleases("converter")
    BY DEF CloseReleases
  <2> QED
    BY <1>3, <2>1, <2>2, OneCall, OwnCalls
<1>4. CASE b = "cpu"
  <2>1. s = <<>>
    BY <1>4 DEF Scripts
  <2>2. Settled(<<>>, {}, b)
    BY DEF Settled
  <2> QED
    BY <2>1, <2>2
<1> QED
  BY <1>1, <1>2, <1>3, <1>4

(***************************************************************************)
(* What is held while Open runs is given back by a later call of it, or is *)
(* the close function's; a failure before that is the helper's that failed.*)
(***************************************************************************)
Later(r) == \E j \in done + 1 .. Len(script) : script[j] = Give(r)

Owned ==
    /\ backend \in {"d3d11", "vaapi", "converter", "cpu"}
    /\ phase \in {"opening", "open", "failed", "closed"}
    /\ script \in Scripts(backend)
    /\ done \in 0 .. Len(script)
    /\ phase = "opening" =>
          \A r \in taken : r \in Known(backend) /\ (r \in CloseReleases(backend) \/ Later(r))
    /\ phase = "open" => taken \subseteq CloseReleases(backend)
    /\ phase \in {"failed", "closed"} => taken = {}

LEMMA InitOwned == ResourcesInit => Owned
<1> SUFFICES ASSUME ResourcesInit PROVE Owned
  OBVIOUS
<1>1. backend \in {"d3d11", "vaapi", "converter", "cpu"} /\ script \in Scripts(backend)
  BY BackendsAssumption DEF ResourcesInit
<1>2. Len(script) \in Nat
  BY <1>1, ScriptsSettled DEF Settled
<1> QED
  BY <1>1, <1>2 DEF ResourcesInit, Owned

LEMMA NextCall ==
    ASSUME Owned, done < Len(script)
    PROVE  /\ done + 1 \in 1 .. Len(script) /\ Len(script) \in Nat /\ done \in Nat
           /\ What(Call) \in Known(backend)
           /\ Kept(Call, backend) \/ Returned(script, done + 1)
<1>1. Settled(script, {}, backend)
  BY ScriptsSettled DEF Owned
<1>2. Len(script) \in Nat /\ done \in Nat /\ done + 1 \in 1 .. Len(script)
  BY <1>1 DEF Owned, Settled
<1>3. Call \in Calls(backend)
  BY <1>1, <1>2 DEF Settled, Call
<1> QED
  BY <1>1, <1>2, <1>3, CallParts DEF Settled, Call, Calls

\* What is given back later still is, unless this call is the one that does.
LEMMA StillLater ==
    ASSUME Owned, done < Len(script), done' = done + 1, UNCHANGED script,
           NEW r, Later(r), Call # Give(r)
    PROVE  Later(r)'
<1>1. PICK j \in done + 1 .. Len(script) : script[j] = Give(r)
  BY DEF Later
<1>2. j # done + 1
  BY <1>1 DEF Call
<1>3. j \in done' + 1 .. Len(script)
  BY <1>1, <1>2, NextCall
<1> QED
  BY <1>1, <1>3 DEF Later

LEMMA StepAcquire == ASSUME Owned, Acquire PROVE Owned'
<1>1. /\ phase = "opening" /\ done < Len(script) /\ done' = done + 1
      /\ UNCHANGED <<backend, script, phase>>
  BY DEF Acquire
<1>2. done' \in 0 .. Len(script)'
  BY <1>1, NextCall
<1>3. ASSUME NEW r \in taken'
      PROVE  r \in Known(backend) /\ (r \in CloseReleases(backend) \/ Later(r)')
  <2>1. CASE Act(Call) = "give"
    <3>1. r \in taken /\ r # What(Call)
      BY <1>3, <2>1 DEF Acquire, Act, What
    <3>2. Call # Give(r)
      BY <3>1, CallParts
    <3> QED
      BY <1>1, <3>1, <3>2, StillLater DEF Owned
  <2>2. CASE Act(Call) # "give" /\ r \in taken
    <3>1. Call # Give(r)
      BY <2>2, CallParts
    <3> QED
      BY <1>1, <2>2, <3>1, StillLater DEF Owned
  <2>3. CASE Act(Call) # "give" /\ r \notin taken
    <3>1. r = What(Call) /\ Act(Call) # "risk"
      BY <1>3, <2>3 DEF Acquire, Act, What
    <3>2. CASE Kept(Call, backend)
      BY <1>1, <2>3, <3>1, <3>2, NextCall DEF Kept
    <3>3. CASE Returned(script, done + 1)
      <4>1. Later(r)'
        BY <1>1, <3>1, <3>3 DEF Returned, Later, Call
      <4> QED BY <1>1, <3>1, <4>1, NextCall
    <3> QED
      BY <1>1, <3>2, <3>3, NextCall
  <2> QED
    BY <2>1, <2>2, <2>3
<1> QED
  BY <1>1, <1>2, <1>3 DEF Owned

LEMMA StepResources == ASSUME Owned, OpenResources \/ CloseResources PROVE Owned'
<1>1. Settled(script, {}, backend) /\ Len(script) \in Nat
  BY ScriptsSettled DEF Owned, Settled
<1>2. CASE GoWithout
  <2>1. /\ phase = "opening" /\ done < Len(script) /\ done' = done + 1 /\ Act(Call) = "try"
        /\ UNCHANGED <<backend, script, phase, taken>>
    BY <1>2 DEF GoWithout, Act
  <2>2. ASSUME NEW r \in taken
        PROVE  r \in Known(backend) /\ (r \in CloseReleases(backend) \/ Later(r)')
    <3>1. Call # Give(r)
      BY <2>1, CallParts
    <3> QED
      BY <2>1, <2>2, <3>1, StillLater DEF Owned
  <2>3. done' \in 0 .. Len(script)'
    BY <2>1, NextCall
  <2> QED
    BY <2>1, <2>2, <2>3 DEF Owned
<1>3. CASE FailToOpen
  <2>1. taken' = {}
    BY <1>3 DEF FailToOpen, Owned, Known
  <2> QED
    BY <1>3, <2>1 DEF FailToOpen, Owned
<1>4. CASE FallBack
  <2>1. /\ backend' = "converter" /\ script' \in Scripts(backend') /\ phase' = "opening"
        /\ done' = 0 /\ taken' = {}
    BY <1>4 DEF FallBack, Owned
  <2>2. Len(script') \in Nat
    BY <2>1, ScriptsSettled DEF Settled
  <2> QED
    BY <2>1, <2>2 DEF Owned
<1>5. CASE Opened
  <2>1. \A r : ~Later(r)
    BY <1>1, <1>5 DEF Opened, Later
  <2> QED
    BY <1>5, <2>1 DEF Opened, Owned
<1>6. CASE CloseResources
  BY <1>6 DEF CloseResources, Owned
<1> QED
  BY <1>2, <1>3, <1>4, <1>5, <1>6, StepAcquire DEF OpenResources

(***************************************************************************)
(* Before the backend is open and after Close no picture is inside, both   *)
(* threads are idle and no view is cached.                                 *)
(***************************************************************************)
Unopened ==
    phase # "open" =>
        /\ Inside = {} /\ filter.step = "idle" /\ worker.step = "idle"
        /\ \A i \in 1 .. MaxViews : views[i].input = NoSurface

LEMMA SameOwned == ASSUME Owned, UNCHANGED resourceVars PROVE Owned'
BY DEF Owned, Later, resourceVars

LEMMA SameUnopened ==
    ASSUME Unopened, UNCHANGED <<phase, fate, filter, worker, views>>
    PROVE  Unopened'
BY DEF Unopened, Inside

\* Where a thread is at work, or has a picture to begin with, the backend is open.
LEMMA AtWork ==
    ASSUME Unopened, Decode \/ WorkerStep \/ FilterStep
    PROVE  phase = "open" /\ UNCHANGED resourceVars
<1>1. CASE Decode
  BY <1>1 DEF Decode
<1>2. CASE WorkerStep
  <2>1. UNCHANGED resourceVars
    BY <1>2 DEF WorkerStep, Unsampled, BeginReadback, EndReadback, ReadSurface
  <2>2. (\E p \in Pictures : NextToRead(p)) \/ worker.step = "read"
    BY <1>2 DEF WorkerStep, Unsampled, BeginReadback, EndReadback, ReadSurface
  <2>3. Queued \subseteq Inside
    BY DEF Queued, Inside
  <2> QED
    BY <2>1, <2>2, <2>3 DEF NextToRead, Unopened
<1>3. CASE FilterStep
  <2>1. UNCHANGED resourceVars
    BY <1>3 DEF FilterStep, TakeOutput, MaskConverter, ShowWithoutPanel, MaskD3D11, EffectD3D11,
                PanelD3D11, ComposeD3D11, MaskVaapi, PanelVaapi
  <2>2. Inside # {} \/ filter.step # "idle"
    BY <1>3 DEF FilterStep, TakeOutput, MaskConverter, ShowWithoutPanel, MaskD3D11, EffectD3D11,
                PanelD3D11, ComposeD3D11, MaskVaapi, PanelVaapi, WantsPanel
  <2> QED
    BY <2>1, <2>2 DEF Unopened
<1> QED
  BY <1>1, <1>2, <1>3

LEMMA StepUnopened ==
    ASSUME Owned, Unopened, [BackendNext]_backendVars
    PROVE  Owned' /\ Unopened'
<1>1. CASE UNCHANGED backendVars
  BY <1>1, SameOwned, SameUnopened DEF backendVars, gpuVars, resourceVars
<1>2. CASE OpenBackend
  <2>1. Owned'
    BY <1>2, StepResources DEF OpenBackend
  <2>2. phase # "open" /\ UNCHANGED <<fate, filter, worker, views>>
    BY <1>2 DEF OpenBackend, OpenResources, Acquire, GoWithout, FailToOpen, FallBack, Opened, gpuVars
  <2> QED
    BY <2>1, <2>2 DEF Unopened, Inside
<1>3. CASE Decode \/ WorkerStep \/ FilterStep
  <2>1. phase = "open" /\ UNCHANGED resourceVars
    BY <1>3, AtWork
  <2> QED
    BY <2>1, SameOwned DEF Unopened, resourceVars
<1>4. CASE DisplayDone
  BY <1>4, SameOwned, SameUnopened DEF DisplayDone, resourceVars
<1>5. CASE CloseBackend
  <2>1. Owned'
    BY <1>5, StepResources DEF CloseBackend
  <2>2. Inside' = {}
    BY <1>5 DEF CloseBackend, Inside
  <2>3. \A i \in 1 .. MaxViews : views'[i].input = NoSurface
    BY <1>5 DEF CloseBackend
  <2>4. filter'.step = "idle" /\ worker'.step = "idle"
    BY <1>5 DEF CloseBackend
  <2> QED
    BY <2>1, <2>2, <2>3, <2>4 DEF Unopened
<1> QED
  BY <1>1, <1>2, <1>3, <1>4, <1>5 DEF BackendNext

\* Whichever call of Open or of the sizing fails, and after Close, nothing of the
\* driver's is held: by the failing helper's way out, by a later call of the same
\* script or by the close function (nsfw_d3d11_close, DestroyEffectResources).
THEOREM BackendGivesAllBack == Spec => []NothingLeftInBackend
<1>1. Init => Owned /\ Unopened
  BY InitOwned DEF Init, BackendInit, Unopened, Inside, IdleFilter, IdleWorker
<1>2. Owned /\ Unopened /\ [Next]_vars => Owned' /\ Unopened'
  <2>1. [Next]_vars => [BackendNext]_backendVars
    BY DEF Next, vars, OpenInstance, SoftwareOutput, HardwareOutput, BackendNext
  <2> QED
    BY <2>1, StepUnopened
<1>3. Owned /\ Unopened => NothingLeftInBackend
  BY DEF Owned, Unopened, NothingLeftInBackend
<1> QED
  BY <1>1, <1>2, <1>3, PTL DEF Spec

-----------------------------------------------------------------------------
(***************************************************************************)
(* Software pictures.  What a treatment leaves of a plane.                 *)
(***************************************************************************)
IsPlane(plane) ==
    /\ plane = [w |-> plane.w, h |-> plane.h, px |-> plane.px]
    /\ plane.w \in Nat /\ plane.h \in Nat

SamePlane(new, old) ==
    /\ new = [w |-> old.w, h |-> old.h, px |-> new.px]
    /\ DOMAIN new.px = DOMAIN old.px
    /\ \A cell \in DOMAIN old.px \ VisibleCells(old) : new.px[cell] = old.px[cell]

SamePicture(new, old) ==
    /\ new = [chroma |-> old.chroma, w |-> old.w, h |-> old.h, planes |-> new.planes]
    /\ DOMAIN new.planes = DOMAIN old.planes
    /\ \A p \in DOMAIN old.planes : SamePlane(new.planes[p], old.planes[p])

\* A rectangle of integers is cut to the visible cells (FillColorRect).
LEMMA RectsAreVisible ==
    ASSUME NEW plane, IsPlane(plane), NEW x0 \in Int, NEW y0 \in Int, NEW width \in Int, NEW height \in Int
    PROVE  RectCells(plane, x0, y0, width, height) \subseteq VisibleCells(plane)
<1>1. /\ Maximum(y0, 0) \in Nat /\ Maximum(x0, 0) \in Nat
      /\ Minimum(y0 + height, plane.h) \in Int /\ Minimum(y0 + height, plane.h) <= plane.h
      /\ Minimum(x0 + width, plane.w) \in Int /\ Minimum(x0 + width, plane.w) <= plane.w
  BY DEF Maximum, Minimum, IsPlane
<1>2. /\ Maximum(y0, 0) .. Minimum(y0 + height, plane.h) - 1 \subseteq 0 .. plane.h - 1
      /\ Maximum(x0, 0) .. Minimum(x0 + width, plane.w) - 1 \subseteq 0 .. plane.w - 1
  BY <1>1 DEF IsPlane
<1> QED
  BY <1>2 DEF RectCells, VisibleCells

LEMMA PaintedPlane ==
    ASSUME NEW plane, IsPlane(plane), NEW cells, NEW unit
    PROVE  /\ Paint(plane, cells, unit) =
                [w |-> plane.w, h |-> plane.h,
                 px |-> [cell \in DOMAIN plane.px |-> IF cell \in cells THEN unit ELSE plane.px[cell]]]
           /\ IsPlane(Paint(plane, cells, unit))
           /\ cells \subseteq VisibleCells(plane) => SamePlane(Paint(plane, cells, unit), plane)
<1>1. Paint(plane, cells, unit) =
        [w |-> plane.w, h |-> plane.h,
         px |-> [cell \in DOMAIN plane.px |-> IF cell \in cells THEN unit ELSE plane.px[cell]]]
  BY DEF Paint, IsPlane
<1> QED
  BY <1>1 DEF IsPlane, SamePlane

LEMMA NewPixels ==
    ASSUME NEW plane, IsPlane(plane), NEW px
    PROVE  [plane EXCEPT !.px = px] = [w |-> plane.w, h |-> plane.h, px |-> px]
BY DEF IsPlane

LEMMA PixelatedPlane ==
    ASSUME NEW plane, IsPlane(plane), NEW block
    PROVE  /\ SamePlane(PixelatePlane(plane, block), plane)
           /\ \A cell \in DOMAIN plane.px : cell \in VisibleCells(plane) =>
                 PixelatePlane(plane, block).px[cell] =
                     plane.px[<<cell[1] - (cell[1] % block), cell[2] - (cell[2] % block)>>]
<1> DEFINE pixels == [cell \in DOMAIN plane.px |->
                   IF cell \in VisibleCells(plane)
                   THEN plane.px[<<cell[1] - (cell[1] % block), cell[2] - (cell[2] % block)>>]
                   ELSE plane.px[cell]]
<1>1. PICK px : px = pixels
  OBVIOUS
<1>2. PixelatePlane(plane, block) = [plane EXCEPT !.px = pixels]
  BY Zenon DEF PixelatePlane
<1>3. PixelatePlane(plane, block) = [w |-> plane.w, h |-> plane.h, px |-> px]
  BY <1>1, <1>2, NewPixels
<1>4. /\ DOMAIN px = DOMAIN plane.px
      /\ \A cell \in DOMAIN plane.px :
            px[cell] = IF cell \in VisibleCells(plane)
                       THEN plane.px[<<cell[1] - (cell[1] % block), cell[2] - (cell[2] % block)>>]
                       ELSE plane.px[cell]
  BY <1>1
<1> HIDE DEF pixels
<1>5. PICK new : new = PixelatePlane(plane, block)
  OBVIOUS
<1>6. new = [w |-> plane.w, h |-> plane.h, px |-> new.px] /\ new.px = px
  BY <1>3, <1>5
<1>7. SamePlane(new, plane)
  BY ONLY <1>4, <1>6 DEF SamePlane
<1> QED
  BY <1>4, <1>5, <1>6, <1>7

LEMMA SameVisible == ASSUME NEW new, NEW old, SamePlane(new, old) PROVE VisibleCells(new) = VisibleCells(old)
BY DEF SamePlane, VisibleCells

LEMMA SameAgain ==
    ASSUME NEW new, NEW mid, NEW old, SamePlane(new, mid), SamePlane(mid, old)
    PROVE  SamePlane(new, old)
<1>1. mid.w = old.w /\ mid.h = old.h
  BY DEF SamePlane
<1> QED
  BY <1>1, SameVisible DEF SamePlane

LEMMA MarkNumbers ==
    ASSUME NEW w \in Nat, NEW h \in Nat
    PROVE  /\ MarkSize(w, h) \in 20 .. 72
           /\ \A length \in Nat, size \in 20 .. 72 : MarkCorner(length, size) \in Nat
           /\ \A size \in 20 .. 72 : MarkStroke(size) \in Int
<1>1. Minimum(w, h) \in Nat
  BY DEF Minimum
<1> QED
  BY <1>1 DEF MarkSize, MarkCorner, MarkStroke, Clamp, Minimum, Maximum

LEMMA TriangleNumbers ==
    ASSUME NEW size \in 20 .. 72, NEW row \in 0 .. size - 1
    PROVE  MarkLeft(size, row) \in Int /\ MarkRight(size, row) \in Int
<1>1. PICK half \in Nat : half = size \div 2
  OBVIOUS
<1>2. PICK product \in Nat : product = half * row
  OBVIOUS
<1>3. MarkSpan(size, row) = product \div (size - 1)
  BY <1>1, <1>2 DEF MarkSpan
<1>4. MarkSpan(size, row) \in Int
  BY <1>3
<1> QED
  BY <1>4 DEF MarkLeft, MarkRight, Minimum, Maximum

\* The mark of a picture of any size stays within any plane.
LEMMA MarksAreVisible ==
    ASSUME NEW plane, IsPlane(plane), NEW w \in Nat, NEW h \in Nat
    PROVE  WatermarkCells(plane, w, h) \subseteq VisibleCells(plane)
<1>1. PICK size \in 20 .. 72 : size = MarkSize(w, h)
  BY MarkNumbers
<1>2. PICK x0 \in Nat : x0 = MarkCorner(w, size)
  BY MarkNumbers
<1>3. PICK y0 \in Nat : y0 = MarkCorner(h, size)
  BY MarkNumbers
<1>4. ASSUME NEW row \in 0 .. size - 1
      PROVE  TriangleRow(plane, x0, y0, size, row) \subseteq VisibleCells(plane)
  <2>1. PICK stroke \in Int : stroke = MarkStroke(size)
    BY MarkNumbers
  <2>2. PICK left \in Int : left = MarkLeft(size, row)
    BY TriangleNumbers
  <2>3. PICK right \in Int : right = MarkRight(size, row)
    BY TriangleNumbers
  <2>4. /\ RectCells(plane, x0 + left, y0 + row, stroke, 1) \subseteq VisibleCells(plane)
        /\ RectCells(plane, x0 + right - stroke + 1, y0 + row, stroke, 1) \subseteq VisibleCells(plane)
        /\ RectCells(plane, x0 + left, y0 + row, right - left + 1, 1) \subseteq VisibleCells(plane)
    BY RectsAreVisible
  <2> QED
    BY <2>1, <2>2, <2>3, <2>4 DEF TriangleRow
<1>5. ExclamationMark(plane, x0, y0, size) \subseteq VisibleCells(plane)
  <2>1. PICK symbol \in Int : symbol = Maximum(size \div 9, 2)
    BY DEF Maximum
  <2>2. PICK left \in Int : left = x0 + size \div 2 - symbol \div 2
    OBVIOUS
  <2>3. /\ RectCells(plane, left, y0 + size \div 3, symbol, size \div 4) \subseteq VisibleCells(plane)
        /\ RectCells(plane, left, y0 + (size * 3) \div 4, symbol, symbol) \subseteq VisibleCells(plane)
    BY RectsAreVisible
  <2> QED
    BY <2>1, <2>2, <2>3 DEF ExclamationMark
<1> QED
  BY <1>1, <1>2, <1>3, <1>4, <1>5 DEF WatermarkCells

\* The board of the panel and its ink stay within any plane.
LEMMA PanelKeepsPlane ==
    ASSUME NEW plane, IsPlane(plane), NEW w \in Nat \ {0}, NEW h \in Nat \ {0},
           NEW background, NEW foreground, NEW score \in Nat, NEW threshold \in Nat
    PROVE  SamePlane(DrawDebugTextPlane(plane, w, h, background, foreground, score, threshold), plane)
<1> DEFINE text == PanelText(score, threshold)
           base == Clamp(Minimum(w, h) \div 160, 2, 6)
           scaleX == Maximum((base * plane.w + w \div 2) \div w, 1)
           scaleY == Maximum((base * plane.h + h \div 2) \div h, 1)
           marginX == scaleX * 3
           marginY == scaleY * 3
           barWidth == Len(text) * scaleX * 4
           barHeight == Maximum(scaleY, 2)
           filled == IF threshold > 1
                     THEN Minimum((2 * barWidth * score + threshold) \div (2 * threshold), barWidth)
                     ELSE barWidth
           Dots(i) == {dot \in (0..4) \X (0..2) :
                         (Glyphs[text[i] + 1][dot[1] + 1] \div PowerOfTwo(2 - dot[2])) % 2 = 1}
           Dot(i, dot) == RectCells(plane, marginX * 2 + (i - 1) * scaleX * 4 + dot[2] * scaleX,
                                    marginY * 2 + dot[1] * scaleY, scaleX, scaleY)
           Glyph(i) == UNION {Dot(i, dot) : dot \in Dots(i)}
           board == RectCells(plane, marginX, marginY, barWidth + marginX * 2,
                              scaleY * 5 + marginY * 3 + barHeight)
           bar == RectCells(plane, marginX * 2, marginY * 3 + scaleY * 5, filled, barHeight)
           ink == (UNION {Glyph(i) : i \in 1 .. Len(text)}) \cup bar
<1>1. Len(text) \in Nat
  BY DEF PanelText
<1>2. base \in Nat
  BY DEF Clamp, Minimum, Maximum
<1>3. scaleX \in Nat /\ scaleY \in Nat
  <2>1. base * plane.w + w \div 2 \in Nat /\ base * plane.h + h \div 2 \in Nat
    BY <1>2 DEF IsPlane
  <2> HIDE DEF base
  <2>2. (base * plane.w + w \div 2) \div w \in Int /\ (base * plane.h + h \div 2) \div h \in Int
    BY <2>1
  <2> QED
    BY <2>2 DEF Maximum
<1> HIDE DEF text, scaleX, scaleY
<1>4. /\ marginX \in Nat /\ marginY \in Nat /\ barWidth \in Nat /\ barHeight \in Nat
  BY <1>1, <1>3 DEF Maximum
<1> HIDE DEF marginX, marginY, barWidth, barHeight
<1>5. filled \in Int
  <2>1. CASE threshold > 1
    <3>1. 2 * barWidth * score + threshold \in Nat /\ 2 * threshold \in Nat \ {0}
      BY <1>4, <2>1
    <3>2. (2 * barWidth * score + threshold) \div (2 * threshold) \in Int
      BY <3>1
    <3> QED
      BY <1>4, <2>1, <3>2 DEF Minimum
  <2> QED
    BY <1>4, <2>1
<1> HIDE DEF filled
<1>6. board \subseteq VisibleCells(plane) /\ bar \subseteq VisibleCells(plane)
  BY <1>3, <1>4, <1>5, RectsAreVisible
<1>7. ASSUME NEW i \in 1 .. Len(text), NEW dot \in Dots(i)
      PROVE  Dot(i, dot) \subseteq VisibleCells(plane)
  <2>1. dot[1] \in Int /\ dot[2] \in Int
    BY <1>7
  <2>2. PICK x \in Int : x = marginX * 2 + (i - 1) * scaleX * 4 + dot[2] * scaleX
    BY <1>1, <1>3, <1>4, <2>1
  <2>3. PICK y \in Int : y = marginY * 2 + dot[1] * scaleY
    BY <1>3, <1>4, <2>1
  <2>4. RectCells(plane, x, y, scaleX, scaleY) \subseteq VisibleCells(plane)
    BY <1>3, RectsAreVisible
  <2> QED
    BY <2>2, <2>3, <2>4
<1>8. ink \subseteq VisibleCells(plane)
  <2> HIDE DEF Dot, Dots, bar
  <2> QED
    BY <1>6, <1>7
<1>9. DrawDebugTextPlane(plane, w, h, background, foreground, score, threshold)
        = Paint(Paint(plane, board, background), ink, foreground)
  BY Zenon DEF DrawDebugTextPlane, text, scaleX, scaleY, marginX, marginY, barWidth, barHeight, filled
<1>10. PICK b : b = board
  OBVIOUS
<1>11. PICK n : n = ink
  OBVIOUS
<1>12. /\ SamePlane(Paint(plane, b, background), plane) /\ IsPlane(Paint(plane, b, background))
  BY <1>6, <1>10, PaintedPlane
<1>13. SamePlane(Paint(Paint(plane, b, background), n, foreground), Paint(plane, b, background))
  BY <1>8, <1>11, <1>12, PaintedPlane, SameVisible
<1> QED
  BY ONLY <1>9, <1>10, <1>11, <1>12, <1>13, SameAgain

Drawable(pic) ==
    /\ pic = [chroma |-> pic.chroma, w |-> pic.w, h |-> pic.h, planes |-> pic.planes]
    /\ pic.w \in Nat \ {0} /\ pic.h \in Nat \ {0}
    /\ \A p \in DOMAIN pic.planes : IsPlane(pic.planes[p])

LEMMA Powers ==
    /\ PowerOfTwo(0) = 1 /\ PowerOfTwo(1) = 2 /\ PowerOfTwo(6) = 64 /\ PowerOfTwo(7) = 128
    /\ PowerOfTwo(8) = 256 /\ PowerOfTwo(9) = 512 /\ PowerOfTwo(10) = 1024
    /\ PowerOfTwo(11) = 2048 /\ PowerOfTwo(12) = 4096
    /\ PowerOfTwo(15) = 32768 /\ PowerOfTwo(16) = 65536
BY DEF PowerOfTwo

LEMMA PlaneSizes ==
    ASSUME NEW c, NEW p, NEW n \in Nat \ {0}
    PROVE  PlaneWidth(c, p, n) \in Nat \ {0} /\ PlaneHeight(c, p, n) \in Nat \ {0}
<1>1. RoundedUp(n, 0) = n /\ RoundedUp(n, 1) = (n + 1) \div 2
  BY Powers DEF RoundedUp
<1>2. StepX(c) \in {0, 1} /\ StepY(c) \in {0, 1}
  BY DEF StepX, StepY
<1>3. RoundedUp(n, StepX(c)) \in Nat \ {0} /\ RoundedUp(n, StepY(c)) \in Nat \ {0}
  BY <1>1, <1>2
<1> QED
  BY <1>3 DEF PlaneWidth, PlaneHeight

LEMMA PicturesAreDrawable ==
    ASSUME NEW pic, IsPicture(pic)
    PROVE  /\ Drawable(pic) /\ DOMAIN pic.planes = Planes(pic.chroma)
           /\ \A p \in Planes(pic.chroma) :
                 /\ pic.planes[p].w = PlaneWidth(pic.chroma, p, pic.w)
                 /\ pic.planes[p].h = PlaneHeight(pic.chroma, p, pic.h)
<1>1. PICK planes : planes = [p \in Planes(pic.chroma) |->
                                [w |-> PlaneWidth(pic.chroma, p, pic.w),
                                 h |-> PlaneHeight(pic.chroma, p, pic.h),
                                 px |-> pic.planes[p].px]]
  OBVIOUS
<1>2. pic = [chroma |-> pic.chroma, w |-> pic.w, h |-> pic.h, planes |-> planes]
  BY <1>1 DEF IsPicture
<1>3. pic.planes = planes
  BY <1>2
<1>4. /\ DOMAIN planes = Planes(pic.chroma)
      /\ \A p \in Planes(pic.chroma) :
            planes[p] = [w |-> PlaneWidth(pic.chroma, p, pic.w), h |-> PlaneHeight(pic.chroma, p, pic.h),
                         px |-> planes[p].px]
  BY <1>1
<1>5. pic.w \in Nat \ {0} /\ pic.h \in Nat \ {0}
  BY DEF IsPicture
<1>6. ASSUME NEW p \in Planes(pic.chroma)
      PROVE  /\ IsPlane(planes[p]) /\ planes[p].w = PlaneWidth(pic.chroma, p, pic.w)
             /\ planes[p].h = PlaneHeight(pic.chroma, p, pic.h)
  BY <1>4, <1>5, PlaneSizes DEF IsPlane
<1> QED
  BY <1>2, <1>3, <1>4, <1>5, <1>6 DEF Drawable

\* Planes that are drawn on one by one.
SamePlanes(planes, pic) ==
    /\ DOMAIN planes = DOMAIN pic.planes
    /\ \A p \in DOMAIN pic.planes : SamePlane(planes[p], pic.planes[p])

LEMMA NewPlanes ==
    ASSUME NEW pic, Drawable(pic), NEW planes, SamePlanes(planes, pic)
    PROVE  /\ [pic EXCEPT !.planes = planes] =
                 [chroma |-> pic.chroma, w |-> pic.w, h |-> pic.h, planes |-> planes]
           /\ SamePicture([pic EXCEPT !.planes = planes], pic)
           /\ Drawable([pic EXCEPT !.planes = planes])
<1>1. PICK new : new = [pic EXCEPT !.planes = planes]
  OBVIOUS
<1>2. new = [chroma |-> pic.chroma, w |-> pic.w, h |-> pic.h, planes |-> planes]
  BY <1>1 DEF Drawable
<1>3. \A p \in DOMAIN planes : IsPlane(planes[p])
  BY DEF Drawable, IsPlane, SamePlane, SamePlanes
<1> QED
  BY <1>1, <1>2, <1>3 DEF Drawable, SamePicture, SamePlanes

LEMMA NothingDrawn == ASSUME NEW pic, Drawable(pic) PROVE SamePicture(pic, pic)
BY DEF Drawable, SamePicture, SamePlane, IsPlane

LEMMA DrawnAgain ==
    ASSUME NEW new, NEW mid, NEW old, SamePicture(new, mid), SamePicture(mid, old)
    PROVE  SamePicture(new, old)
<1>1. \A p \in DOMAIN old.planes : SamePlane(new.planes[p], old.planes[p])
  BY SameAgain DEF SamePicture
<1>2. mid.chroma = old.chroma /\ mid.w = old.w /\ mid.h = old.h
  BY DEF SamePicture
<1> QED
  BY <1>1, <1>2 DEF SamePicture

LEMMA BlackoutKeeps ==
    ASSUME NEW pic, Drawable(pic)
    PROVE  SamePicture(Blackout(pic), pic) /\ Drawable(Blackout(pic))
<1> DEFINE drawn == [p \in DOMAIN pic.planes |->
               Paint(pic.planes[p], VisibleCells(pic.planes[p]), BlackUnit(pic.chroma, p))]
<1>1. Blackout(pic) = [pic EXCEPT !.planes = drawn]
  BY Zenon DEF Blackout
<1>2. \A p \in DOMAIN pic.planes : SamePlane(drawn[p], pic.planes[p])
  BY PaintedPlane DEF Drawable
<1>3. SamePlanes(drawn, pic)
  BY <1>2 DEF SamePlanes
<1> HIDE DEF drawn
<1>5. SamePicture([pic EXCEPT !.planes = drawn], pic) /\ Drawable([pic EXCEPT !.planes = drawn])
  BY Zenon, <1>3, NewPlanes
<1> QED
  BY <1>1, <1>5

LEMMA BlurKeeps ==
    ASSUME NEW pic, Drawable(pic)
    PROVE  SamePicture(FastBlurFrame(pic), pic) /\ Drawable(FastBlurFrame(pic))
<1> DEFINE drawn == [p \in DOMAIN pic.planes |->
               PixelatePlane(pic.planes[p], FastBlurBlockSize(pic.w, pic.h))]
<1>1. pic.chroma \in Packable => FastBlurFrame(pic) = [pic EXCEPT !.planes = drawn]
  BY Zenon DEF FastBlurFrame
<1>2. \A p \in DOMAIN pic.planes : SamePlane(drawn[p], pic.planes[p])
  BY PixelatedPlane DEF Drawable
<1>3. SamePlanes(drawn, pic)
  BY <1>2 DEF SamePlanes
<1>4. pic.chroma \notin Packable => FastBlurFrame(pic) = Blackout(pic)
  BY DEF FastBlurFrame
<1> HIDE DEF drawn
<1>5. SamePicture([pic EXCEPT !.planes = drawn], pic) /\ Drawable([pic EXCEPT !.planes = drawn])
  BY Zenon, <1>3, NewPlanes
<1> QED
  BY <1>1, <1>4, <1>5, BlackoutKeeps

LEMMA WarningKeeps ==
    ASSUME NEW pic, Drawable(pic)
    PROVE  SamePicture(WarningWatermarkFrame(pic), pic) /\ Drawable(WarningWatermarkFrame(pic))
<1> DEFINE drawn == [p \in DOMAIN pic.planes |->
               Paint(pic.planes[p], MarkCells(pic, p), WarningUnit(pic.chroma, p))]
<1>1. pic.chroma \in Packable => WarningWatermarkFrame(pic) = [pic EXCEPT !.planes = drawn]
  BY Zenon DEF WarningWatermarkFrame
<1>2. ASSUME NEW p \in DOMAIN pic.planes PROVE SamePlane(drawn[p], pic.planes[p])
  <2>1. IsPlane(pic.planes[p]) /\ pic.w \in Nat /\ pic.h \in Nat
    BY DEF Drawable
  <2>2. pic.planes[p].w \in Nat /\ pic.planes[p].h \in Nat
    BY <2>1 DEF IsPlane
  <2>3. /\ WatermarkCells(pic.planes[p], pic.w, pic.h) \subseteq VisibleCells(pic.planes[p])
        /\ WatermarkCells(pic.planes[p], pic.planes[p].w, pic.planes[p].h) \subseteq VisibleCells(pic.planes[p])
    BY <2>1, <2>2, MarksAreVisible
  <2>4. MarkCells(pic, p) \subseteq VisibleCells(pic.planes[p])
    BY <2>3 DEF MarkCells
  <2> QED
    BY <2>1, <2>4, PaintedPlane
<1>3. SamePlanes(drawn, pic)
  BY <1>2 DEF SamePlanes
<1>4. pic.chroma \notin Packable => WarningWatermarkFrame(pic) = pic
  BY DEF WarningWatermarkFrame
<1> HIDE DEF drawn
<1> QED
  BY <1>1, <1>3, <1>4, NewPlanes, NothingDrawn

LEMMA MaskKeeps ==
    ASSUME NEW pic, Drawable(pic), NEW blockStyle
    PROVE  SamePicture(BlockFrame(pic, blockStyle), pic) /\ Drawable(BlockFrame(pic, blockStyle))
<1>1. SamePicture(BlackoutFrameContent(pic), pic) /\ Drawable(BlackoutFrameContent(pic))
  BY BlackoutKeeps, NothingDrawn DEF BlackoutFrameContent
<1> QED
  BY <1>1, BlurKeeps, WarningKeeps DEF BlockFrame

LEMMA OverlayKeeps ==
    ASSUME NEW pic, Drawable(pic), NEW score \in Nat, NEW threshold \in Nat
    PROVE  SamePicture(DebugOverlay(pic, score, threshold), pic) /\ Drawable(DebugOverlay(pic, score, threshold))
<1> DEFINE Drawn(p) ==
              DrawDebugTextPlane(pic.planes[p], pic.w, pic.h, OverlayUnit(pic.chroma, p, <<0, 0, 0>>),
                  OverlayUnit(pic.chroma, p, DebugScoreColor(score, threshold)), score, threshold)
           drawn == [p \in DOMAIN pic.planes |-> IF p = A_PLANE THEN pic.planes[p] ELSE Drawn(p)]
<1>1. pic.chroma \in Packable => DebugOverlay(pic, score, threshold) = [pic EXCEPT !.planes = drawn]
  BY Zenon DEF DebugOverlay
<1>2. ASSUME NEW p \in DOMAIN pic.planes PROVE SamePlane(drawn[p], pic.planes[p])
  <2>1. IsPlane(pic.planes[p])
    BY DEF Drawable
  <2>2. SamePlane(Drawn(p), pic.planes[p])
    BY <2>1, PanelKeepsPlane DEF Drawable
  <2>3. SamePlane(pic.planes[p], pic.planes[p])
    BY <2>1 DEF SamePlane, IsPlane
  <2> HIDE DEF Drawn
  <2> QED
    BY <2>2, <2>3
<1>3. SamePlanes(drawn, pic)
  BY <1>2 DEF SamePlanes
<1>4. pic.chroma \notin Packable => DebugOverlay(pic, score, threshold) = pic
  BY DEF DebugOverlay
<1> HIDE DEF drawn
<1> QED
  BY <1>1, <1>3, <1>4, NewPlanes, NothingDrawn

(***************************************************************************)
(* Blur.                                                                   *)
(***************************************************************************)
LEMMA Division ==
    ASSUME NEW k \in Nat, NEW b \in Nat \ {0}, NEW r \in 0 .. b - 1
    PROVE  (k * b + r) % b = r
<1>1. PICK n \in Nat : n = k * b + r
  <2>1. k * b \in Nat
    OBVIOUS
  <2> QED BY <2>1
<1>2. PICK q \in Nat : q = n \div b
  BY <1>1
<1>3. n = q * b + (n % b) /\ n % b \in 0 .. b - 1
  BY <1>2
<1>4. (q - k) * b = r - (n % b)
  BY <1>1, <1>3
<1>5. CASE q > k
  <2>1. (q - k) * b >= b
    BY <1>5
  <2> QED BY <1>3, <1>4, <2>1
<1>6. CASE q < k
  <2>1. (k - q) * b >= b
    BY <1>6
  <2>2. (k - q) * b = (n % b) - r
    BY <1>4
  <2> QED BY <1>3, <2>1, <2>2
<1>7. CASE q = k
  BY <1>1, <1>3, <1>7
<1> QED
  BY <1>5, <1>6, <1>7

LEMMA Multiple ==
    ASSUME NEW y \in Nat, NEW b \in Nat \ {0}
    PROVE  \E k \in Nat, r \in 0 .. b - 1 : y = k * b + r /\ y % b = r
<1>1. y \div b \in Nat /\ y % b \in 0 .. b - 1
  OBVIOUS
<1>2. y = (y \div b) * b + (y % b)
  OBVIOUS
<1> QED BY <1>1, <1>2

Corner(y, b) == y - (y % b)

LEMMA CornerOf ==
    ASSUME NEW k \in Nat, NEW b \in Nat \ {0}, NEW r \in 0 .. b - 1
    PROVE  Corner(k * b + r, b) = k * b
<1>1. PICK m \in Nat : m = k * b
  OBVIOUS
<1>2. (m + r) % b = r
  BY <1>1, Division
<1> QED
  BY <1>1, <1>2 DEF Corner

\* The corner of a block of chroma is the chroma of the corner of a block of luma.
LEMMA CornersNest ==
    ASSUME NEW y \in Nat, NEW b \in Nat \ {0}
    PROVE  /\ Corner(y, b) \in 0 .. y /\ Corner(Corner(y, b), b) = Corner(y, b)
           /\ Corner(y \div 2, b) = Corner(Corner(y, b) \div 2, b)
<1>1. PICK k \in Nat, r \in 0 .. b - 1 : y = k * b + r
  BY Multiple
<1>2. PICK m \in Nat : m = k * b
  OBVIOUS
<1>3. Corner(y, b) = m
  BY <1>1, <1>2, CornerOf
<1>4. Corner(m, b) = m
  <2>1. 0 \in 0 .. b - 1 /\ m = k * b + 0
    BY <1>2
  <2> QED BY <1>2, <2>1, CornerOf
<1>5. PICK j \in Nat : k = 2 * j \/ k = 2 * j + 1
  <2>1. k \div 2 \in Nat /\ (k = 2 * (k \div 2) \/ k = 2 * (k \div 2) + 1)
    OBVIOUS
  <2> QED BY <2>1
<1>6. PICK i \in Nat : i = j * b
  OBVIOUS
<1>7. CASE k = 2 * j
  <2>1. m = 2 * i
    BY <1>2, <1>6, <1>7
  <2>2. y \div 2 = i + r \div 2 /\ r \div 2 \in 0 .. b - 1 /\ m \div 2 = i + 0 /\ 0 \in 0 .. b - 1
    BY <1>1, <1>2, <2>1
  <2>3. Corner(i + r \div 2, b) = i /\ Corner(i + 0, b) = i
    BY <1>6, <2>2, CornerOf
  <2> QED
    BY <1>1, <1>2, <1>3, <1>4, <2>2, <2>3
<1>8. CASE k = 2 * j + 1
  <2>1. m = 2 * i + b
    BY <1>2, <1>6, <1>8
  <2>2. /\ y \div 2 = i + (b + r) \div 2 /\ (b + r) \div 2 \in 0 .. b - 1
        /\ m \div 2 = i + b \div 2 /\ b \div 2 \in 0 .. b - 1
    BY <1>1, <1>2, <2>1
  <2>3. Corner(i + (b + r) \div 2, b) = i /\ Corner(i + b \div 2, b) = i
    BY <1>6, <2>2, CornerOf
  <2> QED
    BY <1>1, <1>2, <1>3, <1>4, <2>2, <2>3
<1> QED
  BY <1>5, <1>7, <1>8

\* A picture that is asked for in its own size is read pixel by pixel; and
\* no pixel of the target is read from outside the picture.
LEMMA SourceInside ==
    ASSUME NEW i \in Nat, NEW source \in Nat \ {0}, NEW target \in Nat \ {0}, i < target
    PROVE  /\ SourceIndex(i, source, target) \in 0 .. source - 1
           /\ SourceIndex(i, target, target) = i
<1>1. PICK n \in Nat : n = i * source
  OBVIOUS
<1>2. PICK q \in Nat : q = n \div target
  OBVIOUS
<1>3. q * target <= n
  BY <1>2
<1>4. q < source
  <2>1. SUFFICES ASSUME q >= source PROVE FALSE
    OBVIOUS
  <2>2. q * target >= source * target
    BY <2>1
  <2>3. source * target >= source * (i + 1)
    OBVIOUS
  <2>4. source * (i + 1) = n + source
    BY <1>1
  <2>5. source * target \in Int /\ q * target \in Int /\ source * (i + 1) \in Int
    OBVIOUS
  <2> QED BY <1>3, <2>2, <2>3, <2>4, <2>5
<1>5. (i * target) \div target = i
  <2>1. PICK m \in Nat : m = i * target
    OBVIOUS
  <2>2. PICK p \in Nat : p = m \div target
    OBVIOUS
  <2>3. m = p * target + (m % target) /\ m % target \in 0 .. target - 1
    BY <2>2
  <2>4. m % target = 0
    <3>1. 0 \in 0 .. target - 1 /\ m = i * target + 0
      BY <2>1
    <3> QED BY <3>1, Division
  <2>5. (p - i) * target = 0
    BY <2>1, <2>3, <2>4
  <2>6. p = i
    BY <2>5
  <2> QED BY <2>1, <2>2, <2>6
<1> QED
  BY <1>1, <1>2, <1>4, <1>5 DEF SourceIndex

LEMMA ChromaPlanes ==
    ASSUME NEW c \in Packable
    PROVE  /\ Y_PLANE \in Planes(c)
           /\ c \notin Packed => U_PLANE \in Planes(c)
           /\ c \notin Packed /\ Planar(c) => V_PLANE \in Planes(c)
           /\ Planes(c) \subseteq 1 .. 4
<1>1. c \in Packed => Planes(c) = {Y_PLANE}
  <2>1. SUFFICES ASSUME c \in Packed PROVE Planes(c) = {Y_PLANE}
    OBVIOUS
  <2>2. c[1] \in {"RGB24", "RGB32", "RGBA", "BGRA", "ARGB"}
    BY <2>1 DEF Packed
  <2>3. ~SemiPlanar(c) /\ ~HasAlphaPlane(c)
    BY <2>2 DEF SemiPlanar, HasAlphaPlane, Name, Semi8, P010
  <2> QED
    BY <2>1, <2>3 DEF Planes
<1>2. CASE c \in Planar8 \cup Planar16
  <2>1. c[1] \notin {"NV12", "NV21", "P010"}
    BY <1>2 DEF Planar8, Planar16
  <2>2. c \notin Semi8 /\ c # P010
    BY <2>1 DEF Semi8, P010
  <2> QED
    BY <1>1, <2>2 DEF Planes, SemiPlanar, Planar, Y_PLANE, U_PLANE, V_PLANE, A_PLANE
<1>3. CASE c \in Semi8 \cup {P010}
  BY <1>1, <1>3 DEF Planes, SemiPlanar, Planar, Planar8, Planar16, Semi8, P010, Y_PLANE, U_PLANE, V_PLANE, A_PLANE
<1>4. CASE c \in Packed
  BY <1>1, <1>4 DEF Y_PLANE
<1> QED
  BY <1>2, <1>3, <1>4 DEF Packable

ChromaCell(c, cell) == <<cell[1] \div PowerOfTwo(StepY(c)), cell[2] \div PowerOfTwo(StepX(c))>>

Cells(pic) == (0 .. pic.h - 1) \X (0 .. pic.w - 1)

\* Where the samples of a visible pixel are.
LEMMA SamplesVisible ==
    ASSUME NEW pic, IsPicture(pic), NEW cell \in Cells(pic), NEW p \in Planes(pic.chroma)
    PROVE  /\ p \in {Y_PLANE, A_PLANE} => VisibleCells(pic.planes[p]) = Cells(pic)
           /\ p \in {U_PLANE, V_PLANE} => ChromaCell(pic.chroma, cell) \in VisibleCells(pic.planes[p])
<1>1. PICK c : c = pic.chroma
  OBVIOUS
<1>2. PICK w \in Nat \ {0} : w = pic.w
  BY DEF IsPicture
<1>3. PICK h \in Nat \ {0} : h = pic.h
  BY DEF IsPicture
<1>4. pic.planes[p].w = PlaneWidth(c, p, w) /\ pic.planes[p].h = PlaneHeight(c, p, h)
  BY <1>1, <1>2, <1>3, PicturesAreDrawable
<1>5. cell = <<cell[1], cell[2]>> /\ cell[1] \in 0 .. h - 1 /\ cell[2] \in 0 .. w - 1
  BY <1>2, <1>3 DEF Cells
<1>6. ASSUME NEW n \in Nat \ {0}, NEW i \in 0 .. n - 1, NEW step \in {0, 1}
      PROVE  i \div PowerOfTwo(step) \in 0 .. RoundedUp(n, step) - 1
  BY Powers DEF RoundedUp
<1>7. StepX(c) \in {0, 1} /\ StepY(c) \in {0, 1}
  BY DEF StepX, StepY
<1>8. CASE p \in {Y_PLANE, A_PLANE}
  BY <1>2, <1>3, <1>4, <1>8 DEF PlaneWidth, PlaneHeight, VisibleCells, Cells, Y_PLANE, A_PLANE, U_PLANE, V_PLANE
<1>9. CASE p \in {U_PLANE, V_PLANE}
  <2>1. pic.planes[p].w = RoundedUp(w, StepX(c)) /\ pic.planes[p].h = RoundedUp(h, StepY(c))
    BY <1>4, <1>9 DEF PlaneWidth, PlaneHeight
  <2>2. /\ cell[1] \div PowerOfTwo(StepY(c)) \in 0 .. RoundedUp(h, StepY(c)) - 1
        /\ cell[2] \div PowerOfTwo(StepX(c)) \in 0 .. RoundedUp(w, StepX(c)) - 1
    BY <1>5, <1>6, <1>7
  <2> QED
    BY <1>1, <1>9, <2>1, <2>2 DEF VisibleCells, ChromaCell, Y_PLANE, A_PLANE, U_PLANE, V_PLANE
<1> QED
  BY <1>8, <1>9

\* The colour of a pixel is made of its own unit and its chroma's.
LEMMA ColourOf ==
    ASSUME NEW pic, NEW a, NEW b,
           pic.planes[Y_PLANE].px[a] = pic.planes[Y_PLANE].px[b],
           pic.chroma \notin Packed =>
               pic.planes[U_PLANE].px[ChromaCell(pic.chroma, a)] = pic.planes[U_PLANE].px[ChromaCell(pic.chroma, b)],
           pic.chroma \notin Packed /\ Planar(pic.chroma) =>
               pic.planes[V_PLANE].px[ChromaCell(pic.chroma, a)] = pic.planes[V_PLANE].px[ChromaCell(pic.chroma, b)]
    PROVE  RGBAt(pic, a) = RGBAt(pic, b)
<1>1. CASE pic.chroma \in Packed
  BY <1>1 DEF RGBAt, PackedRGBAt
<1>2. CASE pic.chroma \notin Packed
  <2>1. YCbCrAt(pic, a, StepX(pic.chroma), StepY(pic.chroma)) = YCbCrAt(pic, b, StepX(pic.chroma), StepY(pic.chroma))
    BY <1>2 DEF YCbCrAt, ChromaCell, Y_PLANE, U_PLANE, V_PLANE
  <2> QED
    BY <1>2, <2>1 DEF RGBAt
<1> QED
  BY <1>1, <1>2

\* A packing in the picture's own size shows its pixels.
LEMMA ShownPixels ==
    ASSUME NEW pic, pic.chroma \in Packable, pic.w \in Nat \ {0}, pic.h \in Nat \ {0}
    PROVE  /\ DOMAIN PackToRGB(pic, <<0, 0>>) = Cells(pic)
           /\ \A cell \in Cells(pic) : PackToRGB(pic, <<0, 0>>)[cell] = RGBAt(pic, cell)
<1>1. PICK w \in Nat \ {0} : w = pic.w
  OBVIOUS
<1>2. PICK h \in Nat \ {0} : h = pic.h
  OBVIOUS
<1>3. PackToRGB(pic, <<0, 0>>) =
        [cell \in (0 .. h - 1) \X (0 .. w - 1) |->
           RGBAt(pic, <<SourceIndex(cell[1], h, h), SourceIndex(cell[2], w, w)>>)]
  BY <1>1, <1>2 DEF PackToRGB
<1>4. ASSUME NEW cell \in (0 .. h - 1) \X (0 .. w - 1)
      PROVE  <<SourceIndex(cell[1], h, h), SourceIndex(cell[2], w, w)>> = cell
  <2>1. cell = <<cell[1], cell[2]>> /\ cell[1] \in 0 .. h - 1 /\ cell[2] \in 0 .. w - 1
    OBVIOUS
  <2>2. SourceIndex(cell[1], h, h) = cell[1] /\ SourceIndex(cell[2], w, w) = cell[2]
    BY <2>1, SourceInside
  <2> QED
    BY <2>1, <2>2
<1>5. PICK rgb : rgb = PackToRGB(pic, <<0, 0>>)
  OBVIOUS
<1>6. PICK cells : cells = (0 .. h - 1) \X (0 .. w - 1)
  OBVIOUS
<1>7. cells = Cells(pic)
  BY <1>1, <1>2, <1>6 DEF Cells
<1>8. DOMAIN rgb = cells /\ \A cell \in cells : rgb[cell] = RGBAt(pic, cell)
  BY <1>3, <1>4, <1>5, <1>6
<1> QED
  BY ONLY <1>5, <1>7, <1>8

LEMMA BlockSize ==
    ASSUME NEW w \in Nat, NEW h \in Nat
    PROVE  FastBlurBlockSize(w, h) \in Nat \ {0}
<1>1. Minimum(w, h) \in Nat
  BY DEF Minimum
<1> QED
  BY <1>1 DEF FastBlurBlockSize, Clamp, Minimum, Maximum

CornerCell(cell, b) == <<Corner(cell[1], b), Corner(cell[2], b)>>

LEMMA BlurredUnits ==
    ASSUME NEW pic, IsPicture(pic), pic.chroma \in Packable, NEW p \in Planes(pic.chroma),
           NEW cell \in VisibleCells(pic.planes[p])
    PROVE  FastBlurFrame(pic).planes[p].px[cell] =
               pic.planes[p].px[CornerCell(cell, FastBlurBlockSize(pic.w, pic.h))]
<1>1. PICK b : b = FastBlurBlockSize(pic.w, pic.h)
  OBVIOUS
<1>2. PICK drawn : drawn = [q \in DOMAIN pic.planes |-> PixelatePlane(pic.planes[q], b)]
  OBVIOUS
<1>3. FastBlurFrame(pic) = [pic EXCEPT !.planes = [q \in DOMAIN pic.planes |-> PixelatePlane(pic.planes[q], b)]]
  BY Zenon, <1>1 DEF FastBlurFrame
<1>4. pic = [chroma |-> pic.chroma, w |-> pic.w, h |-> pic.h, planes |-> pic.planes] /\ IsPlane(pic.planes[p])
      /\ p \in DOMAIN pic.planes
  BY PicturesAreDrawable DEF Drawable
<1>5. FastBlurFrame(pic).planes = drawn
  BY <1>2, <1>3, <1>4
<1>6. drawn[p] = PixelatePlane(pic.planes[p], b)
  BY <1>2, <1>4
<1>7. cell \in DOMAIN pic.planes[p].px
  BY DEF IsPicture
<1> QED
  BY <1>1, <1>4, <1>5, <1>6, <1>7, PixelatedPlane DEF CornerCell, Corner

LEMMA BlocksOfOneColour ==
    ASSUME NEW pic, IsPicture(pic), pic.chroma \in Packable, NEW cell \in Cells(pic)
    PROVE  LET b == FastBlurBlockSize(pic.w, pic.h)
           IN  /\ CornerCell(cell, b) \in Cells(pic)
               /\ RGBAt(FastBlurFrame(pic), cell) = RGBAt(FastBlurFrame(pic), CornerCell(cell, b))
<1>1. PICK b \in Nat \ {0} : b = FastBlurBlockSize(pic.w, pic.h)
  BY BlockSize DEF IsPicture
<1>2. PICK w \in Nat \ {0} : w = pic.w
  BY DEF IsPicture
<1>3. PICK h \in Nat \ {0} : h = pic.h
  BY DEF IsPicture
<1>4. PICK y \in 0 .. h - 1, x \in 0 .. w - 1 : cell = <<y, x>>
  BY <1>2, <1>3 DEF Cells
<1>5. PICK cy \in 0 .. y : cy = Corner(y, b)
  BY CornersNest
<1>6. PICK cx \in 0 .. x : cx = Corner(x, b)
  BY CornersNest
<1>7. PICK corner : corner = <<cy, cx>>
  OBVIOUS
<1>8. corner = CornerCell(cell, b) /\ corner \in Cells(pic) /\ CornerCell(corner, b) = corner
  <2>1. Corner(cy, b) = cy /\ Corner(cx, b) = cx
    BY <1>5, <1>6, CornersNest
  <2> QED
    BY <1>2, <1>3, <1>4, <1>5, <1>6, <1>7, <2>1 DEF CornerCell, Cells
<1>9. PICK c : c = pic.chroma
  OBVIOUS
<1>10. CornerCell(ChromaCell(c, cell), b) = CornerCell(ChromaCell(c, corner), b)
  <2>1. StepX(c) \in {0, 1} /\ StepY(c) \in {0, 1}
    BY DEF StepX, StepY
  <2>2. ASSUME NEW n \in Nat, NEW step \in {0, 1}
        PROVE  Corner(n \div PowerOfTwo(step), b) = Corner(Corner(n, b) \div PowerOfTwo(step), b)
    <3>1. Corner(n, b) \in Nat
      BY CornersNest
    <3>2. n \div 1 = n /\ Corner(n, b) \div 1 = Corner(n, b)
      BY <3>1
    <3>3. CASE step = 0
      <4>1. n \div PowerOfTwo(step) = n /\ Corner(n, b) \div PowerOfTwo(step) = Corner(n, b)
        BY <3>2, <3>3, Powers
      <4> QED BY <4>1, CornersNest
    <3>4. CASE step = 1
      <4>1. PowerOfTwo(step) = 2
        BY <3>4, Powers
      <4> QED BY <4>1, CornersNest
    <3> QED BY <3>3, <3>4
  <2>3. /\ Corner(y \div PowerOfTwo(StepY(c)), b) = Corner(cy \div PowerOfTwo(StepY(c)), b)
        /\ Corner(x \div PowerOfTwo(StepX(c)), b) = Corner(cx \div PowerOfTwo(StepX(c)), b)
    BY <1>5, <1>6, <2>1, <2>2
  <2> QED
    BY <1>4, <1>7, <2>3 DEF CornerCell, ChromaCell
<1>11. PICK blurred : blurred = FastBlurFrame(pic)
  OBVIOUS
<1>12. blurred.chroma = c
  BY <1>9, <1>11, BlurKeeps, PicturesAreDrawable DEF SamePicture
<1>13. ASSUME NEW p \in Planes(c), NEW at \in VisibleCells(pic.planes[p])
       PROVE  blurred.planes[p].px[at] = pic.planes[p].px[CornerCell(at, b)]
  BY <1>1, <1>9, <1>11, BlurredUnits
<1>14. blurred.planes[Y_PLANE].px[cell] = blurred.planes[Y_PLANE].px[corner]
  <2>1. Y_PLANE \in Planes(c)
    BY <1>9, ChromaPlanes
  <2>2. VisibleCells(pic.planes[Y_PLANE]) = Cells(pic)
    BY <1>9, <2>1, SamplesVisible
  <2> QED
    BY <1>8, <1>13, <2>1, <2>2
<1>15. ASSUME NEW p \in {U_PLANE, V_PLANE}, p \in Planes(c)
       PROVE  blurred.planes[p].px[ChromaCell(c, cell)] = blurred.planes[p].px[ChromaCell(c, corner)]
  <2>1. /\ ChromaCell(c, cell) \in VisibleCells(pic.planes[p])
        /\ ChromaCell(c, corner) \in VisibleCells(pic.planes[p])
    BY <1>8, <1>9, <1>15, SamplesVisible
  <2> QED
    BY <1>10, <1>13, <1>15, <2>1
<1>16. RGBAt(blurred, cell) = RGBAt(blurred, corner)
  BY <1>9, <1>12, <1>14, <1>15, ChromaPlanes, ColourOf
<1> QED
  BY <1>1, <1>8, <1>11, <1>16

(***************************************************************************)
(* Samples, and the blackout.                                              *)
(***************************************************************************)
LEMMA WordsRoundTrip ==
    ASSUME NEW c, NEW v \in Nat, v < 65536
    PROVE  ReadWord16(Word16(v, c), 1, c) = v
<1>1. v = (v % 256) + 256 * (v \div 256)
  OBVIOUS
<1>2. CASE LittleEndian(c)
  <2>1. Word16(v, c) = <<v % 256, v \div 256>>
    BY <1>2 DEF Word16, LittleEndian
  <2> QED BY <1>1, <1>2, <2>1 DEF ReadWord16, LittleEndian
<1>3. CASE ~LittleEndian(c)
  <2>1. Word16(v, c) = <<v \div 256, v % 256>>
    BY <1>3 DEF Word16, LittleEndian
  <2> QED BY <1>1, <1>3, <2>1 DEF ReadWord16, LittleEndian
<1> QED BY <1>2, <1>3

\* The bytes of a unit of two words.
LEMMA Joined ==
    ASSUME NEW s \in Seq(Nat), NEW t \in Seq(Nat), Len(s) = 2, Len(t) = 2,
           NEW u, u = s \o t
    PROVE  u[1] = s[1] /\ u[2] = s[2] /\ u[3] = t[1] /\ u[4] = t[2]
<1>1. \A i \in 1 .. Len(s) + Len(t) : u[i] = IF i <= Len(s) THEN s[i] ELSE t[i - Len(s)]
  BY ConcatProperties, Zenon
<1>2. \A i \in 1 .. 4 : u[i] = IF i <= 2 THEN s[i] ELSE t[i - 2]
  <2>1. 2 + 2 = 4
    OBVIOUS
  <2>2. Len(s) = 2 /\ Len(t) = 2
    OBVIOUS
  <2> QED BY ONLY <1>1, <2>1, <2>2, Zenon
<1>3. 1 \in 1 .. 4 /\ 2 \in 1 .. 4 /\ 3 \in 1 .. 4 /\ 4 \in 1 .. 4
      /\ 1 <= 2 /\ 2 <= 2 /\ ~(3 <= 2) /\ ~(4 <= 2) /\ 3 - 2 = 1 /\ 4 - 2 = 2
  OBVIOUS
<1>4. u[1] = s[1] /\ u[2] = s[2]
  BY ONLY <1>2, <1>3, Zenon
<1>5. u[3] = t[1] /\ u[4] = t[2]
  <2>1. u[3] = IF 3 <= 2 THEN s[3] ELSE t[3 - 2]
    BY ONLY <1>2, <1>3, Zenon
  <2>2. u[4] = IF 4 <= 2 THEN s[4] ELSE t[4 - 2]
    BY ONLY <1>2, <1>3, Zenon
  <2> QED BY ONLY <1>3, <2>1, <2>2
<1> QED BY <1>4, <1>5

\* A unit that is one word twice, as a neutral unit of P010 is.
Twice(word, words) == word \in Seq(Nat) /\ Len(word) = 2 /\ words = word \o word

LEMMA SameWords ==
    ASSUME NEW word, NEW words, Twice(word, words)
    PROVE  words[1] = word[1] /\ words[2] = word[2] /\ words[3] = word[1] /\ words[4] = word[2]
<1>1. PICK s \in Seq(Nat) : s = word
  BY DEF Twice
<1>2. Len(s) = 2 /\ words = s \o s
  BY <1>1 DEF Twice
<1>3. words[1] = s[1] /\ words[2] = s[2] /\ words[3] = s[1] /\ words[4] = s[2]
  BY <1>2, Joined
<1> QED BY <1>1, <1>3

LEMMA Depths ==
    ASSUME NEW c \in Planar16
    PROVE  /\ Bits(c) \in {9, 10, 12, 16} /\ Wide(c) /\ StorageShift(c) = 0
           /\ HasAlphaPlane(c) => Bits(c) = 10
           /\ c \notin Packed /\ c \notin Semi8 /\ c # P010 /\ c \notin Planar8 /\ Planar(c)
<1>1. Bits(c) \in {9, 10, 12, 16} /\ c[1] \in {"I420", "I422", "I444", "YUVA"}
      /\ (c[1] = "YUVA" => Bits(c) = 10)
  BY DEF Planar16, Bits
<1>2. c \notin Packed /\ c \notin Semi8 /\ c # P010 /\ c \notin Planar8
  BY <1>1 DEF Packed, Semi8, P010, Planar8, Bits
<1> QED
  BY <1>1, <1>2 DEF Wide, StorageShift, HasAlphaPlane, Name, Planar

\* What the packer reads of a sample that was stored in a 16-bit word.
LEMMA SamplesRoundTrip ==
    ASSUME NEW c \in Planar16, NEW s \in Nat, s < PowerOfTwo(Bits(c))
    PROVE  SampleByte(OneSample(s, c), 1, c) = ScaleSampleToByte(s, Bits(c))
<1>1. PICK m : m = PowerOfTwo(Bits(c))
  OBVIOUS
<1>2. m \in {512, 1024, 4096, 65536} /\ s \in 0 .. m - 1
  BY <1>1, Depths, Powers
<1>3. s * 1 = s /\ s \div 1 = s /\ s \in Nat /\ s < 65536
  BY <1>2
<1>7. s % m = s
  <2>1. m \in Nat \ {0} /\ s \in 0 .. m - 1 /\ 0 * m + s = s
    BY <1>2
  <2> QED BY <2>1, Division
<1>4. OneSample(s, c) = Word16(s, c)
  <2>1. EncodeSample16(s, c) = s
    BY <1>1, <1>3, <1>7, Depths, Powers DEF EncodeSample16
  <2> QED BY <2>1, Depths DEF OneSample
<1>5. DecodeSample16(OneSample(s, c), 1, c) = s
  <2>1. ReadWord16(OneSample(s, c), 1, c) = s
    <3>1. ReadWord16(Word16(s, c), 1, c) = s
      BY <1>3, WordsRoundTrip
    <3> QED BY <1>4, <3>1
  <2>2. DecodeSample16(OneSample(s, c), 1, c) = (s \div 1) % m
    BY <1>1, <2>1, Depths, Powers DEF DecodeSample16
  <2> QED
    BY <1>3, <1>7, <2>2
<1>6. 2 * 1 - 1 = 1
  OBVIOUS
<1> QED
  BY <1>5, <1>6, Depths DEF SampleByte

LEMMA ScaledSamples ==
    ASSUME NEW bits \in {9, 10, 12, 16}
    PROVE  /\ ScaleSampleToByte(0, bits) = 0
           /\ ScaleSampleToByte(NeutralChromaSample(bits), bits) = 128
           /\ ScaleSampleToByte(SampleMask(bits), bits) = 255
           /\ NeutralChromaSample(bits) \in Nat /\ NeutralChromaSample(bits) < PowerOfTwo(bits)
           /\ SampleMask(bits) \in Nat /\ SampleMask(bits) < PowerOfTwo(bits) /\ 0 < PowerOfTwo(bits)
<1>1. CASE bits = 9
  BY <1>1, Powers DEF ScaleSampleToByte, NeutralChromaSample, SampleMask
<1>2. CASE bits = 10
  BY <1>2, Powers DEF ScaleSampleToByte, NeutralChromaSample, SampleMask
<1>3. CASE bits = 12
  BY <1>3, Powers DEF ScaleSampleToByte, NeutralChromaSample, SampleMask
<1>4. CASE bits = 16
  BY <1>4, Powers DEF ScaleSampleToByte, NeutralChromaSample, SampleMask
<1> QED BY <1>1, <1>2, <1>3, <1>4

\* The blackout's units are read as black, without colour and opaque.
LEMMA BlackSamples ==
    ASSUME NEW c \in Packable, c \notin Packed
    PROVE  /\ SampleByte(BlackUnit(c, Y_PLANE), 1, c) = 0
           /\ Planar(c) => /\ SampleByte(BlackUnit(c, U_PLANE), 1, c) = 128
                           /\ SampleByte(BlackUnit(c, V_PLANE), 1, c) = 128
           /\ ~Planar(c) => /\ SampleByte(BlackUnit(c, U_PLANE), 1, c) = 128
                            /\ SampleByte(BlackUnit(c, U_PLANE), 2, c) = 128
           /\ HasAlphaPlane(c) => SampleByte(BlackUnit(c, A_PLANE), 1, c) = 255
<1> USE DEF Y_PLANE, U_PLANE, V_PLANE, A_PLANE
<1>1. CASE c \in Planar16
  <2>1. /\ BlackUnit(c, 1) = OneSample(0, c)
        /\ BlackUnit(c, 2) = OneSample(NeutralChromaSample(Bits(c)), c)
        /\ BlackUnit(c, 3) = OneSample(NeutralChromaSample(Bits(c)), c)
        /\ BlackUnit(c, 4) = OneSample(SampleMask(Bits(c)), c)
    BY <1>1, Depths DEF BlackUnit
  <2> QED
    BY <1>1, <2>1, Depths, ScaledSamples, SamplesRoundTrip
<1>2. CASE c \in Planar8
  <2>1. c \notin Semi8 /\ c # P010 /\ c \notin Planar16 /\ Bits(c) = 8 /\ Planar(c) /\ ~Wide(c)
    BY <1>2 DEF Planar8, Planar16, Semi8, P010, Bits, Wide, Planar
  <2>2. /\ BlackUnit(c, 1) = <<0>> /\ BlackUnit(c, 2) = <<128>>
        /\ BlackUnit(c, 3) = <<128>> /\ BlackUnit(c, 4) = <<255>>
    BY <2>1, Powers DEF BlackUnit, OneSample, NeutralChromaSample, SampleMask
  <2> QED
    BY <2>1, <2>2 DEF SampleByte
<1>3. CASE c \in Semi8
  <2>1. c # P010 /\ c \notin Planar16 /\ c \notin Planar8 /\ ~Planar(c) /\ ~Wide(c) /\ ~HasAlphaPlane(c)
    BY <1>3 DEF Planar8, Planar16, Semi8, P010, Wide, Planar, HasAlphaPlane, Name
  <2>2. BlackUnit(c, 1) = <<0>> /\ BlackUnit(c, 2) = <<128, 128>>
    BY <1>3, <2>1 DEF BlackUnit
  <2> QED
    BY <2>1, <2>2 DEF SampleByte
<1>4. CASE c = P010
  <2>1. /\ c \notin Semi8 /\ c \notin Planar16 /\ c \notin Planar8 /\ ~Planar(c) /\ Wide(c) /\ ~HasAlphaPlane(c)
        /\ Bits(c) = 10 /\ StorageShift(c) = 6 /\ LittleEndian(c)
    BY <1>4 DEF Planar8, Planar16, Semi8, P010, Wide, Planar, HasAlphaPlane, Name, Bits, StorageShift, LittleEndian
  <2>2. OneSample(0, c) = <<0, 0>> /\ OneSample(512, c) = <<0, 128>>
    BY <2>1, Powers DEF OneSample, EncodeSample16, Word16
  <2>9. NeutralChromaSample(Bits(c)) = 512
    BY <2>1, Powers DEF NeutralChromaSample
  <2>10. PICK word : word = <<0, 128>>
    OBVIOUS
  <2>11. word \in Seq(Nat) /\ Len(word) = 2 /\ word[1] = 0 /\ word[2] = 128
    BY <2>10
  <2>12. PICK words : words = word \o word
    OBVIOUS
  <2>13. PICK zero : zero = <<0, 0>>
    OBVIOUS
  <2>3. BlackUnit(c, 1) = zero /\ BlackUnit(c, 2) = words
    <3>1. BlackUnit(c, 2) = OneSample(NeutralChromaSample(Bits(c)), c)
                              \o OneSample(NeutralChromaSample(Bits(c)), c)
      BY <1>4, <2>1 DEF BlackUnit
    <3>2. BlackUnit(c, 1) = OneSample(0, c)
      BY <1>4, <2>1 DEF BlackUnit
    <3>3. OneSample(512, c) = word
      BY <2>2, <2>10, Zenon
    <3>4. OneSample(NeutralChromaSample(Bits(c)), c) = word
      BY <2>9, <3>3, Zenon
    <3>5. BlackUnit(c, 2) = words
      BY ONLY <2>12, <3>1, <3>4, Zenon
    <3>6. BlackUnit(c, 1) = zero
      BY ONLY <2>2, <2>13, <3>2, Zenon
    <3> QED BY <3>5, <3>6
  <2>4. words[1] = 0 /\ words[2] = 128 /\ words[3] = 0 /\ words[4] = 128
    <3>1. words[1] = word[1] /\ words[2] = word[2] /\ words[3] = word[1] /\ words[4] = word[2]
      <4>1. Twice(word, words)
        BY <2>11, <2>12 DEF Twice
      <4> QED BY <4>1, SameWords, Zenon
    <3> QED BY <2>11, <3>1, Zenon
  <2>5. /\ DecodeSample16(zero, 1, c) = 0
        /\ DecodeSample16(words, 1, c) = 512 /\ DecodeSample16(words, 3, c) = 512
    <3>1. ReadWord16(words, 1, c) = 32768 /\ ReadWord16(words, 3, c) = 32768 /\ ReadWord16(zero, 1, c) = 0
      BY <2>1, <2>4, <2>13 DEF ReadWord16, LittleEndian
    <3>2. (32768 \div 64) % 1024 = 512 /\ (0 \div 64) % 1024 = 0
      OBVIOUS
    <3> QED BY <2>1, <3>1, <3>2, Powers DEF DecodeSample16
  <2>6. 2 * 1 - 1 = 1 /\ 2 * 2 - 1 = 3
    OBVIOUS
  <2>7. NeutralChromaSample(10) = 512
    BY Powers DEF NeutralChromaSample
  <2> QED
    BY <2>1, <2>3, <2>5, <2>6, <2>7, ScaledSamples DEF SampleByte
<1> QED
  BY <1>1, <1>2, <1>3, <1>4 DEF Packable

LEMMA BlackColour == YCbCrToRGB(<<0, 128, 128>>) = <<0, 0, 0>>
BY DEF YCbCrToRGB, ClampByte, Clamp, Minimum, Maximum

LEMMA BlackPacked ==
    ASSUME NEW c \in Packed, Name(c) # "ARGB", NEW k \in 1 .. 3
    PROVE  BlackUnit(c, Y_PLANE)[RGBOffsets(c)[k]] = 0
<1>1. Name(c) \in {"RGB24", "RGB32", "RGBA", "BGRA"}
  BY DEF Packed, Name
<1>2. RGBOffsets(c)[k] \in 1 .. 3
  BY <1>1 DEF RGBOffsets
<1>3. CASE Name(c) \in {"RGB24", "RGB32"}
  <2>1. BlackUnit(c, Y_PLANE) = [i \in 1 .. PixelSize(c) |-> 0]
    BY <1>3 DEF BlackUnit, Packed, Semi8, P010, Name
  <2> QED
    BY <1>2, <2>1 DEF PixelSize
<1>4. CASE Name(c) \in {"RGBA", "BGRA"}
  <2>1. BlackUnit(c, Y_PLANE) = <<0, 0, 0, 255>>
    BY <1>4 DEF BlackUnit, Packed, Semi8, P010, Name
  <2> QED
    BY <1>2, <2>1
<1> QED
  BY <1>1, <1>3, <1>4

LEMMA Zeroes ==
    ASSUME NEW f, f = [k \in 1 .. 3 |-> 0]
    PROVE  f = <<0, 0, 0>>
OBVIOUS

LEMMA BlackUnits ==
    ASSUME NEW pic, IsPicture(pic), NEW p \in Planes(pic.chroma), NEW cell \in VisibleCells(pic.planes[p])
    PROVE  Blackout(pic).planes[p].px[cell] = BlackUnit(pic.chroma, p)
<1>1. PICK drawn : drawn = [q \in DOMAIN pic.planes |->
               Paint(pic.planes[q], VisibleCells(pic.planes[q]), BlackUnit(pic.chroma, q))]
  OBVIOUS
<1>2. Blackout(pic) = [pic EXCEPT !.planes = [q \in DOMAIN pic.planes |->
               Paint(pic.planes[q], VisibleCells(pic.planes[q]), BlackUnit(pic.chroma, q))]]
  BY Zenon DEF Blackout
<1>3. pic = [chroma |-> pic.chroma, w |-> pic.w, h |-> pic.h, planes |-> pic.planes] /\ IsPlane(pic.planes[p])
      /\ p \in DOMAIN pic.planes
  BY PicturesAreDrawable DEF Drawable
<1>4. Blackout(pic).planes = drawn
  BY <1>1, <1>2, <1>3
<1>5. drawn[p] = Paint(pic.planes[p], VisibleCells(pic.planes[p]), BlackUnit(pic.chroma, p))
  BY <1>1, <1>3
<1>6. cell \in DOMAIN pic.planes[p].px
  BY DEF IsPicture
<1> QED
  BY <1>3, <1>4, <1>5, <1>6, PaintedPlane

LEMMA BlackYCbCr ==
    ASSUME NEW pic, IsPicture(pic), pic.chroma \in Packable, pic.chroma \notin Packed,
           NEW cell \in Cells(pic), NEW stepX, NEW stepY,
           NEW at, at = <<cell[1] \div PowerOfTwo(stepY), cell[2] \div PowerOfTwo(stepX)>>,
           at \in VisibleCells(pic.planes[U_PLANE]),
           Planar(pic.chroma) => at \in VisibleCells(pic.planes[V_PLANE])
    PROVE  YCbCrAt(Blackout(pic), cell, stepX, stepY) = <<0, 128, 128>>
<1>1. PICK c : c = pic.chroma
  OBVIOUS
<1>2. PICK black : black = Blackout(pic)
  OBVIOUS
<1>3. black.chroma = c
  BY <1>1, <1>2, BlackoutKeeps, PicturesAreDrawable DEF SamePicture
<1>4. c \in Packable /\ c \notin Packed
  BY <1>1
<1>5. black.planes[Y_PLANE].px[cell] = BlackUnit(c, Y_PLANE)
  <2>1. Y_PLANE \in Planes(c) /\ cell \in VisibleCells(pic.planes[Y_PLANE])
    BY <1>1, <1>4, ChromaPlanes, SamplesVisible
  <2> QED BY <1>1, <1>2, <2>1, BlackUnits
<1>6. black.planes[U_PLANE].px[at] = BlackUnit(c, U_PLANE)
  BY <1>1, <1>2, <1>4, ChromaPlanes, BlackUnits
<1>7. Planar(c) => black.planes[V_PLANE].px[at] = BlackUnit(c, V_PLANE)
  BY <1>1, <1>2, <1>4, ChromaPlanes, BlackUnits
<1>8. 1 + 1 = U_PLANE /\ 2 + 1 = V_PLANE
  BY DEF U_PLANE, V_PLANE
<1>9. CASE Planar(c)
  <2>1. YCbCrAt(black, cell, stepX, stepY) =
          <<SampleByte(black.planes[Y_PLANE].px[cell], 1, c),
            SampleByte(black.planes[(IF SwapUV(c) THEN 2 ELSE 1) + 1].px[at], 1, c),
            SampleByte(black.planes[(IF SwapUV(c) THEN 1 ELSE 2) + 1].px[at], 1, c)>>
    BY <1>3, <1>9 DEF YCbCrAt
  <2>2. /\ SampleByte(black.planes[Y_PLANE].px[cell], 1, c) = 0
        /\ SampleByte(black.planes[1 + 1].px[at], 1, c) = 128
        /\ SampleByte(black.planes[2 + 1].px[at], 1, c) = 128
    BY <1>4, <1>5, <1>6, <1>7, <1>8, <1>9, BlackSamples
  <2> QED
    BY <1>2, <2>1, <2>2
<1>10. CASE ~Planar(c)
  <2>1. YCbCrAt(black, cell, stepX, stepY) =
          <<SampleByte(black.planes[Y_PLANE].px[cell], 1, c),
            SampleByte(black.planes[U_PLANE].px[at], IF SwapUV(c) THEN 2 ELSE 1, c),
            SampleByte(black.planes[U_PLANE].px[at], IF SwapUV(c) THEN 1 ELSE 2, c)>>
    BY <1>3, <1>10 DEF YCbCrAt
  <2>2. /\ SampleByte(black.planes[Y_PLANE].px[cell], 1, c) = 0
        /\ SampleByte(black.planes[U_PLANE].px[at], 1, c) = 128
        /\ SampleByte(black.planes[U_PLANE].px[at], 2, c) = 128
    BY <1>4, <1>5, <1>6, <1>10, BlackSamples
  <2> QED
    BY <1>2, <2>1, <2>2
<1> QED
  BY <1>9, <1>10

LEMMA BlackPixels ==
    ASSUME NEW pic, IsPicture(pic), pic.chroma \in Packable, Name(pic.chroma) # "ARGB", NEW cell \in Cells(pic)
    PROVE  RGBAt(Blackout(pic), cell) = <<0, 0, 0>> /\ ~IsSkinYCbCr(HeuristicYCbCr(Blackout(pic), cell))
<1>1. PICK c : c = pic.chroma
  OBVIOUS
<1>2. PICK black : black = Blackout(pic)
  OBVIOUS
<1>3. black.chroma = c
  BY <1>1, <1>2, BlackoutKeeps, PicturesAreDrawable DEF SamePicture
<1>4. CASE c \in Packed
  <2>1. black.planes[Y_PLANE].px[cell] = BlackUnit(c, Y_PLANE)
    <3>1. Y_PLANE \in Planes(c) /\ cell \in VisibleCells(pic.planes[Y_PLANE])
      BY <1>1, ChromaPlanes, SamplesVisible
    <3> QED BY <1>1, <1>2, <3>1, BlackUnits
  <2>2. PICK rgb : rgb = PackedRGBAt(black, cell)
    OBVIOUS
  <2>3. rgb = [k \in 1 .. 3 |-> black.planes[Y_PLANE].px[cell][RGBOffsets(c)[k]]]
    BY <1>3, <2>2 DEF PackedRGBAt
  <2>4. \A k \in 1 .. 3 : black.planes[Y_PLANE].px[cell][RGBOffsets(c)[k]] = 0
    BY <1>1, <1>4, <2>1, BlackPacked
  <2>5. rgb = [k \in 1 .. 3 |-> 0]
    BY <2>3, <2>4
  <2>6. rgb = <<0, 0, 0>> /\ rgb[1] = 0 /\ rgb[2] = 0 /\ rgb[3] = 0
    BY <2>5, Zeroes
  <2>7. RGBAt(black, cell) = rgb
    BY <1>3, <1>4, <2>2 DEF RGBAt
  <2>8. HeuristicYCbCr(black, cell) = PackedYCbCr(rgb)
    BY <1>3, <1>4, <2>2 DEF HeuristicYCbCr
  <2>9. PackedYCbCr(rgb)[1] = 0
    BY <2>6 DEF PackedYCbCr
  <2> QED
    BY <1>2, <2>6, <2>7, <2>8, <2>9 DEF IsSkinYCbCr
<1>5. CASE c \notin Packed
  <2>1. ChromaCell(c, cell) \in VisibleCells(pic.planes[U_PLANE])
        /\ (Planar(c) => ChromaCell(c, cell) \in VisibleCells(pic.planes[V_PLANE]))
    BY <1>1, <1>5, ChromaPlanes, SamplesVisible
  <2>2. YCbCrAt(black, cell, StepX(c), StepY(c)) = <<0, 128, 128>>
    BY <1>1, <1>2, <1>5, <2>1, BlackYCbCr DEF ChromaCell
  <2>3. RGBAt(black, cell) = <<0, 0, 0>>
    BY <1>3, <1>5, <2>2, BlackColour DEF RGBAt
  <2>4. HeuristicYCbCr(black, cell) = <<0, 128, 128>>
    <3>1. CASE c = <<"YUVA", 8, "-">>
      <4>1. StepX(c) = 0 /\ StepY(c) = 0 /\ Planar(c)
        BY <3>1 DEF StepX, StepY, Name, Planar, Planar8
      <4>2. PICK w \in Nat \ {0} : w = pic.w
        BY DEF IsPicture
      <4>3. PICK h \in Nat \ {0} : h = pic.h
        BY DEF IsPicture
      <4>4. PICK y \in 0 .. h - 1, x \in 0 .. w - 1 : cell = <<y, x>>
        BY <4>2, <4>3 DEF Cells
      <4>5. PICK half : half = <<y \div 2, x \div 2>>
        OBVIOUS
      <4>6. half \in Cells(pic)
        BY <4>2, <4>3, <4>5 DEF Cells
      <4>7. ChromaCell(c, half) = half
        <5>1. (y \div 2) \div 1 = y \div 2 /\ (x \div 2) \div 1 = x \div 2
          OBVIOUS
        <5> QED BY <4>1, <4>5, <5>1, Powers DEF ChromaCell
      <4>8. half \in VisibleCells(pic.planes[U_PLANE]) /\ half \in VisibleCells(pic.planes[V_PLANE])
        BY <1>1, <1>5, <4>1, <4>6, <4>7, ChromaPlanes, SamplesVisible
      <4>9. half = <<cell[1] \div PowerOfTwo(1), cell[2] \div PowerOfTwo(1)>>
        BY <4>4, <4>5, Powers
      <4>10. YCbCrAt(black, cell, 1, 1) = <<0, 128, 128>>
        BY <1>1, <1>2, <1>5, <4>8, <4>9, BlackYCbCr
      <4> QED
        BY <1>3, <1>5, <3>1, <4>10 DEF HeuristicYCbCr
    <3>2. CASE c # <<"YUVA", 8, "-">>
      BY <1>3, <1>5, <2>2, <3>2 DEF HeuristicYCbCr
    <3> QED BY <3>1, <3>2
  <2> QED
    BY <1>2, <2>3, <2>4 DEF IsSkinYCbCr
<1> QED
  BY <1>4, <1>5

(***************************************************************************)
(* The picture is the original as its style masks it, until the panel is   *)
(* drawn; and always the original outside the visible part of its planes.  *)
(***************************************************************************)
PixelInv ==
    /\ block_style \in Styles
    /\ Software => IsPicture(original)
    /\ ~Software => picture = original /\ style = "none"
    /\ Software => SamePicture(picture, original) /\ Drawable(picture)
    /\ style \in BlockStyles \cup {"none"}
    /\ panel = <<>> => picture = IF style = "none" THEN original ELSE BlockFrame(original, style)

LEMMA InitPixels == Init => PixelInv
<1> SUFFICES ASSUME Init PROVE PixelInv
  OBVIOUS
<1>1. Software => IsPicture(original) /\ Drawable(original) /\ SamePicture(original, original)
  BY OriginalsAssumption, PicturesAreDrawable, NothingDrawn DEF Init
<1> QED
  BY <1>1 DEF Init, BackendInit, PixelInv

LEMMA SamePixels == ASSUME PixelInv, UNCHANGED <<pixelVars, block_style, Software>> PROVE PixelInv'
BY DEF PixelInv, pixelVars

LEMMA SoftwareStays == ASSUME OpenBackend \/ HardwareOutput PROVE Software' = Software
<1>1. CASE OpenBackend
  BY <1>1 DEF OpenBackend, OpenResources, Acquire, GoWithout, FailToOpen, FallBack, Opened, Software
<1>2. CASE CloseBackend
  BY <1>2 DEF CloseBackend, CloseResources, Software
<1>3. CASE Decode \/ WorkerStep \/ DisplayDone
  BY <1>3 DEF Decode, WorkerStep, Unsampled, BeginReadback, EndReadback, ReadSurface, DisplayDone,
              Software, resourceVars
<1>4. CASE FilterStep
  BY <1>4 DEF FilterStep, TakeOutput, MaskConverter, ShowWithoutPanel, MaskD3D11, EffectD3D11,
              PanelD3D11, ComposeD3D11, MaskVaapi, PanelVaapi, Software, resourceVars
<1> QED
  BY <1>1, <1>2, <1>3, <1>4 DEF HardwareOutput

LEMMA StyleStays == ASSUME [Next]_vars PROVE UNCHANGED block_style
<1>1. [BackendNext]_backendVars
  BY DEF Next, vars, OpenInstance, SoftwareOutput, HardwareOutput, BackendNext
<1> QED
  BY <1>1 DEF BackendNext, backendVars, options, OpenBackend, Decode, WorkerStep, Unsampled,
              BeginReadback, EndReadback, ReadSurface, DisplayDone, CloseBackend, FilterStep,
              TakeOutput, MaskConverter, ShowWithoutPanel, MaskD3D11, EffectD3D11, PanelD3D11,
              ComposeD3D11, MaskVaapi, PanelVaapi

LEMMA PixelStep == PixelInv /\ [Next]_vars => PixelInv'
<1> SUFFICES ASSUME PixelInv, [Next]_vars PROVE PixelInv'
  OBVIOUS
<1>0. block_style \in Styles /\ block_style' = block_style
  BY StyleStays DEF PixelInv
<1>1. CASE UNCHANGED vars
  BY <1>0, <1>1, SamePixels DEF vars, backendVars, resourceVars, Software
<1>2. CASE OpenInstance
  BY <1>0, <1>2, SamePixels, SoftwareStays DEF OpenInstance
<1>3. CASE HardwareOutput
  BY <1>0, <1>3, SamePixels, SoftwareStays DEF HardwareOutput
<1>4. CASE SoftwareOutput
  <2>1. Software /\ Software' /\ UNCHANGED original
    BY <1>4 DEF SoftwareOutput, Mask, ShowPanel, backendVars, resourceVars, Software
  <2>2. SamePicture(picture, original) /\ Drawable(picture) /\ IsPicture(original)
    BY <2>1 DEF PixelInv
  <2>3. CASE Mask(block_style)
    <3>1. picture = original /\ picture' = BlockFrame(original, block_style)
      BY <2>3 DEF Mask, PixelInv
    <3>2. SamePicture(picture', original) /\ Drawable(picture')
      BY <2>2, <3>1, MaskKeeps
    <3>3. style' \in BlockStyles /\ style' # "none" /\ style' = block_style
      BY <1>0, <2>3, StylesAssumption DEF Mask, BlockStyles
    <3> QED
      BY <1>0, <2>1, <2>2, <3>1, <3>2, <3>3 DEF PixelInv
  <2>4. ASSUME NEW pair \in PanelScores, ShowPanel(pair)
        PROVE  PixelInv'
    <3>1. pair[1] \in Nat /\ pair[2] \in Nat /\ pair # <<>>
      BY ScoresAssumption
    <3>2. SamePicture(picture', picture) /\ Drawable(picture')
      BY <2>2, <2>4, <3>1, OverlayKeeps DEF ShowPanel
    <3>3. SamePicture(picture', original)
      BY <2>2, <3>2, DrawnAgain
    <3>4. panel' # <<>> /\ UNCHANGED style
      BY <2>4, <3>1 DEF ShowPanel
    <3> QED
      BY <1>0, <2>1, <2>2, <3>2, <3>3, <3>4 DEF PixelInv
  <2> QED
    BY <1>4, <2>3, <2>4 DEF SoftwareOutput
<1> QED
  BY <1>1, <1>2, <1>3, <1>4 DEF Next

LEMMA VisibleOnly == PixelInv => OnlyVisibleWritten
<1> SUFFICES ASSUME PixelInv, NEW p \in DOMAIN picture.planes,
                    NEW cell \in DOMAIN picture.planes[p].px \ VisibleCells(picture.planes[p])
             PROVE  picture.planes[p].px[cell] = original.planes[p].px[cell]
  BY DEF OnlyVisibleWritten
<1>1. CASE Software
  <2>1. SamePicture(picture, original)
    BY <1>1 DEF PixelInv
  <2>2. SamePlane(picture.planes[p], original.planes[p])
    BY <2>1 DEF SamePicture
  <2> QED
    BY <2>2, SameVisible DEF SamePlane
<1>2. CASE ~Software
  BY <1>2 DEF PixelInv
<1> QED
  BY <1>1, <1>2

\* A mask and a panel of any size leave everything behind the visible part of
\* every plane as it was, whatever the picture's size, chroma and style (FillColorRect).
THEOREM PaddingIsLeftAlone == Spec => []OnlyVisibleWritten
<1> QED
  BY InitPixels, PixelStep, VisibleOnly, PTL DEF Spec

LEMMA BlurIsInBlocks == PixelInv => BlurKeepsOneColourPerBlock
<1> SUFFICES ASSUME PixelInv, style = "blur", panel = <<>>, picture.chroma \in Packable
             PROVE  BlurKeepsOneColourPerBlock
  BY DEF BlurKeepsOneColourPerBlock
<1>1. Software /\ IsPicture(original) /\ picture = FastBlurFrame(original)
  BY DEF PixelInv, BlockFrame
<1>2. /\ picture.chroma = original.chroma /\ picture.w = original.w /\ picture.h = original.h
      /\ original.w \in Nat \ {0} /\ original.h \in Nat \ {0}
  BY <1>1, BlurKeeps, PicturesAreDrawable DEF SamePicture, IsPicture
<1>3. PICK b : b = FastBlurBlockSize(picture.w, picture.h)
  OBVIOUS
<1>4. Cells(picture) = Cells(original)
  BY <1>2 DEF Cells
<1>5. ASSUME NEW cell \in Cells(picture)
      PROVE  Shown[cell] = Shown[<<cell[1] - (cell[1] % b), cell[2] - (cell[2] % b)>>]
  <2>1. CornerCell(cell, b) \in Cells(picture) /\ RGBAt(picture, cell) = RGBAt(picture, CornerCell(cell, b))
    BY <1>1, <1>2, <1>3, <1>4, BlocksOfOneColour
  <2>2. Shown[cell] = Shown[CornerCell(cell, b)]
    BY <1>2, <2>1, ShownPixels DEF Shown
  <2> QED
    BY <2>2 DEF CornerCell, Corner
<1>6. DOMAIN Shown = Cells(picture)
  BY <1>2, ShownPixels DEF Shown
<1> QED
  BY <1>3, <1>5, <1>6 DEF BlurKeepsOneColourPerBlock

\* In a picture of any size and chroma a blurred block shows one colour, since
\* the corner of its chroma is the chroma of its corner (FastBlurFrame, PixelatePlane).
THEOREM BlurHidesDetail == Spec => []BlurKeepsOneColourPerBlock
<1> QED
  BY InitPixels, PixelStep, BlurIsInBlocks, PTL DEF Spec

LEMMA BlackPacking ==
    ASSUME NEW pic, IsPicture(pic), pic.chroma \in Packable, Name(pic.chroma) # "ARGB",
           NEW target \in Nat \X Nat, NEW rgb, rgb = PackToRGB(Blackout(pic), target),
           NEW cell \in DOMAIN rgb
    PROVE  rgb[cell] = <<0, 0, 0>>
<1>1. PICK black : black = Blackout(pic)
  OBVIOUS
<1>2. PICK sw \in Nat \ {0} : sw = pic.w
  BY DEF IsPicture
<1>3. PICK sh \in Nat \ {0} : sh = pic.h
  BY DEF IsPicture
<1>4. black.chroma = pic.chroma /\ black.w = sw /\ black.h = sh
  BY <1>1, <1>2, <1>3, BlackoutKeeps, PicturesAreDrawable DEF SamePicture
<1>5. PICK w \in Nat \ {0} : w = IF target[1] > 0 THEN target[1] ELSE sw
  OBVIOUS
<1>6. PICK h \in Nat \ {0} : h = IF target[2] > 0 THEN target[2] ELSE sh
  OBVIOUS
<1>7. PackToRGB(black, target) =
        [at \in (0 .. h - 1) \X (0 .. w - 1) |->
           RGBAt(black, <<SourceIndex(at[1], sh, h), SourceIndex(at[2], sw, w)>>)]
  BY <1>4, <1>5, <1>6 DEF PackToRGB
<1>8. cell \in (0 .. h - 1) \X (0 .. w - 1)
  BY <1>1, <1>7
<1>9. PICK y \in 0 .. h - 1, x \in 0 .. w - 1 : cell[1] = y /\ cell[2] = x
  BY <1>8
<1>10. PICK at : at = <<SourceIndex(y, sh, h), SourceIndex(x, sw, w)>>
  OBVIOUS
<1>11. SourceIndex(y, sh, h) \in 0 .. sh - 1 /\ SourceIndex(x, sw, w) \in 0 .. sw - 1
  <2>1. y \in Nat /\ y < h /\ x \in Nat /\ x < w
    OBVIOUS
  <2> QED BY <2>1, SourceInside
<1>12. at \in Cells(pic)
  BY <1>2, <1>3, <1>10, <1>11 DEF Cells
<1>13. rgb[cell] = RGBAt(black, at)
  BY <1>1, <1>7, <1>8, <1>9, <1>10
<1> QED
  BY <1>1, <1>12, <1>13, BlackPixels

LEMMA BlackHits ==
    ASSUME NEW pic, IsPicture(pic), pic.chroma \in Packable, Name(pic.chroma) # "ARGB"
    PROVE  HeuristicScore(Blackout(pic)).hits = 0
<1>1. PICK black : black = Blackout(pic)
  OBVIOUS
<1>2. black.chroma \in Packable
  BY <1>1, BlackoutKeeps, PicturesAreDrawable DEF SamePicture
<1>3. PICK hits : hits = {cell \in ScoredCells(black) : IsSkinYCbCr(HeuristicYCbCr(black, cell))}
  OBVIOUS
<1>4. ScoredCells(black) \subseteq Cells(pic)
  <2>1. Y_PLANE \in Planes(pic.chroma) /\ VisibleCells(pic.planes[Y_PLANE]) = Cells(pic)
    <3>1. Y_PLANE \in Planes(pic.chroma)
      BY ChromaPlanes
    <3>2. PICK w \in Nat \ {0} : w = pic.w
      BY DEF IsPicture
    <3>3. PICK h \in Nat \ {0} : h = pic.h
      BY DEF IsPicture
    <3>4. <<0, 0>> \in Cells(pic)
      BY <3>2, <3>3 DEF Cells
    <3> QED BY <3>1, <3>4, SamplesVisible
  <2>2. SamePlane(black.planes[Y_PLANE], pic.planes[Y_PLANE])
    BY <1>1, <2>1, BlackoutKeeps, PicturesAreDrawable DEF SamePicture
  <2>3. VisibleCells(black.planes[Y_PLANE]) = Cells(pic)
    BY <2>1, <2>2, SameVisible
  <2> QED BY <2>3 DEF ScoredCells
<1>5. hits = {}
  BY <1>1, <1>3, <1>4, BlackPixels
<1>6. Cardinality(hits) = 0
  BY <1>5, FS_EmptySet
<1>7. HeuristicScore(black).hits = Cardinality(hits)
  BY <1>2, <1>3 DEF HeuristicScore
<1> QED
  BY <1>1, <1>6, <1>7

LEMMA BlackAlpha ==
    ASSUME NEW pic, IsPicture(pic), pic.chroma \in Packable, HasAlphaPlane(pic.chroma),
           NEW cell \in VisibleCells(Blackout(pic).planes[A_PLANE])
    PROVE  SampleByte(Blackout(pic).planes[A_PLANE].px[cell], 1, pic.chroma) = 255
<1>1. PICK c : c = pic.chroma
  OBVIOUS
<1>2. c \notin Packed /\ A_PLANE \in Planes(c)
  BY <1>1 DEF HasAlphaPlane, Name, Packed, Planes, SemiPlanar, Semi8, P010
<1>3. SamePlane(Blackout(pic).planes[A_PLANE], pic.planes[A_PLANE])
  BY <1>1, <1>2, BlackoutKeeps, PicturesAreDrawable DEF SamePicture
<1>4. Blackout(pic).planes[A_PLANE].px[cell] = BlackUnit(c, A_PLANE)
  <2>1. cell \in VisibleCells(pic.planes[A_PLANE])
    BY <1>3, SameVisible
  <2> QED BY <1>1, <1>2, <2>1, BlackUnits
<1> QED
  BY <1>1, <1>2, <1>4, BlackSamples

LEMMA BlackIsBlack == PixelInv => BlackedOutIsBlack
<1> SUFFICES ASSUME PixelInv, style = "black", panel = <<>>, picture.chroma \in Packable,
                    Name(picture.chroma) # "ARGB"
             PROVE  BlackedOutIsBlack
  BY DEF BlackedOutIsBlack
<1>1. Software /\ IsPicture(original)
  BY DEF PixelInv
<1>2. SamePicture(picture, original)
  BY <1>1 DEF PixelInv
<1>3. picture.chroma = original.chroma
  BY <1>2 DEF SamePicture
<1>4. picture = Blackout(original)
  BY <1>3 DEF PixelInv, BlockFrame, BlackoutFrameContent
<1>5. ASSUME NEW target \in Targets, NEW cell \in DOMAIN PackToRGB(picture, target)
      PROVE  PackToRGB(picture, target)[cell] = <<0, 0, 0>>
  <2>1. target \in Nat \X Nat
    BY TargetsAssumption
  <2> QED BY <1>1, <1>3, <1>4, <2>1, BlackPacking
<1>6. HeuristicScore(picture).hits = 0
  BY <1>1, <1>3, <1>4, BlackHits
<1>7. ASSUME HasAlphaPlane(picture.chroma), NEW cell \in VisibleCells(picture.planes[A_PLANE])
      PROVE  SampleByte(picture.planes[A_PLANE].px[cell], 1, picture.chroma) = 255
  BY <1>1, <1>3, <1>4, <1>7, BlackAlpha
<1> QED
  BY <1>5, <1>6, <1>7 DEF BlackedOutIsBlack

\* Whatever its size and chroma, alpha-first pictures excepted, a blacked out
\* picture is packed to black at every size, has no pixel that the scorer takes for
\* skin and is opaque (BlackoutFrameContent, nsfw_fp_pack_to_rgb).
THEOREM BlackoutIsComplete == Spec => []BlackedOutIsBlack
<1> QED
  BY InitPixels, PixelStep, BlackIsBlack, PTL DEF Spec

(***************************************************************************)
(* The warning is red where both its marks are.                            *)
(***************************************************************************)
\* A mark depends on the size of the plane alone.
LEMMA SameMarks ==
    ASSUME NEW a, NEW b, a.w = b.w, a.h = b.h, NEW w, NEW h
    PROVE  WatermarkCells(a, w, h) = WatermarkCells(b, w, h)
<1>1. \A x0, y0, width, height : RectCells(a, x0, y0, width, height) = RectCells(b, x0, y0, width, height)
  BY DEF RectCells
<1>2. \A x0, y0, size, row : TriangleRow(a, x0, y0, size, row) = TriangleRow(b, x0, y0, size, row)
  <2> TAKE x0, y0, size, row
  <2>1. PICK left : left = MarkLeft(size, row)
    OBVIOUS
  <2>2. PICK right : right = MarkRight(size, row)
    OBVIOUS
  <2>3. PICK stroke : stroke = MarkStroke(size)
    OBVIOUS
  <2> QED
    BY <1>1, <2>1, <2>2, <2>3 DEF TriangleRow
<1>3. \A x0, y0, size : ExclamationMark(a, x0, y0, size) = ExclamationMark(b, x0, y0, size)
  BY <1>1, Zenon DEF ExclamationMark
<1>4. \A x0, y0, size : UNION {TriangleRow(a, x0, y0, size, row) : row \in 0 .. size - 1}
                          = UNION {TriangleRow(b, x0, y0, size, row) : row \in 0 .. size - 1}
  BY <1>2
<1>5. PICK size : size = MarkSize(w, h)
  OBVIOUS
<1>6. PICK x0 : x0 = MarkCorner(w, size)
  OBVIOUS
<1>7. PICK y0 : y0 = MarkCorner(h, size)
  OBVIOUS
<1>8. WatermarkCells(a, w, h) = (UNION {TriangleRow(a, x0, y0, size, row) : row \in 0 .. size - 1})
                                  \cup ExclamationMark(a, x0, y0, size)
  BY <1>5, <1>6, <1>7 DEF WatermarkCells
<1>9. WatermarkCells(b, w, h) = (UNION {TriangleRow(b, x0, y0, size, row) : row \in 0 .. size - 1})
                                  \cup ExclamationMark(b, x0, y0, size)
  BY <1>5, <1>6, <1>7 DEF WatermarkCells
<1> QED
  BY <1>3, <1>4, <1>8, <1>9

LEMMA MarksOfPicture ==
    ASSUME NEW pic, Drawable(pic), NEW p \in DOMAIN pic.planes
    PROVE  MarkCells(pic, p) \subseteq VisibleCells(pic.planes[p])
<1>1. IsPlane(pic.planes[p]) /\ pic.w \in Nat /\ pic.h \in Nat
      /\ pic.planes[p].w \in Nat /\ pic.planes[p].h \in Nat
  BY DEF Drawable, IsPlane
<1>2. /\ WatermarkCells(pic.planes[p], pic.w, pic.h) \subseteq VisibleCells(pic.planes[p])
      /\ WatermarkCells(pic.planes[p], pic.planes[p].w, pic.planes[p].h) \subseteq VisibleCells(pic.planes[p])
  BY <1>1, MarksAreVisible
<1> QED
  BY <1>2 DEF MarkCells

\* The mark of a treated picture is that of the original.
LEMMA MarksStay ==
    ASSUME NEW new, NEW old, SamePicture(new, old), NEW p \in DOMAIN old.planes
    PROVE  MarkCells(new, p) = MarkCells(old, p)
<1>1. SamePlane(new.planes[p], old.planes[p]) /\ new.w = old.w /\ new.h = old.h
  BY DEF SamePicture
<1>2. new.planes[p].w = old.planes[p].w /\ new.planes[p].h = old.planes[p].h
  BY <1>1 DEF SamePlane
<1>3. \A w, h : WatermarkCells(new.planes[p], w, h) = WatermarkCells(old.planes[p], w, h)
  BY <1>2, SameMarks
<1> QED
  BY <1>1, <1>2, <1>3, Zenon DEF MarkCells

LEMMA WarnedUnits ==
    ASSUME NEW pic, IsPicture(pic), pic.chroma \in Packable, NEW p \in Planes(pic.chroma),
           NEW cell \in MarkCells(pic, p)
    PROVE  WarningWatermarkFrame(pic).planes[p].px[cell] = WarningUnit(pic.chroma, p)
<1>1. PICK drawn : drawn = [q \in DOMAIN pic.planes |->
               Paint(pic.planes[q], MarkCells(pic, q), WarningUnit(pic.chroma, q))]
  OBVIOUS
<1>2. WarningWatermarkFrame(pic) = [pic EXCEPT !.planes = [q \in DOMAIN pic.planes |->
               Paint(pic.planes[q], MarkCells(pic, q), WarningUnit(pic.chroma, q))]]
  BY Zenon DEF WarningWatermarkFrame
<1>3. pic = [chroma |-> pic.chroma, w |-> pic.w, h |-> pic.h, planes |-> pic.planes] /\ IsPlane(pic.planes[p])
      /\ p \in DOMAIN pic.planes
  BY PicturesAreDrawable DEF Drawable
<1>4. WarningWatermarkFrame(pic).planes = drawn
  BY <1>1, <1>2, <1>3
<1>5. drawn[p] = Paint(pic.planes[p], MarkCells(pic, p), WarningUnit(pic.chroma, p))
  BY <1>1, <1>3
<1>6. cell \in DOMAIN pic.planes[p].px
  <2>1. cell \in VisibleCells(pic.planes[p])
    BY <1>3, MarksOfPicture, PicturesAreDrawable
  <2> QED BY <2>1 DEF IsPicture
<1> QED
  BY <1>3, <1>4, <1>5, <1>6, PaintedPlane

\* The packer reads red-difference and blue-difference from the places
\* where the warning wrote them.
LEMMA WarningSamples ==
    ASSUME NEW c \in Packable, c \notin Packed, c \notin Planar16
    PROVE  /\ SampleByte(WarningUnit(c, Y_PLANE), 1, c) = 76
           /\ Planar(c) => /\ SampleByte(WarningUnit(c, (IF SwapUV(c) THEN 2 ELSE 1) + 1), 1, c) = 85
                           /\ SampleByte(WarningUnit(c, (IF SwapUV(c) THEN 1 ELSE 2) + 1), 1, c) = 255
           /\ ~Planar(c) => /\ SampleByte(WarningUnit(c, U_PLANE), IF SwapUV(c) THEN 2 ELSE 1, c) = 85
                            /\ SampleByte(WarningUnit(c, U_PLANE), IF SwapUV(c) THEN 1 ELSE 2, c) \in {254, 255}
<1> USE DEF Y_PLANE, U_PLANE, V_PLANE
<1>1. CASE c \in Planar8
  <2>1. /\ c \notin Semi8 /\ c # P010 /\ Planar(c) /\ ~Wide(c)
        /\ Name(c) \notin {"RGB24", "RGB32", "BGRA", "RGBA", "ARGB"}
    BY <1>1 DEF Planar8, Planar16, Semi8, P010, Wide, Planar, Name
  <2>2. /\ WarningUnit(c, 1) = <<76>>
        /\ WarningUnit(c, 2) = <<IF SwapUV(c) THEN 255 ELSE 85>>
        /\ WarningUnit(c, 3) = <<IF SwapUV(c) THEN 85 ELSE 255>>
    BY <2>1 DEF WarningUnit, WarningYUV, OneSample
  <2>3. \A unit : SampleByte(unit, 1, c) = unit[1]
    BY <2>1 DEF SampleByte
  <2>4. CASE SwapUV(c)
    BY <2>1, <2>2, <2>3, <2>4
  <2>5. CASE ~SwapUV(c)
    BY <2>1, <2>2, <2>3, <2>5
  <2> QED BY <2>4, <2>5
<1>2. CASE c \in Semi8
  <2>1. /\ c # P010 /\ ~Planar(c) /\ ~Wide(c)
        /\ Name(c) \notin {"RGB24", "RGB32", "BGRA", "RGBA", "ARGB"}
    BY <1>2 DEF Planar8, Planar16, Semi8, P010, Wide, Planar, Name
  <2>2. /\ WarningUnit(c, 1) = <<76>>
        /\ WarningUnit(c, 2) = <<IF SwapUV(c) THEN 255 ELSE 85, IF SwapUV(c) THEN 85 ELSE 255>>
    BY <1>2, <2>1 DEF WarningUnit, WarningYUV
  <2>3. \A unit, n : SampleByte(unit, n, c) = unit[n]
    BY <2>1 DEF SampleByte
  <2>4. CASE SwapUV(c)
    BY <2>1, <2>2, <2>3, <2>4
  <2>5. CASE ~SwapUV(c)
    BY <2>1, <2>2, <2>3, <2>5
  <2> QED BY <2>4, <2>5
<1>3. CASE c = P010
  <2>1. /\ ~Planar(c) /\ Wide(c) /\ ~SwapUV(c) /\ LittleEndian(c) /\ c \notin Semi8
        /\ Bits(c) = 10 /\ StorageShift(c) = 6
        /\ Name(c) \notin {"RGB24", "RGB32", "BGRA", "RGBA", "ARGB"}
    BY <1>3 DEF Planar8, Planar16, Semi8, P010, Wide, Planar, Name, SwapUV, Bits, StorageShift, LittleEndian
  <2>2. PICK luma : luma = <<0, 76>>
    OBVIOUS
  <2>3. PICK chroma : chroma = <<0, 85, 0, 255>>
    OBVIOUS
  <2>4. WarningUnit(c, 1) = luma /\ WarningUnit(c, 2) = chroma
    <3>1. WarningUnit(c, 1) = <<0, 76>>
      BY <1>3, <2>1 DEF WarningUnit
    <3>2. WarningUnit(c, 2) = <<0, 85, 0, 255>>
      BY <1>3, <2>1 DEF WarningUnit
    <3> QED BY <2>2, <2>3, <3>1, <3>2, Zenon
  <2>5. luma[1] = 0 /\ luma[2] = 76 /\ chroma[1] = 0 /\ chroma[2] = 85 /\ chroma[3] = 0 /\ chroma[4] = 255
    BY <2>2, <2>3
  <2>6. /\ ReadWord16(luma, 1, c) = 19456
        /\ ReadWord16(chroma, 1, c) = 21760 /\ ReadWord16(chroma, 3, c) = 65280
    BY <2>1, <2>5 DEF ReadWord16
  <2>7. (19456 \div 64) % 1024 = 304 /\ (21760 \div 64) % 1024 = 340 /\ (65280 \div 64) % 1024 = 1020
    OBVIOUS
  <2>8. /\ DecodeSample16(luma, 1, c) = 304
        /\ DecodeSample16(chroma, 1, c) = 340 /\ DecodeSample16(chroma, 3, c) = 1020
    BY <2>1, <2>6, <2>7, Powers DEF DecodeSample16
  <2>9. 2 * 1 - 1 = 1 /\ 2 * 2 - 1 = 3
    OBVIOUS
  <2>10. /\ ScaleSampleToByte(304, 10) = 76
         /\ ScaleSampleToByte(340, 10) = 85 /\ ScaleSampleToByte(1020, 10) = 254
    BY Powers DEF ScaleSampleToByte, SampleMask
  <2> QED
    BY <2>1, <2>4, <2>8, <2>9, <2>10 DEF SampleByte
<1> QED
  BY <1>1, <1>2, <1>3 DEF Packable

Red(rgb) == rgb[1] >= 200 /\ rgb[2] < 60 /\ rgb[3] < 60

LEMMA WarningColour == ASSUME NEW cr \in {254, 255} PROVE Red(YCbCrToRGB(<<76, 85, cr>>))
<1>1. CASE cr = 254
  BY <1>1 DEF Red, YCbCrToRGB, ClampByte, Clamp, Minimum, Maximum
<1>2. CASE cr = 255
  BY <1>2 DEF Red, YCbCrToRGB, ClampByte, Clamp, Minimum, Maximum
<1> QED BY <1>1, <1>2

LEMMA WarningPacked ==
    ASSUME NEW c \in Packed, NEW unit, unit = WarningUnit(c, Y_PLANE), NEW at, at = RGBOffsets(c)
    PROVE  unit[at[1]] = 224 /\ unit[at[2]] = 24 /\ unit[at[3]] = 24
<1>1. Name(c) \in {"RGB24", "RGB32", "BGRA", "RGBA", "ARGB"} /\ c \notin Semi8 /\ c # P010
  BY DEF Packed, Name, Semi8, P010
<1>2. CASE Name(c) = "RGB24"
  <2>1. unit = <<24, 24, 224>>
    BY <1>1, <1>2 DEF WarningUnit
  <2>2. at = <<3, 2, 1>>
    BY <1>2 DEF RGBOffsets
  <2>3. at[1] = 3 /\ at[2] = 2 /\ at[3] = 1
    BY <2>2
  <2>4. unit[3] = 224 /\ unit[2] = 24 /\ unit[1] = 24
    BY <2>1
  <2> QED BY <2>3, <2>4
<1>3. CASE Name(c) \in {"RGB32", "BGRA"}
  <2>1. unit = <<24, 24, 224, 255>>
    BY <1>1, <1>3 DEF WarningUnit
  <2>2. at = <<3, 2, 1>>
    BY <1>3 DEF RGBOffsets
  <2>3. at[1] = 3 /\ at[2] = 2 /\ at[3] = 1
    BY <2>2
  <2>4. unit[3] = 224 /\ unit[2] = 24 /\ unit[1] = 24
    BY <2>1
  <2> QED BY <2>3, <2>4
<1>4. CASE Name(c) = "RGBA"
  <2>1. unit = <<224, 24, 24, 255>>
    BY <1>1, <1>4 DEF WarningUnit
  <2>2. at = <<1, 2, 3>>
    BY <1>4 DEF RGBOffsets
  <2>3. at[1] = 1 /\ at[2] = 2 /\ at[3] = 3
    BY <2>2
  <2>4. unit[1] = 224 /\ unit[2] = 24 /\ unit[3] = 24
    BY <2>1
  <2> QED BY <2>3, <2>4
<1>5. CASE Name(c) = "ARGB"
  <2>1. unit = <<255, 224, 24, 24>>
    BY <1>1, <1>5 DEF WarningUnit
  <2>2. at = <<2, 3, 4>>
    BY <1>5 DEF RGBOffsets
  <2>3. at[1] = 2 /\ at[2] = 3 /\ at[3] = 4
    BY <2>2
  <2>4. unit[2] = 224 /\ unit[3] = 24 /\ unit[4] = 24
    BY <2>1
  <2> QED BY <2>3, <2>4
<1> QED BY <1>1, <1>2, <1>3, <1>4, <1>5

\* A pixel in the mark whose chroma is in the mark of the chroma planes.
Marked(pic, cell) ==
    /\ cell \in MarkCells(pic, Y_PLANE)
    /\ pic.chroma \in Packed \/ ChromaCell(pic.chroma, cell) \in MarkCells(pic, U_PLANE)

LEMMA WarningPixels ==
    ASSUME NEW pic, IsPicture(pic), pic.chroma \in Packable, pic.chroma \notin Planar16,
           NEW cell, Marked(pic, cell)
    PROVE  Red(RGBAt(WarningWatermarkFrame(pic), cell))
<1>1. PICK c : c = pic.chroma
  OBVIOUS
<1>2. PICK warning : warning = WarningWatermarkFrame(pic)
  OBVIOUS
<1>3. warning.chroma = c
  BY <1>1, <1>2, WarningKeeps, PicturesAreDrawable DEF SamePicture
<1>4. warning.planes[Y_PLANE].px[cell] = WarningUnit(c, Y_PLANE)
  BY <1>1, <1>2, ChromaPlanes, WarnedUnits DEF Marked
<1>5. CASE c \in Packed
  <2>1. RGBAt(warning, cell) = [k \in 1 .. 3 |-> warning.planes[Y_PLANE].px[cell][RGBOffsets(c)[k]]]
    BY <1>3, <1>5 DEF RGBAt, PackedRGBAt
  <2>2. PICK unit : unit = WarningUnit(c, Y_PLANE)
    OBVIOUS
  <2>3. unit[RGBOffsets(c)[1]] = 224 /\ unit[RGBOffsets(c)[2]] = 24 /\ unit[RGBOffsets(c)[3]] = 24
    BY <1>5, <2>2, WarningPacked
  <2>4. RGBAt(warning, cell) = [k \in 1 .. 3 |-> unit[RGBOffsets(c)[k]]]
    BY <1>4, <2>1, <2>2
  <2>5. RGBAt(warning, cell)[1] = 224 /\ RGBAt(warning, cell)[2] = 24 /\ RGBAt(warning, cell)[3] = 24
    BY <2>3, <2>4
  <2> QED
    BY <1>2, <2>5 DEF Red
<1>6. CASE c \notin Packed
  <2>1. PICK at : at = ChromaCell(c, cell)
    OBVIOUS
  <2>2. c \in Packable /\ c \notin Planar16 /\ at \in MarkCells(pic, U_PLANE)
    BY <1>1, <1>6, <2>1 DEF Marked
  <2>3. warning.planes[U_PLANE].px[at] = WarningUnit(c, U_PLANE)
    BY <1>1, <1>2, <1>6, <2>2, ChromaPlanes, WarnedUnits
  <2>4. Planar(c) => warning.planes[V_PLANE].px[at] = WarningUnit(c, V_PLANE)
    <3>1. SUFFICES ASSUME Planar(c) PROVE at \in MarkCells(pic, V_PLANE) /\ V_PLANE \in Planes(c)
      BY <1>1, <1>2, <2>2, WarnedUnits
    <3>2. U_PLANE \in Planes(c) /\ V_PLANE \in Planes(c)
      BY <1>6, <2>2, <3>1, ChromaPlanes
    <3>3. /\ pic.planes[U_PLANE].w = pic.planes[V_PLANE].w
          /\ pic.planes[U_PLANE].h = pic.planes[V_PLANE].h
      BY <1>1, <3>2, PicturesAreDrawable DEF PlaneWidth, PlaneHeight
    <3>4. \A w, h : WatermarkCells(pic.planes[U_PLANE], w, h) = WatermarkCells(pic.planes[V_PLANE], w, h)
      BY <3>3, SameMarks
    <3>5. MarkCells(pic, V_PLANE) = MarkCells(pic, U_PLANE)
      BY <3>3, <3>4 DEF MarkCells, A_PLANE, Y_PLANE, U_PLANE, V_PLANE
    <3> QED BY <2>2, <3>2, <3>5
  <2>5. 1 + 1 = U_PLANE /\ 2 + 1 = V_PLANE
    BY DEF U_PLANE, V_PLANE
  <2>6. at = <<cell[1] \div PowerOfTwo(StepY(c)), cell[2] \div PowerOfTwo(StepX(c))>>
    BY <2>1 DEF ChromaCell
  <2>7. CASE Planar(c)
    <3>1. YCbCrAt(warning, cell, StepX(c), StepY(c)) =
            <<SampleByte(warning.planes[Y_PLANE].px[cell], 1, c),
              SampleByte(warning.planes[(IF SwapUV(c) THEN 2 ELSE 1) + 1].px[at], 1, c),
              SampleByte(warning.planes[(IF SwapUV(c) THEN 1 ELSE 2) + 1].px[at], 1, c)>>
      BY <1>3, <2>6, <2>7 DEF YCbCrAt
    <3>2. /\ warning.planes[(IF SwapUV(c) THEN 2 ELSE 1) + 1].px[at]
               = WarningUnit(c, (IF SwapUV(c) THEN 2 ELSE 1) + 1)
          /\ warning.planes[(IF SwapUV(c) THEN 1 ELSE 2) + 1].px[at]
               = WarningUnit(c, (IF SwapUV(c) THEN 1 ELSE 2) + 1)
      BY <2>3, <2>4, <2>5, <2>7
    <3>3. YCbCrAt(warning, cell, StepX(c), StepY(c)) = <<76, 85, 255>>
      BY <1>4, <1>6, <2>2, <2>7, <3>1, <3>2, WarningSamples
    <3>4. RGBAt(warning, cell) = YCbCrToRGB(<<76, 85, 255>>)
      BY <1>3, <1>6, <3>3 DEF RGBAt
    <3> QED
      BY <1>2, <3>4, WarningColour
  <2>8. CASE ~Planar(c)
    <3>1. YCbCrAt(warning, cell, StepX(c), StepY(c)) =
            <<SampleByte(warning.planes[Y_PLANE].px[cell], 1, c),
              SampleByte(warning.planes[U_PLANE].px[at], IF SwapUV(c) THEN 2 ELSE 1, c),
              SampleByte(warning.planes[U_PLANE].px[at], IF SwapUV(c) THEN 1 ELSE 2, c)>>
      BY <1>3, <2>6, <2>8 DEF YCbCrAt
    <3>2. PICK cr \in {254, 255} : cr = SampleByte(WarningUnit(c, U_PLANE), IF SwapUV(c) THEN 1 ELSE 2, c)
      BY <1>6, <2>2, <2>8, WarningSamples
    <3>3. YCbCrAt(warning, cell, StepX(c), StepY(c)) = <<76, 85, cr>>
      BY <1>4, <1>6, <2>2, <2>3, <2>8, <3>1, <3>2, WarningSamples
    <3>4. RGBAt(warning, cell) = YCbCrToRGB(<<76, 85, cr>>)
      BY <1>3, <1>6, <3>3 DEF RGBAt
    <3> QED
      BY <1>2, <3>4, WarningColour
  <2> QED
    BY <2>7, <2>8
<1> QED
  BY <1>5, <1>6

(***************************************************************************)
(* Where the two marks of the warning meet.                                *)
(***************************************************************************)
LEMMA Quotient ==
    ASSUME NEW k \in Nat, NEW b \in Nat \ {0}, NEW r \in 0 .. b - 1, NEW n \in Nat, n = k * b + r
    PROVE  n \div b = k
<1>1. PICK q \in Nat : q = n \div b
  OBVIOUS
<1>2. n = q * b + (n % b) /\ n % b \in 0 .. b - 1
  BY <1>1
<1>3. (q - k) * b = r - (n % b)
  BY <1>2
<1>4. CASE q > k
  <2>1. (q - k) * b >= b
    BY <1>4
  <2> QED BY <1>2, <1>3, <2>1
<1>5. CASE q < k
  <2>1. (k - q) * b >= b
    BY <1>5
  <2>2. (k - q) * b = (n % b) - r
    BY <1>2
  <2> QED BY <1>2, <2>1, <2>2
<1> QED BY <1>1, <1>4, <1>5

\* The triangle widens by one cell to either side every second row.
LEMMA Spans ==
    ASSUME NEW size \in 20 .. 72, NEW row \in 0 .. size - 1
    PROVE  MarkSpan(size, row) = IF row = size - 1 THEN size \div 2 ELSE row \div 2
<1>1. PICK k \in 10 .. 36 : k = size \div 2 /\ (size = 2 * k \/ size = 2 * k + 1)
  OBVIOUS
<1>2. PICK j \in 0 .. 36 : j = row \div 2 /\ (row = 2 * j \/ row = 2 * j + 1)
  OBVIOUS
<1>3. PICK n \in Nat : n = k * row
  OBVIOUS
<1>4. MarkSpan(size, row) = n \div (size - 1)
  BY <1>1, <1>3 DEF MarkSpan
<1>5. CASE row = size - 1
  <2>1. n = k * (size - 1) + 0
    BY <1>3, <1>5
  <2>2. n \div (size - 1) = k
    BY <2>1, Quotient
  <2> QED BY <1>1, <1>4, <1>5, <2>2
<1>6. CASE row # size - 1 /\ size = 2 * k
  <2>1. CASE row = 2 * j
    <3>1. n = j * (size - 1) + j /\ j \in 0 .. (size - 1) - 1
      BY <1>3, <1>6, <2>1
    <3>2. n \div (size - 1) = j
      BY <3>1, Quotient
    <3> QED BY <1>2, <1>4, <1>6, <3>2
  <2>2. CASE row = 2 * j + 1
    <3>1. PICK r \in 0 .. (size - 1) - 1 : r = j + k
      BY <1>6, <2>2
    <3>2. n = j * (size - 1) + r
      <4>1. n = 2 * (k * j) + k /\ j * (size - 1) = 2 * (k * j) - j
        BY <1>3, <1>6, <2>2
      <4> QED BY <3>1, <4>1
    <3>3. n \div (size - 1) = j
      <4>1. j \in Nat /\ size - 1 \in Nat \ {0}
        OBVIOUS
      <4> QED BY <3>2, <4>1, Quotient
    <3> QED BY <1>2, <1>4, <1>6, <3>3
  <2> QED BY <1>2, <2>1, <2>2
<1>7. CASE row # size - 1 /\ size = 2 * k + 1
  <2>1. CASE row = 2 * j
    <3>1. n = j * (size - 1) + 0
      BY <1>3, <1>7, <2>1
    <3>2. n \div (size - 1) = j
      BY <3>1, Quotient
    <3> QED BY <1>2, <1>4, <1>7, <3>2
  <2>2. CASE row = 2 * j + 1
    <3>1. PICK r \in 0 .. (size - 1) - 1 : r = k
      BY <1>7
    <3>2. n = j * (size - 1) + r
      <4>1. n = 2 * (k * j) + k /\ j * (size - 1) = 2 * (k * j)
        BY <1>3, <1>7, <2>2
      <4> QED BY <3>1, <4>1
    <3>3. n \div (size - 1) = j
      <4>1. j \in Nat /\ size - 1 \in Nat \ {0}
        OBVIOUS
      <4> QED BY <3>2, <4>1, Quotient
    <3> QED BY <1>2, <1>4, <1>7, <3>3
  <2> QED BY <1>2, <2>1, <2>2
<1> QED BY <1>1, <1>5, <1>6, <1>7

LEMMA InRect ==
    ASSUME NEW plane, IsPlane(plane), NEW x0 \in Int, NEW y0 \in Int, NEW width \in Int, NEW height \in Int,
           NEW y \in 0 .. plane.h - 1, NEW x \in 0 .. plane.w - 1,
           y0 <= y, y < y0 + height, x0 <= x, x < x0 + width
    PROVE  <<y, x>> \in RectCells(plane, x0, y0, width, height)
<1>1. PICK h \in Nat : h = plane.h
  BY DEF IsPlane
<1>2. PICK w \in Nat : w = plane.w
  BY DEF IsPlane
<1>3. y \in Maximum(y0, 0) .. Minimum(y0 + height, h) - 1
  BY <1>1 DEF Maximum, Minimum
<1>4. x \in Maximum(x0, 0) .. Minimum(x0 + width, w) - 1
  BY <1>2 DEF Maximum, Minimum
<1> QED BY <1>1, <1>2, <1>3, <1>4 DEF RectCells

\* Some of the cells of a mark: two of each edge of the triangle, its two last
\* rows, and the middle of the exclamation mark.
MarkShape(row, col, size) ==
    \/ row \in 0 .. size - 2 /\ (col = size \div 2 - row \div 2 \/ col = size \div 2 - row \div 2 + 1)
    \/ row \in 0 .. size - 2 /\ (col = size \div 2 + row \div 2 \/ col = size \div 2 + row \div 2 - 1)
    \/ row = size - 1 /\ col \in 0 .. size - 1
    \/ row = size - 2 /\ col \in 1 .. size - 2
    \/ row - size \div 3 \in 0 .. size \div 4 - 1 /\ (col = size \div 2 \/ col = size \div 2 - 1)
    \/ row - (size * 3) \div 4 \in 0 .. 1 /\ (col = size \div 2 \/ col = size \div 2 - 1)

OnMark(y, x, w, h) ==
    /\ y \in 0 .. h - 1 /\ x \in 0 .. w - 1
    /\ MarkShape(y - MarkCorner(h, MarkSize(w, h)), x - MarkCorner(w, MarkSize(w, h)), MarkSize(w, h))

LEMMA Strokes ==
    ASSUME NEW size \in 20 .. 72
    PROVE  /\ MarkStroke(size) \in 2 .. 6
           /\ \A row \in 0 .. size - 2 : /\ MarkLeft(size, row) = size \div 2 - row \div 2
                                         /\ MarkRight(size, row) = size \div 2 + row \div 2
           /\ MarkLeft(size, size - 1) = 0 /\ MarkRight(size, size - 1) = size - 1
<1>1. MarkStroke(size) \in 2 .. 6
  BY DEF MarkStroke, Maximum
<1>2. ASSUME NEW row \in 0 .. size - 2
      PROVE  /\ MarkLeft(size, row) = size \div 2 - row \div 2
             /\ MarkRight(size, row) = size \div 2 + row \div 2
  <2>1. MarkSpan(size, row) = row \div 2
    BY Spans
  <2> QED BY <2>1 DEF MarkLeft, MarkRight, Maximum, Minimum
<1>3. MarkLeft(size, size - 1) = 0 /\ MarkRight(size, size - 1) = size - 1
  <2>1. MarkSpan(size, size - 1) = size \div 2
    BY Spans
  <2> QED BY <2>1 DEF MarkLeft, MarkRight, Maximum, Minimum
<1> QED BY <1>1, <1>2, <1>3

LEMMA OnMarkIsMarked ==
    ASSUME NEW plane, IsPlane(plane), NEW y, NEW x, OnMark(y, x, plane.w, plane.h)
    PROVE  <<y, x>> \in WatermarkCells(plane, plane.w, plane.h)
<1>1. PICK w \in Nat : w = plane.w
  BY DEF IsPlane
<1>2. PICK h \in Nat : h = plane.h
  BY DEF IsPlane
<1>3. PICK size \in 20 .. 72 : size = MarkSize(w, h)
  BY MarkNumbers
<1>4. PICK x0 \in Nat : x0 = MarkCorner(w, size)
  BY MarkNumbers
<1>5. PICK y0 \in Nat : y0 = MarkCorner(h, size)
  BY MarkNumbers
<1>6. y \in 0 .. h - 1 /\ x \in 0 .. w - 1 /\ MarkShape(y - y0, x - x0, size)
  BY <1>1, <1>2, <1>3, <1>4, <1>5 DEF OnMark
<1>7. PICK row \in Int : row = y - y0
  BY <1>6
<1>8. PICK col \in Int : col = x - x0
  BY <1>6
<1>9. y = y0 + row /\ x = x0 + col /\ MarkShape(row, col, size)
  BY <1>6, <1>7, <1>8
<1>10. WatermarkCells(plane, plane.w, plane.h) =
          (UNION {TriangleRow(plane, x0, y0, size, r) : r \in 0 .. size - 1})
            \cup ExclamationMark(plane, x0, y0, size)
  BY <1>1, <1>2, <1>3, <1>4, <1>5 DEF WatermarkCells
<1>11. PICK stroke \in 2 .. 6 : stroke = MarkStroke(size)
  BY Strokes
<1>12. ASSUME NEW x1 \in Int, NEW y1 \in Int, NEW width \in Int, NEW height \in Int,
              y1 <= y, y < y1 + height, x1 <= x, x < x1 + width
       PROVE  <<y, x>> \in RectCells(plane, x1, y1, width, height)
  BY <1>1, <1>2, <1>6, <1>12, InRect
<1>13. CASE row \in 0 .. size - 1 /\ <<y, x>> \in TriangleRow(plane, x0, y0, size, row)
  BY <1>10, <1>13
<1>14. CASE <<y, x>> \in ExclamationMark(plane, x0, y0, size)
  BY <1>10, <1>14
<1>15. CASE row \in 0 .. size - 2 /\ (col = size \div 2 - row \div 2 \/ col = size \div 2 - row \div 2 + 1)
  <2>1. PICK left \in Int : left = size \div 2 - row \div 2
    OBVIOUS
  <2>2. MarkLeft(size, row) = left
    BY <1>15, <2>1, Strokes
  <2>3. <<y, x>> \in RectCells(plane, x0 + left, y0 + row, stroke, 1)
    BY <1>9, <1>12, <1>15, <2>1
  <2>4. <<y, x>> \in TriangleRow(plane, x0, y0, size, row)
    BY <1>11, <2>2, <2>3 DEF TriangleRow
  <2> QED BY <1>13, <1>15, <2>4
<1>16. CASE row \in 0 .. size - 2 /\ (col = size \div 2 + row \div 2 \/ col = size \div 2 + row \div 2 - 1)
  <2>1. PICK right \in Int : right = size \div 2 + row \div 2
    OBVIOUS
  <2>2. MarkRight(size, row) = right
    BY <1>16, <2>1, Strokes
  <2>3. <<y, x>> \in RectCells(plane, x0 + right - stroke + 1, y0 + row, stroke, 1)
    BY <1>9, <1>12, <1>16, <2>1
  <2>4. <<y, x>> \in TriangleRow(plane, x0, y0, size, row)
    BY <1>11, <2>2, <2>3 DEF TriangleRow
  <2> QED BY <1>13, <1>16, <2>4
<1>17. CASE (row = size - 1 /\ col \in 0 .. size - 1) \/ (row = size - 2 /\ col \in 1 .. size - 2)
  <2>1. PICK left \in Int : left = MarkLeft(size, row)
    BY <1>17, TriangleNumbers
  <2>2. PICK right \in Int : right = MarkRight(size, row)
    BY <1>17, TriangleNumbers
  <2>3. left <= col /\ col <= right
    <3>1. CASE row = size - 1
      BY <1>17, <2>1, <2>2, <3>1, Strokes
    <3>2. CASE row = size - 2
      <4>1. left = size \div 2 - row \div 2 /\ right = size \div 2 + row \div 2
        BY <2>1, <2>2, <3>2, Strokes
      <4> QED BY <1>17, <3>2, <4>1
    <3> QED BY <1>17, <3>1, <3>2
  <2>4. <<y, x>> \in RectCells(plane, x0 + left, y0 + row, right - left + 1, 1)
    BY <1>9, <1>12, <2>3
  <2>5. ~(row < size - stroke)
    BY <1>17
  <2>6. <<y, x>> \in TriangleRow(plane, x0, y0, size, row)
    BY <1>11, <2>1, <2>2, <2>4, <2>5 DEF TriangleRow
  <2> QED BY <1>13, <1>17, <2>6
<1>18. CASE \/ row - size \div 3 \in 0 .. size \div 4 - 1 /\ (col = size \div 2 \/ col = size \div 2 - 1)
            \/ row - (size * 3) \div 4 \in 0 .. 1 /\ (col = size \div 2 \/ col = size \div 2 - 1)
  <2>1. PICK symbol \in 2 .. 8 : symbol = Maximum(size \div 9, 2)
    BY DEF Maximum
  <2>2. PICK left \in Int : left = x0 + size \div 2 - symbol \div 2
    OBVIOUS
  <2>3. left <= x /\ x < left + symbol
    BY <1>9, <1>18, <2>2
  <2>4. CASE row - size \div 3 \in 0 .. size \div 4 - 1
    <3>1. <<y, x>> \in RectCells(plane, left, y0 + size \div 3, symbol, size \div 4)
      BY <1>9, <1>12, <2>3, <2>4
    <3> QED BY <1>14, <2>1, <2>2, <3>1 DEF ExclamationMark
  <2>5. CASE row - (size * 3) \div 4 \in 0 .. 1
    <3>1. <<y, x>> \in RectCells(plane, left, y0 + (size * 3) \div 4, symbol, symbol)
      BY <1>9, <1>12, <2>3, <2>5
    <3> QED BY <1>14, <2>1, <2>2, <3>1 DEF ExclamationMark
  <2> QED BY <1>18, <2>4, <2>5
<1> QED BY <1>9, <1>15, <1>16, <1>17, <1>18 DEF MarkShape

\* Linear conditions on the size of a mark, its corner, half and quarter size.
Placed(w, h, size, x0, y0, half, quarter) ==
    /\ size <= 20 \/ (8 * size <= w /\ 8 * size <= h)
    /\ size >= 72 \/ w < 8 * size + 8 \/ h < 8 * size + 8
    /\ 2 * half <= size /\ size <= 2 * half + 1
    /\ 4 * quarter <= size /\ size <= 4 * quarter + 3
    /\ w - size - quarter <= x0 /\ (x0 <= 0 \/ x0 <= w - size - quarter)
    /\ h - size - quarter <= y0 /\ (y0 <= 0 \/ y0 <= h - size - quarter)

LEMMA MarkPlace ==
    ASSUME NEW w \in Nat, NEW h \in Nat
    PROVE  \E size \in 20 .. 72, x0 \in Nat, y0 \in Nat, half \in Nat, quarter \in Nat :
              /\ size = MarkSize(w, h) /\ x0 = MarkCorner(w, size) /\ y0 = MarkCorner(h, size)
              /\ half = size \div 2 /\ Placed(w, h, size, x0, y0, half, quarter)
<1>1. PICK size \in 20 .. 72 : size = MarkSize(w, h)
  BY MarkNumbers
<1>2. PICK x0 \in Nat : x0 = MarkCorner(w, size)
  BY MarkNumbers
<1>3. PICK y0 \in Nat : y0 = MarkCorner(h, size)
  BY MarkNumbers
<1>4. PICK half \in Nat : half = size \div 2
  OBVIOUS
<1>5. PICK quarter \in Nat : quarter = size \div 4
  OBVIOUS
<1>6. /\ size <= 20 \/ (8 * size <= w /\ 8 * size <= h)
      /\ size >= 72 \/ w < 8 * size + 8 \/ h < 8 * size + 8
  BY <1>1 DEF MarkSize, Clamp, Minimum, Maximum
<1>7. 2 * half <= size /\ size <= 2 * half + 1 /\ 4 * quarter <= size /\ size <= 4 * quarter + 3
  BY <1>4, <1>5
<1>8. \A length \in Nat : /\ length - size - quarter <= MarkCorner(length, size)
                          /\ \/ MarkCorner(length, size) <= 0
                             \/ MarkCorner(length, size) <= length - size - quarter
  BY <1>5 DEF MarkCorner, Maximum
<1>9. Placed(w, h, size, x0, y0, half, quarter)
  BY <1>2, <1>3, <1>6, <1>7, <1>8 DEF Placed
<1> QED BY <1>1, <1>2, <1>3, <1>4, <1>9

\* The luma and the chroma cell of a pixel are both on their marks.
Meet(y, x, w, h, stepY, stepX) ==
    /\ OnMark(y, x, w, h)
    /\ OnMark(y \div PowerOfTwo(stepY), x \div PowerOfTwo(stepX), RoundedUp(w, stepX), RoundedUp(h, stepY))

\* Chroma halved both ways: the left edge of the luma mark crosses the bottom of the
\* chroma mark, or the bottoms overlap; small pictures cut the chroma mark.
LEMMA MarksMeetHalved ==
    ASSUME NEW w \in Nat, NEW h \in Nat, w >= 26, h >= 26
    PROVE  \E y \in Int, x \in Int : Meet(y, x, w, h, 1, 1)
<1>1. PICK cw \in Nat : cw = (w + 1) \div 2
  OBVIOUS
<1>2. PICK ch \in Nat : ch = (h + 1) \div 2
  OBVIOUS
<1>3. w <= 2 * cw /\ 2 * cw <= w + 1 /\ h <= 2 * ch /\ 2 * ch <= h + 1
  BY <1>1, <1>2
<1>4. PICK size \in 20 .. 72, x0 \in Nat, y0 \in Nat, half \in Nat, quarter \in Nat :
          /\ size = MarkSize(w, h) /\ x0 = MarkCorner(w, size) /\ y0 = MarkCorner(h, size)
          /\ half = size \div 2 /\ Placed(w, h, size, x0, y0, half, quarter)
  BY MarkPlace
<1>5. PICK csize \in 20 .. 72, cx0 \in Nat, cy0 \in Nat, chalf \in Nat, cquarter \in Nat :
          /\ csize = MarkSize(cw, ch) /\ cx0 = MarkCorner(cw, csize) /\ cy0 = MarkCorner(ch, csize)
          /\ chalf = csize \div 2 /\ Placed(cw, ch, csize, cx0, cy0, chalf, cquarter)
  BY MarkPlace
<1>6. Placed(w, h, size, x0, y0, half, quarter) /\ Placed(cw, ch, csize, cx0, cy0, chalf, cquarter)
  BY <1>4, <1>5
<1> DEFINE Chroma(y) == y \div 2
           Found(y, x) ==
             /\ y \in 0 .. h - 1 /\ x \in 0 .. w - 1 /\ MarkShape(y - y0, x - x0, size)
             /\ Chroma(y) \in 0 .. ch - 1 /\ x \div 2 \in 0 .. cw - 1
             /\ MarkShape(Chroma(y) - cy0, (x \div 2) - cx0, csize)
<1>7. ASSUME NEW y \in Int, NEW x \in Int, Found(y, x)
      PROVE  \E b \in Int, a \in Int : Meet(b, a, w, h, 1, 1)
  <2>1. OnMark(y, x, w, h)
    BY <1>4, <1>7 DEF OnMark
  <2>2. OnMark(Chroma(y), x \div 2, cw, ch)
    BY <1>5, <1>7 DEF OnMark
  <2>3. RoundedUp(w, 1) = cw /\ RoundedUp(h, 1) = ch
    <3>1. w + 2 - 1 = w + 1 /\ h + 2 - 1 = h + 1 /\ h + 1 - 1 = h /\ h \div 1 = h
      OBVIOUS
    <3> QED BY <1>1, <1>2, <3>1, Powers DEF RoundedUp
  <2>4. y \div PowerOfTwo(1) = Chroma(y) /\ x \div PowerOfTwo(1) = x \div 2
    BY Powers
  <2>5. Meet(y, x, w, h, 1, 1)
    BY <2>1, <2>2, <2>3, <2>4 DEF Meet
  <2> QED BY <2>5
<1>8. CASE w >= 49 /\ h >= 49
  <2>1. \E y \in Int, x \in Int : Found(y, x)
    <3>1. \/ Found(2 * (cy0 + csize - 1), x0 + half - (((2 * (cy0 + csize - 1)) - y0) \div 2))
          \/ Found(y0 + size - 1, x0 + half)
          \/ Found(y0 + size - 2, x0 + half)
      BY <1>3, <1>6, <1>8 DEF Placed, MarkShape
    <3> HIDE DEF Found
    <3> QED BY <3>1
  <2> HIDE DEF Found
  <2> QED BY <1>7, <2>1
<1>9. CASE w < 49 /\ h >= 49
  <2>1. \E y \in Int, x \in Int : Found(y, x)
    <3>1. \/ Found(y0 + 12, x0 + 5)
      BY <1>3, <1>6, <1>9 DEF Placed, MarkShape
    <3> HIDE DEF Found
    <3> QED BY <3>1
  <2> HIDE DEF Found
  <2> QED BY <1>7, <2>1
<1>10. CASE w >= 49 /\ h < 49
  <2>1. \E y \in Int, x \in Int : Found(y, x)
    <3>1. \/ Found(y0 + 5, x0 + 8)
          \/ Found(y0 + 18, 2 * (cx0 + 10 + ((((y0 + 18) \div 2) - cy0) \div 2)))
      BY <1>3, <1>6, <1>10 DEF Placed, MarkShape
    <3> HIDE DEF Found
    <3> QED BY <3>1
  <2> HIDE DEF Found
  <2> QED BY <1>7, <2>1
<1>11. CASE w < 49 /\ h < 49
  <2>1. \E y \in Int, x \in Int : Found(y, x)
    <3>1. \/ Found(y0 + 14, x0 + 4)
          \/ Found(y0 + 18, x0 + 10)
          \/ Found(y0 + 5, x0 + 12)
          \/ Found(y0 + 5, x0 + 8)
          \/ Found(y0 + 8, x0 + 14)
          \/ Found(y0 + 19, 2 * (10 + (((y0 + 19) \div 2) \div 2)))
          \/ Found(y0 + 19, 18)
      BY <1>3, <1>6, <1>11 DEF Placed, MarkShape
    <3> HIDE DEF Found
    <3> QED BY <3>1
  <2> HIDE DEF Found
  <2> QED BY <1>7, <2>1
<1> QED BY <1>8, <1>9, <1>10, <1>11

\* Chroma of half the width: the bottom of the luma mark crosses the right edge of
\* the chroma mark.
LEMMA MarksMeetNarrowed ==
    ASSUME NEW w \in Nat, NEW h \in Nat, w >= 26, h >= 26
    PROVE  \E y \in Int, x \in Int : Meet(y, x, w, h, 0, 1)
<1>1. PICK cw \in Nat : cw = (w + 1) \div 2
  OBVIOUS
<1>2. PICK ch \in Nat : ch = h
  OBVIOUS
<1>3. w <= 2 * cw /\ 2 * cw <= w + 1 /\ ch <= h /\ h <= ch
  BY <1>1, <1>2
<1>4. PICK size \in 20 .. 72, x0 \in Nat, y0 \in Nat, half \in Nat, quarter \in Nat :
          /\ size = MarkSize(w, h) /\ x0 = MarkCorner(w, size) /\ y0 = MarkCorner(h, size)
          /\ half = size \div 2 /\ Placed(w, h, size, x0, y0, half, quarter)
  BY MarkPlace
<1>5. PICK csize \in 20 .. 72, cx0 \in Nat, cy0 \in Nat, chalf \in Nat, cquarter \in Nat :
          /\ csize = MarkSize(cw, ch) /\ cx0 = MarkCorner(cw, csize) /\ cy0 = MarkCorner(ch, csize)
          /\ chalf = csize \div 2 /\ Placed(cw, ch, csize, cx0, cy0, chalf, cquarter)
  BY MarkPlace
<1>6. Placed(w, h, size, x0, y0, half, quarter) /\ Placed(cw, ch, csize, cx0, cy0, chalf, cquarter)
  BY <1>4, <1>5
<1> DEFINE Chroma(y) == y
           Found(y, x) ==
             /\ y \in 0 .. h - 1 /\ x \in 0 .. w - 1 /\ MarkShape(y - y0, x - x0, size)
             /\ Chroma(y) \in 0 .. ch - 1 /\ x \div 2 \in 0 .. cw - 1
             /\ MarkShape(Chroma(y) - cy0, (x \div 2) - cx0, csize)
<1>7. ASSUME NEW y \in Int, NEW x \in Int, Found(y, x)
      PROVE  \E b \in Int, a \in Int : Meet(b, a, w, h, 0, 1)
  <2>1. OnMark(y, x, w, h)
    BY <1>4, <1>7 DEF OnMark
  <2>2. OnMark(Chroma(y), x \div 2, cw, ch)
    BY <1>5, <1>7 DEF OnMark
  <2>3. RoundedUp(w, 1) = cw /\ RoundedUp(h, 0) = ch
    <3>1. w + 2 - 1 = w + 1 /\ h + 2 - 1 = h + 1 /\ h + 1 - 1 = h /\ h \div 1 = h
      OBVIOUS
    <3> QED BY <1>1, <1>2, <3>1, Powers DEF RoundedUp
  <2>4. y \div PowerOfTwo(0) = Chroma(y) /\ x \div PowerOfTwo(1) = x \div 2
    BY Powers
  <2>5. Meet(y, x, w, h, 0, 1)
    BY <2>1, <2>2, <2>3, <2>4 DEF Meet
  <2> QED BY <2>5
<1>8. CASE w >= 49
  <2>1. \E y \in Int, x \in Int : Found(y, x)
    <3>1. \/ Found(y0 + size - 1, 2 * (cx0 + chalf + ((y0 + size - 1 - cy0) \div 2)))
          \/ Found(y0 + size - 1, x0 + half)
      BY <1>3, <1>6, <1>8 DEF Placed, MarkShape
    <3> HIDE DEF Found
    <3> QED BY <3>1
  <2> HIDE DEF Found
  <2> QED BY <1>7, <2>1
<1>9. CASE w < 49
  <2>1. \E y \in Int, x \in Int : Found(y, x)
    <3>1. \/ Found(y0 + 19, x0)
      BY <1>3, <1>6, <1>9 DEF Placed, MarkShape
    <3> HIDE DEF Found
    <3> QED BY <3>1
  <2> HIDE DEF Found
  <2> QED BY <1>7, <2>1
<1> QED BY <1>8, <1>9

\* A picture with room for the mark has a pixel in both marks, however its
\* chroma is subsampled.
LEMMA MarksMeet ==
    ASSUME NEW pic, IsPicture(pic), pic.chroma \in Packable, Minimum(pic.w, pic.h) >= 26
    PROVE  \E cell : Marked(pic, cell)
<1>1. PICK w \in Nat : w = pic.w
  BY DEF IsPicture
<1>2. PICK h \in Nat : h = pic.h
  BY DEF IsPicture
<1>3. w >= 26 /\ h >= 26 /\ w \in Nat \ {0} /\ h \in Nat \ {0}
  BY <1>1, <1>2 DEF Minimum
<1>4. PICK c : c = pic.chroma
  OBVIOUS
<1>5. /\ Y_PLANE \in Planes(c) /\ pic.planes[Y_PLANE].w = w /\ pic.planes[Y_PLANE].h = h
      /\ IsPlane(pic.planes[Y_PLANE])
  <2>1. Y_PLANE \in Planes(c) /\ PlaneWidth(c, Y_PLANE, w) = w /\ PlaneHeight(c, Y_PLANE, h) = h
    BY <1>4, ChromaPlanes DEF PlaneWidth, PlaneHeight, Y_PLANE, U_PLANE, V_PLANE
  <2> QED BY <1>1, <1>2, <1>4, <2>1, PicturesAreDrawable DEF Drawable
<1>6. ASSUME NEW y, NEW x, OnMark(y, x, w, h)
      PROVE  <<y, x>> \in MarkCells(pic, Y_PLANE)
  <2>1. <<y, x>> \in WatermarkCells(pic.planes[Y_PLANE], w, h)
    BY <1>5, <1>6, OnMarkIsMarked
  <2> QED BY <1>1, <1>2, <2>1 DEF MarkCells, A_PLANE, Y_PLANE
<1>7. CASE c \in Packed
  <2>1. PICK y \in Int, x \in Int : Meet(y, x, w, h, 1, 1)
    BY <1>3, MarksMeetHalved
  <2>2. <<y, x>> \in MarkCells(pic, Y_PLANE)
    BY <1>6, <2>1 DEF Meet
  <2> QED BY <1>4, <1>7, <2>2 DEF Marked
<1>8. CASE c \notin Packed
  <2>1. /\ U_PLANE \in Planes(c) /\ IsPlane(pic.planes[U_PLANE])
        /\ pic.planes[U_PLANE].w = RoundedUp(w, StepX(c)) /\ pic.planes[U_PLANE].h = RoundedUp(h, StepY(c))
    <3>1. /\ U_PLANE \in Planes(c)
          /\ PlaneWidth(c, U_PLANE, w) = RoundedUp(w, StepX(c))
          /\ PlaneHeight(c, U_PLANE, h) = RoundedUp(h, StepY(c))
      BY <1>4, <1>8, ChromaPlanes DEF PlaneWidth, PlaneHeight
    <3> QED BY <1>1, <1>2, <1>4, <3>1, PicturesAreDrawable DEF Drawable
  <2>2. ASSUME NEW y, NEW x, OnMark(y, x, RoundedUp(w, StepX(c)), RoundedUp(h, StepY(c)))
        PROVE  <<y, x>> \in MarkCells(pic, U_PLANE)
    <3>1. <<y, x>> \in WatermarkCells(pic.planes[U_PLANE], pic.planes[U_PLANE].w, pic.planes[U_PLANE].h)
      BY <2>1, <2>2, OnMarkIsMarked
    <3> QED BY <3>1 DEF MarkCells, A_PLANE, Y_PLANE, U_PLANE
  <2>3. \E y \in Int, x \in Int : Meet(y, x, w, h, StepY(c), StepX(c))
    <3>1. CASE StepX(c) = 1 /\ StepY(c) = 1
      BY <1>3, <3>1, MarksMeetHalved
    <3>2. CASE StepX(c) = 1 /\ StepY(c) = 0
      BY <1>3, <3>2, MarksMeetNarrowed
    <3>3. CASE StepX(c) = 0 /\ StepY(c) = 0
      <4>1. PICK y \in Int, x \in Int : Meet(y, x, w, h, 1, 1)
        BY <1>3, MarksMeetHalved
      <4>2. RoundedUp(w, 0) = w /\ RoundedUp(h, 0) = h
        <5>1. w + 1 - 1 = w /\ h + 1 - 1 = h /\ w \div 1 = w /\ h \div 1 = h
          OBVIOUS
        <5> QED BY <5>1, Powers DEF RoundedUp
      <4>3. y \div 1 = y /\ x \div 1 = x
        OBVIOUS
      <4>4. Meet(y, x, w, h, 0, 0)
        BY <4>1, <4>2, <4>3, Powers DEF Meet
      <4> QED BY <3>3, <4>4
    <3> QED BY <3>1, <3>2, <3>3 DEF StepX, StepY
  <2>4. PICK y \in Int, x \in Int : Meet(y, x, w, h, StepY(c), StepX(c))
    BY <2>3
  <2>5. PICK cell : cell = <<y, x>>
    OBVIOUS
  <2>6. cell \in MarkCells(pic, Y_PLANE)
    BY <1>6, <2>4, <2>5 DEF Meet
  <2>7. ChromaCell(c, cell) = <<y \div PowerOfTwo(StepY(c)), x \div PowerOfTwo(StepX(c))>>
    BY <2>5 DEF ChromaCell
  <2>8. ChromaCell(c, cell) \in MarkCells(pic, U_PLANE)
    BY <2>2, <2>4, <2>7 DEF Meet
  <2> QED BY <1>4, <2>6, <2>8 DEF Marked
<1> QED BY <1>7, <1>8

LEMMA WarningShows == PixelInv => WarningIsRed
<1> SUFFICES ASSUME PixelInv, style = "warning", panel = <<>>, picture.chroma \in Packable \ Planar16
             PROVE  WarningIsRed
  BY DEF WarningIsRed
<1>1. Software /\ IsPicture(original) /\ picture = WarningWatermarkFrame(original)
  BY DEF PixelInv, BlockFrame
<1>2. SamePicture(picture, original)
  BY <1>1 DEF PixelInv
<1>3. /\ picture.chroma = original.chroma /\ picture.w = original.w /\ picture.h = original.h
      /\ original.w \in Nat \ {0} /\ original.h \in Nat \ {0}
  BY <1>1, <1>2 DEF SamePicture, IsPicture
<1>4. PICK c : c = picture.chroma
  OBVIOUS
<1>5. c \in Packable /\ c \notin Planar16 /\ c = original.chroma
  BY <1>3, <1>4
<1>6. DOMAIN original.planes = Planes(c) /\ Y_PLANE \in Planes(c) /\ (c \notin Packed => U_PLANE \in Planes(c))
  BY <1>1, <1>5, ChromaPlanes, PicturesAreDrawable
<1>7. /\ MarkCells(picture, Y_PLANE) = MarkCells(original, Y_PLANE)
      /\ c \notin Packed => MarkCells(picture, U_PLANE) = MarkCells(original, U_PLANE)
  BY <1>2, <1>6, MarksStay
<1> DEFINE chromaMark == IF c \in Packed THEN {} ELSE MarkCells(picture, U_PLANE)
           marked == {cell \in MarkCells(picture, Y_PLANE) :
                        c \in Packed \/ <<cell[1] \div PowerOfTwo(StepY(c)),
                                          cell[2] \div PowerOfTwo(StepX(c))>> \in chromaMark}
<1>8. \A cell : cell \in marked <=> Marked(original, cell)
  BY <1>5, <1>7 DEF Marked, ChromaCell
<1>9. ASSUME NEW cell \in marked
      PROVE  Red(Shown[cell])
  <2>1. Marked(original, cell)
    BY <1>8
  <2>2. Red(RGBAt(picture, cell))
    BY <1>1, <1>5, <2>1, WarningPixels
  <2>3. cell \in VisibleCells(original.planes[Y_PLANE])
    <3>1. MarkCells(original, Y_PLANE) \subseteq VisibleCells(original.planes[Y_PLANE])
      BY <1>1, <1>6, MarksOfPicture, PicturesAreDrawable
    <3> QED BY <2>1, <3>1 DEF Marked
  <2>4. cell \in Cells(picture)
    <3>1. <<0, 0>> \in Cells(original)
      BY <1>3 DEF Cells
    <3>2. VisibleCells(original.planes[Y_PLANE]) = Cells(original)
      BY <1>1, <1>5, <1>6, <3>1, SamplesVisible
    <3> QED BY <1>3, <2>3, <3>2 DEF Cells
  <2>5. Shown[cell] = RGBAt(picture, cell)
    BY <1>3, <2>4, ShownPixels DEF Shown
  <2> QED BY <2>2, <2>5
<1>10. ASSUME Minimum(picture.w, picture.h) >= 26
       PROVE  marked # {}
  <2>1. \E cell : Marked(original, cell)
    BY <1>1, <1>3, <1>5, <1>10, MarksMeet
  <2> QED BY <1>8, <2>1
<1> HIDE DEF marked
<1>11. WarningIsRed <=> /\ \A cell \in marked : Shown[cell][1] >= 200 /\ Shown[cell][2] < 60 /\ Shown[cell][3] < 60
                        /\ Minimum(picture.w, picture.h) >= 26 => marked # {}
  BY <1>4, Zenon DEF WarningIsRed, marked
<1> QED
  BY <1>9, <1>10, <1>11 DEF Red

\* In a picture of any size and any chroma but the wide planar ones the warning
\* is red wherever its luma and its chroma mark meet, and they do meet in every
\* picture of at least 26 by 26 (WarningWatermarkFrame).
THEOREM WarningIsSeen == Spec => []WarningIsRed
<1> QED
  BY InitPixels, PixelStep, WarningShows, PTL DEF Spec
=============================================================================
