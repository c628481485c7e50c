----------------------- MODULE PluginLifecycle_proofs -----------------------
(***************************************************************************)
(* Proofs about Open and Close (PluginLifecycle with DetectorCore) for any *)
(* number of instances in one process and of workers in each of them: what *)
(* an instance holds is what its structure names, in Open's every step, in *)
(* its failures and in Close, so that nothing is left behind; and nothing  *)
(* is taken away from a thread that still uses it.                         *)
(*                                                                         *)
(* A step is of one instance.  The invariant of an instance mentions only  *)
(* its own fields and the jobs of its own threads, so that the steps of    *)
(* the others keep it; what instances share, the environment and the       *)
(* runtime's statics, does not occur in it.                                *)
(***************************************************************************)
EXTENDS PluginLifecycle, TLAPS

-----------------------------------------------------------------------------
(***************************************************************************)
(* The core.                                                               *)
(***************************************************************************)
Stages == {"idle", "save", "swap", "resolve", "load", "loading", "session", "restore", "made"}

Jobs == [stage : Stages, saved : Providers \cup {NotSaved}, made : Providers \cup {NoDetector}]

\* A provider that is to be put back has been saved.
SavedToRestore ==
    \A c \in Creators : job[c].stage \in {"swap", "restore"} => job[c].saved \in Providers

CoreInv == CoreTypeOK /\ SavedToRestore

LEMMA JobTypes == CoreTypeOK => job \in [Creators -> Jobs]
  BY DEF CoreTypeOK, Jobs, Stages

LEMMA CreatorsOf ==
    /\ \A f \in Filters, w \in Nat : w \in 0..MaxWorkers[f] => <<f, w>> \in Creators
    /\ \A c \in Creators : \E f \in Filters : \E w \in 0..MaxWorkers[f] : c = <<f, w>>
  BY DEF Creators

LEMMA WorkersAreSome ==
    \A f \in Filters : MaxWorkers[f] \in Nat \ {0}
  BY CreatorsAssumption

\* A job begins, or its answer is taken: nobody else's job is touched.
LEMMA JobBegins ==
    ASSUME CoreTypeOK, NEW c \in Creators, NEW stage \in Stages, Begin(c, stage)
    PROVE  /\ job' \in [Creators -> Jobs]
           /\ job'[c].stage = stage
           /\ \A d \in Creators : d # c => job'[d] = job[d]
  <1>1. [NoJob EXCEPT !.stage = stage] \in Jobs /\ [NoJob EXCEPT !.stage = stage].stage = stage
    BY DEF NoJob, Jobs, Stages
  <1> QED  BY <1>1, JobTypes DEF Begin

LEMMA JobTaken ==
    ASSUME CoreTypeOK, NEW c \in Creators, Taken(c)
    PROVE  /\ job' \in [Creators -> Jobs]
           /\ job'[c] = NoJob
           /\ \A d \in Creators : d # c => job'[d] = job[d]
  <1>1. NoJob \in Jobs
    BY DEF NoJob, Jobs, Stages
  <1> QED  BY <1>1, JobTypes DEF Taken

\* The fields a step of a creation may change.
LEMMA ReturnIs ==
    ASSUME CoreTypeOK, NEW c \in Creators, NEW detector \in Providers \cup {NoDetector},
           Return(c, detector)
    PROVE  \E new \in Jobs :
             /\ job' = [job EXCEPT ![c] = new]
             /\ new.stage = IF job[c].saved = NotSaved THEN "made" ELSE "restore"
             /\ new.saved = job[c].saved
  <1> DEFINE new == [job[c] EXCEPT !.made = detector,
                                   !.stage = IF job[c].saved = NotSaved THEN "made" ELSE "restore"]
  <1>1. job \in [Creators -> Jobs] /\ job[c] \in Jobs
    BY JobTypes
  <1>2. new \in Jobs /\ new.saved = job[c].saved
        /\ new.stage = IF job[c].saved = NotSaved THEN "made" ELSE "restore"
    BY <1>1 DEF Jobs, Stages
  <1>3. job' = [job EXCEPT ![c] = new]
    BY <1>1 DEF Return
  <1> QED  BY <1>2, <1>3

LEMMA MoveToIs ==
    ASSUME CoreTypeOK, NEW c \in Creators, NEW stage \in Stages, MoveTo(c, stage)
    PROVE  \E new \in Jobs :
             /\ job' = [job EXCEPT ![c] = new]
             /\ new.stage = stage
             /\ new.saved = job[c].saved
  <1> DEFINE new == [job[c] EXCEPT !.stage = stage]
  <1>1. job \in [Creators -> Jobs] /\ job[c] \in Jobs
    BY JobTypes
  <1>2. new \in Jobs /\ new.saved = job[c].saved /\ new.stage = stage
    BY <1>1 DEF Jobs
  <1>3. job' = [job EXCEPT ![c] = new]
    BY <1>1 DEF MoveTo
  <1> QED  BY <1>2, <1>3

\* What a step of a creation does to the job: it was under way, and stays that of its thread.
LEMMA CreationStep ==
    ASSUME CoreInv, NEW c \in Creators, CreateStep(c)
    PROVE  /\ CoreInv'
           /\ job[c].stage # "idle"
           /\ \A d \in Creators : d # c => job'[d] = job[d]
  <1>1. job \in [Creators -> Jobs] /\ job[c] \in Jobs /\ provider \in Providers
    BY JobTypes DEF CoreInv, CoreTypeOK
  <1>2. job[c].stage # "idle"
    BY DEF CreateStep, SaveProvider, SwapProvider, ResolveModel, UseRuntime, LoadRuntime,
           OpenSession, RestoreProvider, At
  <1>3. \E new \in Jobs :
           /\ job' = [job EXCEPT ![c] = new]
           /\ new.stage \in {"swap", "restore"} => new.saved \in Providers
    <2>1. CASE SaveProvider(c) /\ job' = [job EXCEPT ![c].saved = provider, ![c].stage = "swap"]
      <3> DEFINE new == [job[c] EXCEPT !.saved = provider, !.stage = "swap"]
      <3>1. new \in Jobs /\ new.saved = provider
        BY <1>1 DEF Jobs, Stages
      <3>2. job' = [job EXCEPT ![c] = new]
        BY <1>1, <2>1
      <3> QED  BY <1>1, <3>1, <3>2
    <2>2. CASE \E stage \in Stages \ {"swap", "restore"} : MoveTo(c, stage)
      BY <2>2, MoveToIs DEF CoreInv
    <2>3. CASE \E detector \in Providers \cup {NoDetector} : Return(c, detector)
      <3>1. PICK new \in Jobs :
               /\ job' = [job EXCEPT ![c] = new]
               /\ new.stage = IF job[c].saved = NotSaved THEN "made" ELSE "restore"
               /\ new.saved = job[c].saved
        BY <2>3, ReturnIs DEF CoreInv
      <3>2. new.stage \in {"swap", "restore"} => new.saved \in Providers
        BY <1>1, <3>1 DEF Jobs
      <3> QED  BY <3>1, <3>2
    <2>4. Sessions \cup {NoDetector} \subseteq Providers \cup {NoDetector}
      BY <1>1 DEF Sessions, Providers
    <2>5. \/ SaveProvider(c) /\ job' = [job EXCEPT ![c].saved = provider, ![c].stage = "swap"]
          \/ \E stage \in Stages \ {"swap", "restore"} : MoveTo(c, stage)
          \/ \E detector \in Providers \cup {NoDetector} : Return(c, detector)
      <3>1. SaveProvider(c) => \/ job' = [job EXCEPT ![c].saved = provider, ![c].stage = "swap"]
                               \/ MoveTo(c, "made")
        BY DEF SaveProvider
      <3>2. SwapProvider(c) => MoveTo(c, "resolve")
        BY DEF SwapProvider
      <3>3. ResolveModel(c) => MoveTo(c, "load") \/ Return(c, NoDetector)
        BY DEF ResolveModel
      <3>4. UseRuntime(c) => MoveTo(c, "loading") \/ Return(c, NoDetector) \/ MoveTo(c, "session")
        BY DEF UseRuntime
      <3>5. LoadRuntime(c) => MoveTo(c, "session") \/ Return(c, NoDetector)
        BY DEF LoadRuntime
      <3>6. OpenSession(c) => \E detector \in Providers \cup {NoDetector} : Return(c, detector)
        BY <2>4 DEF OpenSession
      <3>7. RestoreProvider(c) => MoveTo(c, "made")
        BY DEF RestoreProvider
      <3>8. {"made", "resolve", "load", "loading", "session"} \subseteq Stages \ {"swap", "restore"}
        BY DEF Stages
      <3> QED  BY <3>1, <3>2, <3>3, <3>4, <3>5, <3>6, <3>7, <3>8 DEF CreateStep
    <2> QED  BY <2>1, <2>2, <2>3, <2>5
  <1>4. PICK new \in Jobs :
           /\ job' = [job EXCEPT ![c] = new]
           /\ new.stage \in {"swap", "restore"} => new.saved \in Providers
    BY <1>3
  <1>5. /\ job' \in [Creators -> Jobs]
        /\ job'[c] = new
        /\ \A d \in Creators : d # c => job'[d] = job[d]
    BY <1>1, <1>4
  <1>6. SavedToRestore'
    BY <1>4, <1>5 DEF SavedToRestore, CoreInv
  <1>7. /\ provider' \in Providers
        /\ ort' \in {"untried", "loading", "ready", "failed"}
        /\ setting' = setting /\ installed' = installed
    BY <1>1 DEF CreateStep, SaveProvider, SwapProvider, ResolveModel, UseRuntime, LoadRuntime,
           OpenSession, RestoreProvider, At, CoreInv, CoreTypeOK, SavedToRestore, Providers
  <1> QED  BY <1>2, <1>5, <1>6, <1>7 DEF CoreInv, CoreTypeOK, Jobs, Stages

-----------------------------------------------------------------------------
(***************************************************************************)
(* The invariant of an instance.                                           *)
(***************************************************************************)
Starting == {"slot", "create", "spawn"}
Serving == {"icon", "open", "fall", "join"}
Steps == Starting \cup Serving \cup
    {"absent", "backend", "map", "core", "size", "start", "own", "host", "sole", "judge", "release"}

ThreadStates == {"none", "create", "loop", "falling", "exited"}

\* Every field is kept for every instance.
Shape ==
    /\ DOMAIN pc = Filters /\ DOMAIN plan = Filters /\ DOMAIN at = Filters
    /\ DOMAIN named = Filters /\ DOMAIN slot = Filters /\ DOMAIN count = Filters
    /\ DOMAIN held = Filters /\ DOMAIN thread = Filters

\* What it holds is what its structure and its slots name, kind by kind.
Things(f) ==
    /\ named[f] \subseteq Pointers \cup Flags
    /\ slot[f] \in [Slots(f) -> SUBSET {"thread", "detector", "host"}]
    /\ held[f] \subseteq Kinds \X (0..MaxWorkers[f])
    /\ \A k \in Kinds : <<k, 0>> \in held[f] <=> k \in named[f]
    /\ \A w \in Slots(f), k \in Kinds : <<k, w>> \in held[f] <=> k \in slot[f][w]

Course(f) ==
    /\ pc[f] \in Steps
    /\ plan[f] \in [workers : 0..MaxWorkers[f], own : BOOLEAN, host : BOOLEAN]
    /\ at[f] \in 0..MaxWorkers[f]
    /\ count[f] \in 0..MaxWorkers[f]
    /\ thread[f] \in [Slots(f) -> ThreadStates]

\* The workers' array and lock live from their allocation to the end of the joins.
Names(f) ==
    /\ "lock" \in named[f] <=> "workers" \in named[f]
    /\ pc[f] \in Starting => "workers" \in named[f]
    /\ "workers" \in named[f] => pc[f] \in Starting \/ (pc[f] \in Serving /\ "running" \in named[f])
    /\ "running" \in named[f] => "workers" \in named[f] /\ pc[f] \in Serving
    /\ "stop" \in named[f] => pc[f] = "join"
    /\ pc[f] = "join" => "running" \in named[f]

NeedsCore(f) ==
    \/ pc[f] \in Starting \cup {"size", "start", "own", "host", "sole", "judge", "fall"}
    \/ "workers" \in named[f] \/ "host" \in named[f] \/ "detector" \in named[f]

\* What the first steps may have named, and what icop_core is needed for.
Early(f) ==
    /\ NeedsCore(f) => "core" \in named[f]
    /\ ~ ("backend" \in named[f] /\ "image" \in named[f])
    /\ pc[f] \in {"absent", "backend"} => named[f] = {}
    /\ pc[f] \in {"map", "core"} => named[f] \subseteq {"backend", "image", "opaque"}
    /\ pc[f] = "size" => named[f] \subseteq {"backend", "image", "opaque", "core"}

\* The slots in use are the first `count' ones, less those already joined, and the one in the works.
Filling(f) ==
    /\ \A w \in Slots(f) : slot[f][w] # {} =>
        \/ w <= count[f] /\ (pc[f] = "join" => at[f] < w)
        \/ pc[f] = "spawn" /\ w = count[f] + 1 /\ thread[f][w] = "none"
    /\ \A w \in Slots(f) : thread[f][w] # "none" <=> "thread" \in slot[f][w]
    /\ count[f] # 0 => "workers" \in named[f]

Counting(f) ==
    /\ pc[f] \in Starting => count[f] <= at[f] /\ at[f] <= plan[f].workers
    /\ pc[f] \in {"create", "spawn"} => at[f] < plan[f].workers
    /\ pc[f] = "join" => at[f] <= count[f]
    /\ pc[f] \notin Starting \cup {"join"} => at[f] = 0

\* A thread is inside icop_core only while the instance waits for it, or the worker runs.
JobsOf(f) ==
    /\ job[<<f, 0>>].stage # "idle" => pc[f] \in {"create", "judge", "fall"}
    /\ \A w \in Slots(f) : job[<<f, w>>].stage # "idle" => thread[f][w] \in {"create", "falling"}

Mine(f) ==
    Things(f) /\ Course(f) /\ Names(f) /\ Early(f) /\ Filling(f) /\ Counting(f) /\ JobsOf(f)

SharedTypes ==
    /\ windows \in BOOLEAN
    /\ mapped \in BOOLEAN

LifecycleInv == CoreInv /\ SharedTypes /\ Shape /\ \A f \in Filters : Mine(f)

-----------------------------------------------------------------------------
(***************************************************************************)
(* The steps of one instance leave the others alone.                       *)
(***************************************************************************)
Untouched(g) ==
    /\ pc'[g] = pc[g] /\ plan'[g] = plan[g] /\ at'[g] = at[g] /\ named'[g] = named[g]
    /\ slot'[g] = slot[g] /\ count'[g] = count[g] /\ held'[g] = held[g] /\ thread'[g] = thread[g]

SameJobs(g) == \A w \in 0..MaxWorkers[g] : job'[<<g, w>>] = job[<<g, w>>]

LEMMA UntouchedKeeps ==
    ASSUME NEW g \in Filters, Mine(g), Untouched(g), SameJobs(g)
    PROVE  Mine(g)'
  <1> USE DEF Untouched
  <1>1. Things(g)'
    BY DEF Mine, Things, Slots
  <1>2. Course(g)'
    BY DEF Mine, Course, Slots
  <1>3. Names(g)' /\ Early(g)'
    BY DEF Mine, Names, Early, NeedsCore
  <1>4. Filling(g)' /\ Counting(g)'
    BY DEF Mine, Filling, Counting, Slots
  <1>5. JobsOf(g)'
    BY WorkersAreSome DEF Mine, JobsOf, SameJobs, Slots
  <1> QED  BY <1>1, <1>2, <1>3, <1>4, <1>5 DEF Mine

-----------------------------------------------------------------------------
(***************************************************************************)
(* What is acquired and what is given back, in the structure and in a slot. *)
(***************************************************************************)
LEMMA Gained ==
    ASSUME NEW f \in Filters, Things(f),
           NEW kinds \in SUBSET Pointers, NEW flags \in SUBSET Flags,
           slot'[f] = slot[f],
           held'[f] = held[f] \cup Ress(kinds),
           named'[f] = (named[f] \cup kinds) \cup flags
    PROVE  Things(f)'
  <1>1. Ress(kinds) \subseteq Kinds \X (0..MaxWorkers[f])
    BY WorkersAreSome DEF Ress, Res, Kinds
  <1>2. \A k, w : <<k, w>> \in Ress(kinds) <=> k \in kinds /\ w = 0
    BY DEF Ress, Res
  <1>3. named'[f] \subseteq Pointers \cup Flags
    BY DEF Things
  <1>4. held'[f] \subseteq Kinds \X (0..MaxWorkers[f])
    BY <1>1 DEF Things
  <1>5. \A k \in Kinds : k \notin flags
    BY DEF Kinds, Pointers, Flags
  <1>6. \A k \in Kinds : <<k, 0>> \in held'[f] <=> k \in named'[f]
    BY <1>2, <1>5 DEF Things
  <1>7. \A w \in Slots(f), k \in Kinds : <<k, w>> \in held'[f] <=> k \in slot'[f][w]
    <2>1. \A w \in Slots(f) : w # 0
      BY WorkersAreSome DEF Slots
    <2> QED  BY <1>2, <2>1 DEF Things
  <1> QED  BY <1>3, <1>4, <1>6, <1>7 DEF Things, Slots

LEMMA GivenBack ==
    ASSUME NEW f \in Filters, Things(f),
           NEW kinds \in SUBSET Pointers, NEW flags \in SUBSET Flags,
           slot'[f] = slot[f],
           held'[f] = held[f] \ Ress(kinds),
           named'[f] = named[f] \ (kinds \cup flags)
    PROVE  Things(f)'
  <1>2. \A k, w : <<k, w>> \in Ress(kinds) <=> k \in kinds /\ w = 0
    BY DEF Ress, Res
  <1>3. named'[f] \subseteq Pointers \cup Flags
    BY DEF Things
  <1>4. held'[f] \subseteq Kinds \X (0..MaxWorkers[f])
    BY DEF Things
  <1>5. \A k \in Kinds : k \notin flags
    BY DEF Kinds, Pointers, Flags
  <1>6. \A k \in Kinds : <<k, 0>> \in held'[f] <=> k \in named'[f]
    BY <1>2, <1>5 DEF Things
  <1>7. \A w \in Slots(f), k \in Kinds : <<k, w>> \in held'[f] <=> k \in slot'[f][w]
    <2>1. \A w \in Slots(f) : w # 0
      BY WorkersAreSome DEF Slots
    <2> QED  BY <1>2, <2>1 DEF Things
  <1> QED  BY <1>3, <1>4, <1>6, <1>7 DEF Things, Slots

\* Only a flag is set, or nothing changes.
LEMMA Marked ==
    ASSUME NEW f \in Filters, Things(f), NEW flags \in SUBSET Flags,
           slot'[f] = slot[f], held'[f] = held[f], named'[f] = named[f] \cup flags
    PROVE  Things(f)'
  <1>1. \A k \in Kinds : k \notin flags
    BY DEF Kinds, Pointers, Flags
  <1> QED  BY <1>1 DEF Things, Slots

LEMMA Filled ==
    ASSUME NEW f \in Filters, Things(f), NEW w \in Slots(f),
           NEW kind \in {"thread", "detector", "host"},
           named'[f] = named[f],
           slot'[f] = [slot[f] EXCEPT ![w] = slot[f][w] \cup {kind}],
           held'[f] = held[f] \cup {<<kind, w>>}
    PROVE  Things(f)'
  <1>1. w # 0 /\ w \in 0..MaxWorkers[f] /\ kind \in Kinds
    BY WorkersAreSome DEF Slots, Kinds, Pointers
  <1>2. slot'[f] \in [Slots(f) -> SUBSET {"thread", "detector", "host"}]
    BY DEF Things
  <1>3. held'[f] \subseteq Kinds \X (0..MaxWorkers[f])
    BY <1>1 DEF Things
  <1>4. \A k \in Kinds : <<k, 0>> \in held'[f] <=> k \in named'[f]
    BY <1>1 DEF Things
  <1>5. \A v \in Slots(f), k \in Kinds : <<k, v>> \in held'[f] <=> k \in slot'[f][v]
    <2>1. slot'[f][w] = slot[f][w] \cup {kind} /\ \A v \in Slots(f) : v # w => slot'[f][v] = slot[f][v]
      BY DEF Things
    <2>2. \A k, v : <<k, v>> \in held'[f] <=> <<k, v>> \in held[f] \/ (k = kind /\ v = w)
      OBVIOUS
    <2> QED  BY <2>1, <2>2 DEF Things
  <1> QED  BY <1>2, <1>3, <1>4, <1>5 DEF Things, Slots

LEMMA Dropped ==
    ASSUME NEW f \in Filters, Things(f), NEW w \in Slots(f), NEW kinds \in SUBSET slot[f][w],
           named'[f] = named[f],
           slot'[f] = [slot[f] EXCEPT ![w] = slot[f][w] \ kinds],
           held'[f] = held[f] \ {<<kind, w>> : kind \in kinds}
    PROVE  Things(f)'
  <1>1. w # 0
    BY WorkersAreSome DEF Slots
  <1>2. slot'[f] \in [Slots(f) -> SUBSET {"thread", "detector", "host"}]
    BY DEF Things
  <1>3. held'[f] \subseteq Kinds \X (0..MaxWorkers[f])
    BY DEF Things
  <1>4. \A k, v : <<k, v>> \in {<<kind, w>> : kind \in kinds} <=> k \in kinds /\ v = w
    OBVIOUS
  <1>5. \A k \in Kinds : <<k, 0>> \in held'[f] <=> k \in named'[f]
    BY <1>1, <1>4 DEF Things
  <1>6. \A v \in Slots(f), k \in Kinds : <<k, v>> \in held'[f] <=> k \in slot'[f][v]
    BY <1>4 DEF Things
  <1> QED  BY <1>2, <1>3, <1>5, <1>6 DEF Things, Slots

-----------------------------------------------------------------------------
(***************************************************************************)
(* The parts every step of an instance has to show.                        *)
(***************************************************************************)
OthersAlone(f) == Shape' /\ \A g \in Filters \ {f} : Untouched(g)

OrtStates == {"untried", "loading", "ready", "failed"}

\* What a step of an instance may do to the core: at most one job of its own begins or ends.
CoreMoves(f, w) ==
    /\ job' = job \/ AskDetector(<<f, w>>) \/ AskCpuFallback(<<f, w>>) \/ Taken(<<f, w>>)
    /\ provider' \in Providers /\ ort' \in OrtStates
    /\ setting' = setting /\ installed' = installed
    /\ windows' = windows /\ mapped' = mapped

LEMMA StepKeeps ==
    ASSUME LifecycleInv, NEW f \in Filters, OthersAlone(f),
           NEW w \in 0..MaxWorkers[f], CoreMoves(f, w), Mine(f)'
    PROVE  LifecycleInv'
  <1>1. <<f, w>> \in Creators
    BY CreatorsOf, WorkersAreSome
  <1>2. CoreTypeOK /\ SavedToRestore
    BY DEF LifecycleInv, CoreInv
  <1>3. /\ job' \in [Creators -> Jobs]
        /\ \A c \in Creators : c # <<f, w>> => job'[c] = job[c]
        /\ job'[<<f, w>>] = job[<<f, w>>] \/ job'[<<f, w>>].stage \in {"idle", "save", "resolve"}
    <2>1. CASE job' = job
      BY <1>2, <2>1, JobTypes
    <2>2. CASE Begin(<<f, w>>, "resolve")
      <3>1. "resolve" \in Stages
        BY DEF Stages
      <3> QED  BY <1>1, <1>2, <2>2, <3>1, JobBegins
    <2>3. CASE Begin(<<f, w>>, "save")
      <3>1. "save" \in Stages
        BY DEF Stages
      <3> QED  BY <1>1, <1>2, <2>3, <3>1, JobBegins
    <2>4. CASE Taken(<<f, w>>)
      BY <1>1, <1>2, <2>4, JobTaken DEF NoJob
    <2> QED  BY <2>1, <2>2, <2>3, <2>4 DEF CoreMoves, AskDetector, AskCpuFallback
  <1>4. SavedToRestore'
    BY <1>2, <1>3 DEF SavedToRestore
  <1>5. CoreTypeOK'
    BY <1>2, <1>3 DEF CoreTypeOK, CoreMoves, Jobs, Stages, OrtStates
  <1>6. SharedTypes'
    BY DEF SharedTypes, LifecycleInv, CoreMoves
  <1>7. ASSUME NEW g \in Filters \ {f}
        PROVE  Mine(g)'
    <2>1. \A v \in 0..MaxWorkers[g] : <<g, v>> \in Creators /\ <<g, v>> # <<f, w>>
      BY CreatorsOf, WorkersAreSome
    <2>2. SameJobs(g)
      BY <1>3, <2>1 DEF SameJobs
    <2> QED  BY <2>2, UntouchedKeeps DEF OthersAlone, LifecycleInv
  <1> QED  BY <1>4, <1>5, <1>6, <1>7 DEF LifecycleInv, CoreInv, OthersAlone

\* A creation goes on: an invariant of an instance asks only whether it is under way.
LEMMA CreationKeeps ==
    ASSUME LifecycleInv, Creation
    PROVE  LifecycleInv'
  <1>1. PICK c \in Creators : CreationOf(c)
    BY DEF Creation
  <1>2. /\ CoreInv'
        /\ job[c].stage # "idle"
        /\ \A d \in Creators : d # c => job'[d] = job[d]
    BY <1>1, CreationStep DEF CreationOf, LifecycleInv
  <1>3. ASSUME NEW g \in Filters
        PROVE  Mine(g)'
    <2>1. Mine(g)
      BY DEF LifecycleInv
    <2>2. Untouched(g)
      BY <1>1 DEF CreationOf, sysVars, Untouched
    <2>3. Things(g)' /\ Course(g)' /\ Names(g)' /\ Early(g)' /\ Filling(g)' /\ Counting(g)'
      BY <1>1, <2>1 DEF CreationOf, sysVars, Mine, Things, Course, Names, Early, NeedsCore, Filling,
         Counting, Slots
    <2>4. \A w \in 0..MaxWorkers[g] :
             job'[<<g, w>>].stage # "idle" => job[<<g, w>>].stage # "idle"
      BY <1>2, CreatorsOf, WorkersAreSome
    <2>5. JobsOf(g)'
      BY <1>1, <2>1, <2>4, WorkersAreSome DEF Mine, JobsOf, Slots, CreationOf, sysVars
    <2> QED  BY <2>3, <2>5 DEF Mine
  <1> QED  BY <1>1, <1>2, <1>3 DEF LifecycleInv, CreationOf, SharedTypes, Shape, sysVars

\* Without the workers' array no slot is in use, but while a first worker is spawned.
LEMMA NoWorkers ==
    ASSUME NEW f \in Filters, Mine(f), "workers" \notin named[f]
    PROVE  /\ count[f] = 0
           /\ \A w \in Slots(f) : slot[f][w] = {} /\ thread[f][w] = "none"
           /\ \A w \in Slots(f) : job[<<f, w>>].stage = "idle"
  <1>1. count[f] = 0 /\ pc[f] \notin Starting
    BY DEF Mine, Filling, Names
  <1>2. \A w \in Slots(f) : slot[f][w] = {}
    BY <1>1, WorkersAreSome DEF Mine, Filling, Slots, Starting
  <1>3. \A w \in Slots(f) : thread[f][w] = "none"
    BY <1>2 DEF Mine, Filling
  <1> QED  BY <1>1, <1>2, <1>3 DEF Mine, JobsOf

\* The stages at which the structure can be freed: no workers, no thread, no job.
LEMMA Idle ==
    ASSUME NEW f \in Filters, Mine(f), pc[f] \in {"absent", "backend", "map", "core", "size", "release"}
    PROVE  /\ "workers" \notin named[f] /\ "lock" \notin named[f]
           /\ count[f] = 0
           /\ \A w \in Slots(f) : slot[f][w] = {} /\ thread[f][w] = "none"
           /\ \A w \in 0..MaxWorkers[f] : job[<<f, w>>].stage = "idle"
  <1>1. "workers" \notin named[f] /\ "lock" \notin named[f]
    BY DEF Mine, Names, Starting, Serving
  <1>2. job[<<f, 0>>].stage = "idle"
    BY DEF Mine, JobsOf
  <1>3. \A w \in 0..MaxWorkers[f] : w = 0 \/ w \in Slots(f)
    BY WorkersAreSome DEF Slots
  <1> QED  BY <1>1, <1>2, <1>3, NoWorkers

\* free(p_sys)
LEMMA Freed ==
    ASSUME LifecycleInv, NEW f \in Filters, NEW left, FreeSys(f, left),
           pc[f] \in {"backend", "map", "size", "release"},
           UNCHANGED <<job, thread>>
    PROVE  Mine(f)' /\ OthersAlone(f)
  <1>1. Mine(f) /\ Shape
    BY DEF LifecycleInv
  <1>2. /\ pc'[f] = "absent" /\ plan'[f] = NoPlan /\ at'[f] = 0 /\ named'[f] = {}
        /\ slot'[f] = NoSlots(f) /\ count'[f] = 0 /\ held'[f] = {} /\ thread'[f] = thread[f]
    BY <1>1 DEF FreeSys, Shape
  <1>3. OthersAlone(f)
    BY <1>1 DEF FreeSys, OthersAlone, Shape, Untouched
  <1>4. /\ \A w \in Slots(f) : slot[f][w] = {} /\ thread[f][w] = "none"
        /\ \A w \in 0..MaxWorkers[f] : job[<<f, w>>].stage = "idle"
    BY <1>1, Idle
  <1>5. \A w \in Slots(f) : slot'[f][w] = {}
    BY <1>2 DEF NoSlots
  <1>6. Things(f)'
    BY <1>2, <1>5 DEF Things, NoSlots, Slots
  <1>7. Course(f)'
    BY <1>1, <1>2, WorkersAreSome DEF Course, Mine, NoPlan, Steps, Slots
  <1>8. Names(f)' /\ Early(f)' /\ Counting(f)'
    BY <1>2 DEF Names, Early, NeedsCore, Counting, Starting, Serving
  <1>9. Filling(f)'
    BY <1>2, <1>4, <1>5 DEF Filling, Slots
  <1>10. JobsOf(f)'
    <2>1. \A w \in Slots(f) : w \in 0..MaxWorkers[f]
      BY WorkersAreSome DEF Slots
    <2> QED  BY <1>4, <2>1, WorkersAreSome DEF JobsOf, Slots
  <1> QED  BY <1>3, <1>6, <1>7, <1>8, <1>9, <1>10 DEF Mine

-----------------------------------------------------------------------------
(***************************************************************************)
(* Open, up to the detectors.                                              *)
(***************************************************************************)
LEMMA ZeroIsACreator ==
    ASSUME NEW f \in Filters
    PROVE  0 \in 0..MaxWorkers[f]
  <1>1. MaxWorkers[f] \in Nat
    BY WorkersAreSome
  <1> QED  BY <1>1

\* A step that only moves on and names something, without workers before or after.
LEMMA EarlyStepKeeps ==
    ASSUME LifecycleInv, NEW f \in Filters, OthersAlone(f), Things(f)',
           pc[f] \in {"absent", "backend", "map", "core", "size", "release"},
           pc'[f] \in Steps \ (Starting \cup {"join"}),
           "workers" \notin named'[f], "lock" \notin named'[f], 
           "running" \notin named'[f], "stop" \notin named'[f],
           Early(f)',
           plan'[f] = plan[f], at'[f] = at[f], slot'[f] = slot[f], count'[f] = count[f],
           UNCHANGED <<job, thread>>
    PROVE  Mine(f)'
  <1>1. Mine(f)
    BY DEF LifecycleInv
  <1>2. /\ count[f] = 0
        /\ \A w \in Slots(f) : slot[f][w] = {} /\ thread[f][w] = "none"
        /\ \A w \in 0..MaxWorkers[f] : job[<<f, w>>].stage = "idle"
    BY <1>1, Idle
  <1>3. Course(f)'
    BY <1>1 DEF Mine, Course, Slots
  <1>4. Names(f)'
    BY DEF Names, Starting
  <1>5. Filling(f)'
    BY <1>2 DEF Filling, Slots
  <1>6. Counting(f)'
    BY <1>1 DEF Mine, Counting, Starting
  <1>7. JobsOf(f)'
    <2>1. \A w \in Slots(f) : w \in 0..MaxWorkers[f]
      BY WorkersAreSome DEF Slots
    <2> QED  BY <1>2, <2>1, ZeroIsACreator DEF JobsOf, Slots
  <1> QED  BY <1>3, <1>4, <1>5, <1>6, <1>7 DEF Mine

LEMMA OpenCallKeeps ==
    ASSUME LifecycleInv, NEW f \in Filters, OpenCall(f)
    PROVE  LifecycleInv'
  <1>1. Mine(f) /\ Shape /\ CoreTypeOK
    BY DEF LifecycleInv, CoreInv
  <1>2. /\ pc[f] = "absent" /\ pc'[f] = "backend" /\ plan'[f] = plan[f] /\ at'[f] = at[f]
        /\ named'[f] = named[f] /\ slot'[f] = slot[f] /\ count'[f] = count[f] /\ held'[f] = held[f]
    BY <1>1 DEF OpenCall, GoOn, sysVars, Shape
  <1>3. OthersAlone(f)
    BY <1>1 DEF OpenCall, GoOn, sysVars, OthersAlone, Shape, Untouched
  <1>4. CoreMoves(f, 0)
    BY <1>1 DEF OpenCall, CoreMoves, CoreTypeOK, OrtStates
  <1>5. Things(f)'
    BY <1>1, <1>2 DEF Mine, Things, Slots
  <1>6. Early(f)' /\ named'[f] = {}
    BY <1>1, <1>2 DEF Mine, Early, NeedsCore, Starting
  <1>7. Mine(f)'
    BY <1>2, <1>3, <1>5, <1>6, EarlyStepKeeps DEF Steps, Starting, OpenCall
  <1> QED  BY <1>3, <1>4, <1>7, StepKeeps, ZeroIsACreator

LEMMA ChooseBackendKeeps ==
    ASSUME LifecycleInv, NEW f \in Filters, ChooseBackend(f)
    PROVE  LifecycleInv'
  <1>1. Mine(f) /\ Shape /\ CoreTypeOK
    BY DEF LifecycleInv, CoreInv
  <1>2. CoreMoves(f, 0) /\ UNCHANGED <<job, thread>> /\ pc[f] = "backend" /\ named[f] = {}
    BY <1>1 DEF ChooseBackend, CoreMoves, CoreTypeOK, OrtStates, coreVars, Mine, Early
  <1>3. CASE DeclineInput(f)
    <2>1. Mine(f)' /\ OthersAlone(f)
      BY <1>2, <1>3, Freed DEF DeclineInput
    <2> QED  BY <1>2, <2>1, StepKeeps, ZeroIsACreator
  <1>4. CASE SoftwareInput(f) \/ OpenBackend(f) \/ OpenConverter(f)
    <2>1. /\ pc'[f] = "map" /\ plan'[f] = plan[f] /\ at'[f] = at[f]
          /\ slot'[f] = slot[f] /\ count'[f] = count[f]
      BY <1>1, <1>4 DEF SoftwareInput, OpenBackend, OpenConverter, GoOn, sysVars, Shape
    <2>2. OthersAlone(f)
      BY <1>1, <1>2, <1>4 DEF SoftwareInput, OpenBackend, OpenConverter, Acquire, GoOn, sysVars,
         OthersAlone, Shape, Untouched
    <2>3. Things(f)' /\ named'[f] \in {{}, {"backend"}, {"image", "opaque"}}
      <3>1. CASE SoftwareInput(f)
        <4>1. held'[f] = held[f] /\ named'[f] = {}
          BY <1>2, <3>1 DEF SoftwareInput, sysVars
        <4> QED  BY <1>1, <1>2, <2>1, <4>1 DEF Mine, Things, Slots
      <3>2. CASE OpenBackend(f)
        <4>1. held'[f] = held[f] \cup Ress({"backend"}) /\ named'[f] = (named[f] \cup {"backend"}) \cup {}
          BY <1>1, <3>2 DEF OpenBackend, Acquire, Shape
        <4>2. {"backend"} \in SUBSET Pointers /\ {} \in SUBSET Flags /\ Things(f)
          BY <1>1 DEF Pointers, Mine
        <4>3. Things(f)'
          BY <2>1, <4>1, <4>2, Gained
        <4> QED  BY <1>2, <4>1, <4>3
      <3>3. CASE OpenConverter(f)
        <4>1. /\ held'[f] = held[f] \cup Ress({"image"})
              /\ named'[f] = (named[f] \cup {"image"}) \cup {"opaque"}
          BY <1>1, <3>3 DEF OpenConverter, Ress, Shape
        <4>2. {"image"} \in SUBSET Pointers /\ {"opaque"} \in SUBSET Flags /\ Things(f)
          BY <1>1 DEF Pointers, Flags, Mine
        <4>3. Things(f)'
          BY <2>1, <4>1, <4>2, Gained
        <4> QED  BY <1>2, <4>1, <4>3
      <3> QED  BY <1>4, <3>1, <3>2, <3>3
    <2>4. Early(f)'
      BY <2>1, <2>3 DEF Early, NeedsCore, Starting
    <2>5. Mine(f)'
      BY <1>2, <2>1, <2>2, <2>3, <2>4, EarlyStepKeeps DEF Steps, Starting
    <2> QED  BY <1>2, <2>2, <2>5, StepKeeps, ZeroIsACreator
  <1> QED  BY <1>3, <1>4 DEF ChooseBackend

LEMMA ChooseMapKeeps ==
    ASSUME LifecycleInv, NEW f \in Filters, ChooseMap(f)
    PROVE  LifecycleInv'
  <1>1. Mine(f) /\ Shape /\ CoreTypeOK
    BY DEF LifecycleInv, CoreInv
  <1>2. CoreMoves(f, 0) /\ UNCHANGED <<job, thread>> /\ pc[f] = "map"
    BY <1>1 DEF ChooseMap, CoreMoves, CoreTypeOK, OrtStates, coreVars
  <1>3. named[f] \subseteq {"backend", "image", "opaque"} /\ ~ ("backend" \in named[f] /\ "image" \in named[f])
    BY <1>1, <1>2 DEF Mine, Early
  <1>4. CASE FreeSys(f, held[f])
    <2>1. Mine(f)' /\ OthersAlone(f)
      BY <1>2, <1>4, Freed
    <2> QED  BY <1>2, <2>1, StepKeeps, ZeroIsACreator
  <1>5. CASE GoOn(f, "core") /\ UNCHANGED <<sysVars, held, lost>>
    <2>1. /\ pc'[f] = "core" /\ plan'[f] = plan[f] /\ at'[f] = at[f] /\ named'[f] = named[f]
          /\ slot'[f] = slot[f] /\ count'[f] = count[f] /\ held'[f] = held[f]
      BY <1>1, <1>5 DEF GoOn, sysVars, Shape
    <2>2. OthersAlone(f)
      BY <1>1, <1>2, <1>5 DEF GoOn, sysVars, OthersAlone, Shape, Untouched
    <2>3. Things(f)'
      BY <1>1, <2>1 DEF Mine, Things, Slots
    <2>4. Early(f)'
      BY <1>3, <2>1 DEF Early, NeedsCore, Starting
    <2>5. Mine(f)'
      BY <1>2, <1>3, <2>1, <2>2, <2>3, <2>4, EarlyStepKeeps DEF Steps, Starting
    <2> QED  BY <1>2, <2>2, <2>5, StepKeeps, ZeroIsACreator
  <1>6. CASE Acquire(f, {"paths"}) /\ GoOn(f, "icon") /\ UNCHANGED <<plan, at, slot, count, lost>>
    <2>1. /\ pc'[f] = "icon" /\ plan'[f] = plan[f] /\ at'[f] = at[f]
          /\ slot'[f] = slot[f] /\ count'[f] = count[f]
          /\ held'[f] = held[f] \cup Ress({"paths"}) /\ named'[f] = (named[f] \cup {"paths"}) \cup {}
      BY <1>1, <1>6 DEF GoOn, Acquire, Shape
    <2>2. OthersAlone(f)
      BY <1>1, <1>2, <1>6 DEF GoOn, Acquire, OthersAlone, Shape, Untouched
    <2>3. {"paths"} \in SUBSET Pointers /\ {} \in SUBSET Flags /\ Things(f)
      BY <1>1 DEF Pointers, Mine
    <2>4. Things(f)'
      BY <2>1, <2>3, Gained
    <2>5. Early(f)'
      BY <1>3, <2>1 DEF Early, NeedsCore, Starting
    <2>6. Mine(f)'
      BY <1>2, <1>3, <2>1, <2>2, <2>4, <2>5, EarlyStepKeeps DEF Steps, Starting, Serving
    <2> QED  BY <1>2, <2>2, <2>6, StepKeeps, ZeroIsACreator
  <1> QED  BY <1>4, <1>5, <1>6 DEF ChooseMap

LEMMA LoadCoreKeeps ==
    ASSUME LifecycleInv, NEW f \in Filters, LoadCore(f)
    PROVE  LifecycleInv'
  <1>1. Mine(f) /\ Shape /\ CoreTypeOK
    BY DEF LifecycleInv, CoreInv
  <1>2. CoreMoves(f, 0) /\ UNCHANGED <<job, thread>> /\ pc[f] = "core"
    BY <1>1 DEF LoadCore, CoreMoves, CoreTypeOK, OrtStates, coreVars
  <1>3. named[f] \subseteq {"backend", "image", "opaque"} /\ ~ ("backend" \in named[f] /\ "image" \in named[f])
    BY <1>1, <1>2 DEF Mine, Early
  <1>4. OthersAlone(f)
    BY <1>1, <1>2 DEF LoadCore, Acquire, GoOn, OthersAlone, Shape, Untouched
  <1>5. /\ plan'[f] = plan[f] /\ at'[f] = at[f] /\ slot'[f] = slot[f] /\ count'[f] = count[f]
    BY DEF LoadCore
  <1>6. \/ pc'[f] = "size" /\ held'[f] = held[f] \cup Ress({"core"}) /\ named'[f] = (named[f] \cup {"core"}) \cup {}
        \/ pc'[f] = "icon" /\ held'[f] = held[f] /\ named'[f] = named[f]
    BY <1>1 DEF LoadCore, Acquire, GoOn, Shape
  <1>7. Things(f)'
    <2>1. CASE held'[f] = held[f] /\ named'[f] = named[f]
      BY <1>1, <1>5, <2>1 DEF Mine, Things, Slots
    <2>2. CASE held'[f] = held[f] \cup Ress({"core"}) /\ named'[f] = (named[f] \cup {"core"}) \cup {}
      <3>1. {"core"} \in SUBSET Pointers /\ {} \in SUBSET Flags /\ Things(f)
        BY <1>1 DEF Pointers, Mine
      <3> QED  BY <1>5, <2>2, <3>1, Gained
    <2> QED  BY <1>6, <2>1, <2>2
  <1>8. Early(f)'
    BY <1>3, <1>6 DEF Early, NeedsCore, Starting
  <1>9. Mine(f)'
    BY <1>2, <1>3, <1>4, <1>5, <1>6, <1>7, <1>8, EarlyStepKeeps DEF Steps, Starting, Serving
  <1> QED  BY <1>2, <1>4, <1>9, StepKeeps, ZeroIsACreator

LEMMA SizeBackendKeeps ==
    ASSUME LifecycleInv, NEW f \in Filters, SizeBackend(f)
    PROVE  LifecycleInv'
  <1>1. Mine(f) /\ Shape /\ CoreTypeOK
    BY DEF LifecycleInv, CoreInv
  <1>2. CoreMoves(f, 0) /\ UNCHANGED <<job, thread>> /\ pc[f] = "size"
    BY <1>1 DEF SizeBackend, UnloadCore, CoreUnloaded, CoreMoves, CoreTypeOK, OrtStates
  <1>3. /\ named[f] \subseteq {"backend", "image", "opaque", "core"} /\ "core" \in named[f]
        /\ ~ ("backend" \in named[f] /\ "image" \in named[f])
    BY <1>1, <1>2 DEF Mine, Early, NeedsCore
  <1>4. CASE \E left : FreeSys(f, left)
    <2>1. Mine(f)' /\ OthersAlone(f)
      BY <1>2, <1>4, Freed
    <2> QED  BY <1>2, <2>1, StepKeeps, ZeroIsACreator
  <1>5. CASE (GoOn(f, "sole") \/ GoOn(f, "start")) /\ UNCHANGED <<sysVars, held, lost, ort>>
    <2>1. /\ pc'[f] \in {"sole", "start"} /\ plan'[f] = plan[f] /\ at'[f] = at[f] /\ named'[f] = named[f]
          /\ slot'[f] = slot[f] /\ count'[f] = count[f] /\ held'[f] = held[f]
      BY <1>1, <1>5 DEF GoOn, sysVars, Shape
    <2>2. OthersAlone(f)
      BY <1>1, <1>2, <1>5 DEF GoOn, sysVars, OthersAlone, Shape, Untouched
    <2>3. Things(f)'
      BY <1>1, <2>1 DEF Mine, Things, Slots
    <2>4. Early(f)'
      BY <1>3, <2>1 DEF Early, NeedsCore, Starting
    <2>5. Mine(f)'
      BY <1>2, <1>3, <2>1, <2>2, <2>3, <2>4, EarlyStepKeeps DEF Steps, Starting, Serving
    <2> QED  BY <1>2, <2>2, <2>5, StepKeeps, ZeroIsACreator
  <1> QED  BY <1>4, <1>5 DEF SizeBackend

-----------------------------------------------------------------------------
(***************************************************************************)
(* StartDetectorWorker.                                                    *)
(***************************************************************************)
Plans(f) == [workers : 0..MaxWorkers[f], own : BOOLEAN, host : BOOLEAN]

LEMMA NoPlanIsAPlan ==
    ASSUME NEW f \in Filters
    PROVE  NoPlan \in Plans(f)
  BY ZeroIsACreator DEF NoPlan, Plans

\* The job of one thread is none of the other threads'.
LEMMA OneJob ==
    ASSUME LifecycleInv, NEW f \in Filters, NEW w \in 0..MaxWorkers[f],
           job' = job \/ AskDetector(<<f, w>>) \/ AskCpuFallback(<<f, w>>) \/ Taken(<<f, w>>)
    PROVE  /\ \A v \in 0..MaxWorkers[f] : v # w => job'[<<f, v>>] = job[<<f, v>>]
           /\ Taken(<<f, w>>) => job'[<<f, w>>].stage = "idle"
  <1>1. CoreTypeOK /\ <<f, w>> \in Creators
    BY CreatorsOf, WorkersAreSome DEF LifecycleInv, CoreInv
  <1>2. \A v \in 0..MaxWorkers[f] : <<f, v>> \in Creators /\ (v # w => <<f, v>> # <<f, w>>)
    BY CreatorsOf, WorkersAreSome
  <1>3. CASE job' = job /\ ~ Taken(<<f, w>>)
    BY <1>3
  <1>4. CASE Begin(<<f, w>>, "resolve") /\ ~ Taken(<<f, w>>)
    <2>1. "resolve" \in Stages
      BY DEF Stages
    <2> QED  BY <1>1, <1>2, <1>4, <2>1, JobBegins
  <1>5. CASE Begin(<<f, w>>, "save") /\ ~ Taken(<<f, w>>)
    <2>1. "save" \in Stages
      BY DEF Stages
    <2> QED  BY <1>1, <1>2, <1>5, <2>1, JobBegins
  <1>6. CASE Taken(<<f, w>>)
    BY <1>1, <1>2, <1>6, JobTaken DEF NoJob
  <1> QED  BY <1>3, <1>4, <1>5, <1>6 DEF AskDetector, AskCpuFallback

LEMMA SlotsAreCreators ==
    ASSUME NEW f \in Filters
    PROVE  \A w \in Slots(f) : w \in 0..MaxWorkers[f] /\ w # 0
  BY WorkersAreSome DEF Slots

LEMMA OpenerJob ==
    ASSUME LifecycleInv, NEW f \in Filters,
           job' = job \/ AskDetector(<<f, 0>>) \/ AskCpuFallback(<<f, 0>>) \/ Taken(<<f, 0>>)
    PROVE  /\ \A w \in Slots(f) : job'[<<f, w>>] = job[<<f, w>>]
           /\ Taken(<<f, 0>>) => job'[<<f, 0>>].stage = "idle"
  BY OneJob, ZeroIsACreator, SlotsAreCreators

LEMMA CountWorkersKeeps ==
    ASSUME LifecycleInv, NEW f \in Filters, CountWorkers(f)
    PROVE  LifecycleInv'
  <1>1. Mine(f) /\ Shape /\ CoreTypeOK
    BY DEF LifecycleInv, CoreInv
  <1>2. CoreMoves(f, 0) /\ UNCHANGED <<job, thread>> /\ pc[f] = "start"
    BY <1>1 DEF CountWorkers, CoreMoves, CoreTypeOK, OrtStates, coreVars
  <1>3. OthersAlone(f)
    BY <1>1, <1>2 DEF CountWorkers, GoOn, OthersAlone, Shape, Untouched
  <1>4. /\ pc'[f] = "own" /\ at'[f] = at[f] /\ named'[f] = named[f]
        /\ slot'[f] = slot[f] /\ count'[f] = count[f] /\ held'[f] = held[f]
    BY <1>1 DEF CountWorkers, GoOn, Shape
  <1>5. plan'[f] \in Plans(f)
    <2>1. PICK n \in Desired(f) : plan' = [plan EXCEPT ![f].workers = n]
      BY DEF CountWorkers
    <2>2. n \in 0..MaxWorkers[f]
      BY <2>1, WorkersAreSome DEF Desired, Slots
    <2>3. plan'[f] = [plan[f] EXCEPT !.workers = n]
      BY <1>1, <2>1 DEF Shape
    <2>4. plan[f] \in Plans(f)
      BY <1>1 DEF Mine, Course, Plans
    <2> QED  BY <2>2, <2>3, <2>4 DEF Plans
  <1>6. Things(f)'
    BY <1>1, <1>4 DEF Mine, Things, Slots
  <1>7. Course(f)'
    BY <1>1, <1>2, <1>4, <1>5 DEF Mine, Course, Plans, Slots, Steps
  <1>8. Names(f)' /\ Early(f)'
    BY <1>1, <1>2, <1>4 DEF Mine, Names, Early, NeedsCore, Starting, Serving
  <1>9. Filling(f)' /\ Counting(f)'
    BY <1>1, <1>2, <1>4 DEF Mine, Filling, Counting, Slots, Starting
  <1>10. JobsOf(f)'
    BY <1>1, <1>2, <1>4 DEF Mine, JobsOf, Slots
  <1>11. Mine(f)'
    BY <1>6, <1>7, <1>8, <1>9, <1>10 DEF Mine
  <1> QED  BY <1>2, <1>3, <1>11, StepKeeps, ZeroIsACreator

\* The workers' array is allocated, or the instance goes on without workers.
LEMMA AllocateKeeps ==
    ASSUME LifecycleInv, NEW f \in Filters, pc[f] \in {"own", "host"},
           NEW chosen \in Plans(f), Allocate(f, chosen),
           UNCHANGED <<at, slot, count, thread, job>>
    PROVE  Mine(f)' /\ OthersAlone(f)
  <1>1. Mine(f) /\ Shape
    BY DEF LifecycleInv
  <1>2. OthersAlone(f)
    BY <1>1 DEF Allocate, Acquire, GoOn, OthersAlone, Shape, Untouched
  <1>3. \/ /\ pc'[f] = "sole" /\ held'[f] = held[f] /\ named'[f] = named[f] /\ plan'[f] = NoPlan
        \/ /\ pc'[f] = "slot" /\ held'[f] = held[f] \cup Ress({"workers", "lock"})
           /\ named'[f] = (named[f] \cup {"workers", "lock"}) \cup {} /\ plan'[f] = chosen
    BY <1>1 DEF Allocate, Acquire, GoOn, Shape
  <1>4. "workers" \notin named[f] /\ "running" \notin named[f] /\ "stop" \notin named[f]
        /\ "lock" \notin named[f] /\ "core" \in named[f] /\ at[f] = 0
    BY <1>1 DEF Mine, Names, Early, NeedsCore, Counting, Starting, Serving
  <1>5. /\ count[f] = 0
        /\ \A w \in Slots(f) : slot[f][w] = {} /\ thread[f][w] = "none"
        /\ \A w \in Slots(f) : job[<<f, w>>].stage = "idle"
    BY <1>1, <1>4, NoWorkers
  <1>6. Things(f)'
    <2>1. CASE held'[f] = held[f] /\ named'[f] = named[f]
      BY <1>1, <2>1 DEF Mine, Things, Slots
    <2>2. CASE /\ held'[f] = held[f] \cup Ress({"workers", "lock"})
               /\ named'[f] = (named[f] \cup {"workers", "lock"}) \cup {}
      <3>1. {"workers", "lock"} \in SUBSET Pointers /\ {} \in SUBSET Flags /\ Things(f)
        BY <1>1 DEF Pointers, Mine
      <3> QED  BY <2>2, <3>1, Gained
    <2> QED  BY <1>3, <2>1, <2>2
  <1>7. Course(f)'
    <2>1. plan'[f] \in Plans(f)
      BY <1>3, NoPlanIsAPlan
    <2> QED  BY <1>1, <1>3, <2>1 DEF Mine, Course, Plans, Slots, Steps, Starting
  <1>8. Names(f)'
    BY <1>3, <1>4 DEF Names, Starting, Serving
  <1>9. Early(f)'
    BY <1>1, <1>3, <1>4 DEF Mine, Early, NeedsCore, Starting
  <1>10. Filling(f)'
    BY <1>5 DEF Filling, Slots
  <1>11. Counting(f)'
    <2>1. chosen.workers \in 0..MaxWorkers[f]
      BY DEF Plans
    <2> QED  BY <1>3, <1>4, <1>5, <2>1, WorkersAreSome DEF Counting, Starting
  <1>12. JobsOf(f)'
    BY <1>1, <1>5 DEF Mine, JobsOf, Slots
  <1> QED  BY <1>2, <1>6, <1>7, <1>8, <1>9, <1>10, <1>11, <1>12 DEF Mine

LEMMA ChooseHostKeeps ==
    ASSUME LifecycleInv, NEW f \in Filters, ChooseHost(f)
    PROVE  LifecycleInv'
  <1>1. Mine(f) /\ CoreTypeOK
    BY DEF LifecycleInv, CoreInv
  <1>2. CoreMoves(f, 0)
    BY <1>1 DEF ChooseHost, CoreMoves, CoreTypeOK, OrtStates, coreVars
  <1>3. [plan[f] EXCEPT !.host = WantsGpu, !.own = @ /\ ~WantsGpu] \in Plans(f)
    <2>1. plan[f] \in Plans(f) /\ WantsGpu \in BOOLEAN
      BY <1>1 DEF Mine, Course, Plans, WantsGpu
    <2> QED  BY <2>1 DEF Plans
  <1>4. Mine(f)' /\ OthersAlone(f)
    BY <1>3, AllocateKeeps DEF ChooseHost, coreVars
  <1> QED  BY <1>2, <1>4, StepKeeps, ZeroIsACreator

LEMMA ChooseOwnKeeps ==
    ASSUME LifecycleInv, NEW f \in Filters, ChooseOwn(f)
    PROVE  LifecycleInv'
  <1>1. Mine(f) /\ Shape /\ CoreTypeOK
    BY DEF LifecycleInv, CoreInv
  <1>2. CoreMoves(f, 0) /\ UNCHANGED <<job, thread>> /\ pc[f] = "own"
    BY <1>1 DEF ChooseOwn, CoreMoves, CoreTypeOK, OrtStates, coreVars
  <1>3. PICK chosen : chosen = [plan[f] EXCEPT !.own = WantsGpu]
    OBVIOUS
  <1>4. chosen \in Plans(f)
    <2>1. plan[f] \in Plans(f) /\ WantsGpu \in BOOLEAN
      BY <1>1 DEF Mine, Course, Plans, WantsGpu
    <2> QED  BY <1>3, <2>1 DEF Plans
  <1>5. CASE Allocate(f, chosen)
    <2>1. Mine(f)' /\ OthersAlone(f)
      BY <1>2, <1>4, <1>5, AllocateKeeps DEF ChooseOwn
    <2> QED  BY <1>2, <2>1, StepKeeps, ZeroIsACreator
  <1>6. CASE plan' = [plan EXCEPT ![f] = chosen] /\ GoOn(f, "host") /\ UNCHANGED <<held, named>>
    <2>1. OthersAlone(f)
      BY <1>1, <1>2, <1>6 DEF ChooseOwn, GoOn, OthersAlone, Shape, Untouched
    <2>2. /\ pc'[f] = "host" /\ at'[f] = at[f] /\ named'[f] = named[f] /\ plan'[f] = chosen
          /\ slot'[f] = slot[f] /\ count'[f] = count[f] /\ held'[f] = held[f]
      BY <1>1, <1>6 DEF ChooseOwn, GoOn, Shape
    <2>3. Things(f)'
      BY <1>1, <2>2 DEF Mine, Things, Slots
    <2>4. Course(f)'
      BY <1>1, <1>2, <1>4, <2>2 DEF Mine, Course, Plans, Slots, Steps
    <2>5. Names(f)' /\ Early(f)'
      BY <1>1, <1>2, <2>2 DEF Mine, Names, Early, NeedsCore, Starting, Serving
    <2>6. Filling(f)' /\ Counting(f)'
      BY <1>1, <1>2, <2>2 DEF Mine, Filling, Counting, Slots, Starting
    <2>7. JobsOf(f)'
      BY <1>1, <1>2, <2>2 DEF Mine, JobsOf, Slots
    <2>8. Mine(f)'
      BY <2>3, <2>4, <2>5, <2>6, <2>7 DEF Mine
    <2> QED  BY <1>2, <2>1, <2>8, StepKeeps, ZeroIsACreator
  <1> QED  BY <1>3, <1>5, <1>6 DEF ChooseOwn

\* The slot of the attempt that is going on: no thread has used it.
LEMMA SlotInWork ==
    ASSUME NEW f \in Filters, Mine(f), pc[f] \in Starting, at[f] < plan[f].workers
    PROVE  /\ SlotOf(f) \in Slots(f)
           /\ at[f] + 1 <= plan[f].workers /\ at[f] + 1 \in 0..MaxWorkers[f]
           /\ count[f] <= at[f] /\ count[f] \in Nat /\ at[f] \in Nat /\ plan[f].workers \in Nat
           /\ thread[f][SlotOf(f)] = "none"
           /\ "thread" \notin slot[f][SlotOf(f)]
           /\ \A w \in Slots(f) : slot[f][w] # {} => w <= count[f] \/ w = SlotOf(f)
  <1>1. /\ count[f] \in Nat /\ at[f] \in Nat /\ MaxWorkers[f] \in Nat
        /\ plan[f].workers \in Nat /\ plan[f].workers <= MaxWorkers[f] /\ count[f] <= at[f]
    BY WorkersAreSome DEF Mine, Course, Counting
  <1>2. SlotOf(f) \in Slots(f)
    BY <1>1 DEF SlotOf, Slots
  <1>3. SlotOf(f) = count[f] + 1
    BY DEF SlotOf
  <1>4. thread[f][SlotOf(f)] = "none"
    <2>1. CASE slot[f][SlotOf(f)] = {}
      BY <1>2, <2>1 DEF Mine, Filling
    <2>2. CASE slot[f][SlotOf(f)] # {}
      <3>1. ~ (SlotOf(f) <= count[f])
        BY <1>1, <1>3
      <3> QED  BY <1>2, <2>2, <3>1 DEF Mine, Filling
    <2> QED  BY <2>1, <2>2
  <1>5. "thread" \notin slot[f][SlotOf(f)]
    BY <1>2, <1>4 DEF Mine, Filling
  <1>6. \A w \in Slots(f) : slot[f][w] # {} => w <= count[f] \/ w = SlotOf(f)
    BY <1>3 DEF Mine, Filling
  <1>7. at[f] + 1 <= plan[f].workers /\ at[f] + 1 \in 0..MaxWorkers[f]
    BY <1>1
  <1> QED  BY <1>1, <1>2, <1>4, <1>5, <1>6, <1>7

\* The attempt fails: its slot is emptied and the next one begins.
LEMMA SkipKeeps ==
    ASSUME LifecycleInv, NEW f \in Filters, pc[f] \in Starting, at[f] < plan[f].workers,
           SkipWorker(f), UNCHANGED <<plan, named, count, thread>>,
           job'[<<f, 0>>].stage = "idle",
           \A w \in Slots(f) : job'[<<f, w>>] = job[<<f, w>>]
    PROVE  Mine(f)' /\ OthersAlone(f)
  <1>1. Mine(f) /\ Shape
    BY DEF LifecycleInv
  <1>2. /\ SlotOf(f) \in Slots(f)
        /\ at[f] + 1 <= plan[f].workers /\ at[f] + 1 \in 0..MaxWorkers[f]
        /\ count[f] <= at[f] /\ count[f] \in Nat /\ at[f] \in Nat /\ plan[f].workers \in Nat
        /\ thread[f][SlotOf(f)] = "none"
        /\ "thread" \notin slot[f][SlotOf(f)]
        /\ \A w \in Slots(f) : slot[f][w] # {} => w <= count[f] \/ w = SlotOf(f)
    BY <1>1, SlotInWork
  <1>3. OthersAlone(f)
    BY <1>1 DEF SkipWorker, GoOn, OthersAlone, Shape, Untouched
  <1>4. /\ pc'[f] = "slot" /\ at'[f] = at[f] + 1 /\ plan'[f] = plan[f] /\ named'[f] = named[f]
        /\ count'[f] = count[f] /\ thread'[f] = thread[f]
        /\ slot'[f] = [slot[f] EXCEPT ![SlotOf(f)] = {}]
        /\ held'[f] = held[f] \ {<<kind, SlotOf(f)>> : kind \in slot[f][SlotOf(f)]}
    BY <1>1 DEF SkipWorker, GoOn, Shape
  <1>5. Things(f)'
    <2>1. slot[f][SlotOf(f)] \ slot[f][SlotOf(f)] = {}
      OBVIOUS
    <2>2. Things(f)
      BY <1>1 DEF Mine
    <2>3. slot'[f] = [slot[f] EXCEPT ![SlotOf(f)] = slot[f][SlotOf(f)] \ slot[f][SlotOf(f)]]
      BY <1>4, <2>1
    <2> QED  BY <1>2, <1>4, <2>2, <2>3, Dropped
  <1>6. \A w \in Slots(f) : slot'[f][w] = IF w = SlotOf(f) THEN {} ELSE slot[f][w]
    BY <1>1, <1>4 DEF Mine, Things
  <1>7. Course(f)'
    BY <1>1, <1>2, <1>4 DEF Mine, Course, Slots, Steps, Starting
  <1>8. Names(f)' /\ Early(f)'
    BY <1>1, <1>4 DEF Mine, Names, Early, NeedsCore, Starting, Serving
  <1>9. Filling(f)'
    <2>1. \A w \in Slots(f) : slot'[f][w] # {} => w <= count'[f]
      BY <1>2, <1>4, <1>6
    <2>2. \A w \in Slots(f) : thread'[f][w] # "none" <=> "thread" \in slot'[f][w]
      BY <1>1, <1>2, <1>4, <1>6 DEF Mine, Filling
    <2>3. count'[f] # 0 => "workers" \in named'[f]
      BY <1>1, <1>4 DEF Mine, Filling
    <2> QED  BY <1>4, <2>1, <2>2, <2>3 DEF Filling, Slots
  <1>10. Counting(f)'
    BY <1>2, <1>4 DEF Counting, Starting
  <1>11. JobsOf(f)'
    BY <1>1, <1>4 DEF Mine, JobsOf, Slots
  <1> QED  BY <1>3, <1>5, <1>7, <1>8, <1>9, <1>10, <1>11 DEF Mine

\* The attempt goes on to the thread: its slot has a helper, a detector, or nothing.
LEMMA ToSpawnKeeps ==
    ASSUME LifecycleInv, NEW f \in Filters, pc[f] \in {"slot", "create"}, at[f] < plan[f].workers,
           GoOn(f, "spawn"), UNCHANGED <<plan, at, named, count, thread>>,
           \/ UNCHANGED <<slot, held>>
           \/ Fill(f, "host") \/ Fill(f, "detector"),
           job'[<<f, 0>>].stage = "idle",
           \A w \in Slots(f) : job'[<<f, w>>] = job[<<f, w>>]
    PROVE  Mine(f)' /\ OthersAlone(f)
  <1>1. Mine(f) /\ Shape
    BY DEF LifecycleInv
  <1>2. /\ SlotOf(f) \in Slots(f)
        /\ count[f] <= at[f] /\ count[f] \in Nat /\ at[f] \in Nat /\ plan[f].workers \in Nat
        /\ thread[f][SlotOf(f)] = "none"
        /\ "thread" \notin slot[f][SlotOf(f)]
        /\ \A w \in Slots(f) : slot[f][w] # {} => w <= count[f] \/ w = SlotOf(f)
    BY <1>1, SlotInWork DEF Starting
  <1>3. OthersAlone(f)
    BY <1>1 DEF Fill, GoOn, OthersAlone, Shape, Untouched
  <1>4. /\ pc'[f] = "spawn" /\ at'[f] = at[f] /\ plan'[f] = plan[f] /\ named'[f] = named[f]
        /\ count'[f] = count[f] /\ thread'[f] = thread[f]
    BY <1>1 DEF GoOn, Shape
  <1>5. /\ Things(f)'
        /\ \A w \in Slots(f) : w # SlotOf(f) => slot'[f][w] = slot[f][w]
        /\ "thread" \notin slot'[f][SlotOf(f)]
    <2>1. Things(f) /\ DOMAIN slot[f] = Slots(f)
      BY <1>1 DEF Mine, Things
    <2>2. CASE UNCHANGED <<slot, held>>
      BY <1>2, <1>4, <2>1, <2>2 DEF Things, Slots
    <2>3. ASSUME NEW kind \in {"host", "detector"}, Fill(f, kind)
          PROVE  /\ Things(f)'
                 /\ \A w \in Slots(f) : w # SlotOf(f) => slot'[f][w] = slot[f][w]
                 /\ "thread" \notin slot'[f][SlotOf(f)]
      <3>1. /\ slot'[f] = [slot[f] EXCEPT ![SlotOf(f)] = slot[f][SlotOf(f)] \cup {kind}]
            /\ held'[f] = held[f] \cup {<<kind, SlotOf(f)>>}
        BY <1>1, <2>3 DEF Fill, Shape
      <3>2. Things(f)'
        BY <1>2, <1>4, <2>1, <3>1, Filled
      <3>3. slot'[f][SlotOf(f)] = slot[f][SlotOf(f)] \cup {kind}
        BY <1>2, <2>1, <3>1
      <3>4. \A w \in Slots(f) : w # SlotOf(f) => slot'[f][w] = slot[f][w]
        BY <2>1, <3>1
      <3>5. kind # "thread"
        BY <2>3
      <3> QED  BY <1>2, <3>2, <3>3, <3>4, <3>5
    <2> QED  BY <2>2, <2>3
  <1>7. Course(f)'
    BY <1>1, <1>2, <1>4 DEF Mine, Course, Slots, Steps, Starting
  <1>8. Names(f)' /\ Early(f)'
    BY <1>1, <1>4 DEF Mine, Names, Early, NeedsCore, Starting, Serving
  <1>9. Filling(f)'
    <2>1. \A w \in Slots(f) : slot'[f][w] # {} => w <= count'[f] \/ w = SlotOf(f)
      BY <1>2, <1>4, <1>5
    <2>2. SlotOf(f) = count'[f] + 1 /\ thread'[f][SlotOf(f)] = "none"
      BY <1>2, <1>4 DEF SlotOf
    <2>3. \A w \in Slots(f) : thread'[f][w] # "none" <=> "thread" \in slot'[f][w]
      BY <1>1, <1>2, <1>4, <1>5 DEF Mine, Filling
    <2>4. count'[f] # 0 => "workers" \in named'[f]
      BY <1>1, <1>4 DEF Mine, Filling
    <2> QED  BY <1>4, <2>1, <2>2, <2>3, <2>4 DEF Filling, Slots
  <1>10. Counting(f)'
    BY <1>2, <1>4 DEF Counting, Starting
  <1>11. JobsOf(f)'
    BY <1>1, <1>4 DEF Mine, JobsOf, Slots
  <1> QED  BY <1>3, <1>5, <1>7, <1>8, <1>9, <1>10, <1>11 DEF Mine

\* The opening thread asks for a detector for the slot.
LEMMA ToCreateKeeps ==
    ASSUME LifecycleInv, NEW f \in Filters, pc[f] = "slot", at[f] < plan[f].workers,
           GoOn(f, "create"), UNCHANGED <<plan, at, named, count, thread, slot, held>>,
           \A w \in Slots(f) : job'[<<f, w>>] = job[<<f, w>>]
    PROVE  Mine(f)' /\ OthersAlone(f)
  <1>1. Mine(f) /\ Shape
    BY DEF LifecycleInv
  <1>2. OthersAlone(f)
    BY <1>1 DEF GoOn, OthersAlone, Shape, Untouched
  <1>3. /\ pc'[f] = "create" /\ at'[f] = at[f] /\ plan'[f] = plan[f] /\ named'[f] = named[f]
        /\ count'[f] = count[f] /\ thread'[f] = thread[f] /\ slot'[f] = slot[f] /\ held'[f] = held[f]
    BY <1>1 DEF GoOn, Shape
  <1>4. Things(f)'
    BY <1>1, <1>3 DEF Mine, Things, Slots
  <1>5. Course(f)'
    BY <1>1, <1>3 DEF Mine, Course, Slots, Steps, Starting
  <1>6. Names(f)' /\ Early(f)'
    BY <1>1, <1>3 DEF Mine, Names, Early, NeedsCore, Starting, Serving
  <1>7. Filling(f)'
    BY <1>1, <1>3 DEF Mine, Filling, Slots
  <1>8. Counting(f)'
    BY <1>1, <1>3 DEF Mine, Counting, Starting
  <1>9. JobsOf(f)'
    BY <1>1, <1>3 DEF Mine, JobsOf, Slots
  <1> QED  BY <1>2, <1>4, <1>5, <1>6, <1>7, <1>8, <1>9 DEF Mine

LEMMA PrepareWorkerKeeps ==
    ASSUME LifecycleInv, NEW f \in Filters, PrepareWorker(f)
    PROVE  LifecycleInv'
  <1>1. Mine(f) /\ CoreTypeOK
    BY DEF LifecycleInv, CoreInv
  <1>2. CoreMoves(f, 0)
    BY <1>1 DEF PrepareWorker, Opener, CoreMoves, CoreTypeOK, OrtStates
  <1>3. \A w \in Slots(f) : job'[<<f, w>>] = job[<<f, w>>]
    BY <1>2, OpenerJob DEF CoreMoves
  <1>4. pc[f] = "slot" /\ at[f] < plan[f].workers /\ pc[f] \in Starting
    BY DEF PrepareWorker, Starting
  <1>5. job[<<f, 0>>].stage = "idle"
    BY <1>1, <1>4 DEF Mine, JobsOf
  <1>6. CASE SkipWorker(f) /\ UNCHANGED job
    <2>1. Mine(f)' /\ OthersAlone(f)
      BY <1>3, <1>4, <1>5, <1>6, SkipKeeps DEF PrepareWorker
    <2> QED  BY <1>2, <2>1, StepKeeps, ZeroIsACreator
  <1>7. CASE GoOn(f, "spawn") /\ UNCHANGED <<job, at>> /\ (Fill(f, "host") \/ UNCHANGED <<slot, held>>)
    <2>1. Mine(f)' /\ OthersAlone(f)
      BY <1>3, <1>4, <1>5, <1>7, ToSpawnKeeps DEF PrepareWorker
    <2> QED  BY <1>2, <2>1, StepKeeps, ZeroIsACreator
  <1>8. CASE GoOn(f, "create") /\ UNCHANGED <<slot, held, at>>
    <2>1. Mine(f)' /\ OthersAlone(f)
      BY <1>3, <1>4, <1>8, ToCreateKeeps DEF PrepareWorker
    <2> QED  BY <1>2, <2>1, StepKeeps, ZeroIsACreator
  <1> QED  BY <1>6, <1>7, <1>8 DEF PrepareWorker

LEMMA DetectorForWorkerKeeps ==
    ASSUME LifecycleInv, NEW f \in Filters, DetectorForWorker(f)
    PROVE  LifecycleInv'
  <1>1. Mine(f) /\ CoreTypeOK
    BY DEF LifecycleInv, CoreInv
  <1>2. CoreMoves(f, 0)
    BY <1>1 DEF DetectorForWorker, Opener, CoreMoves, CoreTypeOK, OrtStates
  <1>3. (\A w \in Slots(f) : job'[<<f, w>>] = job[<<f, w>>]) /\ job'[<<f, 0>>].stage = "idle"
    BY <1>2, OpenerJob DEF CoreMoves, DetectorForWorker, Opener
  <1>4. pc[f] = "create" /\ at[f] < plan[f].workers /\ pc[f] \in Starting
    BY <1>1 DEF DetectorForWorker, Starting, Mine, Counting
  <1>5. CASE SkipWorker(f)
    <2>1. Mine(f)' /\ OthersAlone(f)
      BY <1>3, <1>4, <1>5, SkipKeeps DEF DetectorForWorker
    <2> QED  BY <1>2, <2>1, StepKeeps, ZeroIsACreator
  <1>6. CASE Fill(f, "detector") /\ GoOn(f, "spawn") /\ UNCHANGED at
    <2>1. Mine(f)' /\ OthersAlone(f)
      BY <1>3, <1>4, <1>6, ToSpawnKeeps DEF DetectorForWorker
    <2> QED  BY <1>2, <2>1, StepKeeps, ZeroIsACreator
  <1> QED  BY <1>5, <1>6 DEF DetectorForWorker

LEMMA SpawnWorkerKeeps ==
    ASSUME LifecycleInv, NEW f \in Filters, SpawnWorker(f)
    PROVE  LifecycleInv'
  <1>1. Mine(f) /\ Shape /\ CoreTypeOK
    BY DEF LifecycleInv, CoreInv
  <1>2. pc[f] = "spawn" /\ at[f] < plan[f].workers /\ pc[f] \in Starting
    BY <1>1 DEF SpawnWorker, Starting, Mine, Counting
  <1>3. /\ SlotOf(f) \in Slots(f)
        /\ at[f] + 1 <= plan[f].workers /\ at[f] + 1 \in 0..MaxWorkers[f]
        /\ count[f] <= at[f] /\ count[f] \in Nat /\ at[f] \in Nat /\ plan[f].workers \in Nat
        /\ thread[f][SlotOf(f)] = "none"
        /\ "thread" \notin slot[f][SlotOf(f)]
        /\ \A w \in Slots(f) : slot[f][w] # {} => w <= count[f] \/ w = SlotOf(f)
    BY <1>1, <1>2, SlotInWork
  <1>4. PICK s \in Slots(f) : s = SlotOf(f)
    BY <1>3
  <1>5. s \in 0..MaxWorkers[f] /\ s # 0 /\ s = count[f] + 1
    BY <1>4, SlotsAreCreators DEF SlotOf
  <1>6. job[<<f, 0>>].stage = "idle"
    BY <1>1, <1>2 DEF Mine, JobsOf
  <1>7. CoreMoves(f, s)
    BY <1>1, <1>4 DEF SpawnWorker, CoreMoves, CoreTypeOK, OrtStates
  <1>8. \A v \in 0..MaxWorkers[f] : v # s => job'[<<f, v>>] = job[<<f, v>>]
    BY <1>5, <1>7, OneJob DEF CoreMoves
  <1>9. CASE SkipWorker(f) /\ UNCHANGED <<thread, count, job>>
    <2>1. Mine(f)' /\ OthersAlone(f)
      BY <1>2, <1>6, <1>9, SkipKeeps DEF SpawnWorker
    <2> QED  BY <1>5, <1>7, <2>1, StepKeeps
  <1>10. CASE Fill(f, "thread") /\ GoOn(f, "slot") /\ ~ (SkipWorker(f) /\ UNCHANGED <<thread, count, job>>)
    <2>1. OthersAlone(f)
      BY <1>1, <1>10 DEF SpawnWorker, Fill, GoOn, OthersAlone, Shape, Untouched
    <2>2. PICK state \in {"create", "loop"} :
             /\ thread' = [thread EXCEPT ![f][s] = state]
             /\ state # "create" => job' = job
      BY <1>4, <1>10 DEF SpawnWorker
    <2>3. /\ pc'[f] = "slot" /\ at'[f] = at[f] + 1 /\ plan'[f] = plan[f] /\ named'[f] = named[f]
          /\ count'[f] = count[f] + 1
          /\ slot'[f] = [slot[f] EXCEPT ![s] = slot[f][s] \cup {"thread"}]
          /\ held'[f] = held[f] \cup {<<"thread", s>>}
          /\ thread'[f] = [thread[f] EXCEPT ![s] = state]
      BY <1>1, <1>4, <1>10, <2>2 DEF SpawnWorker, Fill, GoOn, Shape
    <2>4. Things(f)'
      <3>1. Things(f) /\ "thread" \in {"thread", "detector", "host"}
        BY <1>1 DEF Mine
      <3> QED  BY <2>3, <3>1, Filled
    <2>5. /\ \A w \in Slots(f) : w # s => slot'[f][w] = slot[f][w] /\ thread'[f][w] = thread[f][w]
          /\ "thread" \in slot'[f][s] /\ thread'[f][s] = state
      BY <1>1, <2>3 DEF Mine, Things, Course
    <2>6. Course(f)'
      <3>1. count[f] + 1 \in 0..MaxWorkers[f]
        BY <1>5
      <3>2. thread'[f] \in [Slots(f) -> ThreadStates]
        BY <1>1, <2>3 DEF Mine, Course, ThreadStates
      <3> QED  BY <1>1, <1>3, <2>3, <3>1, <3>2 DEF Mine, Course, Steps, Starting, Slots
    <2>7. Names(f)' /\ Early(f)'
      BY <1>1, <1>2, <2>3 DEF Mine, Names, Early, NeedsCore, Starting, Serving
    <2>8. Filling(f)'
      <3>1. \A w \in Slots(f) : slot'[f][w] # {} => w <= count'[f]
        <4>1. \A w \in Slots(f) : w \in Nat
          BY WorkersAreSome DEF Slots
        <4> QED  BY <1>3, <1>4, <1>5, <2>3, <2>5, <4>1
      <3>2. \A w \in Slots(f) : thread'[f][w] # "none" <=> "thread" \in slot'[f][w]
        BY <1>1, <2>2, <2>5 DEF Mine, Filling
      <3>3. "workers" \in named'[f]
        BY <1>1, <1>2, <2>3 DEF Mine, Names
      <3> QED  BY <2>3, <3>1, <3>2, <3>3 DEF Filling, Slots
    <2>9. Counting(f)'
      BY <1>3, <2>3 DEF Counting, Starting
    <2>10. JobsOf(f)'
      <3>1. job'[<<f, 0>>].stage = "idle"
        BY <1>5, <1>6, <1>8, ZeroIsACreator
      <3>2. \A w \in Slots(f) : job'[<<f, w>>].stage # "idle" => thread'[f][w] \in {"create", "falling"}
        <4>1. ASSUME NEW w \in Slots(f), w # s, job'[<<f, w>>].stage # "idle"
              PROVE  thread'[f][w] \in {"create", "falling"}
          BY <1>1, <1>8, <2>5, <4>1, SlotsAreCreators DEF Mine, JobsOf
        <4>2. ASSUME job'[<<f, s>>].stage # "idle"
              PROVE  thread'[f][s] \in {"create", "falling"}
          <5>1. CASE state = "create"
            BY <2>5, <5>1
          <5>2. CASE state # "create"
            BY <1>1, <1>3, <1>4, <2>2, <4>2, <5>2 DEF Mine, JobsOf
          <5> QED  BY <5>1, <5>2
        <4> QED  BY <4>1, <4>2
      <3> QED  BY <3>1, <3>2 DEF JobsOf, Slots
    <2>11. Mine(f)'
      BY <2>4, <2>6, <2>7, <2>8, <2>9, <2>10 DEF Mine
    <2> QED  BY <1>5, <1>7, <2>1, <2>11, StepKeeps
  <1> QED  BY <1>9, <1>10 DEF SpawnWorker

LEMMA WorkersStartedKeeps ==
    ASSUME LifecycleInv, NEW f \in Filters, WorkersStarted(f)
    PROVE  LifecycleInv'
  <1>1. Mine(f) /\ Shape /\ CoreTypeOK
    BY DEF LifecycleInv, CoreInv
  <1>2. pc[f] = "slot" /\ pc[f] \in Starting
    BY DEF WorkersStarted, Starting
  <1>3. CoreMoves(f, 0) /\ UNCHANGED <<job, thread>>
    BY <1>1 DEF WorkersStarted, CoreMoves, CoreTypeOK, OrtStates, coreVars
  <1>4. OthersAlone(f)
    BY <1>1 DEF WorkersStarted, Release, GoOn, OthersAlone, Shape, Untouched
  <1>5. /\ at'[f] = 0 /\ plan'[f] = NoPlan /\ count'[f] = count[f] /\ thread'[f] = thread[f]
        /\ slot'[f] = slot[f]
    BY <1>1 DEF WorkersStarted, Shape
  <1>6. \/ /\ count[f] = 0 /\ pc'[f] = "sole"
           /\ held'[f] = held[f] \ Ress({"workers", "lock"})
           /\ named'[f] = named[f] \ ({"workers", "lock"} \cup {})
        \/ /\ count[f] # 0 /\ pc'[f] = "icon" /\ held'[f] = held[f]
           /\ named'[f] = named[f] \cup {"running"}
    BY <1>1 DEF WorkersStarted, Release, GoOn, Shape
  <1>7. /\ "workers" \in named[f] /\ "lock" \in named[f] /\ "core" \in named[f]
        /\ "running" \notin named[f] /\ "stop" \notin named[f]
    BY <1>1, <1>2 DEF Mine, Names, Early, NeedsCore, Serving
  <1>8. Things(f)'
    <2>1. CASE count[f] = 0
      <3>1. {"workers", "lock"} \in SUBSET Pointers /\ {} \in SUBSET Flags /\ Things(f)
        BY <1>1 DEF Pointers, Mine
      <3> QED  BY <1>5, <1>6, <2>1, <3>1, GivenBack
    <2>2. CASE count[f] # 0
      <3>1. {"running"} \in SUBSET Flags /\ Things(f)
        BY <1>1 DEF Flags, Mine
      <3> QED  BY <1>5, <1>6, <2>2, <3>1, Marked
    <2> QED  BY <2>1, <2>2
  <1>9. Course(f)'
    <2>1. NoPlan \in Plans(f) /\ 0 \in 0..MaxWorkers[f]
      BY NoPlanIsAPlan, ZeroIsACreator
    <2> QED  BY <1>1, <1>5, <1>6, <2>1 DEF Mine, Course, Plans, Slots, Steps, Serving
  <1>10. Names(f)'
    BY <1>6, <1>7 DEF Names, Starting, Serving
  <1>11. Early(f)'
    BY <1>1, <1>6, <1>7 DEF Mine, Early, NeedsCore, Starting
  <1>12. Filling(f)'
    <2>1. \A w \in Slots(f) : slot[f][w] # {} => w <= count[f]
      BY <1>1, <1>2 DEF WorkersStarted, Mine, Filling
    <2>2. count[f] # 0 => "workers" \in named'[f]
      BY <1>6, <1>7
    <2>3. pc'[f] # "join"
      BY <1>6
    <2> QED  BY <1>1, <1>5, <2>1, <2>2, <2>3 DEF Mine, Filling, Slots
  <1>13. Counting(f)'
    BY <1>5, <1>6 DEF Counting, Starting
  <1>14. JobsOf(f)'
    BY <1>1, <1>2, <1>3, <1>6 DEF Mine, JobsOf, Slots
  <1>15. Mine(f)'
    BY <1>8, <1>9, <1>10, <1>11, <1>12, <1>13, <1>14 DEF Mine
  <1> QED  BY <1>3, <1>4, <1>15, StepKeeps, ZeroIsACreator

-----------------------------------------------------------------------------
(***************************************************************************)
(* Open's end, Filter and the call of Close.                               *)
(***************************************************************************)
\* A step between the start of the workers and their joins that leaves them alone.
LEMMA LateStepKeeps ==
    ASSUME LifecycleInv, NEW f \in Filters,
           pc[f] \in {"sole", "judge", "icon", "open", "fall"},
           pc'[f] \in {"judge", "icon", "open", "fall", "join", "release"},
           Things(f)', Names(f)', Early(f)',
           "workers" \in named[f] => "workers" \in named'[f],
           plan'[f] = plan[f], at'[f] = at[f], slot'[f] = slot[f], count'[f] = count[f],
           UNCHANGED thread,
           job'[<<f, 0>>].stage # "idle" => pc'[f] \in {"judge", "fall"},
           \A w \in Slots(f) : job'[<<f, w>>] = job[<<f, w>>]
    PROVE  Mine(f)'
  <1>1. Mine(f)
    BY DEF LifecycleInv
  <1>2. at[f] = 0
    BY <1>1 DEF Mine, Counting, Starting
  <1>3. Course(f)'
    BY <1>1 DEF Mine, Course, Slots, Steps, Serving
  <1>4. Filling(f)'
    <2>1. \A w \in Slots(f) : slot[f][w] # {} => w <= count[f]
      BY <1>1 DEF Mine, Filling
    <2>2. \A w \in Slots(f) : 0 < w
      BY WorkersAreSome DEF Slots
    <2>3. \A w \in Slots(f) : thread[f][w] # "none" <=> "thread" \in slot[f][w]
      BY <1>1 DEF Mine, Filling
    <2>4. count[f] # 0 => "workers" \in named'[f]
      BY <1>1 DEF Mine, Filling
    <2> QED  BY <1>2, <2>1, <2>2, <2>3, <2>4 DEF Filling, Slots
  <1>5. Counting(f)'
    <2>1. 0 <= count[f]
      BY <1>1, WorkersAreSome DEF Mine, Course
    <2> QED  BY <1>2, <2>1 DEF Counting, Starting
  <1>6. JobsOf(f)'
    BY <1>1 DEF Mine, JobsOf, Slots
  <1> QED  BY <1>3, <1>4, <1>5, <1>6 DEF Mine

LEMMA OpenSoleKeeps ==
    ASSUME LifecycleInv, NEW f \in Filters, OpenSole(f)
    PROVE  LifecycleInv'
  <1>1. Mine(f) /\ Shape /\ CoreTypeOK
    BY DEF LifecycleInv, CoreInv
  <1>2. pc[f] = "sole" /\ job[<<f, 0>>].stage = "idle"
    BY <1>1 DEF OpenSole, Mine, JobsOf
  <1>3. CoreMoves(f, 0)
    BY <1>1 DEF OpenSole, Opener, CoreMoves, CoreTypeOK, OrtStates
  <1>4. OthersAlone(f)
    BY <1>1 DEF OpenSole, Acquire, GoOn, OthersAlone, Shape, Untouched
  <1>5. plan'[f] = plan[f] /\ at'[f] = at[f] /\ slot'[f] = slot[f] /\ count'[f] = count[f]
    BY DEF OpenSole
  <1>6. \/ /\ pc'[f] = "icon" /\ job' = job
           /\ held'[f] = held[f] \cup Ress({"host"}) /\ named'[f] = (named[f] \cup {"host"}) \cup {}
        \/ pc'[f] = "judge" /\ held'[f] = held[f] /\ named'[f] = named[f]
    BY <1>1 DEF OpenSole, Acquire, GoOn, Shape
  <1>7. /\ "workers" \notin named[f] /\ "lock" \notin named[f] /\ "core" \in named[f]
        /\ "running" \notin named[f] /\ "stop" \notin named[f]
    BY <1>1, <1>2 DEF Mine, Names, Early, NeedsCore, Starting, Serving
  <1>8. Things(f)'
    <2>1. CASE held'[f] = held[f] /\ named'[f] = named[f]
      BY <1>1, <1>5, <2>1 DEF Mine, Things, Slots
    <2>2. CASE held'[f] = held[f] \cup Ress({"host"}) /\ named'[f] = (named[f] \cup {"host"}) \cup {}
      <3>1. {"host"} \in SUBSET Pointers /\ {} \in SUBSET Flags /\ Things(f)
        BY <1>1 DEF Pointers, Mine
      <3> QED  BY <1>5, <2>2, <3>1, Gained
    <2> QED  BY <1>6, <2>1, <2>2
  <1>9. Names(f)'
    BY <1>6, <1>7 DEF Names, Starting, Serving
  <1>10. Early(f)'
    BY <1>1, <1>6, <1>7 DEF Mine, Early, NeedsCore, Starting
  <1>11. \A w \in Slots(f) : job'[<<f, w>>] = job[<<f, w>>]
    BY <1>3, OpenerJob DEF CoreMoves
  <1>12. job'[<<f, 0>>].stage # "idle" => pc'[f] \in {"judge", "fall"}
    BY <1>2, <1>6
  <1>13. UNCHANGED thread
    BY DEF OpenSole
  <1>14. Mine(f)'
    BY <1>2, <1>5, <1>6, <1>7, <1>8, <1>9, <1>10, <1>11, <1>12, <1>13, LateStepKeeps
  <1> QED  BY <1>3, <1>4, <1>14, StepKeeps, ZeroIsACreator

LEMMA SoleDetectorKeeps ==
    ASSUME LifecycleInv, NEW f \in Filters, SoleDetector(f)
    PROVE  LifecycleInv'
  <1>1. Mine(f) /\ Shape /\ CoreTypeOK
    BY DEF LifecycleInv, CoreInv
  <1>2. pc[f] \in {"judge", "fall"}
    BY DEF SoleDetector
  <1>3. CoreMoves(f, 0)
    BY <1>1 DEF SoleDetector, Opener, CoreMoves, CoreTypeOK, OrtStates
  <1>4. OthersAlone(f)
    BY <1>1 DEF SoleDetector, Acquire, GoOn, OthersAlone, Shape, Untouched
  <1>5. /\ plan'[f] = plan[f] /\ at'[f] = at[f] /\ slot'[f] = slot[f] /\ count'[f] = count[f]
        /\ thread' = thread
    BY DEF SoleDetector
  <1>6. \/ /\ held'[f] = held[f] \cup Ress({"detector"})
           /\ named'[f] = (named[f] \cup {"detector"}) \cup {}
        \/ held'[f] = held[f] /\ named'[f] = named[f]
    BY <1>1 DEF SoleDetector, Acquire, Shape
  <1>7. /\ (pc[f] = "judge" /\ pc'[f] = "icon") \/ (pc[f] = "fall" /\ pc'[f] = "open")
        /\ "core" \in named[f]
    <2>1. "core" \in named[f]
      BY <1>1, <1>2 DEF Mine, Early, NeedsCore
    <2>2. pc'[f] = IF pc[f] = "judge" THEN "icon" ELSE "open"
      BY <1>1 DEF SoleDetector, GoOn, Shape
    <2> QED  BY <1>2, <2>1, <2>2
  <1>8. Things(f)'
    <2>1. CASE held'[f] = held[f] /\ named'[f] = named[f]
      BY <1>1, <1>5, <2>1 DEF Mine, Things, Slots
    <2>2. CASE held'[f] = held[f] \cup Ress({"detector"}) /\ named'[f] = (named[f] \cup {"detector"}) \cup {}
      <3>1. {"detector"} \in SUBSET Pointers /\ {} \in SUBSET Flags /\ Things(f)
        BY <1>1 DEF Pointers, Mine
      <3> QED  BY <1>5, <2>2, <3>1, Gained
    <2> QED  BY <1>6, <2>1, <2>2
  <1>9. Names(f)'
    BY <1>1, <1>6, <1>7 DEF Mine, Names, Starting, Serving
  <1>10. Early(f)'
    BY <1>1, <1>6, <1>7 DEF Mine, Early, NeedsCore, Starting
  <1>11. (\A w \in Slots(f) : job'[<<f, w>>] = job[<<f, w>>]) /\ job'[<<f, 0>>].stage = "idle"
    BY <1>3, OpenerJob DEF CoreMoves, SoleDetector, Opener
  <1>12. "workers" \in named[f] => "workers" \in named'[f]
    BY <1>6
  <1>13. Mine(f)'
    BY <1>2, <1>5, <1>7, <1>8, <1>9, <1>10, <1>11, <1>12, LateStepKeeps
  <1> QED  BY <1>3, <1>4, <1>13, StepKeeps, ZeroIsACreator

LEMMA EnableIconKeeps ==
    ASSUME LifecycleInv, NEW f \in Filters, EnableIcon(f)
    PROVE  LifecycleInv'
  <1>1. Mine(f) /\ Shape /\ CoreTypeOK
    BY DEF LifecycleInv, CoreInv
  <1>2. pc[f] = "icon"
    BY DEF EnableIcon
  <1>3. CoreMoves(f, 0) /\ job' = job
    BY <1>1 DEF EnableIcon, CoreMoves, CoreTypeOK, OrtStates, coreVars
  <1>4. OthersAlone(f)
    BY <1>1 DEF EnableIcon, Acquire, GoOn, OthersAlone, Shape, Untouched
  <1>5. /\ plan'[f] = plan[f] /\ at'[f] = at[f] /\ slot'[f] = slot[f] /\ count'[f] = count[f]
        /\ thread' = thread
    BY DEF EnableIcon
  <1>6. \/ held'[f] = held[f] \cup Ress({"icon"}) /\ named'[f] = (named[f] \cup {"icon"}) \cup {}
        \/ held'[f] = held[f] /\ named'[f] = named[f]
    BY <1>1 DEF EnableIcon, Acquire, Shape
  <1>7. pc'[f] = "open"
    BY <1>1 DEF EnableIcon, GoOn, Shape
  <1>8. Things(f)'
    <2>1. CASE held'[f] = held[f] /\ named'[f] = named[f]
      BY <1>1, <1>5, <2>1 DEF Mine, Things, Slots
    <2>2. CASE held'[f] = held[f] \cup Ress({"icon"}) /\ named'[f] = (named[f] \cup {"icon"}) \cup {}
      <3>1. {"icon"} \in SUBSET Pointers /\ {} \in SUBSET Flags /\ Things(f)
        BY <1>1 DEF Pointers, Mine
      <3> QED  BY <1>5, <2>2, <3>1, Gained
    <2> QED  BY <1>6, <2>1, <2>2
  <1>9. Names(f)'
    BY <1>1, <1>2, <1>6, <1>7 DEF Mine, Names, Starting, Serving
  <1>10. Early(f)'
    BY <1>1, <1>2, <1>6, <1>7 DEF Mine, Early, NeedsCore, Starting
  <1>11. (\A w \in Slots(f) : job'[<<f, w>>] = job[<<f, w>>]) /\ job'[<<f, 0>>].stage = "idle"
    BY <1>1, <1>2, <1>3 DEF Mine, JobsOf
  <1>12. "workers" \in named[f] => "workers" \in named'[f]
    BY <1>6
  <1>13. Mine(f)'
    BY <1>2, <1>5, <1>7, <1>8, <1>9, <1>10, <1>11, <1>12, LateStepKeeps
  <1> QED  BY <1>3, <1>4, <1>13, StepKeeps, ZeroIsACreator

LEMMA FilterLosesHostKeeps ==
    ASSUME LifecycleInv, NEW f \in Filters, FilterLosesHost(f)
    PROVE  LifecycleInv'
  <1>1. Mine(f) /\ Shape /\ CoreTypeOK
    BY DEF LifecycleInv, CoreInv
  <1>2. pc[f] = "open" /\ "host" \in named[f]
    BY DEF FilterLosesHost
  <1>3. CoreMoves(f, 0)
    BY <1>1 DEF FilterLosesHost, Opener, CoreMoves, CoreTypeOK, OrtStates
  <1>4. OthersAlone(f)
    BY <1>1 DEF FilterLosesHost, Release, GoOn, OthersAlone, Shape, Untouched
  <1>5. /\ plan'[f] = plan[f] /\ at'[f] = at[f] /\ slot'[f] = slot[f] /\ count'[f] = count[f]
        /\ thread' = thread
    BY DEF FilterLosesHost
  <1>6. /\ held'[f] = held[f] \ Ress({"host"}) /\ named'[f] = named[f] \ ({"host"} \cup {})
        /\ pc'[f] = "fall"
    BY <1>1 DEF FilterLosesHost, Release, GoOn, Shape
  <1>7. Things(f)'
    <2>1. {"host"} \in SUBSET Pointers /\ {} \in SUBSET Flags /\ Things(f)
      BY <1>1 DEF Pointers, Mine
    <2> QED  BY <1>5, <1>6, <2>1, GivenBack
  <1>8. Names(f)'
    BY <1>1, <1>2, <1>6 DEF Mine, Names, Starting, Serving
  <1>9. Early(f)'
    BY <1>1, <1>2, <1>6 DEF Mine, Early, NeedsCore, Starting
  <1>10. \A w \in Slots(f) : job'[<<f, w>>] = job[<<f, w>>]
    BY <1>3, OpenerJob DEF CoreMoves
  <1>11. "workers" \in named[f] => "workers" \in named'[f]
    BY <1>6
  <1>12. Mine(f)'
    BY <1>2, <1>5, <1>6, <1>7, <1>8, <1>9, <1>10, <1>11, LateStepKeeps
  <1> QED  BY <1>3, <1>4, <1>12, StepKeeps, ZeroIsACreator

LEMMA CloseCallKeeps ==
    ASSUME LifecycleInv, NEW f \in Filters, CloseCall(f)
    PROVE  LifecycleInv'
  <1>1. Mine(f) /\ Shape /\ CoreTypeOK
    BY DEF LifecycleInv, CoreInv
  <1>2. pc[f] = "open"
    BY DEF CloseCall
  <1>3. CoreMoves(f, 0) /\ job' = job
    BY <1>1 DEF CloseCall, CoreMoves, CoreTypeOK, OrtStates, coreVars
  <1>4. OthersAlone(f)
    BY <1>1 DEF CloseCall, GoOn, OthersAlone, Shape, Untouched
  <1>5. /\ plan'[f] = plan[f] /\ at'[f] = at[f] /\ slot'[f] = slot[f] /\ count'[f] = count[f]
        /\ thread' = thread /\ held'[f] = held[f]
    BY DEF CloseCall
  <1>6. \/ "running" \in named[f] /\ pc'[f] = "join" /\ named'[f] = named[f] \cup {"stop"}
        \/ "running" \notin named[f] /\ pc'[f] = "release" /\ named'[f] = named[f] \cup {}
    BY <1>1 DEF CloseCall, GoOn, Shape
  <1>7. Things(f)'
    <2>1. {"stop"} \in SUBSET Flags /\ {} \in SUBSET Flags /\ Things(f)
      BY <1>1 DEF Flags, Mine
    <2> QED  BY <1>5, <1>6, <2>1, Marked
  <1>8. Names(f)'
    BY <1>1, <1>2, <1>6 DEF Mine, Names, Starting, Serving
  <1>9. Early(f)'
    BY <1>1, <1>2, <1>6 DEF Mine, Early, NeedsCore, Starting
  <1>10. (\A w \in Slots(f) : job'[<<f, w>>] = job[<<f, w>>]) /\ job'[<<f, 0>>].stage = "idle"
    BY <1>1, <1>2, <1>3 DEF Mine, JobsOf
  <1>11. "workers" \in named[f] => "workers" \in named'[f]
    BY <1>6
  <1>12. pc'[f] \in {"join", "release"}
    BY <1>6
  <1>13. Mine(f)'
    BY <1>2, <1>5, <1>7, <1>8, <1>9, <1>10, <1>11, <1>12, LateStepKeeps
  <1> QED  BY <1>3, <1>4, <1>13, StepKeeps, ZeroIsACreator

-----------------------------------------------------------------------------
(***************************************************************************)
(* The worker threads, and Close's joins.                                  *)
(***************************************************************************)
\* The slot of a thread is one of the started ones that are not joined yet.
LEMMA ThreadsSlot ==
    ASSUME NEW f \in Filters, Mine(f), NEW w \in Slots(f), thread[f][w] # "none"
    PROVE  /\ "thread" \in slot[f][w]
           /\ w <= count[f] /\ (pc[f] = "join" => at[f] < w)
           /\ "workers" \in named[f] /\ "core" \in named[f]
  <1>1. "thread" \in slot[f][w] /\ slot[f][w] # {}
    BY DEF Mine, Filling
  <1>2. w <= count[f] /\ (pc[f] = "join" => at[f] < w)
    BY <1>1 DEF Mine, Filling
  <1>3. count[f] # 0
    BY <1>2, WorkersAreSome DEF Slots
  <1>4. "workers" \in named[f]
    BY <1>3 DEF Mine, Filling
  <1> QED  BY <1>1, <1>2, <1>4 DEF Mine, Early, NeedsCore

\* The thread of a slot goes on; its slot keeps it, and stays in use.
LEMMA ThreadKeeps ==
    ASSUME LifecycleInv, NEW f \in Filters, NEW w \in Slots(f), NEW state \in ThreadStates \ {"none"},
           thread[f][w] # "none",
           thread' = [thread EXCEPT ![f][w] = state],
           Things(f)',
           "thread" \in slot'[f][w],
           \A v \in Slots(f) : v # w => slot'[f][v] = slot[f][v],
           UNCHANGED <<pc, plan, at, named, count>>,
           \A v \in 0..MaxWorkers[f] : v # w => job'[<<f, v>>] = job[<<f, v>>],
           job'[<<f, w>>].stage # "idle" => state \in {"create", "falling"}
    PROVE  Mine(f)'
  <1>1. Mine(f) /\ Shape
    BY DEF LifecycleInv
  <1>2. /\ thread'[f] = [thread[f] EXCEPT ![w] = state]
        /\ thread'[f][w] = state
        /\ \A v \in Slots(f) : v # w => thread'[f][v] = thread[f][v]
    BY <1>1 DEF Shape, Mine, Course
  <1>3. Course(f)'
    BY <1>1, <1>2 DEF Mine, Course, Slots
  <1>4. Names(f)' /\ Early(f)' /\ Counting(f)'
    BY <1>1 DEF Mine, Names, Early, NeedsCore, Counting
  <1>5. Filling(f)'
    <2>1. w <= count[f] /\ (pc[f] = "join" => at[f] < w)
      BY <1>1, ThreadsSlot
    <2>2. \A v \in Slots(f) : slot'[f][v] # {} =>
             \/ v <= count[f] /\ (pc[f] = "join" => at[f] < v)
             \/ pc[f] = "spawn" /\ v = count[f] + 1 /\ thread'[f][v] = "none"
      BY <1>1, <1>2, <2>1 DEF Mine, Filling
    <2>3. \A v \in Slots(f) : thread'[f][v] # "none" <=> "thread" \in slot'[f][v]
      BY <1>1, <1>2 DEF Mine, Filling
    <2> QED  BY <1>1, <2>2, <2>3 DEF Mine, Filling, Slots
  <1>6. JobsOf(f)'
    <2>1. \A v \in Slots(f) : v # w => job'[<<f, v>>] = job[<<f, v>>]
      BY SlotsAreCreators
    <2>2. job'[<<f, 0>>] = job[<<f, 0>>]
      BY SlotsAreCreators, ZeroIsACreator
    <2> QED  BY <1>1, <1>2, <2>1, <2>2 DEF Mine, JobsOf, Slots
  <1> QED  BY <1>3, <1>4, <1>5, <1>6 DEF Mine

LEMMA ThreadHasDetectorKeeps ==
    ASSUME LifecycleInv, NEW f \in Filters, NEW w \in Slots(f), ThreadHasDetector(f, w)
    PROVE  LifecycleInv'
  <1>1. Mine(f) /\ Shape /\ CoreTypeOK /\ w \in 0..MaxWorkers[f]
    BY SlotsAreCreators DEF LifecycleInv, CoreInv
  <1>2. CoreMoves(f, w)
    BY <1>1 DEF ThreadHasDetector, CoreMoves, CoreTypeOK, OrtStates
  <1>3. OthersAlone(f)
    BY <1>1 DEF ThreadHasDetector, Enter, OthersAlone, Shape, Untouched
  <1>4. /\ UNCHANGED <<pc, plan, at, named, count>>
        /\ thread' = [thread EXCEPT ![f][w] = "loop"]
        /\ thread[f][w] # "none"
    BY DEF ThreadHasDetector, Enter
  <1>5. "thread" \in slot[f][w]
    BY <1>1, <1>4, ThreadsSlot
  <1>6. \/ slot'[f] = slot[f] /\ held'[f] = held[f]
        \/ /\ slot'[f] = [slot[f] EXCEPT ![w] = slot[f][w] \cup {"detector"}]
           /\ held'[f] = held[f] \cup {<<"detector", w>>}
    BY <1>1 DEF ThreadHasDetector, Shape
  <1>7. /\ Things(f)' /\ "thread" \in slot'[f][w]
        /\ \A v \in Slots(f) : v # w => slot'[f][v] = slot[f][v]
    <2>1. Things(f) /\ named'[f] = named[f] /\ DOMAIN slot[f] = Slots(f)
      BY <1>1, <1>4 DEF Mine, Things
    <2>2. CASE slot'[f] = slot[f] /\ held'[f] = held[f]
      BY <1>5, <2>1, <2>2 DEF Things, Slots
    <2>3. CASE /\ slot'[f] = [slot[f] EXCEPT ![w] = slot[f][w] \cup {"detector"}]
               /\ held'[f] = held[f] \cup {<<"detector", w>>}
      <3>1. Things(f)'
        BY <2>1, <2>3, Filled
      <3>2. slot'[f][w] = slot[f][w] \cup {"detector"}
        BY <2>1, <2>3
      <3>3. \A v \in Slots(f) : v # w => slot'[f][v] = slot[f][v]
        BY <2>1, <2>3
      <3> QED  BY <1>5, <3>1, <3>2, <3>3
    <2> QED  BY <1>6, <2>2, <2>3
  <1>8. (\A v \in 0..MaxWorkers[f] : v # w => job'[<<f, v>>] = job[<<f, v>>])
        /\ job'[<<f, w>>].stage = "idle"
    BY <1>1, <1>2, OneJob DEF CoreMoves, ThreadHasDetector
  <1>9. "loop" \in ThreadStates \ {"none"}
    BY DEF ThreadStates
  <1>10. Mine(f)'
    BY <1>4, <1>7, <1>8, <1>9, ThreadKeeps
  <1> QED  BY <1>1, <1>2, <1>3, <1>10, StepKeeps

LEMMA ThreadLosesHostKeeps ==
    ASSUME LifecycleInv, NEW f \in Filters, NEW w \in Slots(f), ThreadLosesHost(f, w)
    PROVE  LifecycleInv'
  <1>1. Mine(f) /\ Shape /\ CoreTypeOK /\ w \in 0..MaxWorkers[f]
    BY SlotsAreCreators DEF LifecycleInv, CoreInv
  <1>2. CoreMoves(f, w)
    BY <1>1 DEF ThreadLosesHost, CoreMoves, CoreTypeOK, OrtStates
  <1>3. OthersAlone(f)
    BY <1>1 DEF ThreadLosesHost, Enter, OthersAlone, Shape, Untouched
  <1>4. /\ UNCHANGED <<pc, plan, at, named, count>>
        /\ thread' = [thread EXCEPT ![f][w] = "falling"]
        /\ thread[f][w] # "none" /\ "host" \in slot[f][w]
    BY DEF ThreadLosesHost, Enter
  <1>5. "thread" \in slot[f][w]
    BY <1>1, <1>4, ThreadsSlot
  <1>6. /\ slot'[f] = [slot[f] EXCEPT ![w] = slot[f][w] \ {"host"}]
        /\ held'[f] = held[f] \ {<<"host", w>>}
    BY <1>1 DEF ThreadLosesHost, Shape
  <1>7. Things(f)'
    <2>1. Things(f) /\ named'[f] = named[f] /\ {"host"} \in SUBSET slot[f][w]
      BY <1>1, <1>4 DEF Mine
    <2>2. {<<"host", w>>} = {<<kind, w>> : kind \in {"host"}}
      OBVIOUS
    <2> QED  BY <1>6, <2>1, <2>2, Dropped
  <1>8. /\ "thread" \in slot'[f][w]
        /\ \A v \in Slots(f) : v # w => slot'[f][v] = slot[f][v]
    BY <1>1, <1>5, <1>6 DEF Mine, Things
  <1>9. \A v \in 0..MaxWorkers[f] : v # w => job'[<<f, v>>] = job[<<f, v>>]
    BY <1>1, <1>2, OneJob DEF CoreMoves
  <1>10. "falling" \in ThreadStates \ {"none"}
    BY DEF ThreadStates
  <1>11. Mine(f)'
    BY <1>4, <1>7, <1>8, <1>9, <1>10, ThreadKeeps
  <1> QED  BY <1>1, <1>2, <1>3, <1>11, StepKeeps

LEMMA ThreadExitsKeeps ==
    ASSUME LifecycleInv, NEW f \in Filters, NEW w \in Slots(f), ThreadExits(f, w)
    PROVE  LifecycleInv'
  <1>1. Mine(f) /\ Shape /\ CoreTypeOK /\ w \in 0..MaxWorkers[f]
    BY SlotsAreCreators DEF LifecycleInv, CoreInv
  <1>2. CoreMoves(f, w) /\ job' = job
    BY <1>1 DEF ThreadExits, coreVars, CoreMoves, CoreTypeOK, OrtStates
  <1>3. OthersAlone(f)
    BY <1>1 DEF ThreadExits, Enter, sysVars, OthersAlone, Shape, Untouched
  <1>4. /\ UNCHANGED <<pc, plan, at, named, count, slot, held>>
        /\ thread' = [thread EXCEPT ![f][w] = "exited"]
        /\ thread[f][w] = "loop"
    BY DEF ThreadExits, Enter, sysVars
  <1>5. "thread" \in slot[f][w]
    BY <1>1, <1>4, ThreadsSlot
  <1>6. Things(f)'
    BY <1>1, <1>4 DEF Mine, Things, Slots
  <1>7. job[<<f, w>>].stage = "idle"
    BY <1>1, <1>4 DEF Mine, JobsOf
  <1>8. "exited" \in ThreadStates \ {"none"}
    BY DEF ThreadStates
  <1>9. Mine(f)'
    BY <1>2, <1>4, <1>5, <1>6, <1>7, <1>8, ThreadKeeps
  <1> QED  BY <1>1, <1>2, <1>3, <1>9, StepKeeps

LEMMA JoinWorkerKeeps ==
    ASSUME LifecycleInv, NEW f \in Filters, JoinWorker(f)
    PROVE  LifecycleInv'
  <1>1. Mine(f) /\ Shape /\ CoreTypeOK
    BY DEF LifecycleInv, CoreInv
  <1>2. pc[f] = "join" /\ at[f] < count[f]
    BY DEF JoinWorker
  <1>3. /\ count[f] \in Nat /\ at[f] \in Nat /\ MaxWorkers[f] \in Nat /\ count[f] <= MaxWorkers[f]
    BY <1>1, WorkersAreSome DEF Mine, Course
  <1>4. PICK w \in Slots(f) : w = at[f] + 1
    BY <1>2, <1>3 DEF Slots
  <1>5. CoreMoves(f, 0) /\ job' = job
    BY <1>1 DEF JoinWorker, coreVars, CoreMoves, CoreTypeOK, OrtStates
  <1>6. OthersAlone(f)
    BY <1>1 DEF JoinWorker, Enter, OthersAlone, Shape, Untouched
  <1>7. /\ pc'[f] = "join" /\ plan'[f] = plan[f] /\ named'[f] = named[f] /\ count'[f] = count[f]
        /\ at'[f] = at[f] + 1
        /\ slot'[f] = [slot[f] EXCEPT ![w] = {}]
        /\ held'[f] = held[f] \ {<<kind, w>> : kind \in slot[f][w]}
        /\ thread'[f] = [thread[f] EXCEPT ![w] = "none"]
    BY <1>1, <1>4 DEF JoinWorker, Enter, Shape
  <1>8. thread[f][w] \in {"none", "exited"}
    BY <1>4 DEF JoinWorker, JoinReady
  <1>9. Things(f)'
    <2>1. slot[f][w] \ slot[f][w] = {}
      OBVIOUS
    <2>2. Things(f)
      BY <1>1 DEF Mine
    <2>3. slot'[f] = [slot[f] EXCEPT ![w] = slot[f][w] \ slot[f][w]]
      BY <1>7, <2>1
    <2> QED  BY <1>7, <2>2, <2>3, Dropped
  <1>10. /\ \A v \in Slots(f) : v # w => slot'[f][v] = slot[f][v] /\ thread'[f][v] = thread[f][v]
         /\ slot'[f][w] = {} /\ thread'[f][w] = "none"
    BY <1>1, <1>7 DEF Mine, Things, Course
  <1>11. Course(f)'
    <2>1. at[f] + 1 \in 0..MaxWorkers[f]
      BY <1>2, <1>3
    <2>2. thread'[f] \in [Slots(f) -> ThreadStates]
      BY <1>1, <1>7 DEF Mine, Course, ThreadStates
    <2> QED  BY <1>1, <1>7, <2>1, <2>2 DEF Mine, Course, Slots, Steps, Serving
  <1>12. Names(f)' /\ Early(f)'
    BY <1>1, <1>2, <1>7 DEF Mine, Names, Early, NeedsCore, Starting, Serving
  <1>13. Filling(f)'
    <2>1. \A v \in Slots(f) : v \in Nat
      BY WorkersAreSome DEF Slots
    <2>2. \A v \in Slots(f) : slot[f][v] # {} => v <= count[f] /\ at[f] < v
      BY <1>1, <1>2 DEF Mine, Filling
    <2>3. \A v \in Slots(f) : slot'[f][v] # {} => v <= count[f] /\ at[f] + 1 < v
      BY <1>3, <1>4, <1>10, <2>1, <2>2
    <2>4. \A v \in Slots(f) : thread'[f][v] # "none" <=> "thread" \in slot'[f][v]
      BY <1>1, <1>10 DEF Mine, Filling
    <2>5. count[f] # 0 => "workers" \in named[f]
      BY <1>1 DEF Mine, Filling
    <2> QED  BY <1>7, <2>3, <2>4, <2>5 DEF Filling, Slots
  <1>14. Counting(f)'
    <2>1. at[f] + 1 <= count[f]
      BY <1>2, <1>3
    <2> QED  BY <1>7, <2>1 DEF Counting, Starting
  <1>15. JobsOf(f)'
    <2>1. job[<<f, w>>].stage = "idle" /\ job[<<f, 0>>].stage = "idle"
      BY <1>1, <1>2, <1>8 DEF Mine, JobsOf
    <2>2. \A v \in Slots(f) : job[<<f, v>>].stage # "idle" => thread'[f][v] \in {"create", "falling"}
      BY <1>1, <1>10, <2>1 DEF Mine, JobsOf
    <2> QED  BY <1>5, <2>1, <2>2 DEF JobsOf, Slots
  <1>16. Mine(f)'
    BY <1>9, <1>11, <1>12, <1>13, <1>14, <1>15 DEF Mine
  <1> QED  BY <1>5, <1>6, <1>16, StepKeeps, ZeroIsACreator

LEMMA WorkersJoinedKeeps ==
    ASSUME LifecycleInv, NEW f \in Filters, WorkersJoined(f)
    PROVE  LifecycleInv'
  <1>1. Mine(f) /\ Shape /\ CoreTypeOK
    BY DEF LifecycleInv, CoreInv
  <1>2. pc[f] = "join" /\ at[f] = count[f]
    BY DEF WorkersJoined
  <1>3. CoreMoves(f, 0) /\ UNCHANGED <<job, thread>>
    BY <1>1 DEF WorkersJoined, coreVars, CoreMoves, CoreTypeOK, OrtStates
  <1>4. OthersAlone(f)
    BY <1>1 DEF WorkersJoined, GoOn, OthersAlone, Shape, Untouched
  <1>5. /\ pc'[f] = "release" /\ plan'[f] = plan[f] /\ count'[f] = 0 /\ at'[f] = 0
        /\ slot'[f] = slot[f]
        /\ held'[f] = held[f] \ Ress({"workers", "lock"})
        /\ named'[f] = named[f] \ {"workers", "lock", "running", "stop"}
    BY <1>1 DEF WorkersJoined, GoOn, Shape
  <1>6. \A w \in Slots(f) : slot[f][w] = {} /\ thread[f][w] = "none"
    <2>1. ASSUME NEW w \in Slots(f), slot[f][w] # {}
          PROVE  FALSE
      <3>1. w <= count[f] /\ count[f] < w
        BY <1>1, <1>2, <2>1 DEF Mine, Filling
      <3>2. w \in Nat /\ count[f] \in Nat
        BY <1>1, WorkersAreSome DEF Mine, Course, Slots
      <3> QED  BY <3>1, <3>2
    <2> QED  BY <1>1, <2>1 DEF Mine, Filling
  <1>7. Things(f)'
    <2>1. {"workers", "lock"} \in SUBSET Pointers /\ {"running", "stop"} \in SUBSET Flags /\ Things(f)
      BY <1>1 DEF Pointers, Flags, Mine
    <2>2. named'[f] = named[f] \ ({"workers", "lock"} \cup {"running", "stop"})
      BY <1>5
    <2> QED  BY <1>5, <2>1, <2>2, GivenBack
  <1>8. Course(f)'
    BY <1>1, <1>3, <1>5, ZeroIsACreator DEF Mine, Course, Slots, Steps
  <1>9. Names(f)' /\ Counting(f)'
    BY <1>5 DEF Names, Counting, Starting, Serving
  <1>10. Early(f)'
    BY <1>1, <1>5 DEF Mine, Early, NeedsCore, Starting
  <1>11. Filling(f)'
    BY <1>3, <1>5, <1>6 DEF Filling, Slots
  <1>12. JobsOf(f)'
    BY <1>1, <1>2, <1>3, <1>5 DEF Mine, JobsOf, Slots
  <1>13. Mine(f)'
    BY <1>7, <1>8, <1>9, <1>10, <1>11, <1>12 DEF Mine
  <1> QED  BY <1>3, <1>4, <1>13, StepKeeps, ZeroIsACreator

LEMMA CloseEndKeeps ==
    ASSUME LifecycleInv, NEW f \in Filters, CloseEnd(f)
    PROVE  LifecycleInv'
  <1>1. CoreTypeOK
    BY DEF LifecycleInv, CoreInv
  <1>2. CoreMoves(f, 0) /\ UNCHANGED <<job, thread>>
    BY <1>1 DEF CloseEnd, UnloadCore, CoreUnloaded, CoreMoves, CoreTypeOK, OrtStates
  <1>3. Mine(f)' /\ OthersAlone(f)
    BY <1>2, Freed DEF CloseEnd
  <1> QED  BY <1>2, <1>3, StepKeeps, ZeroIsACreator

-----------------------------------------------------------------------------
(***************************************************************************)
(* The invariant holds initially and every step keeps it.                  *)
(***************************************************************************)
LEMMA LifecycleStarts == Init => LifecycleInv
  <1> SUFFICES ASSUME Init
               PROVE  LifecycleInv
    OBVIOUS
  <1>1. CoreInv
    <2>1. NoJob \in Jobs /\ NoJob.stage = "idle"
      BY DEF NoJob, Jobs, Stages
    <2>2. CoreTypeOK
      BY <2>1 DEF Init, CoreInit, CoreTypeOK, Jobs, Stages
    <2>3. SavedToRestore
      BY <2>1 DEF Init, CoreInit, SavedToRestore
    <2> QED  BY <2>2, <2>3 DEF CoreInv
  <1>2. Shape /\ SharedTypes
    BY DEF Init, Shape, SharedTypes
  <1>3. ASSUME NEW f \in Filters
        PROVE  Mine(f)
    <2>1. /\ pc[f] = "absent" /\ plan[f] = NoPlan /\ at[f] = 0 /\ named[f] = {}
          /\ slot[f] = NoSlots(f) /\ count[f] = 0 /\ held[f] = {} /\ thread[f] = NoThreads(f)
      BY DEF Init
    <2>2. \A w \in Slots(f) : slot[f][w] = {} /\ thread[f][w] = "none"
      BY <2>1 DEF NoSlots, NoThreads
    <2>3. \A w \in 0..MaxWorkers[f] : job[<<f, w>>].stage = "idle"
      <3>1. \A w \in 0..MaxWorkers[f] : <<f, w>> \in Creators
        BY CreatorsOf, WorkersAreSome
      <3> QED  BY <3>1 DEF Init, CoreInit, NoJob
    <2>4. Things(f)
      BY <2>1, <2>2 DEF Things, NoSlots
    <2>5. Course(f)
      BY <2>1, ZeroIsACreator, NoPlanIsAPlan DEF Course, Plans, NoThreads, ThreadStates, Steps
    <2>6. Names(f) /\ Early(f) /\ Counting(f)
      BY <2>1 DEF Names, Early, NeedsCore, Counting, Starting, Serving
    <2>7. Filling(f)
      BY <2>1, <2>2 DEF Filling
    <2>8. JobsOf(f)
      BY <2>3, SlotsAreCreators, ZeroIsACreator DEF JobsOf
    <2> QED  BY <2>4, <2>5, <2>6, <2>7, <2>8 DEF Mine
  <1> QED  BY <1>1, <1>2, <1>3 DEF LifecycleInv

LEMMA LifecycleSteps == LifecycleInv /\ [Next]_vars => LifecycleInv'
  <1> SUFFICES ASSUME LifecycleInv, [Next]_vars
               PROVE  LifecycleInv'
    OBVIOUS
  <1>1. ASSUME NEW f \in Filters, OpenCall(f) \/ CloseCall(f) \/ FilterLosesHost(f)
        PROVE  LifecycleInv'
    BY <1>1, OpenCallKeeps, CloseCallKeeps, FilterLosesHostKeeps
  <1>2. ASSUME NEW f \in Filters, OpenStep(f)
        PROVE  LifecycleInv'
    BY <1>2, ChooseBackendKeeps, ChooseMapKeeps, LoadCoreKeeps, SizeBackendKeeps, CountWorkersKeeps,
       ChooseOwnKeeps, ChooseHostKeeps, PrepareWorkerKeeps, DetectorForWorkerKeeps, SpawnWorkerKeeps,
       WorkersStartedKeeps, OpenSoleKeeps, SoleDetectorKeeps, EnableIconKeeps DEF OpenStep
  <1>3. ASSUME NEW f \in Filters, CloseStep(f)
        PROVE  LifecycleInv'
    BY <1>3, JoinWorkerKeeps, WorkersJoinedKeeps, CloseEndKeeps DEF CloseStep
  <1>4. ASSUME NEW f \in Filters, NEW w \in Slots(f), ThreadStep(f, w) \/ ThreadLosesHost(f, w)
        PROVE  LifecycleInv'
    BY <1>4, ThreadHasDetectorKeeps, ThreadExitsKeeps, ThreadLosesHostKeeps DEF ThreadStep
  <1>5. CASE UNCHANGED vars
    <2>1. CoreInv' /\ SharedTypes' /\ Shape'
      BY <1>5 DEF LifecycleInv, vars, coreVars, sysVars, CoreInv, CoreTypeOK, SavedToRestore,
         SharedTypes, Shape
    <2>2. ASSUME NEW f \in Filters
          PROVE  Mine(f)'
      <3>1. Untouched(f) /\ SameJobs(f)
        BY <1>5 DEF vars, coreVars, sysVars, Untouched, SameJobs
      <3> QED  BY <3>1, UntouchedKeeps DEF LifecycleInv
    <2> QED  BY <2>1, <2>2 DEF LifecycleInv
  <1> QED  BY <1>1, <1>2, <1>3, <1>4, <1>5, CreationKeeps DEF Next

LEMMA LifecycleHolds == Spec => []LifecycleInv
  BY LifecycleStarts, LifecycleSteps, PTL DEF Spec

-----------------------------------------------------------------------------
(***************************************************************************)
(* What a freed structure leaves behind.                                   *)
(***************************************************************************)
\* What an instance without workers holds is of the structure, and named by it.
LEMMA HeldIsNamed ==
    ASSUME NEW f \in Filters, Mine(f), \A w \in Slots(f) : slot[f][w] = {}
    PROVE  \A r \in held[f] : \E k \in Pointers : k \in named[f] /\ r = Res(k)
  <1>1. \A r \in held[f] : \E k \in Kinds, w \in 0..MaxWorkers[f] : r = <<k, w>>
    BY DEF Mine, Things
  <1>2. ASSUME NEW k \in Kinds, NEW w \in 0..MaxWorkers[f], <<k, w>> \in held[f]
        PROVE  w = 0 /\ k \in named[f] /\ k \in Pointers
    <2>1. w \notin Slots(f)
      BY <1>2 DEF Mine, Things
    <2>2. w = 0
      BY <2>1, WorkersAreSome DEF Slots
    <2>3. k \in named[f]
      BY <1>2, <2>2 DEF Mine, Things
    <2>4. k \in Pointers
      BY <2>3 DEF Mine, Things, Kinds, Flags
    <2> QED  BY <2>2, <2>3, <2>4
  <1> QED  BY <1>1, <1>2 DEF Res

Excused == {<<"backend", "map">>, <<"image", "map">>}

\* FreeSys, where the structure names no more than what was given back, or the code's exception.
LEMMA FreedLeaves ==
    ASSUME NEW f \in Filters, NEW left, FreeSys(f, left),
           \A r \in left : pc[f] = "map" /\ (r = Res("backend") \/ r = Res("image"))
    PROVE  lost' \subseteq Excused
  <1>1. lost' = {<<r[1], pc[f]>> : r \in left}
    BY DEF FreeSys
  <1>2. \A r \in left : <<r[1], pc[f]>> \in Excused
    BY DEF Res, Excused
  <1> QED  BY <1>1, <1>2

LEMMA BackendLeaves ==
    ASSUME LifecycleInv, NEW f \in Filters, ChooseBackend(f)
    PROVE  lost' = lost \/ lost' \subseteq Excused
  <1>1. Mine(f) /\ pc[f] = "backend" /\ named[f] = {}
    BY DEF LifecycleInv, ChooseBackend, Mine, Early
  <1>2. held[f] = {}
    BY <1>1, Idle, HeldIsNamed
  <1>3. CASE FreeSys(f, held[f])
    BY <1>2, <1>3, FreedLeaves
  <1> QED  BY <1>3 DEF ChooseBackend, SoftwareInput, DeclineInput, OpenBackend, OpenConverter

LEMMA MapLeaves ==
    ASSUME LifecycleInv, NEW f \in Filters, ChooseMap(f)
    PROVE  lost' = lost \/ lost' \subseteq Excused
  <1>1. Mine(f) /\ pc[f] = "map" /\ named[f] \subseteq {"backend", "image", "opaque"}
    BY DEF LifecycleInv, ChooseMap, Mine, Early
  <1>2. \A r \in held[f] : r = Res("backend") \/ r = Res("image")
    <2>1. "opaque" \notin Pointers
      BY DEF Pointers
    <2> QED  BY <1>1, <2>1, Idle, HeldIsNamed
  <1>3. CASE FreeSys(f, held[f])
    BY <1>1, <1>2, <1>3, FreedLeaves
  <1> QED  BY <1>3 DEF ChooseMap

LEMMA SizeLeaves ==
    ASSUME LifecycleInv, NEW f \in Filters, SizeBackend(f)
    PROVE  lost' = lost \/ lost' \subseteq Excused
  <1>1. /\ Mine(f) /\ pc[f] = "size" /\ named[f] \subseteq {"backend", "image", "opaque", "core"}
        /\ ~ ("backend" \in named[f] /\ "image" \in named[f])
    BY DEF LifecycleInv, SizeBackend, Mine, Early
  <1>2. CASE "backend" \in named[f]
    <2>1. \A r \in held[f] : r \in Ress(SizeFailureReleases)
      <3>1. "opaque" \notin Pointers
        BY DEF Pointers
      <3>2. \A r \in held[f] : r = Res("backend") \/ r = Res("core")
        BY <1>1, <1>2, <3>1, Idle, HeldIsNamed
      <3> QED  BY <3>2 DEF Ress, SizeFailureReleases
    <2>2. CASE FreeSys(f, held[f] \ Ress(SizeFailureReleases))
      BY <2>1, <2>2, FreedLeaves
    <2> QED  BY <2>2 DEF SizeBackend
  <1> QED  BY <1>2 DEF SizeBackend

LEMMA CloseLeaves ==
    ASSUME LifecycleInv, NEW f \in Filters, CloseEnd(f)
    PROVE  lost' \subseteq Excused
  <1>1. Mine(f) /\ pc[f] = "release"
    BY DEF LifecycleInv, CloseEnd
  <1>2. \A r \in held[f] : r \in Ress(CloseReleases \cap named[f])
    <2>1. "workers" \notin named[f] /\ "lock" \notin named[f]
      BY <1>1, Idle
    <2> QED  BY <1>1, <2>1, Idle, HeldIsNamed DEF Ress, CloseReleases
  <1>3. PICK left : left = held[f] \ Ress(CloseReleases \cap named[f])
    OBVIOUS
  <1>4. FreeSys(f, left)
    BY <1>3 DEF CloseEnd
  <1>5. \A r \in left : FALSE
    BY <1>2, <1>3
  <1> QED  BY <1>4, <1>5, FreedLeaves

(***************************************************************************)
(* Whatever step of Open fails, and after every Close, of any number of    *)
(* instances with any number of workers, nothing that an instance took is  *)
(* left behind, but for the backend or converter that Open forgets when    *)
(* the paths of the decision map cannot be copied (nsfw_filter.c:462-470). *)
(***************************************************************************)
THEOREM ClosedLeavesNothing == Spec => []NothingLeftBehind
  <1>1. Init => NothingLeftBehind
    BY DEF Init, NothingLeftBehind
  <1>2. LifecycleInv /\ NothingLeftBehind /\ [Next]_vars => NothingLeftBehind'
    <2> SUFFICES ASSUME LifecycleInv, lost \subseteq Excused, [Next]_vars
                 PROVE  lost' \subseteq Excused
      BY DEF NothingLeftBehind, Excused
    <2>1. ASSUME NEW f \in Filters,
                 OpenCall(f) \/ CloseCall(f) \/ FilterLosesHost(f)
          PROVE  lost' = lost
      BY <2>1 DEF OpenCall, CloseCall, FilterLosesHost
    <2>2. ASSUME NEW f \in Filters, OpenStep(f)
          PROVE  lost' \subseteq Excused
      <3>1. CASE ChooseBackend(f) \/ ChooseMap(f) \/ SizeBackend(f)
        BY <3>1, BackendLeaves, MapLeaves, SizeLeaves
      <3>2. CASE LoadCore(f) \/ CountWorkers(f) \/ ChooseOwn(f) \/ ChooseHost(f)
        BY <3>2 DEF LoadCore, CountWorkers, ChooseOwn, ChooseHost
      <3>3. CASE PrepareWorker(f) \/ DetectorForWorker(f) \/ SpawnWorker(f) \/ WorkersStarted(f)
        BY <3>3 DEF PrepareWorker, DetectorForWorker, SpawnWorker, WorkersStarted
      <3>4. CASE OpenSole(f) \/ SoleDetector(f) \/ EnableIcon(f)
        BY <3>4 DEF OpenSole, SoleDetector, EnableIcon
      <3> QED  BY <2>2, <3>1, <3>2, <3>3, <3>4 DEF OpenStep
    <2>3. ASSUME NEW f \in Filters, CloseStep(f)
          PROVE  lost' \subseteq Excused
      <3>1. CASE JoinWorker(f) \/ WorkersJoined(f)
        BY <3>1 DEF JoinWorker, WorkersJoined
      <3> QED  BY <2>3, <3>1, CloseLeaves DEF CloseStep
    <2>4. ASSUME NEW f \in Filters, NEW w \in Slots(f), ThreadStep(f, w) \/ ThreadLosesHost(f, w)
          PROVE  lost' = lost
      BY <2>4 DEF ThreadStep, ThreadHasDetector, ThreadExits, ThreadLosesHost
    <2>5. CASE Creation
      BY <2>5 DEF Creation, CreationOf
    <2>6. CASE UNCHANGED vars
      BY <2>6 DEF vars
    <2> QED  BY <2>1, <2>2, <2>3, <2>4, <2>5, <2>6 DEF Next
  <1> QED  BY <1>1, <1>2, LifecycleHolds, PTL DEF Spec

(***************************************************************************)
(* A worker thread that runs has the structure's workers, lock and core,   *)
(* its own slot and the backend; a thread inside icop_core, and a          *)
(* detector, have the core: no failure of Open, no order of Close and no   *)
(* step of another instance takes them away.                               *)
(***************************************************************************)
THEOREM RunningThreadsAreSafe == Spec => []ThreadsHaveWhatTheyUse
  <1>1. LifecycleInv => ThreadsHaveWhatTheyUse
    <2> SUFFICES ASSUME LifecycleInv, NEW f \in Filters
                 PROVE  /\ \A w \in Slots(f) : Running(f, w) =>
                             /\ Ress({"core", "lock", "workers"}) \subseteq held[f]
                             /\ "thread" \in slot[f][w]
                             /\ "backend" \in named[f] => Res("backend") \in held[f]
                        /\ \A w \in 0..MaxWorkers[f] : InCore(<<f, w>>) => Res("core") \in held[f]
                        /\ \A w \in 0..MaxWorkers[f] :
                             <<"detector", w>> \in held[f] => Res("core") \in held[f]
      BY DEF ThreadsHaveWhatTheyUse
    <2>1. Mine(f)
      BY DEF LifecycleInv
    <2>2. \A k \in Pointers : k \in named[f] => Res(k) \in held[f]
      BY <2>1 DEF Mine, Things, Kinds, Res
    <2>3. "core" \in named[f] => Res("core") \in held[f]
      BY <2>2 DEF Pointers
    <2>4. ASSUME NEW w \in Slots(f), thread[f][w] # "none"
          PROVE  /\ Ress({"core", "lock", "workers"}) \subseteq held[f]
                 /\ "thread" \in slot[f][w]
      <3>1. "thread" \in slot[f][w] /\ "workers" \in named[f] /\ "core" \in named[f]
        BY <2>1, <2>4, ThreadsSlot
      <3>2. "lock" \in named[f]
        BY <2>1, <3>1 DEF Mine, Names
      <3> QED  BY <2>2, <3>1, <3>2 DEF Ress, Pointers
    <2>5. ASSUME NEW w \in 0..MaxWorkers[f], job[<<f, w>>].stage # "idle"
          PROVE  "core" \in named[f]
      <3>1. CASE w = 0
        BY <2>1, <2>5, <3>1 DEF Mine, JobsOf, Early, NeedsCore, Starting
      <3>2. CASE w # 0
        <4>1. w \in Slots(f)
          BY <3>2, WorkersAreSome DEF Slots
        <4>2. thread[f][w] # "none"
          BY <2>1, <2>5, <4>1 DEF Mine, JobsOf
        <4> QED  BY <2>1, <4>1, <4>2, ThreadsSlot
      <3> QED  BY <3>1, <3>2
    <2>6. ASSUME NEW w \in 0..MaxWorkers[f], <<"detector", w>> \in held[f]
          PROVE  "core" \in named[f]
      <3>1. "detector" \in Kinds
        BY DEF Kinds, Pointers
      <3>2. CASE w = 0
        BY <2>1, <2>6, <3>1, <3>2 DEF Mine, Things, Early, NeedsCore
      <3>3. CASE w # 0
        <4>1. w \in Slots(f)
          BY <3>3, WorkersAreSome DEF Slots
        <4>2. slot[f][w] # {}
          BY <2>1, <2>6, <3>1, <4>1 DEF Mine, Things
        <4>3. count[f] # 0 \/ pc[f] = "spawn"
          BY <2>1, <4>1, <4>2, WorkersAreSome DEF Mine, Filling, Slots
        <4> QED  BY <2>1, <4>3 DEF Mine, Filling, Early, NeedsCore, Starting
      <3> QED  BY <3>2, <3>3
    <2> QED  BY <2>2, <2>3, <2>4, <2>5, <2>6 DEF Running, InCore, Pointers
  <1> QED  BY <1>1, LifecycleHolds, PTL

=============================================================================
