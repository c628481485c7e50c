-------------------------- MODULE PluginLifecycle --------------------------
(***************************************************************************)
(* Open and Close of every instance of the filter in one process: what     *)
(* each takes (the video backend, VLC's image converter, icop_core, a      *)
(* detector, a helper process, worker threads and what they share, the     *)
(* window icon), in which order, what it gives back when a step fails, and *)
(* what Close gives back.  Instances are opened and closed by threads of   *)
(* their own and share icop_core and the environment (DetectorCore).       *)
(*                                                                         *)
(* `held' is what an instance really holds; `named' and `slot' are the     *)
(* pointers of its filter_sys_t, all that Close can go by.  A thing that   *)
(* is held and not named is lost when the structure is freed.              *)
(*                                                                         *)
(* Abstracted: what a backend acquires inside its own open (it gives it    *)
(* back itself when it fails); the settings (PluginConfig); pictures: of   *)
(* the running filter only the loss of the helper process is left, after   *)
(* which the worker, or Filter, makes a detector of its own                *)
(* (InferenceHost), and a flush waits for that.  Memory is taken to run    *)
(* out only where the code's answer is modelled.  The variable             *)
(* NSFW_ONNX_INTRA_OP_THREADS is left out.                                 *)
(***************************************************************************)
EXTENDS DetectorCore

CONSTANT
    Inputs     \* the kinds of pictures each instance may be opened for

ASSUME InputsAssumption == Inputs \in [Filters -> SUBSET {"software", "hardware"}]

VARIABLES
    windows,   \* the Windows build or the pthread build; never changes
    mapped,    \* the options name a decision map; never changes
    pc,        \* how far the instance is in Open or Close
    plan,      \* desired_workers, create_detector_on_thread, use_cuda_host
    at,        \* its loop variable, and that of StopDetectorWorker
    named,     \* the pointers and flags of filter_sys_t that are set
    slot,      \* those of each nsfw_worker_state_t
    count,     \* `started', then worker_count
    held,      \* what the instance holds
    thread,    \* its worker threads
    lost       \* history: what the last filter_sys_t to be freed left behind, and where

sysVars == <<plan, at, named, slot, count>>
vars == <<coreVars, windows, mapped, pc, sysVars, held, thread, lost>>

Slots(f) == 1..MaxWorkers[f]
NoSlots(f) == [i \in Slots(f) |-> {}]
NoThreads(f) == [i \in Slots(f) |-> "none"]
NoPlan == [workers |-> 0, own |-> FALSE, host |-> FALSE]

Opener(f) == <<f, 0>>
Res(kind) == <<kind, 0>>
Ress(kinds) == {Res(kind) : kind \in kinds}

\* Pointers of filter_sys_t; its flags hold nothing.
Pointers == {"backend", "image", "core", "workers", "lock", "detector", "host", "paths", "icon"}
Flags == {"opaque", "running", "stop"}

GoOn(f, step) == pc' = [pc EXCEPT ![f] = step]

\* A thing is acquired, and its pointer stored.
Acquire(f, kinds) ==
    /\ held' = [held EXCEPT ![f] = @ \cup Ress(kinds)]
    /\ named' = [named EXCEPT ![f] = @ \cup kinds]

Release(f, kinds) ==
    /\ held' = [held EXCEPT ![f] = @ \ Ress(kinds)]
    /\ named' = [named EXCEPT ![f] = @ \ kinds]

\* free(p_sys), when `left' is still held.
FreeSys(f, left) ==
    /\ pc' = [pc EXCEPT ![f] = "absent"]
    /\ plan' = [plan EXCEPT ![f] = NoPlan]
    /\ at' = [at EXCEPT ![f] = 0]
    /\ named' = [named EXCEPT ![f] = {}]
    /\ slot' = [slot EXCEPT ![f] = NoSlots(f)]
    /\ count' = [count EXCEPT ![f] = 0]
    /\ held' = [held EXCEPT ![f] = {}]
    /\ lost' = {<<r[1], pc[f]>> : r \in left}

\* dlclose: the core stays as long as another instance has it.
UnloadCore(f) ==
    IF Res("core") \in held[f] /\ \A g \in Filters \ {f} : Res("core") \notin held[g]
    THEN CoreUnloaded
    ELSE UNCHANGED ort
-----------------------------------------------------------------------------
(***************************************************************************)
(* Open, up to the detectors.                                              *)
(***************************************************************************)
\* The structure is allocated and the options go to the environment.
OpenCall(f) ==
    /\ pc[f] = "absent"
    /\ provider' = setting
    /\ GoOn(f, "backend")
    /\ UNCHANGED <<setting, installed, ort, job, windows, mapped, sysVars, held, thread, lost>>

\* Software pictures need no backend.
SoftwareInput(f) ==
    /\ "software" \in Inputs[f]
    /\ GoOn(f, "map")
    /\ UNCHANGED <<sysVars, held, lost>>

\* VideoToolbox's pictures when VLC can convert them, and every failure but VAAPI's.
DeclineInput(f) ==
    /\ "hardware" \in Inputs[f]
    /\ FreeSys(f, held[f])

\* nsfw_d3d11_open, nsfw_vaapi_open
OpenBackend(f) ==
    /\ "hardware" \in Inputs[f]
    /\ Acquire(f, {"backend"})
    /\ GoOn(f, "map")
    /\ UNCHANGED <<plan, at, slot, count, lost>>

\* Pictures on the GPU without a backend are converted by VLC for the analysis.
OpenConverter(f) ==
    /\ "hardware" \in Inputs[f]
    /\ held' = [held EXCEPT ![f] = @ \cup {Res("image")}]
    /\ named' = [named EXCEPT ![f] = @ \cup {"image", "opaque"}]
    /\ GoOn(f, "map")
    /\ UNCHANGED <<plan, at, slot, count, lost>>

(***************************************************************************)
(* nsfw_backend_open: on Windows a failed D3D11 backend declines, elsewhere *)
(* a failed VAAPI backend leaves the converter; without a converter Open   *)
(* fails.                                                                  *)
(***************************************************************************)
ChooseBackend(f) ==
    /\ pc[f] = "backend"
    /\ SoftwareInput(f) \/ DeclineInput(f) \/ OpenBackend(f) \/ OpenConverter(f)
    /\ UNCHANGED <<coreVars, windows, mapped, thread>>

\* With a decision map there is no detector; a failed copy of the paths frees the structure.
ChooseMap(f) ==
    /\ pc[f] = "map"
    /\ \/ /\ ~mapped
          /\ GoOn(f, "core")
          /\ UNCHANGED <<sysVars, held, lost>>
       \/ /\ mapped
          /\ Acquire(f, {"paths"})
          /\ GoOn(f, "icon")
          /\ UNCHANGED <<plan, at, slot, count, lost>>
       \/ /\ mapped
          /\ FreeSys(f, held[f])
    /\ UNCHANGED <<coreVars, windows, mapped, thread>>

\* LoadCoreModule: a library that lacks a function is unloaded again.
LoadCore(f) ==
    /\ pc[f] = "core"
    /\ IF "core" \in installed
       THEN Acquire(f, {"core"}) /\ GoOn(f, "size")
       ELSE GoOn(f, "icon") /\ UNCHANGED <<held, named>>
    /\ UNCHANGED <<coreVars, windows, mapped, plan, at, slot, count, thread, lost>>

SizeFailureReleases_NotBackend == {"core"}

\* The backend cannot be sized for the model: both are given back and Open fails.
SizeFailureReleases == {"core", "backend"}

SizeBackend(f) ==
    /\ pc[f] = "size"
    /\ \/ /\ GoOn(f, IF "opaque" \in named[f] THEN "sole" ELSE "start")
          /\ UNCHANGED <<sysVars, held, lost, ort>>
       \/ /\ "backend" \in named[f]
          /\ UnloadCore(f)
          /\ FreeSys(f, held[f] \ Ress(SizeFailureReleases))
    /\ UNCHANGED <<setting, installed, provider, job, windows, mapped, thread>>
-----------------------------------------------------------------------------
(***************************************************************************)
(* StartDetectorWorker.                                                    *)
(***************************************************************************)
WantsGpu == provider = "gpu"

Desired(f) == IF "backend" \in named[f] \/ WantsGpu THEN {1} ELSE Slots(f)

\* The workers cannot be allocated, or wait to be started one by one.
Allocate(f, chosen) ==
    \/ /\ plan' = [plan EXCEPT ![f] = NoPlan]
       /\ GoOn(f, "sole")
       /\ UNCHANGED <<held, named>>
    \/ /\ plan' = [plan EXCEPT ![f] = chosen]
       /\ Acquire(f, {"workers", "lock"})
       /\ GoOn(f, "slot")

(***************************************************************************)
(* The variable is read for the number of workers, for the detectors they  *)
(* create themselves and, on Windows, for the helper processes, while      *)
(* another instance may be changing it.                                    *)
(***************************************************************************)
CountWorkers(f) ==
    /\ pc[f] = "start"
    /\ \E n \in Desired(f) : plan' = [plan EXCEPT ![f].workers = n]
    /\ GoOn(f, "own")
    /\ UNCHANGED <<coreVars, windows, mapped, at, named, slot, count, held, thread, lost>>

ChooseOwn(f) ==
    /\ pc[f] = "own"
    /\ LET chosen == [plan[f] EXCEPT !.own = WantsGpu]
       IN  IF windows
           THEN plan' = [plan EXCEPT ![f] = chosen] /\ GoOn(f, "host") /\ UNCHANGED <<held, named>>
           ELSE Allocate(f, chosen)
    /\ UNCHANGED <<coreVars, windows, mapped, at, slot, count, thread, lost>>

ChooseHost(f) ==
    /\ pc[f] = "host"
    /\ Allocate(f, [plan[f] EXCEPT !.host = WantsGpu, !.own = @ /\ ~WantsGpu])
    /\ UNCHANGED <<coreVars, windows, mapped, at, slot, count, thread, lost>>

SlotOf_Attempt(f) == at[f] + 1

\* Attempt number `at' goes into the first slot that is free, so that failures leave no gap.
SlotOf(f) == count[f] + 1

Fill(f, kind) ==
    /\ slot' = [slot EXCEPT ![f][SlotOf(f)] = @ \cup {kind}]
    /\ held' = [held EXCEPT ![f] = @ \cup {<<kind, SlotOf(f)>>}]

\* The worker cannot be started: its slot is used for the next one.
SkipWorker(f) ==
    /\ slot' = [slot EXCEPT ![f][SlotOf(f)] = {}]
    /\ held' = [held EXCEPT ![f] = @ \ {<<kind, SlotOf(f)>> : kind \in slot[f][SlotOf(f)]}]
    /\ at' = [at EXCEPT ![f] = @ + 1]
    /\ GoOn(f, "slot")

(***************************************************************************)
(* Out of memory; StartWindowsInferenceEndpoint, with or without a helper; *)
(* a detector that the thread creates itself; one that is created here.    *)
(***************************************************************************)
PrepareWorker(f) ==
    /\ pc[f] = "slot"
    /\ at[f] < plan[f].workers
    /\ \/ SkipWorker(f) /\ UNCHANGED job
       \/ /\ plan[f].host
          /\ Fill(f, "host")
          /\ GoOn(f, "spawn")
          /\ UNCHANGED <<job, at>>
       \/ /\ plan[f].host
          /\ AskCpuFallback(Opener(f))
          /\ GoOn(f, "create")
          /\ UNCHANGED <<slot, held, at>>
       \/ /\ ~plan[f].host /\ plan[f].own
          /\ GoOn(f, "spawn")
          /\ UNCHANGED <<slot, held, at, job>>
       \/ /\ ~plan[f].host /\ ~plan[f].own
          /\ AskDetector(Opener(f))
          /\ GoOn(f, "create")
          /\ UNCHANGED <<slot, held, at>>
    /\ UNCHANGED <<setting, installed, provider, ort, windows, mapped, plan, named, count, thread, lost>>

DetectorForWorker(f) ==
    /\ pc[f] = "create"
    /\ Answered(Opener(f))
    /\ Taken(Opener(f))
    /\ IF Made(Opener(f)) = NoDetector
       THEN SkipWorker(f)
       ELSE Fill(f, "detector") /\ GoOn(f, "spawn") /\ UNCHANGED at
    /\ UNCHANGED <<setting, installed, provider, ort, windows, mapped, plan, named, count, thread, lost>>

SpawnWorker(f) ==
    /\ pc[f] = "spawn"
    /\ \/ SkipWorker(f) /\ UNCHANGED <<thread, count, job>>
       \/ /\ Fill(f, "thread")
          /\ count' = [count EXCEPT ![f] = @ + 1]
          /\ at' = [at EXCEPT ![f] = @ + 1]
          /\ GoOn(f, "slot")
          /\ IF plan[f].own
             THEN /\ thread' = [thread EXCEPT ![f][SlotOf(f)] = "create"]
                  /\ AskDetector(<<f, SlotOf(f)>>)
             ELSE /\ thread' = [thread EXCEPT ![f][SlotOf(f)] = "loop"]
                  /\ UNCHANGED job
    /\ UNCHANGED <<setting, installed, provider, ort, windows, mapped, plan, named, lost>>

WorkersStarted(f) ==
    /\ pc[f] = "slot"
    /\ at[f] = plan[f].workers
    /\ at' = [at EXCEPT ![f] = 0]
    /\ plan' = [plan EXCEPT ![f] = NoPlan]
    /\ IF count[f] = 0
       THEN Release(f, {"workers", "lock"}) /\ GoOn(f, "sole")
       ELSE /\ named' = [named EXCEPT ![f] = @ \cup {"running"}]
            /\ GoOn(f, "icon")
            /\ UNCHANGED held
    /\ UNCHANGED <<coreVars, windows, mapped, slot, count, thread, lost>>
-----------------------------------------------------------------------------
(***************************************************************************)
(* Open without workers, and its end.                                      *)
(***************************************************************************)
\* StartSynchronousInferenceEndpoint on Windows, else a detector for Filter itself.
OpenSole(f) ==
    /\ pc[f] = "sole"
    /\ \/ /\ windows /\ WantsGpu
          /\ Acquire(f, {"host"})
          /\ GoOn(f, "icon")
          /\ UNCHANGED job
       \/ /\ IF windows /\ WantsGpu THEN AskCpuFallback(Opener(f)) ELSE AskDetector(Opener(f))
          /\ GoOn(f, "judge")
          /\ UNCHANGED <<held, named>>
    /\ UNCHANGED <<setting, installed, provider, ort, windows, mapped, plan, at, slot, count, thread, lost>>

\* Without a detector Filter goes on all the same (SyncFilter).
SoleDetector(f) ==
    /\ pc[f] \in {"judge", "fall"}
    /\ Answered(Opener(f))
    /\ Taken(Opener(f))
    /\ IF Made(Opener(f)) = NoDetector
       THEN UNCHANGED <<held, named>>
       ELSE Acquire(f, {"detector"})
    /\ GoOn(f, IF pc[f] = "judge" THEN "icon" ELSE "open")
    /\ UNCHANGED <<setting, installed, provider, ort, windows, mapped, plan, at, slot, count, thread, lost>>

\* nsfw_plat_window_icon_enable: an instance that got the icon is one of its users.
EnableIcon(f) ==
    /\ pc[f] = "icon"
    /\ IF windows /\ "icon" \in installed
       THEN Acquire(f, {"icon"})
       ELSE UNCHANGED <<held, named>>
    /\ GoOn(f, "open")
    /\ UNCHANGED <<coreVars, windows, mapped, plan, at, slot, count, thread, lost>>

\* Both helpers have failed during Filter, which then makes a detector before it returns.
FilterLosesHost(f) ==
    /\ pc[f] = "open"
    /\ "host" \in named[f]
    /\ Release(f, {"host"})
    /\ AskCpuFallback(Opener(f))
    /\ GoOn(f, "fall")
    /\ UNCHANGED <<setting, installed, provider, ort, windows, mapped, plan, at, slot, count, thread, lost>>
-----------------------------------------------------------------------------
(***************************************************************************)
(* A worker thread.                                                        *)
(***************************************************************************)
Enter(f, w, state) == thread' = [thread EXCEPT ![f][w] = state]

\* Its detector is there, or it goes on without one.
ThreadHasDetector(f, w) ==
    /\ thread[f][w] \in {"create", "falling"}
    /\ Answered(<<f, w>>)
    /\ Taken(<<f, w>>)
    /\ IF Made(<<f, w>>) = NoDetector
       THEN UNCHANGED <<slot, held>>
       ELSE /\ slot' = [slot EXCEPT ![f][w] = @ \cup {"detector"}]
            /\ held' = [held EXCEPT ![f] = @ \cup {<<"detector", w>>}]
    /\ Enter(f, w, "loop")
    /\ UNCHANGED <<setting, installed, provider, ort, windows, mapped, pc, plan, at, named, count, lost>>

\* Both helpers have failed during a picture (InferenceHost).
ThreadLosesHost(f, w) ==
    /\ thread[f][w] = "loop"
    /\ pc[f] = "open"
    /\ "host" \in slot[f][w]
    /\ slot' = [slot EXCEPT ![f][w] = @ \ {"host"}]
    /\ held' = [held EXCEPT ![f] = @ \ {<<"host", w>>}]
    /\ AskCpuFallback(<<f, w>>)
    /\ Enter(f, w, "falling")
    /\ UNCHANGED <<setting, installed, provider, ort, windows, mapped, pc, plan, at, named, count, lost>>

ThreadExits(f, w) ==
    /\ thread[f][w] = "loop"
    /\ "stop" \in named[f]
    /\ Enter(f, w, "exited")
    /\ UNCHANGED <<coreVars, windows, mapped, pc, sysVars, held, lost>>

ThreadStep(f, w) == ThreadHasDetector(f, w) \/ ThreadExits(f, w)
-----------------------------------------------------------------------------
(***************************************************************************)
(* Close: Flush waits for pictures in the works, StopDetectorWorker joins  *)
(* the threads in order, then everything that is named is released.        *)
(***************************************************************************)
CloseCall(f) ==
    /\ pc[f] = "open"
    /\ \A w \in Slots(f) : thread[f][w] # "falling"
    /\ IF "running" \in named[f]
       THEN named' = [named EXCEPT ![f] = @ \cup {"stop"}] /\ GoOn(f, "join")
       ELSE GoOn(f, "release") /\ UNCHANGED named
    /\ UNCHANGED <<coreVars, windows, mapped, plan, at, slot, count, held, thread, lost>>

JoinReady_AtOnce(f, w) == TRUE

JoinReady(f, w) == thread[f][w] \in {"none", "exited"}

JoinWorker(f) ==
    /\ pc[f] = "join"
    /\ at[f] < count[f]
    /\ LET w == at[f] + 1
       IN  /\ JoinReady(f, w)
           /\ Enter(f, w, "none")
           /\ slot' = [slot EXCEPT ![f][w] = {}]
           /\ held' = [held EXCEPT ![f] = @ \ {<<kind, w>> : kind \in slot[f][w]}]
    /\ at' = [at EXCEPT ![f] = @ + 1]
    /\ UNCHANGED <<coreVars, windows, mapped, pc, plan, named, count, lost>>

WorkersJoined(f) ==
    /\ pc[f] = "join"
    /\ at[f] = count[f]
    /\ at' = [at EXCEPT ![f] = 0]
    /\ count' = [count EXCEPT ![f] = 0]
    /\ held' = [held EXCEPT ![f] = @ \ Ress({"workers", "lock"})]
    /\ named' = [named EXCEPT ![f] = @ \ {"workers", "lock", "running", "stop"}]
    /\ GoOn(f, "release")
    /\ UNCHANGED <<coreVars, windows, mapped, plan, slot, thread, lost>>

CloseReleases_NotIcon == Pointers \ {"workers", "lock", "icon"}

CloseReleases == Pointers \ {"workers", "lock"}

CloseEnd(f) ==
    /\ pc[f] = "release"
    /\ UnloadCore(f)
    /\ FreeSys(f, held[f] \ Ress(CloseReleases \cap named[f]))
    /\ UNCHANGED <<setting, installed, provider, job, windows, mapped, thread>>

OpenStep(f) ==
    \/ ChooseBackend(f) \/ ChooseMap(f) \/ LoadCore(f) \/ SizeBackend(f)
    \/ CountWorkers(f) \/ ChooseOwn(f) \/ ChooseHost(f)
    \/ PrepareWorker(f) \/ DetectorForWorker(f) \/ SpawnWorker(f) \/ WorkersStarted(f)
    \/ OpenSole(f) \/ SoleDetector(f) \/ EnableIcon(f)

CloseStep(f) == JoinWorker(f) \/ WorkersJoined(f) \/ CloseEnd(f)

CreationOf(c) == CreateStep(c) /\ UNCHANGED <<windows, mapped, pc, sysVars, held, thread, lost>>

Creation == \E c \in Creators : CreationOf(c)

Init ==
    /\ CoreInit
    /\ windows \in BOOLEAN
    /\ mapped \in BOOLEAN
    /\ pc = [f \in Filters |-> "absent"]
    /\ plan = [f \in Filters |-> NoPlan]
    /\ at = [f \in Filters |-> 0]
    /\ named = [f \in Filters |-> {}]
    /\ slot = [f \in Filters |-> NoSlots(f)]
    /\ count = [f \in Filters |-> 0]
    /\ held = [f \in Filters |-> {}]
    /\ thread = [f \in Filters |-> NoThreads(f)]
    /\ lost = {}

Next ==
    \/ \E f \in Filters : OpenCall(f) \/ CloseCall(f) \/ FilterLosesHost(f)
    \/ \E f \in Filters : OpenStep(f) \/ CloseStep(f)
    \/ \E f \in Filters : \E w \in Slots(f) : ThreadStep(f, w) \/ ThreadLosesHost(f, w)
    \/ Creation

Spec == Init /\ [][Next]_vars
-----------------------------------------------------------------------------
Kinds == Pointers \cup {"thread"}

\* Every variable holds a value of its kind.
TypeOK ==
    /\ CoreTypeOK
    /\ windows \in BOOLEAN
    /\ mapped \in BOOLEAN
    /\ pc \in [Filters -> {"absent", "backend", "map", "core", "size", "start", "own", "host",
                           "slot", "create", "spawn", "sole", "judge", "icon", "open",
                           "fall", "join", "release"}]
    /\ named \in [Filters -> SUBSET (Pointers \cup Flags)]
    /\ \A f \in Filters :
        /\ plan[f] \in [workers : 0..MaxWorkers[f], own : BOOLEAN, host : BOOLEAN]
        /\ at[f] \in 0..MaxWorkers[f]
        /\ slot[f] \in [Slots(f) -> SUBSET {"thread", "detector", "host"}]
        /\ count[f] \in 0..MaxWorkers[f]
        /\ held[f] \subseteq Kinds \X (0..MaxWorkers[f])
        /\ thread[f] \in [Slots(f) -> {"none", "create", "loop", "falling", "exited"}]
    /\ lost \subseteq Kinds \X {"backend", "map", "size", "release"}

(***************************************************************************)
(* Whichever step of Open fails, and after every Close, nothing is left of *)
(* what the instance took: no thread, lock, helper, detector or reference  *)
(* to icop_core, and no use of the window icon.  The one exception is in   *)
(* the code: when the paths of the decision map cannot be copied, Open     *)
(* frees the structure without closing the backend or the converter that   *)
(* it names (nsfw_filter.c:462-470).                                       *)
(***************************************************************************)
NothingLeftBehind == lost \subseteq {<<"backend", "map">>, <<"image", "map">>}

(***************************************************************************)
(* A worker thread uses the structure, the lock, its slot, the backend and *)
(* icop_core, and a thread that is inside icop_core runs its code.  No     *)
(* failure in Open and no order of Close takes any of them away from a     *)
(* thread that is still running, however workers failed to start before it *)
(* and whatever another instance closes.                                   *)
(***************************************************************************)
Running(f, w) == thread[f][w] \in {"create", "loop", "falling"}

ThreadsHaveWhatTheyUse ==
    \A f \in Filters :
        /\ \A w \in Slots(f) : Running(f, w) =>
            /\ Ress({"core", "lock", "workers"}) \subseteq held[f]
            /\ "thread" \in slot[f][w]
            /\ "backend" \in named[f] => Res("backend") \in held[f]
        /\ \A w \in 0..MaxWorkers[f] : InCore(<<f, w>>) => Res("core") \in held[f]
        /\ \A w \in 0..MaxWorkers[f] : <<"detector", w>> \in held[f] => Res("core") \in held[f]
=============================================================================
