---------------------------- MODULE DetectorCore ----------------------------
(***************************************************************************)
(* How a thread of the player's process gets a detector from icop_core:    *)
(* nsfw_detector_create resolves the model's path, loads ONNX Runtime once *)
(* per process (nsfw_onnxruntime_initialized) and opens a session with the *)
(* execution provider that NSFW_ONNX_PROVIDER asks for.  On Windows        *)
(* CreateCpuFallbackDetector wraps that in a change of this environment    *)
(* variable, which belongs to the whole process.                           *)
(*                                                                         *)
(* Nothing here takes a lock: the statics of the one-time load and the     *)
(* environment are shared by the threads of every open filter.  A thread   *)
(* that finds the load attempted may see its outcome, or not yet, or may   *)
(* not even see the attempt and load once more.                            *)
(*                                                                         *)
(* A detector is represented by the provider of its session.  Which of the *)
(* GPU providers registers is left out: "gpu" stands for any of them.      *)
(***************************************************************************)
EXTENDS Naturals

CONSTANTS
    Filters,      \* instances of the filter in one process
    MaxWorkers    \* what ResolveWorkerCount is at most for each of them

ASSUME CreatorsAssumption == MaxWorkers \in [Filters -> Nat \ {0}]

\* <<f, 0>> is the thread on which VLC opens f, <<f, i>> the worker in slot i of f.
Creators == UNION {{f} \X (0..MaxWorkers[f]) : f \in Filters}

VARIABLES
    setting,     \* the option nsfw-provider
    installed,   \* the files and resources that can be loaded; never changes
    provider,    \* NSFW_ONNX_PROVIDER
    ort,         \* s_attempted and s_ready
    job          \* what each creator's call of nsfw_detector_create is doing

coreVars == <<setting, installed, provider, ort, job>>

Providers == {"gpu", "cpu"}
Files == {"core", "model", "runtime", "icon"}
NoDetector == "none"
NotSaved == "not saved"

NoJob == [stage |-> "idle", saved |-> NotSaved, made |-> NoDetector]

At(c, stage) == job[c].stage = stage
MoveTo(c, stage) == job' = [job EXCEPT ![c].stage = stage]

Begin(c, stage) == job' = [job EXCEPT ![c] = [NoJob EXCEPT !.stage = stage]]

\* nsfw_detector_create
AskDetector(c) == Begin(c, "resolve")

\* CreateCpuFallbackDetector
AskCpuFallback(c) == Begin(c, "save")

\* The caller has its answer.
Answered(c) == At(c, "made")
Made(c) == job[c].made
Taken(c) == job' = [job EXCEPT ![c] = NoJob]

\* nsfw_detector_create returns; a fallback still has to put the provider back.
Return(c, detector) ==
    job' = [job EXCEPT ![c].made = detector,
                       ![c].stage = IF job[c].saved = NotSaved THEN "made" ELSE "restore"]

\* current_provider is read and duplicated, which may fail.
SaveProvider(c) ==
    /\ At(c, "save")
    /\ \/ job' = [job EXCEPT ![c].saved = provider, ![c].stage = "swap"]
       \/ MoveTo(c, "made")
    /\ UNCHANGED <<setting, installed, provider, ort>>

SwapProvider(c) ==
    /\ At(c, "swap")
    /\ provider' = "cpu"
    /\ MoveTo(c, "resolve")
    /\ UNCHANGED <<setting, installed, ort>>

\* nsfw_resolve_model_path: without a model there is no detector, whatever the runtime says.
ResolveModel(c) ==
    /\ At(c, "resolve")
    /\ IF "model" \in installed THEN MoveTo(c, "load") ELSE Return(c, NoDetector)
    /\ UNCHANGED <<setting, installed, provider, ort>>

\* nsfw_onnxruntime_initialized, its first test.
UseRuntime(c) ==
    /\ At(c, "load")
    /\ \/ /\ ort \in {"untried", "loading"}
          /\ ort' = "loading"
          /\ MoveTo(c, "loading")
       \/ /\ ort \in {"loading", "failed"}
          /\ Return(c, NoDetector)
          /\ UNCHANGED ort
       \/ /\ ort = "ready"
          /\ MoveTo(c, "session")
          /\ UNCHANGED ort
    /\ UNCHANGED <<setting, installed, provider>>

\* ... and its loading of the library.
LoadRuntime(c) ==
    /\ At(c, "loading")
    /\ IF "runtime" \in installed
       THEN ort' = "ready" /\ MoveTo(c, "session")
       ELSE ort' = "failed" /\ Return(c, NoDetector)
    /\ UNCHANGED <<setting, installed, provider>>

\* onnx_configure_providers: a GPU session may end up on the CPU, never the reverse.
Sessions == {"cpu", provider}

OpenSession(c) ==
    /\ At(c, "session")
    /\ \E detector \in Sessions \cup {NoDetector} : Return(c, detector)
    /\ UNCHANGED <<setting, installed, provider, ort>>

RestoreProvider_Never(c) ==
    /\ At(c, "restore")
    /\ MoveTo(c, "made")
    /\ UNCHANGED <<setting, installed, provider, ort>>

RestoreProvider(c) ==
    /\ At(c, "restore")
    /\ provider' = job[c].saved
    /\ MoveTo(c, "made")
    /\ UNCHANGED <<setting, installed, ort>>

CreateStep(c) ==
    \/ SaveProvider(c) \/ SwapProvider(c) \/ ResolveModel(c) \/ UseRuntime(c)
    \/ LoadRuntime(c) \/ OpenSession(c) \/ RestoreProvider(c)

\* The core's statics go with its last dlclose, where the system really unloads it.
CoreUnloaded == ort' \in {"untried", ort}

CoreInit ==
    /\ setting \in Providers
    /\ installed \in SUBSET Files
    /\ provider = setting
    /\ ort = "untried"
    /\ job = [c \in Creators |-> NoJob]
-----------------------------------------------------------------------------
CoreTypeOK ==
    /\ setting \in Providers
    /\ installed \subseteq Files
    /\ provider \in Providers
    /\ ort \in {"untried", "loading", "ready", "failed"}
    /\ job \in [Creators -> [stage : {"idle", "save", "swap", "resolve", "load", "loading",
                                      "session", "restore", "made"},
                             saved : Providers \cup {NotSaved},
                             made : Providers \cup {NoDetector}]]

\* A thread is inside icop_core.
InCore(c) == job[c].stage \in {"resolve", "load", "loading", "session"}
=============================================================================
