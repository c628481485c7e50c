----------------------------- MODULE DisplayOutput -----------------------------
(***************************************************************************)
(* ApplyDisplayOutput, whatever an instance was opened for: pictures on the *)
(* GPU go to the backend (HardwareBackend), software pictures are masked    *)
(* and get their panel in place (FrameProcessor).  An instance keeps to one *)
(* of the two: backend_ops and opaque_fallback are set by Open only.        *)
(***************************************************************************)
EXTENDS FrameProcessor, HardwareBackend

vars == <<pixelVars, backendVars>>

Software == backend = "cpu"

\* The pixels of a picture on the GPU are out of reach.
Opaque == [chroma |-> OtherChroma, w |-> 0, h |-> 0, planes |-> <<>>]

Init ==
    /\ BackendInit
    /\ original \in IF Software THEN Originals ELSE {Opaque}
    /\ picture = original
    /\ style = "none"
    /\ panel = <<>>

\* ApplyBlockedOutput and nsfw_fp_debug_overlay.
SoftwareOutput ==
    /\ Software /\ phase = "open"
    /\ \/ Mask(block_style)
       \/ debug_overlay /\ \E pair \in PanelScores : ShowPanel(pair)
    /\ UNCHANGED backendVars

OpenInstance == OpenBackend /\ UNCHANGED pixelVars

HardwareOutput ==
    /\ ~Software
    /\ Decode \/ WorkerStep \/ FilterStep \/ DisplayDone \/ CloseBackend
    /\ UNCHANGED pixelVars

Next == OpenInstance \/ SoftwareOutput \/ HardwareOutput

Spec == Init /\ [][Next]_vars
================================================================================
