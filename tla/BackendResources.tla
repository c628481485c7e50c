--------------------------- MODULE BackendResources ---------------------------
(***************************************************************************)
(* What a GPU backend takes from the driver between Open and Close, in the  *)
(* order in which it takes it: nsfw_d3d11_open, nsfw_vaapi_open and then    *)
(* set_analysis_size, any call of which may fail.  A backend that fails     *)
(* goes through its own close function, which can only release the fields   *)
(* it knows; what a helper holds in a local variable it gives back itself.  *)
(***************************************************************************)
EXTENDS Integers, Sequences

CONSTANT Backends

\* nsfw_backend_open knows two of them and VLC's converter; else the pictures are in memory.
ASSUME BackendsAssumption == Backends \subseteq {"d3d11", "vaapi", "converter", "cpu"}

VARIABLES
    backend,   \* the one this instance opens
    script,    \* the calls its Open makes
    phase,     \* "opening", "open", "failed" or "closed"
    done,      \* how many calls of the script were made
    taken      \* what is held

resourceVars == <<backend, script, phase, done, taken>>

Get(r)  == <<"get", r>>    \* cannot fail
Take(r) == <<"take", r>>   \* a failure makes Open fail
Try(r)  == <<"try", r>>    \* a failure is not looked at
Give(r) == <<"give", r>>
Risk(r) == <<"risk", r>>   \* done with what is held; a failure makes Open fail

\* CreateStaticBgraInput: a texture made from pixels, and its view.
StaticInput(texture, input) == <<Take(texture), Take(input)>>

D3D11Device ==
    <<Get("api lock"), Take("probe"), Get("context"), Get("device"), Give("probe"),
      Take("video device"), Take("video context"), Take("enumerator"), Take("processor")>>

D3D11Shaders ==
    <<Take("vertex blob"), Take("vertex shader"), Take("pixel blob"), Take("pixel shader"),
      Take("sampler"), Take("constants"), Give("vertex blob"), Give("pixel blob")>>

D3D11Targets ==
    <<Take("render texture"), Take("render output"),
      Take("blur texture 0"), Take("blur target 0"), Take("blur resource 0"),
      Take("blur texture 1"), Take("blur target 1"), Take("blur resource 1"),
      Take("blur down output"), Take("blur up input"), Take("watermark pixels")>>

D3D11Effects ==
    D3D11Targets
    \o StaticInput("watermark texture", "watermark input") \o <<Give("watermark pixels")>>
    \o StaticInput("black texture", "black input")
    \o <<Take("debug pixels")>> \o StaticInput("debug texture", "debug input")

D3D11Queries == <<Take("disjoint query"), Take("start query"), Take("end query")>>

D3D11Analysis ==
    <<Take("analysis texture"), Take("analysis output"), Take("analysis staging")>>

\* create_bgra_image: an image that is uploaded to a surface and then destroyed.  The
\* surface is the helper's own until the upload is done, and the backend's from then on.
BgraSurface(image, created) ==
    <<Take(image), Take("new surface"), Risk("new surface"), Give(image),
      Get(created), Give("new surface")>>

VaapiContext == <<Take("probe"), Take("api lock"), Take("config"), Take("context"),
                  Take("render surface"), Take("black pixels")>>

VaapiBlur == <<Give("black pixels"), Take("blur surface 0"), Take("blur surface 1"),
               Try("blur image 0"), Try("blur image 1"), Take("watermark pixels")>>

VaapiPanel ==
    <<Give("watermark pixels"), Take("debug image"), Take("debug surface"), Give("probe")>>

VaapiOpen ==
    VaapiContext \o BgraSurface("black image", "black surface")
    \o VaapiBlur \o BgraSurface("watermark image", "watermark surface") \o VaapiPanel

VaapiAnalysis == <<Take("analysis image")>>

Scripts(b) ==
    CASE b = "d3d11" ->
            {D3D11Device \o D3D11Shaders \o D3D11Effects \o queries \o D3D11Analysis :
                queries \in {<<>>, D3D11Queries}}
      [] b = "vaapi" -> {VaapiOpen \o VaapiAnalysis}
      [] b = "converter" -> {<<Take("image handler")>>}
      [] b = "cpu" -> {<<>>}

\* nsfw_d3d11_close, nsfw_vaapi_close with DestroyEffectResources, and
\* image_HandlerDelete for VLC's own conversion.
CloseReleases(b) ==
    CASE b = "d3d11" ->
            {"analysis output", "analysis staging", "analysis texture", "blur down output",
             "blur up input", "render output", "render texture", "watermark input",
             "watermark texture", "black input", "black texture", "debug input",
             "debug texture", "debug pixels", "constants", "end query", "start query",
             "disjoint query", "sampler", "pixel shader", "vertex shader", "processor",
             "enumerator", "video context", "video device", "context", "device", "api lock",
             "blur resource 0", "blur target 0", "blur texture 0",
             "blur resource 1", "blur target 1", "blur texture 1"}
      [] b = "vaapi" ->
            {"blur image 0", "blur image 1", "blur surface 0", "blur surface 1",
             "analysis image", "watermark surface", "black surface", "debug image",
             "debug surface", "render surface", "context", "config", "api lock"}
      [] b = "converter" -> {"image handler"}
      [] b = "cpu" -> {}

\* A mutant: the shader blobs are not given back when a shader is refused.
Locals_NoBlobs == {"probe", "watermark pixels", "black pixels", "black image", "watermark image",
                   "new surface", "analysis texture", "analysis output", "analysis staging"}

\* What the function that fails gives back before it returns: the blobs, the pixels,
\* images and surface of a helper, the probe, the three parts of an analysis size.
\* One set is enough: at each failing call, what is held of it is that function's
\* or a caller's, and each of these releases its own on the way out.
Locals == {"probe", "vertex blob", "pixel blob", "watermark pixels", "black pixels",
           "black image", "watermark image", "new surface",
           "analysis texture", "analysis output", "analysis staging"}

Call == script[done + 1]

ResourcesInit ==
    /\ backend \in Backends
    /\ script \in Scripts(backend)
    /\ phase = "opening"
    /\ done = 0
    /\ taken = {}

Acquire ==
    /\ phase = "opening"
    /\ done < Len(script)
    /\ taken' = CASE Call[1] = "give" -> taken \ {Call[2]}
                  [] Call[1] = "risk" -> taken
                  [] OTHER -> taken \cup {Call[2]}
    /\ done' = done + 1
    /\ UNCHANGED <<backend, script, phase>>

\* blur_mapped stays NULL, and DestroyEffectResources leaves it alone.
GoWithout ==
    /\ phase = "opening"
    /\ done < Len(script) /\ Call[1] = "try"
    /\ done' = done + 1
    /\ UNCHANGED <<backend, script, phase, taken>>

FailToOpen ==
    /\ phase = "opening"
    /\ done < Len(script) /\ Call[1] \in {"take", "risk"}
    /\ taken' = (taken \ Locals) \ CloseReleases(backend)
    /\ phase' = "failed"
    /\ UNCHANGED <<backend, script, done>>

\* nsfw_backend_open: without VAAPI its pictures go through VLC's converter.
FallBack ==
    /\ phase = "failed"
    /\ backend = "vaapi" /\ done < Len(VaapiOpen)
    /\ backend' = "converter"
    /\ script' \in Scripts("converter")
    /\ phase' = "opening"
    /\ done' = 0
    /\ UNCHANGED taken

Opened ==
    /\ phase = "opening"
    /\ done = Len(script)
    /\ phase' = "open"
    /\ UNCHANGED <<backend, script, done, taken>>

CloseResources ==
    /\ phase = "open"
    /\ taken' = taken \ CloseReleases(backend)
    /\ phase' = "closed"
    /\ UNCHANGED <<backend, script, done>>

OpenResources == Acquire \/ GoWithout \/ FailToOpen \/ FallBack \/ Opened
===============================================================================
