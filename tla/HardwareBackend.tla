---------------------------- MODULE HardwareBackend ----------------------------
(***************************************************************************)
(* Pictures that stay on the GPU: the detector worker reads them back while *)
(* VLC's thread masks decided ones and composes the debug panel.  Every     *)
(* call of the driver may fail.  Both threads use the D3D11 backend's view  *)
(* cache and targets, under its lock; the VAAPI backend never takes its     *)
(* lock, and the converter has neither masks nor panels.                    *)
(*                                                                         *)
(* A surface is a <<texture, slice>>; what it shows is the picture it was   *)
(* made of, the mask and the score on its panel.  A view is named by the    *)
(* surface it was created for.  Scores are in thousandths.                  *)
(*                                                                         *)
(* Abstracted: geometry, profiling, the quality of VPP scaling, the dump of *)
(* blocked pictures (NSFW_DEBUG_DUMP_PREFIX), and the pipeline around: the  *)
(* verdict is a choice (FilterPipeline has the windows that make it), but   *)
(* a picture that cannot be read back is blocked.                           *)
(***************************************************************************)
EXTENDS BackendResources, FiniteSets

CONSTANTS
    Styles,      \* the block styles the option may name
    Pictures,    \* 1 .. N, in order of arrival
    Surfaces,    \* <<texture, slice>> pairs, textures from 1
    MaxViews,    \* NSFW_D3D11_MAX_VIEWS
    Scores       \* scores of the detector, from 1

VARIABLES
    block_style, debug_overlay,   \* options; they never change
    fits,         \* a whole VAAPI picture fits the model-sized buffer; never changes
    surface,      \* whose each surface is, and what it shows
    home,         \* the surface of each picture that is inside
    fate,         \* how far each picture is
    evaluation,   \* the verdict on it
    seen,         \* history: what was read back last, and for which picture
    shown,        \* history: what the viewer got last, and for which picture
    filter,       \* VLC's thread: its step, picture, source, output and view
    worker,       \* the detector worker: its step, picture and view
    api_lock,     \* who is between BackendLock and BackendUnlock
    views,        \* the cache of input views
    next_view,    \* the entry to be evicted next
    render,       \* what render_texture shows
    blur,         \* what the small blur target shows
    debug,        \* debug_cache_valid, debug_score and what debug_texture shows
    debug_score   \* the score of the last evaluated picture, 0 for none

gpuVars == <<surface, home, fate, evaluation, seen, shown, filter, worker, api_lock, views,
             next_view, render, blur, debug, debug_score>>
options == <<block_style, debug_overlay, fits>>
backendVars == <<resourceVars, options, gpuVars>>

NoSurface == <<0, 0>>

\* ParseBlockStyle knows no other; anything else is black.
ASSUME StylesAssumption == Styles \subseteq {"black", "blur", "warning"}
ASSUME SurfacesAssumption == NoSurface \notin Surfaces
ASSUME PicturesAssumption == Pictures \subseteq Nat \ {0}
ASSUME ViewsAssumption == MaxViews \in Nat \ {0}

NoScore == 0
FailureScore == 1000

Nothing == [pic |-> 0, mask |-> "none", panel |-> NoScore]
Black   == [pic |-> 0, mask |-> "black", panel |-> NoScore]
Raw(p)  == [Nothing EXCEPT !.pic = p]
Garbage == [Nothing EXCEPT !.mask = "released"]
Contents == [pic : Pictures \cup {0}, mask : {"none", "black", "blur", "warning", "released"},
             panel : Scores \cup {NoScore, FailureScore}]

IdleFilter == [step |-> "idle", pic |-> 0, source |-> NoSurface, out |-> NoSurface,
               view |-> NoSurface]
IdleWorker == [step |-> "idle", pic |-> 0, view |-> NoSurface]
Unjudged == [blocked |-> FALSE, score |-> NoScore]
Nobody == [pic |-> 0, content |-> Nothing]

Inside == {p \in Pictures : fate[p] \in {"queued", "decided"}}
Oldest(ps) == CHOOSE p \in ps : \A q \in ps : p <= q
Free == {s \in Surfaces : surface[s].owner = "free"}

\* A surface changes hands; what it shows stays.
Given(to, ss) == [s \in Surfaces |-> IF s \in ss THEN [surface[s] EXCEPT !.owner = to] ELSE surface[s]]
Released(ss) == Given("free", ss)

\* A mutant: the way out of an error forgets the source.
HandBack_OutputOnly == Given("lost", {filter.source})

\* A treatment that fails releases the source and what it had taken for the output.
HandBack == Released({filter.source, filter.out})

BackendInit ==
    /\ ResourcesInit
    /\ block_style \in Styles
    /\ debug_overlay \in BOOLEAN
    /\ fits \in IF backend = "vaapi" THEN BOOLEAN ELSE {TRUE}
    /\ surface = [s \in Surfaces |-> [owner |-> "free", shows |-> Nothing]]
    /\ home = [p \in Pictures |-> NoSurface]
    /\ fate = [p \in Pictures |-> "coming"]
    /\ evaluation = [p \in Pictures |-> Unjudged]
    /\ seen = Nobody
    /\ shown = Nobody
    /\ filter = IdleFilter
    /\ worker = IdleWorker
    /\ api_lock = "free"
    /\ views = [i \in 1 .. MaxViews |-> [key |-> NoSurface, input |-> NoSurface]]
    /\ next_view = 0
    /\ render = Nothing
    /\ blur = Nothing
    /\ debug = [valid |-> FALSE, score |-> NoScore, shows |-> NoScore]
    /\ debug_score = NoScore
-----------------------------------------------------------------------------
(***************************************************************************)
(* The view cache.                                                         *)
(***************************************************************************)
\* A mutant: the lock is initialised and never taken, as in the VAAPI backend.
Lock_Never(who) == api_lock' = who

Lock(who) == /\ api_lock = "free"
             /\ api_lock' = who
Unlock == api_lock' = "free"

Keyed(s) == {i \in 1 .. MaxViews : views[i].key = s}

\* FindCachedView: the entry of the surface, else an empty one, else the next in turn.
EntryOf(s) ==
    IF Keyed(s) # {} THEN Oldest(Keyed(s))
    ELSE IF Keyed(NoSurface) # {} THEN Oldest(Keyed(NoSurface))
    ELSE next_view + 1

\* A mutant: the entry that is evicted keeps the view of the other surface.
KeptInput_Evicted(s) == views[EntryOf(s)].input

KeptInput(s) == IF Keyed(s) # {} THEN views[EntryOf(s)].input ELSE NoSurface

\* GetInputView; NoSurface when the driver makes no view.
GetInputView(s, view) ==
    /\ view \in IF KeptInput(s) # NoSurface THEN {KeptInput(s)} ELSE {s, NoSurface}
    /\ views' = [views EXCEPT ![EntryOf(s)] = [key |-> s, input |-> view]]
    /\ next_view' = IF Keyed(s) = {} /\ Keyed(NoSurface) = {} THEN (next_view + 1) % MaxViews
                    ELSE next_view

\* What a view shows; one that was evicted in between is gone.
Live(view) == \E i \in 1 .. MaxViews : views[i].input = view
Through(view) == IF Live(view) THEN surface[view].shows ELSE Garbage
-----------------------------------------------------------------------------
(***************************************************************************)
(* Pictures come in and are read back.                                     *)
(***************************************************************************)
Decode ==
    /\ phase = "open"
    /\ \E p \in Pictures, s \in Free :
        /\ fate[p] = "coming" /\ \A q \in Pictures : q < p => fate[q] # "coming"
        /\ fate' = [fate EXCEPT ![p] = "queued"]
        /\ home' = [home EXCEPT ![p] = s]
        /\ surface' = [surface EXCEPT ![s] = [owner |-> "queue", shows |-> Raw(p)]]
    /\ UNCHANGED <<resourceVars, options, evaluation, seen, shown, filter, worker, api_lock, views,
                   next_view, render, blur, debug, debug_score>>

Queued == {p \in Pictures : fate[p] = "queued"}
NextToRead(p) == Queued # {} /\ p = Oldest(Queued) /\ worker.step = "idle"

\* The verdict on a picture that was read back, or could not be.
Judge(p, content) ==
    /\ fate' = [fate EXCEPT ![p] = "decided"]
    /\ seen' = [pic |-> p, content |-> content]
    /\ \E e \in IF content = Nothing THEN [blocked : {TRUE}, score : {FailureScore}]
                 ELSE [blocked : BOOLEAN, score : Scores] :
            evaluation' = [evaluation EXCEPT ![p] = e]

\* Between two samples a picture takes the verdict of its window.
Unsampled ==
    /\ \E p \in Pictures :
        /\ NextToRead(p)
        /\ \E blocked \in BOOLEAN : evaluation' = [evaluation EXCEPT ![p].blocked = blocked]
        /\ fate' = [fate EXCEPT ![p] = "decided"]
    /\ UNCHANGED <<resourceVars, options, surface, home, seen, shown, filter, worker, api_lock, views,
                   next_view, render, blur, debug, debug_score>>

\* nsfw_d3d11_readback_rgb up to its view ...
BeginReadback ==
    /\ backend = "d3d11"
    /\ \E p \in Pictures : \E view \in Surfaces \cup {NoSurface} :
        /\ NextToRead(p)
        /\ GetInputView(home[p], view)
        /\ IF view = NoSurface
           THEN api_lock = "free" /\ Judge(p, Nothing) /\ UNCHANGED <<worker, api_lock>>
           ELSE /\ Lock("worker")
                /\ worker' = [step |-> "read", pic |-> p, view |-> view]
                /\ UNCHANGED <<fate, evaluation, seen>>
    /\ UNCHANGED <<resourceVars, options, surface, home, shown, filter, render, blur, debug,
                   debug_score>>

\* ... and from the blit to the analysis texture to its end: the blit or the map may fail.
EndReadback ==
    /\ worker.step = "read"
    /\ \/ Judge(worker.pic, Through(worker.view))
       \/ Judge(worker.pic, Nothing)
    /\ worker' = IdleWorker
    /\ Unlock
    /\ UNCHANGED <<resourceVars, options, surface, home, shown, filter, views, next_view, render,
                   blur, debug, debug_score>>

(***************************************************************************)
(* nsfw_vaapi_readback_rgb copies the whole surface, so that the buffer of *)
(* the model's size is too small for it; VLC's converter scales.  What is  *)
(* kept of a read-back is whose picture it is, not its colours.            *)
(***************************************************************************)
ReadSurface ==
    /\ backend \in {"vaapi", "converter"}
    /\ \E p \in Pictures :
        /\ NextToRead(p)
        /\ \/ fits /\ Judge(p, surface[home[p]].shows)
           \/ Judge(p, Nothing)
    /\ UNCHANGED <<resourceVars, options, surface, home, shown, filter, worker, api_lock, views,
                   next_view, render, blur, debug, debug_score>>
-----------------------------------------------------------------------------
(***************************************************************************)
(* ApplyDisplayOutput on the oldest picture inside.                        *)
(***************************************************************************)
TakeOutput ==
    /\ filter.step = "idle"
    /\ Inside # {} /\ fate[Oldest(Inside)] = "decided"
    /\ LET p == Oldest(Inside)
       IN  /\ filter' = [IdleFilter EXCEPT !.step = IF evaluation[p].blocked THEN "mask" ELSE "panel",
                                           !.pic = p, !.source = home[p]]
           /\ fate' = [fate EXCEPT ![p] = "leaving"]
           /\ home' = [home EXCEPT ![p] = NoSurface]
           /\ surface' = Given("filter", {home[p]})
           /\ seen' = IF seen.pic = p THEN Nobody ELSE seen
           /\ shown' = Nobody
    /\ UNCHANGED <<resourceVars, options, evaluation, worker, api_lock, views, next_view,
                   render, blur, debug, debug_score>>

\* NULL goes back to VLC.
Drop == /\ fate' = [fate EXCEPT ![filter.pic] = "dropped"]
        /\ filter' = IdleFilter
        /\ UNCHANGED shown

\* The picture goes to VLC; `now' is what the surfaces have become.
Show(s, now) ==
    /\ surface' = [now EXCEPT ![s].owner = "display"]
    /\ shown' = [pic |-> filter.pic, content |-> now[s].shows]
    /\ fate' = [fate EXCEPT ![filter.pic] = "shown"]
    /\ filter' = IdleFilter

DisplayDone ==
    /\ \E s \in Surfaces : surface[s].owner = "display" /\ surface' = Released({s})
    /\ UNCHANGED <<resourceVars, options, home, fate, evaluation, seen, shown, filter, worker, api_lock,
                   views, next_view, render, blur, debug, debug_score>>

\* opaque_fallback: the picture is not returned, and nobody releases it.
MaskConverter ==
    /\ backend = "converter"
    /\ filter.step = "mask"
    /\ Drop
    /\ surface' = Given("lost", {filter.source})
    /\ UNCHANGED <<resourceVars, options, home, evaluation, seen, worker, api_lock, views, next_view,
                   render, blur, debug, debug_score>>
-----------------------------------------------------------------------------
(***************************************************************************)
(* nsfw_d3d11_render_blocked.                                              *)
(***************************************************************************)
MaskD3D11 ==
    /\ backend = "d3d11"
    /\ filter.step = "mask"
    /\ \/ /\ Drop
          /\ surface' = HandBack
          /\ UNCHANGED <<api_lock, views, next_view>>
       \/ \E out \in Free : \E view \in Surfaces \cup {NoSurface} :
            /\ GetInputView(filter.source, view)
            /\ IF view = NoSurface
               THEN /\ api_lock = "free"
                    /\ Drop
                    /\ surface' = HandBack
                    /\ UNCHANGED api_lock
               ELSE /\ Lock("filter")
                    /\ filter' = [filter EXCEPT !.step = "effect", !.out = out, !.view = view]
                    /\ surface' = Given("filter", {out})
                    /\ UNCHANGED <<fate, shown>>
    /\ UNCHANGED <<resourceVars, options, home, evaluation, seen, worker, render, blur, debug, debug_score>>

Effect(style, content) ==
    CASE style = "black" -> Black
      [] style = "warning" -> [content EXCEPT !.mask = "warning"]
      [] style = "blur" -> [blur' EXCEPT !.mask = "blur"]

\* A mutant: the failure of RenderBlur's first blit is overlooked.
Blurred_Stale(content) == IF block_style = "blur" THEN {blur, content} ELSE {blur}

\* RenderBlur fills the small target first ...
Blurred(content) == IF block_style = "blur" THEN {content} ELSE {blur}

\* ... and may fail before or after.
BlurStages(content) == {blur} \cup Blurred(content)

\* The picture of the right style; the black one in its place; or none.
EffectD3D11 ==
    /\ filter.step = "effect"
    /\ LET content == Through(filter.view)
           Done == /\ filter' = [filter EXCEPT !.step = "panel", !.source = filter.out]
                   /\ surface' = [Released({filter.source}) EXCEPT ![filter.out].shows = render']
                   /\ UNCHANGED <<fate, shown>>
       IN  \/ /\ blur' \in Blurred(content)
              /\ render' = Effect(block_style, content)
              /\ Done
           \/ /\ block_style # "black"
              /\ blur' \in BlurStages(content)
              /\ render' = Black
              /\ Done
           \/ /\ blur' \in BlurStages(content)
              /\ Drop
              /\ surface' = HandBack
              /\ UNCHANGED render
    /\ Unlock
    /\ UNCHANGED <<resourceVars, options, home, evaluation, seen, worker, views, next_view, debug,
                   debug_score>>
-----------------------------------------------------------------------------
(***************************************************************************)
(* The debug panel.                                                        *)
(***************************************************************************)
LatestScore == IF evaluation[filter.pic].score # NoScore THEN evaluation[filter.pic].score
               ELSE debug_score

\* No panel is asked for, there is no score yet, or the pictures are the converter's.
ShowWithoutPanel ==
    /\ filter.step = "panel"
    /\ ~debug_overlay \/ LatestScore = NoScore \/ backend = "converter"
    /\ debug_score' = IF debug_overlay THEN LatestScore ELSE debug_score
    /\ Show(filter.source, surface)
    /\ UNCHANGED <<resourceVars, options, home, evaluation, seen, worker, api_lock, views, next_view,
                   render, blur, debug>>

WantsPanel == filter.step = "panel" /\ debug_overlay /\ LatestScore # NoScore

PanelD3D11 ==
    /\ backend = "d3d11"
    /\ WantsPanel
    /\ debug_score' = LatestScore
    /\ \/ /\ Show(filter.source, surface)
          /\ UNCHANGED <<api_lock, views, next_view>>
       \/ \E out \in Free : \E view \in Surfaces \cup {NoSurface} :
            /\ GetInputView(filter.source, view)
            /\ IF view = NoSurface
               THEN /\ api_lock = "free"
                    /\ Show(filter.source, surface)
                    /\ UNCHANGED api_lock
               ELSE /\ Lock("filter")
                    /\ filter' = [filter EXCEPT !.step = "compose", !.out = out, !.view = view]
                    /\ surface' = Given("filter", {out})
                    /\ UNCHANGED <<fate, shown>>
    /\ UNCHANGED <<resourceVars, options, home, evaluation, seen, worker, render, blur, debug>>

UpdateDebugTexture(score) ==
    debug' = IF debug.valid /\ debug.score = score THEN debug
             ELSE [valid |-> TRUE, score |-> score, shows |-> score]

\* The composed picture replaces the source, or the source is preserved.
ComposeD3D11 ==
    /\ filter.step = "compose"
    /\ UpdateDebugTexture(debug_score)
    /\ \/ /\ render' = [Through(filter.view) EXCEPT !.panel = debug'.shows]
          /\ Show(filter.out, [Released({filter.source}) EXCEPT ![filter.out].shows = render'])
       \/ /\ Show(filter.source, Released({filter.out}))
          /\ UNCHANGED render
    /\ Unlock
    /\ UNCHANGED <<resourceVars, options, home, evaluation, seen, worker, views, next_view, blur, debug_score>>
-----------------------------------------------------------------------------
(***************************************************************************)
(* The VAAPI backend, one call each: a new picture replaces the source,    *)
(* which it never releases.  Its warning is a copy of the source.          *)
(***************************************************************************)
VaapiEffects(content) ==
    CASE block_style = "black" -> {Black}
      [] block_style = "warning" -> {content}
      [] block_style = "blur" -> {[content EXCEPT !.mask = "blur"], Black}

MaskVaapi ==
    /\ backend = "vaapi"
    /\ filter.step = "mask"
    /\ \/ Drop /\ surface' = Given("lost", {filter.source}) /\ UNCHANGED blur
       \/ \E out \in Free, content \in VaapiEffects(surface[filter.source].shows) :
            /\ blur' \in BlurStages(surface[filter.source].shows)
            /\ content.mask = "blur" => blur'.pic = content.pic
            /\ filter' = [filter EXCEPT !.step = "panel", !.source = out]
            /\ surface' = [Given("lost", {filter.source}) EXCEPT
                             ![out] = [owner |-> "filter", shows |-> content]]
            /\ UNCHANGED <<fate, shown>>
    /\ UNCHANGED <<resourceVars, options, home, evaluation, seen, worker, api_lock, views, next_view,
                   render, debug, debug_score>>

\* The panel is drawn and uploaded, but the output is a copy without it; a
\* failed copy drops the picture.
PanelVaapi ==
    /\ backend = "vaapi"
    /\ WantsPanel
    /\ debug_score' = LatestScore
    /\ UpdateDebugTexture(LatestScore)
    /\ \/ Show(filter.source, surface)
       \/ \E out \in Free :
            Show(out, [Given("lost", {filter.source}) EXCEPT
                         ![out].shows = surface[filter.source].shows])
       \/ Free # {} /\ Drop /\ surface' = Given("lost", {filter.source})
    /\ UNCHANGED <<resourceVars, options, home, evaluation, seen, worker, api_lock, views, next_view,
                   render, blur>>
-----------------------------------------------------------------------------
(***************************************************************************)
(* Open and Close; Close drops what is still queued (Flush) once the       *)
(* worker is idle, and releases the views with the rest.                   *)
(***************************************************************************)
OpenBackend ==
    /\ OpenResources
    /\ UNCHANGED <<options, gpuVars>>

CloseBackend ==
    /\ filter.step = "idle" /\ worker.step = "idle"
    /\ CloseResources
    /\ surface' = Released({home[p] : p \in Inside})
    /\ home' = [p \in Pictures |-> NoSurface]
    /\ fate' = [p \in Pictures |-> IF p \in Inside THEN "dropped" ELSE fate[p]]
    /\ views' = [i \in 1 .. MaxViews |-> [key |-> NoSurface, input |-> NoSurface]]
    /\ UNCHANGED <<options, evaluation, seen, shown, filter, worker, api_lock, next_view, render, blur,
                   debug, debug_score>>

WorkerStep == Unsampled \/ BeginReadback \/ EndReadback \/ ReadSurface

FilterStep ==
    \/ TakeOutput \/ MaskConverter \/ ShowWithoutPanel
    \/ MaskD3D11 \/ EffectD3D11 \/ PanelD3D11 \/ ComposeD3D11
    \/ MaskVaapi \/ PanelVaapi

BackendNext == OpenBackend \/ Decode \/ WorkerStep \/ FilterStep \/ DisplayDone \/ CloseBackend

BackendSpec == BackendInit /\ [][BackendNext]_backendVars
-----------------------------------------------------------------------------
(***************************************************************************)
(* Properties.                                                             *)
(***************************************************************************)
\* A blocked picture that reaches the viewer is black or carries the mask of
\* the chosen style: no failure in between lets it through as it came.
Treated(p, content) ==
    content \in {[pic |-> p, mask |-> block_style, panel |-> content.panel],
                 [Black EXCEPT !.panel = content.panel]}

\* The option promises it of every backend (README.md:31-32, 80).
BlockedIsTreated ==
    shown.pic # 0 /\ evaluation[shown.pic].blocked => Treated(shown.pic, shown.content)

(***************************************************************************)
(* What VLC gets for a picture is that picture, unmasked when it is clean  *)
(* and masked when it is blocked, and never what a target, a recycled      *)
(* surface or an evicted view showed before, whatever call of the driver   *)
(* failed and whatever the worker reads at the same time; and a panel on   *)
(* it shows the score of the last evaluated picture.  VAAPI's warning is   *)
(* the exception that BlockedIsTreated brings out (render_blocked and      *)
(* render_debug_overlay of both backends, UpdateDebugTexture).             *)
(***************************************************************************)
OutputIsTheVerdict ==
    shown.pic # 0 =>
        /\ IF evaluation[shown.pic].blocked /\ <<backend, block_style>> # <<"vaapi", "warning">>
           THEN Treated(shown.pic, shown.content)
           ELSE shown.content = [Raw(shown.pic) EXCEPT !.panel = shown.content.panel]
        /\ shown.content.panel \in {NoScore, debug_score}

(***************************************************************************)
(* The detector sees the picture it was asked about or nothing: the cached *)
(* view is the one of that texture and that slice, and it is not evicted   *)
(* by VLC's thread between GetInputView and the blit (FindCachedView,      *)
(* BackendLock).                                                           *)
(***************************************************************************)
ReadbackIsThePicture ==
    seen.pic # 0 => seen.content \in {Nothing, Raw(seen.pic)}

(***************************************************************************)
(* Every surface has one holder: a picture that waits keeps its own, the   *)
(* filter holds the source and output of the call it is in and no other,   *)
(* and on D3D11 none is lost or released twice, on success, on any failure *)
(* and at Close.                                                           *)
(***************************************************************************)
SurfacesAccountedFor ==
    /\ \A p \in Inside : surface[home[p]] = [owner |-> "queue", shows |-> Raw(p)]
    /\ \A p, q \in Inside : p # q => home[p] # home[q]
    /\ {s \in Surfaces : surface[s].owner = "filter"} = {filter.source, filter.out} \ {NoSurface}
    /\ {s \in Surfaces : surface[s].owner = "queue"} = {home[p] : p \in Inside}
    /\ backend = "d3d11" => \A s \in Surfaces : surface[s].owner # "lost"

(***************************************************************************)
(* Whichever call of Open or of the sizing fails, and after Close, the     *)
(* backend holds nothing of the driver's: every field its helpers fill is  *)
(* released by its close function, every local by the helper.              *)
(***************************************************************************)
NothingLeftInBackend ==
    phase \in {"failed", "closed"} =>
        taken = {} /\ \A i \in 1 .. MaxViews : views[i].input = NoSurface
================================================================================
