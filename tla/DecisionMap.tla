---------------------------- MODULE DecisionMap ----------------------------
(***************************************************************************)
(* The plugin in decision map mode (nsfw_filter_decision.c): no detector   *)
(* runs, and Filter masks a picture by the map that the scanner of         *)
(* ScanAhead publishes, which it reloads every decision_reload_stride      *)
(* pictures and on every flush, when the files' signatures changed.  A     *)
(* refresh is four system calls, and the scanner may write between any     *)
(* two of them.  A time after what has been scanned is masked until the    *)
(* scan is done.                                                           *)
(*                                                                         *)
(* Picture times are media times.  Left out: a map without a status file,  *)
(* the mask and mute state (FilterPipeline has them), allocation failures. *)
(***************************************************************************)
EXTENDS ScanAhead

CONSTANTS
    ReloadStride,   \* decision_reload_stride, never 0 (ResolveDecisionReloadStride)
    SeekThreshold   \* SeekResetThresholdMs

ASSUME ReloadAssumption == ReloadStride \in Nat \ {0} /\ SeekThreshold \in Nat

VARIABLES
    pluginPC,   \* where the thread of Filter, Flush and Open is
    known,      \* what filter_sys_t knows of the map and of the status
    refresh,    \* RefreshDecisionMap's locals, and what Filter does after it
    frames,     \* frame_count modulo decision_reload_stride
    lastTs,     \* last_frame_timestamp_ms
    shown,      \* history: the last picture since a flush, and what became of it
    atRefresh   \* history: the map on disk when the last refresh began

pluginVars == <<pluginPC, known, refresh, frames, lastTs, shown, atRefresh>>

NoTime == -1

NothingShown == [ts |-> 0, how |-> "nothing"]

Signature_SizeOnly(file, size) == IF file.there THEN <<0, size>> ELSE <<0, 0>>

\* Sizes of the times are the same, so a size is a number of lines.
Signature(file, size) == IF file.there THEN <<file.mtime, size>> ELSE <<0, 0>>

MapSignature    == Signature(mapFile, Len(mapFile.content))
StatusSignature == Signature(statusFile, 1)

Unopened == [ranges |-> <<>>, scanned |-> 0, done |-> FALSE,
             mapSig |-> <<0, 0>>, statusSig |-> <<0, 0>>]

NoRefresh == [force |-> FALSE, mapSig |-> <<0, 0>>, statusSig |-> <<0, 0>>,
              ts |-> 0, next |-> "idle"]

\* RefreshDecisionMap(sys, force), after which the thread goes on at `next`.
StartRefresh(force, ts, next) ==
    /\ pluginPC' = "signMap"
    /\ refresh' = [NoRefresh EXCEPT !.force = force, !.ts = ts, !.next = next]

\* Open, once it has found a map path in its environment.
OpenMap ==
    /\ pluginPC = "closed"
    /\ StartRefresh(TRUE, 0, "idle")
    /\ UNCHANGED <<known, frames, lastTs, shown, atRefresh>>

SignMap ==
    /\ pluginPC = "signMap"
    /\ refresh' = [refresh EXCEPT !.mapSig = MapSignature]
    /\ atRefresh' = mapFile.content
    /\ pluginPC' = "signStatus"
    /\ UNCHANGED <<known, frames, lastTs, shown>>

SignStatus ==
    /\ pluginPC = "signStatus"
    /\ refresh' = [refresh EXCEPT !.statusSig = StatusSignature]
    /\ pluginPC' = "readMap"
    /\ UNCHANGED <<known, frames, lastTs, shown, atRefresh>>

\* ParseDecisionMap: a map that cannot be opened is tried again at the next refresh.  The
\* signature to remember was taken before the file was read.
ReadMap ==
    /\ pluginPC = "readMap"
    /\ pluginPC' = "readStatus"
    /\ IF /\ refresh.force \/ refresh.mapSig # known.mapSig
          /\ mapFile.there
       THEN known' = [known EXCEPT
                        !.ranges = mapFile.content,
                        !.mapSig = refresh.mapSig]
       ELSE UNCHANGED known
    /\ UNCHANGED <<refresh, frames, lastTs, shown, atRefresh>>

\* ParseScanStatus: the signature is remembered even if the file cannot be opened.
ReadStatus ==
    /\ pluginPC = "readStatus"
    /\ pluginPC' = refresh.next
    /\ IF refresh.force \/ refresh.statusSig # known.statusSig
       THEN LET signed == [known EXCEPT !.statusSig = refresh.statusSig]
            IN  known' = IF statusFile.there
                         THEN [signed EXCEPT !.scanned = statusFile.content.scanned,
                                             !.done    = statusFile.content.done]
                         ELSE signed
       ELSE UNCHANGED known
    /\ refresh' = [NoRefresh EXCEPT !.ts = refresh.ts]
    /\ UNCHANGED <<frames, lastTs, shown, atRefresh>>

\* TimelineDiscontinuityDetected
Discontinuity(ts) ==
    /\ lastTs # NoTime
    /\ ts < lastTs \/ ts - lastTs > SeekThreshold

\* Filter, up to the decision; a picture out of line flushes first.
FilterCall(ts) ==
    /\ pluginPC = "idle"
    /\ IF Discontinuity(ts)
       THEN /\ StartRefresh(TRUE, ts, "count")
            /\ frames' = 0
            /\ lastTs' = NoTime
       ELSE /\ pluginPC' = "count"
            /\ refresh' = [NoRefresh EXCEPT !.ts = ts]
            /\ UNCHANGED <<frames, lastTs>>
    /\ UNCHANGED <<known, shown, atRefresh>>

\* Count the picture, and reload when its turn has come (509-512).
FilterCount ==
    /\ pluginPC = "count"
    /\ frames' = (frames + 1) % ReloadStride
    /\ lastTs' = refresh.ts
    /\ IF frames = 0
       THEN StartRefresh(FALSE, refresh.ts, "decide")
       ELSE pluginPC' = "decide" /\ UNCHANGED refresh
    /\ UNCHANGED <<known, shown, atRefresh>>

\* Not scanned yet, as far as the plugin knows (515).
PendingScan(ts) == ~known.done /\ ts > known.scanned

FilterDecide ==
    /\ pluginPC = "decide"
    /\ pluginPC' = "idle"
    /\ shown' = [ts  |-> refresh.ts,
                 how |-> IF \/ PendingScan(refresh.ts)
                            \/ DecisionMapContains(known.ranges, refresh.ts)
                         THEN "masked" ELSE "raw"]
    /\ refresh' = NoRefresh
    /\ UNCHANGED <<known, frames, lastTs, atRefresh>>

\* Flush, when VLC calls it.
FlushCall ==
    /\ pluginPC = "idle"
    /\ StartRefresh(TRUE, 0, "idle")
    /\ frames' = 0
    /\ lastTs' = NoTime
    /\ shown' = NothingShown
    /\ UNCHANGED <<known, atRefresh>>

\* Close flushes once more and forgets everything.
CloseMap ==
    /\ pluginPC = "idle"
    /\ pluginPC' = "closed"
    /\ known' = Unopened
    /\ refresh' = NoRefresh
    /\ frames' = 0
    /\ lastTs' = NoTime
    /\ shown' = NothingShown
    /\ atRefresh' = <<>>

PluginInit ==
    /\ pluginPC = "closed"
    /\ known = Unopened
    /\ refresh = NoRefresh
    /\ frames = 0
    /\ lastTs = NoTime
    /\ shown = NothingShown
    /\ atRefresh = <<>>

RefreshStep == SignMap \/ SignStatus \/ ReadMap \/ ReadStatus

PluginStep == RefreshStep \/ FilterCount \/ FilterDecide

JustShown(how) == pluginPC = "idle" /\ shown.how = how
-----------------------------------------------------------------------------
(***************************************************************************)
(* The map a picture is judged by is at least as new as the one on disk    *)
(* when the last refresh began, whatever the scanner wrote during it: a    *)
(* blocked range on disk is applied within decision_reload_stride pictures.*)
(***************************************************************************)
NoStaleMap == JustShown("raw") => ~DecisionMapContains(atRefresh, shown.ts)
=============================================================================
