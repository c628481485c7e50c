--------------------------- MODULE PlaybackGuard ---------------------------
(***************************************************************************)
(* Scan-ahead playback as a whole: the scanner, the plugin in VLC, and the *)
(* guard (tools/nsfw_vlc_guard.py) that starts both and pauses playback    *)
(* through VLC's remote control while it is less than a watermark behind   *)
(* the scan.  A film can also be played without a guard, the plugin's map  *)
(* options set by hand; then the user may seek.                            *)
(*                                                                         *)
(* The remote control's only pause command is a toggle, so the guard asks  *)
(* for the state first.  Assumed: it answers a state query in time (a late *)
(* answer to get_time is modelled), and nobody else pauses or seeks while  *)
(* the guard is at work.  Real time is modelled by one bound: at most      *)
(* MaxAdvance pictures are shown between two rounds of the guard.          *)
(***************************************************************************)
EXTENDS DecisionMap

CONSTANTS
    Guarded,      \* whether a guard starts the playback: a set of Booleans
    MapOption,    \* VLC has nsfw-decision-map-path set: a Boolean
    Target,       \* target_ms, the watermark
    Second,       \* get_time answers in whole seconds
    PictureStep,  \* time from one picture to the next
    SeekTimes,    \* where pictures are when the user may seek
    MaxAdvance    \* pictures shown between two rounds of the guard (a bound)

ASSUME GuardAssumption ==
    /\ Guarded \subseteq BOOLEAN
    /\ MapOption \in BOOLEAN
    /\ {Second, PictureStep} \subseteq Nat \ {0}
    /\ {Target, MaxAdvance} \subseteq Nat
    /\ SeekTimes \subseteq Nat

VARIABLES
    guarded,   \* never changes
    guardPC,   \* where the guard is; "none" without a guard
    view,      \* guard_playback's locals: scanned_ms, done, playback_ms, state
    player,    \* VLC
    env,       \* whether NSFW_DECISION_MAP_PATH is set in VLC's process
    mode,      \* how the plugin was opened
    advanced   \* pictures shown since the guard asked for the time

guardVars == <<guardPC, view>>
playerVars == <<player, env, mode, advanced>>
vars == <<scanVars, pluginVars, guarded, guardVars, playerVars>>

\* read_status, a missing file being one that says 0 and not done.
ReadStatusFile ==
    IF statusFile.there THEN statusFile.content ELSE [scanned |-> 0, done |-> FALSE]

NoView == [scanned |-> 0, done |-> FALSE, playback |-> 0, state |-> "unknown"]

\* wait_for_initial_buffer
GuardBuffered ==
    /\ guardPC = "buffer"
    /\ ReadStatusFile.scanned >= Target \/ ReadStatusFile.done
    /\ guardPC' = "launch"
    /\ UNCHANGED <<scanVars, pluginVars, guarded, view, playerVars>>

\* launch_vlc passes the paths in the environment.
GuardLaunch ==
    /\ guardPC = "launch"
    /\ player' = "playing"
    /\ env' = TRUE
    /\ guardPC' = "connect"
    /\ UNCHANGED <<scanVars, pluginVars, guarded, view, mode, advanced>>

\* connect_rc, which may run out of retries: the guard leaves VLC alone then.
GuardConnect ==
    /\ guardPC = "connect"
    /\ \/ guardPC' = "status" /\ UNCHANGED scanVars
       \/ /\ guardPC' = "failed"
          /\ scanPC' = IF scanPC = "finished" THEN scanPC ELSE "failed"
          /\ UNCHANGED <<film, scan, mapFile, statusFile, clock>>
    /\ UNCHANGED <<pluginVars, guarded, view, playerVars>>

\* A round of guard_playback starts by looking at VLC and at the status.
GuardReadStatus ==
    /\ guardPC = "status"
    /\ player # "ended"
    /\ view' = [view EXCEPT !.scanned = ReadStatusFile.scanned, !.done = ReadStatusFile.done]
    /\ guardPC' = "time"
    /\ UNCHANGED <<scanVars, pluginVars, guarded, playerVars>>

\* VLC is gone: the guard terminates the scanner.
GuardLeave ==
    /\ guardPC \in {"status", "time", "state", "toggle"}
    /\ player = "ended"
    /\ guardPC' = "exited"
    /\ scanPC' = IF scanPC = "finished" THEN scanPC ELSE "failed"
    /\ UNCHANGED <<film, scan, mapFile, statusFile, clock, pluginVars, guarded, view, playerVars>>

\* The time VLC answers, in whole seconds; it is 0 before the first picture.
PlaybackMs == IF lastTs = NoTime THEN 0 ELSE (lastTs \div Second) * Second

\* get_time; an answer without a number starts the round again.
GuardGetTime ==
    /\ guardPC = "time"
    /\ player # "ended"
    /\ \/ /\ view' = [view EXCEPT !.playback = PlaybackMs]
          /\ guardPC' = "state"
          /\ advanced' = 0
       \/ guardPC' = "status" /\ UNCHANGED <<view, advanced>>
    /\ UNCHANGED <<scanVars, pluginVars, guarded, player, env, mode>>

ShouldPause_WhenBehind == ~view.done /\ view.playback > view.scanned

ShouldPause_AtTheEnd == view.scanned - view.playback < Target

\* should_pause
ShouldPause == ~view.done /\ view.scanned - view.playback < Target

\* set_paused: ask for the state, and toggle unless it is the one wanted.
GuardGetState ==
    /\ guardPC = "state"
    /\ player # "ended"
    /\ view' = [view EXCEPT !.state = player]
    /\ guardPC' = IF (player = "paused") = ShouldPause THEN "check" ELSE "toggle"
    /\ UNCHANGED <<scanVars, pluginVars, guarded, playerVars>>

GuardToggle ==
    /\ guardPC = "toggle"
    /\ player # "ended"
    /\ player' = IF player = "playing" THEN "paused" ELSE "playing"
    /\ guardPC' = "check"
    /\ UNCHANGED <<scanVars, pluginVars, guarded, view, env, mode, advanced>>

\* A failed scanner ends the guard, and VLC plays on.
GuardCheckScanner ==
    /\ guardPC = "check"
    /\ guardPC' = IF scanPC = "failed" THEN "failed" ELSE "status"
    /\ UNCHANGED <<scanVars, pluginVars, guarded, view, playerVars>>
-----------------------------------------------------------------------------
\* Without a guard the film is opened by hand, at any moment of the scan.
UserStarts ==
    /\ ~guarded
    /\ player = "off"
    /\ player' = "playing"
    /\ UNCHANGED <<scanVars, pluginVars, guarded, guardVars, env, mode, advanced>>

(***************************************************************************)
(* Open copies VLC's options to the environment before it reads the map's  *)
(* path from there, so that the option, set or empty, is what counts       *)
(* (nsfw_filter_config.c:345-346, nsfw_filter.c:457-460).                  *)
(***************************************************************************)
EnvAfterSync == MapOption

PluginOpen ==
    /\ player = "playing"
    /\ mode = "unopened"
    /\ env' = EnvAfterSync
    /\ mode' = IF env' THEN "map" ELSE "live"
    /\ IF env' THEN OpenMap ELSE UNCHANGED pluginVars
    /\ UNCHANGED <<scanVars, guarded, guardVars, player, advanced>>

Watched == guardPC \in {"connect", "status", "time", "state", "toggle", "check"}

NextTime == IF lastTs = NoTime THEN 0 ELSE lastTs + PictureStep

\* VLC delivers the next picture, or, where the user may seek, any picture.
PluginFilter ==
    /\ player = "playing"
    /\ Watched => advanced < MaxAdvance
    /\ \E ts \in IF guarded THEN {NextTime} \cap Times ELSE SeekTimes : FilterCall(ts)
    /\ advanced' = IF Watched THEN advanced + 1 ELSE advanced
    /\ UNCHANGED <<scanVars, guarded, guardVars, player, env, mode>>

PluginFlush ==
    /\ ~guarded
    /\ FlushCall
    /\ UNCHANGED <<scanVars, guarded, guardVars, playerVars>>

PluginRuns ==
    /\ PluginStep
    /\ UNCHANGED <<scanVars, guarded, guardVars, playerVars>>

\* The film is over or the user quits.
PlayerEnds ==
    /\ player \in {"playing", "paused"}
    /\ IF mode = "map" THEN CloseMap ELSE UNCHANGED pluginVars
    /\ player' = "ended"
    /\ UNCHANGED <<scanVars, guarded, guardVars, env, mode, advanced>>

ScannerRuns ==
    /\ ScanStep \/ ScanFail
    /\ UNCHANGED <<pluginVars, guarded, guardVars, playerVars>>

Ended ==
    /\ scanPC \in {"finished", "failed"}
    /\ player = "ended" \/ guardPC = "buffer"
    /\ UNCHANGED vars

Init ==
    /\ ScanInit
    /\ PluginInit
    /\ guarded \in Guarded
    /\ guardPC = IF guarded THEN "buffer" ELSE "none"
    /\ view = NoView
    /\ player = "off"
    /\ env = FALSE
    /\ mode = "unopened"
    /\ advanced = 0

GuardStep ==
    \/ GuardBuffered
    \/ GuardLaunch
    \/ GuardConnect
    \/ GuardReadStatus
    \/ GuardLeave
    \/ GuardGetTime
    \/ GuardGetState
    \/ GuardToggle
    \/ GuardCheckScanner

Next ==
    \/ GuardStep
    \/ UserStarts
    \/ PluginOpen
    \/ PluginFilter
    \/ PluginFlush
    \/ PluginRuns
    \/ PlayerEnds
    \/ ScannerRuns
    \/ Ended

Spec == Init /\ [][Next]_vars

(***************************************************************************)
(* The three processes run; a late answer to get_time is not late forever. *)
(* Neither the user nor VLC's decoder has to do anything.                  *)
(***************************************************************************)
Fairness ==
    /\ WF_vars(ScannerRuns /\ scanPC' # "failed")
    /\ WF_vars(GuardStep)
    /\ SF_vars(GuardGetTime /\ guardPC' = "state")
    /\ WF_vars(PluginRuns)

FairSpec == Spec /\ Fairness
-----------------------------------------------------------------------------
ScanPCs   == {"sample", "first", "second", "lastFirst", "lastSecond", "finished", "failed"}
PluginPCs == {"closed", "idle", "signMap", "signStatus", "readMap", "readStatus",
              "count", "decide"}
GuardPCs  == {"none", "buffer", "launch", "connect", "status", "time", "state",
              "toggle", "check", "failed", "exited"}

Ranges == Seq([start : Nat, end : Nat])
Status == [scanned : Nat, done : BOOLEAN]

\* Every variable holds a value of its kind.
TypeOK ==
    /\ film \in Films
    /\ scanPC \in ScanPCs
    /\ scan \in [processed : 0..Samples, until : Nat, ranges : Ranges]
    /\ mapFile = NoFile \/ mapFile \in [there : {TRUE}, content : Ranges, mtime : Nat]
    /\ statusFile = NoFile \/ statusFile \in [there : {TRUE}, content : Status, mtime : Nat]
    /\ clock \in Nat
    /\ pluginPC \in PluginPCs
    /\ known \in [ranges : Ranges, scanned : Nat, done : BOOLEAN,
                  mapSig : Nat \X Nat, statusSig : Nat \X Nat]
    /\ refresh \in [force : BOOLEAN, mapSig : Nat \X Nat, statusSig : Nat \X Nat,
                    ts : Nat, next : PluginPCs]
    /\ frames \in 0..(ReloadStride - 1)
    /\ lastTs \in Nat \cup {NoTime}
    /\ shown \in [ts : Nat, how : {"nothing", "raw", "masked"}]
    /\ atRefresh \in Ranges
    /\ guarded \in BOOLEAN
    /\ guardPC \in GuardPCs
    /\ view \in [scanned : Nat, done : BOOLEAN, playback : Nat,
                 state : {"unknown", "off", "playing", "paused"}]
    /\ player \in {"off", "playing", "paused", "ended"}
    /\ env \in BOOLEAN
    /\ mode \in {"unopened", "live", "map"}
    /\ advanced \in Nat

(***************************************************************************)
(* --buffer-seconds, "Required scanned-ahead watermark before playback     *)
(* runs": while the guard is at work, playback stays where the status on   *)
(* disk vouches for the map, over the rounding of the time, the pictures   *)
(* shown meanwhile and the scanner's pace.                                 *)
(***************************************************************************)
PlaybackBehindScan ==
    Watched /\ pluginPC = "idle" /\ shown.how # "nothing" =>
        statusFile.content.done \/ shown.ts < statusFile.content.scanned

(***************************************************************************)
(* What the watermark is for: the plugin reads map and status apart, and   *)
(* can hold a status newer than its map, yet no picture that the scanner   *)
(* found to be masked is shown while the guard is at work.                 *)
(***************************************************************************)
NoMappedPictureShown ==
    Watched /\ JustShown("raw") => ~DecisionMapContains(scan.ranges, shown.ts)

(***************************************************************************)
(* A playback that the guard paused goes on, or the guard gives up: the    *)
(* watermark cannot be reached near the film's end, where `done` counts.   *)
(***************************************************************************)
GuardResumes ==
    (player = "paused") ~> (player # "paused" \/ guardPC \in {"failed", "exited"})

(***************************************************************************)
(* The guard puts the map's path in VLC's environment (158-159) for its    *)
(* playback to use the map.  What Open's synchronisation of the options    *)
(* does to it.                                                             *)
(***************************************************************************)
GuardedPlaybackUsesMap == guarded /\ mode # "unopened" => mode = "map"
=============================================================================
