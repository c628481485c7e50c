----------------------------- MODULE AudioMute -----------------------------
(***************************************************************************)
(* Muting the audio while masked pictures are shown (nsfw_filter_audio.c,  *)
(* and ApplyBlockedOutput, Flush and Close, which call it).  VLC's output  *)
(* thread synchronises the mute with every picture; detector workers       *)
(* request it ahead of a masked picture, without waiting for that thread;  *)
(* and the user moves the same switch at any time, also between the        *)
(* filter's look at it and its own write.                                  *)
(*                                                                         *)
(* The switch is the mute of VLC's audio output, reached through the       *)
(* playlist or, without one, directly; then the input's variable `mute` is *)
(* written too.  VLC may refuse to mute, and without an audio output there *)
(* is nothing to mute.  audio_previous_mute is written by the code and     *)
(* never read, and left out; so is the option that turns all this off.     *)
(***************************************************************************)
CONSTANTS
    Routes,       \* how the audio is reached: a subset of AllRoutes
    Refusals,     \* whether VLC may refuse a change: a set of Booleans
    UserToggles   \* whether the user moves the switch: a Boolean

AllRoutes == {"playlist", "output", "variable", "none"}

ASSUME RoutesAssumption == Routes \subseteq AllRoutes
ASSUME ChoiceAssumption == Refusals \subseteq BOOLEAN /\ UserToggles \in BOOLEAN

VARIABLES
    route,          \* never changes
    switch,         \* the audio output is muted
    inputMute,      \* the input's variable `mute`
    requested,      \* audio_mute_requested
    mutedByFilter,  \* audio_muted_by_filter
    maskActive,     \* output_mask_active
    pc,             \* where the output thread is
    want,           \* mute_requested, the argument of the running synchronisation
    current,        \* current_mute, as it was looked up
    userMuted,      \* history: what the user wants, by the last move of the switch
    touched,        \* history: the user moved it since the filter muted
    refused         \* history: what VLC refused last, "nothing" when it obeyed

sound == <<switch, inputMute>>
user  == <<userMuted, touched>>
vars  == <<route, sound, requested, mutedByFilter, maskActive, pc, want, current,
           user, refused>>

SyncNeeded_MuteOnly(mute) == mute /\ ~mutedByFilter

\* The early returns of SyncAudioMutedForBlockedFrame: the filter's mute is what is asked for.
SyncNeeded(mute) == mute # mutedByFilter

\* SyncAudioMutedForBlockedFrame, called with `mute` by a thread that is `done` after it.
Sync(mute, looking, done) ==
    /\ want' = mute
    /\ pc' = IF SyncNeeded(mute) /\ route # "none" THEN looking ELSE done

RequestAfterOutput(blocked) == blocked \/ (requested /\ ~maskActive)

\* ApplyBlockedOutput; a worker may set the request between its write and its use.
Output ==
    /\ pc = "idle"
    /\ \E blocked, late \in BOOLEAN :
        /\ requested' = (RequestAfterOutput(blocked) \/ late)
        /\ maskActive' = blocked
        /\ Sync(blocked \/ requested', "look", "idle")
    /\ UNCHANGED <<route, sound, mutedByFilter, current, user, refused>>

\* The end of Flush: no worker is at work any more.  Close runs Flush; the synchronisation
\* of its own returns early, for Flush has let go of the mute.
Release(looking, done) ==
    /\ pc = "idle"
    /\ requested' = FALSE
    /\ maskActive' = FALSE
    /\ Sync(FALSE, looking, done)
    /\ UNCHANGED <<route, sound, mutedByFilter, current, user, refused>>

Flush == Release("flushLook", "idle")
Close == Release("lastLook", "closed")

HasSwitch == route \in {"playlist", "output"}
HasVariable == route \in {"output", "variable"}

AfterLook  == [look |-> "write", flushLook |-> "flushWrite", lastLook |-> "lastWrite"]
AfterWrite == [write |-> "idle", flushWrite |-> "idle", lastWrite |-> "closed"]

\* playlist_mute_get, aout_MuteGet; nothing to look at with the variable alone.
Look ==
    /\ pc \in DOMAIN AfterLook
    /\ current' = (switch /\ HasSwitch)
    /\ pc' = AfterLook[pc]
    /\ touched' = (touched /\ ~want)
    /\ UNCHANGED <<route, sound, requested, mutedByFilter, maskActive, want, userMuted, refused>>

\* Asked to mute: a mute found in place counts as the filter's own.
Mute(granted, varGranted) ==
    /\ switch'    = (switch \/ (HasSwitch /\ ~current /\ granted))
    /\ inputMute' = (inputMute \/ (HasVariable /\ varGranted))
    /\ mutedByFilter' = ((HasSwitch /\ (current \/ granted)) \/ (HasVariable /\ varGranted))
    /\ refused' = IF HasSwitch /\ ~current /\ ~granted THEN "mute" ELSE "nothing"

Unmute_StaysOwner(granted, varGranted) ==
    /\ switch'    = (switch /\ ~(current /\ granted))
    /\ inputMute' = (inputMute /\ ~(HasVariable /\ current /\ varGranted))
    /\ mutedByFilter' = mutedByFilter
    /\ refused' = IF current /\ ~granted THEN "unmute" ELSE "nothing"

\* Asked to unmute: what was found muted is unmuted, and the filter lets go of it.
Unmute(granted, varGranted) ==
    /\ switch'    = (switch /\ ~(current /\ granted))
    /\ inputMute' = (inputMute /\ ~(HasVariable /\ current /\ varGranted))
    /\ mutedByFilter' = FALSE
    /\ refused' = IF current /\ ~granted THEN "unmute" ELSE "nothing"

Write ==
    /\ pc \in DOMAIN AfterWrite
    /\ \E refusal, varRefusal \in Refusals :
        IF want THEN Mute(~refusal, ~varRefusal) ELSE Unmute(~refusal, ~varRefusal)
    /\ pc' = AfterWrite[pc]
    /\ UNCHANGED <<route, requested, maskActive, want, current, user>>

\* RegisterPositiveDetection, by a worker.
WorkerRequests ==
    /\ pc \in {"idle", "look", "write"}
    /\ ~requested
    /\ requested' = TRUE
    /\ UNCHANGED <<route, sound, mutedByFilter, maskActive, pc, want, current, user, refused>>

UserMoves ==
    /\ UserToggles
    /\ switch' = ~switch
    /\ userMuted' = switch'
    /\ touched' = TRUE
    /\ UNCHANGED <<route, inputMute, requested, mutedByFilter, maskActive, pc, want,
                   current, refused>>

\* After Close nothing is left to do.
Closed == pc = "closed" /\ UNCHANGED vars

Init ==
    /\ route \in Routes
    /\ switch \in BOOLEAN
    /\ userMuted = switch
    /\ inputMute = FALSE
    /\ requested = FALSE
    /\ mutedByFilter = FALSE
    /\ maskActive = FALSE
    /\ pc = "idle"
    /\ want = FALSE
    /\ current = FALSE
    /\ touched = FALSE
    /\ refused = "nothing"

Next == Output \/ Flush \/ Close \/ Look \/ Write \/ WorkerRequests \/ UserMoves \/ Closed

Spec == Init /\ [][Next]_vars
-----------------------------------------------------------------------------
\* Every variable holds a value of its kind.
TypeOK ==
    /\ route \in AllRoutes
    /\ {switch, inputMute, requested, mutedByFilter, maskActive, want, current,
        userMuted, touched} \subseteq BOOLEAN
    /\ pc \in {"idle", "closed"} \cup DOMAIN AfterLook \cup DOMAIN AfterWrite
    /\ refused \in {"nothing", "mute", "unmute"}

(***************************************************************************)
(* nsfw_filter.c:309, "mute playback while blocked frames are shown":      *)
(* between two calls, while masked pictures are shown the audio output is  *)
(* muted, unless VLC refused or the user moved the switch since; requests  *)
(* that workers made early or that were withdrawn do not change that.      *)
(***************************************************************************)
MutedWhileMasked ==
    (pc = "idle" /\ maskActive /\ HasSwitch /\ refused # "mute" /\ ~touched) => switch

(***************************************************************************)
(* CHANGELOG.md:158-159, "playback is unmuted after the blocked output     *)
(* window ends": when nothing asks for a mute, the audio output is muted   *)
(* only if the user muted it or VLC refused, after a close too, however    *)
(* the user's moves fell between the filter's look and its write.          *)
(***************************************************************************)
ReleasedAfterBlock ==
    (pc \in {"idle", "closed"} /\ ~maskActive /\ ~requested /\ refused # "unmute")
        => ~mutedByFilter /\ (switch => userMuted)
=============================================================================
