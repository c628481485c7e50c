-------------------------- MODULE AudioMute_proofs --------------------------
(***************************************************************************)
(* Silence under the mask, and no mute left behind, for every choice of    *)
(* routes and refusals.  Neither property is inductive: what holds between *)
(* two calls rests on what was decided when the synchronisation began      *)
(* (WantIsPending, WantHasCause), and on the user's having the last word   *)
(* whenever the filter has let go of the switch (UsersSwitch).             *)
(***************************************************************************)
EXTENDS AudioMute, TLAPS

Looking == DOMAIN AfterLook
Writing == DOMAIN AfterWrite

\* A synchronisation is under way only where there is a mute to change.
WantIsPending ==
    /\ pc \in Looking \cup Writing => route # "none" /\ want # mutedByFilter
    /\ route = "none" => ~mutedByFilter

\* What the synchronisation was asked for is what the mask and the request say.
WantHasCause ==
    /\ pc \in {"look", "write"} => /\ maskActive => want
                                   /\ want => maskActive \/ requested
    /\ pc \in {"flushLook", "flushWrite", "lastLook", "lastWrite", "closed"} =>
            ~maskActive /\ (pc # "closed" => ~want)
    /\ pc \in {"idle", "closed"} => /\ ~maskActive /\ ~requested => ~mutedByFilter
                                    /\ maskActive /\ HasSwitch /\ refused # "mute" => mutedByFilter

\* Until the user moves the switch, the look is still right when the write comes.
LookIsCurrent ==
    pc \in Writing => /\ HasSwitch /\ want /\ ~touched => (current => switch)
                      /\ HasSwitch /\ ~current => (switch => userMuted)
                      /\ ~HasSwitch => ~current

\* The filter's mute is in force, and without it only the user's is.
UsersSwitch ==
    /\ mutedByFilter /\ HasSwitch /\ refused # "mute" /\ ~touched => switch
    /\ ~mutedByFilter /\ refused # "unmute" => (switch => userMuted)
    /\ ~HasSwitch => (switch => userMuted)

MuteInv == TypeOK /\ WantIsPending /\ WantHasCause /\ LookIsCurrent /\ UsersSwitch

USE DEF Looking, Writing, AfterLook, AfterWrite, AllRoutes, HasSwitch, HasVariable

LEMMA Places == Looking = {"look", "flushLook", "lastLook"} /\ Writing = {"write", "flushWrite", "lastWrite"}
  OBVIOUS

LEMMA InitMuteInv == Init => MuteInv
  <1> SUFFICES ASSUME Init PROVE MuteInv
    OBVIOUS
  <1> USE Places DEF Init
  <1>1. TypeOK
    BY RoutesAssumption DEF TypeOK
  <1>2. WantIsPending /\ WantHasCause
    BY DEF WantIsPending, WantHasCause
  <1>3. LookIsCurrent /\ UsersSwitch
    BY DEF LookIsCurrent, UsersSwitch
  <1> QED
    BY <1>1, <1>2, <1>3 DEF MuteInv

\* One step per action of AudioMute.
LEMMA StepMuteInv == MuteInv /\ [Next]_vars => MuteInv'
  <1> SUFFICES ASSUME MuteInv, [Next]_vars PROVE MuteInv'
    OBVIOUS
  <1> USE DEF MuteInv, TypeOK, WantIsPending, WantHasCause, LookIsCurrent, UsersSwitch
  <1>1. CASE Output
    BY <1>1 DEF Output, Sync, SyncNeeded, RequestAfterOutput, sound, user
  <1>2. CASE Flush
    BY <1>2 DEF Flush, Release, Sync, SyncNeeded, sound, user
  <1>3. CASE Close
    BY <1>3 DEF Close, Release, Sync, SyncNeeded, sound, user
  <1>4. CASE Look
    BY <1>4 DEF Look, sound
  <1>5. CASE Write
    <2>1. PICK granted \in BOOLEAN, varGranted \in BOOLEAN :
              IF want THEN Mute(granted, varGranted) ELSE Unmute(granted, varGranted)
      BY <1>5, ChoiceAssumption DEF Write
    <2> pc \in Writing /\ pc' \in {"idle", "closed"}
      BY <1>5, Places DEF Write
    <2>2. CASE want
      <3> USE <1>5, <2>1, <2>2 DEF Write, Mute, user
      <3>1. TypeOK'
        OBVIOUS
      <3>2. WantIsPending'
        BY Places
      <3>3. WantHasCause'
        OBVIOUS
      <3>4. LookIsCurrent'
        OBVIOUS
      <3>5. UsersSwitch'
        OBVIOUS
      <3> QED
        BY <3>1, <3>2, <3>3, <3>4, <3>5
    <2>3. CASE ~want
      <3> USE <1>5, <2>1, <2>3 DEF Write, Unmute, user
      <3>1. TypeOK'
        OBVIOUS
      <3>2. WantIsPending'
        BY Places
      <3>3. WantHasCause'
        OBVIOUS
      <3>4. LookIsCurrent'
        OBVIOUS
      <3>5. UsersSwitch'
        OBVIOUS
      <3> QED
        BY <3>1, <3>2, <3>3, <3>4, <3>5
    <2> QED
      BY <2>2, <2>3
  <1>6. CASE WorkerRequests
    BY <1>6 DEF WorkerRequests, sound, user
  <1>7. CASE UserMoves
    BY <1>7 DEF UserMoves
  <1>8. CASE UNCHANGED vars
    BY <1>8 DEF vars, sound, user
  <1> QED
    BY <1>1, <1>2, <1>3, <1>4, <1>5, <1>6, <1>7, <1>8 DEF Next, Closed

LEMMA MuteInvariant == Spec => []MuteInv
  BY InitMuteInv, StepMuteInv, PTL DEF Spec

(***************************************************************************)
(* nsfw_filter.c:309: masked pictures are silent, whatever the workers     *)
(* request and however the user's moves and VLC's refusals fall.           *)
(***************************************************************************)
THEOREM MaskedIsSilent == Spec => []MutedWhileMasked
  <1>1. MuteInv => MutedWhileMasked
    BY DEF MuteInv, TypeOK, WantHasCause, UsersSwitch, MutedWhileMasked
  <1> QED
    BY <1>1, MuteInvariant, PTL

(***************************************************************************)
(* CHANGELOG.md:158-159: after the block, a flush or Close the filter lets *)
(* go of the switch, and leaves muted only what the user muted.            *)
(***************************************************************************)
THEOREM MuteIsReleased == Spec => []ReleasedAfterBlock
  <1>1. MuteInv => ReleasedAfterBlock
    BY DEF MuteInv, TypeOK, WantHasCause, UsersSwitch, ReleasedAfterBlock
  <1> QED
    BY <1>1, MuteInvariant, PTL
=============================================================================
