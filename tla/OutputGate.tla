----------------------------- MODULE OutputGate -----------------------------
(***************************************************************************)
(* What the plugin promises of the pictures it delays, without saying how: *)
(* pictures enter in decoding order; a picture that is to be analysed gets *)
(* one verdict; pictures leave in the order they entered, never before     *)
(* their verdict, and never unmasked when the verdict is positive; a flush *)
(* drops everything that is inside.  README.md:106-107: "a frame that      *)
(* requires analysis should not be shown before its decision is            *)
(* available".                                                             *)
(***************************************************************************)
EXTENDS Integers

CONSTANT Pictures   \* a set of positive integers, in the order of arrival

VARIABLES
    fate,     \* [Pictures -> Fates], where each picture is
    wanted,   \* [Pictures -> BOOLEAN], which ones must be analysed
    verdict   \* [Pictures -> Verdicts], what the analysis said

gateVars == <<fate, wanted, verdict>>

Fates    == {"unseen", "inside", "raw", "masked", "dropped"}
Verdicts == {"pending", "clean", "positive"}

Inside == {p \in Pictures : fate[p] = "inside"}

GateInit ==
    /\ fate    = [p \in Pictures |-> "unseen"]
    /\ wanted  = [p \in Pictures |-> FALSE]
    /\ verdict = [p \in Pictures |-> "pending"]

\* A picture enters; those that arrived before it have entered already.
Enter(p) ==
    /\ fate[p] = "unseen"
    /\ \A q \in Pictures : q > p => fate[q] = "unseen"
    /\ fate' = [fate EXCEPT ![p] = "inside"]
    /\ \E w \in BOOLEAN : wanted' = [wanted EXCEPT ![p] = w]
    /\ UNCHANGED verdict

\* Verdicts arrive, of one picture or of a whole batch.
Decide ==
    /\ verdict' \in [Pictures -> Verdicts]
    /\ \A p \in Pictures :
            verdict'[p] # verdict[p] => p \in Inside /\ wanted[p] /\ verdict[p] = "pending"
    /\ UNCHANGED <<fate, wanted>>

Leave(p) ==
    /\ fate[p] = "inside"
    /\ \A q \in Inside : p <= q
    /\ wanted[p] => verdict[p] # "pending"
    /\ \/ fate' = [fate EXCEPT ![p] = "masked"]
       \/ /\ verdict[p] # "positive"
          /\ fate' = [fate EXCEPT ![p] = "raw"]
    /\ UNCHANGED <<wanted, verdict>>

DropAll ==
    /\ fate' = [p \in Pictures |-> IF fate[p] = "inside" THEN "dropped" ELSE fate[p]]
    /\ UNCHANGED <<wanted, verdict>>

GateNext ==
    \/ \E p \in Pictures : Enter(p) \/ Leave(p)
    \/ Decide
    \/ DropAll

GateSpec == GateInit /\ [][GateNext]_gateVars
=============================================================================
