--------------------------- MODULE RefusalLedger ---------------------------
(***************************************************************************)
(* What the reporter promises an administrator who reads the console: the  *)
(* refusals shown for a target never exceed those that happened, nor do    *)
(* they shrink, and those shown or counted as omitted never exceed all     *)
(* that happened.  It promises no delivery: reporting fails open.          *)
(***************************************************************************)
EXTENDS Integers, Functions

CONSTANT Keys

VARIABLES
  noted,    \* refusals that happened, per target
  shown,    \* refusals the console shows, per target
  omitted   \* refusals the console says it was not told about one by one

vars == <<noted, shown, omitted>>

TotalOf(f) == SumFunctionOnSet(f, Keys)

Init ==
  /\ noted = [k \in Keys |-> 0] /\ shown = [k \in Keys |-> 0]
  /\ omitted = 0

Refuse ==
  /\ \E k \in Keys : noted' = [noted EXCEPT ![k] = @ + 1]
  /\ UNCHANGED <<shown, omitted>>

Show ==
  /\ shown' \in [Keys -> Nat] /\ omitted' \in Nat
  /\ \A k \in Keys : shown[k] <= shown'[k] /\ shown'[k] <= noted[k]
  /\ omitted <= omitted'
  /\ TotalOf(shown') + omitted' <= TotalOf(noted)
  /\ UNCHANGED noted

Next == Refuse \/ Show

Spec == Init /\ [][Next]_vars
=============================================================================
