--------------------------- MODULE ModuleLifecycle ---------------------------
(***************************************************************************)
(* What the virtual machine promises the host about modules, as the        *)
(* comments at sce_run.c:765-809 put it: a module starts in its start      *)
(* section, goes on from there to main and end, and exit takes it back to  *)
(* where the next update enters start again.  An update of one module      *)
(* never moves another.                                                    *)
(***************************************************************************)
CONSTANTS Names, None

VARIABLES
  phase,  \* the section each module is in, "idle" when in none
  active  \* the module being updated, None between updates

vars == <<phase, active>>

Init == phase = [m \in Names |-> "idle"] /\ active = None

Begin == active = None /\ active' \in Names /\ UNCHANGED phase

Yield == active # None /\ active' = None /\ UNCHANGED phase

Move(q) == phase' = [phase EXCEPT ![active] = q] /\ UNCHANGED active

Start == active # None /\ phase[active] = "idle" /\ Move("start")

(* A jump of the running section.                                          *)
Leave == /\ active # None
         /\ phase[active] # "idle"
         /\ \E q \in {"main", "end", "idle"} : Move(q)

Next == Begin \/ Yield \/ Start \/ Leave

Spec == Init /\ [][Next]_vars
=============================================================================
