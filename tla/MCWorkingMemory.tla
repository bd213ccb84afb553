-------------------------- MODULE MCWorkingMemory --------------------------
(* Small instances of WorkingMemory.                                       *)
EXTENDS WorkingMemory

FirstTick == CHOOSE j \in Ticks : TRUE

(* Bound: two of the dreams start, either both ticks or the first tick and *)
(* a manual one, the latter in behaviours without a crash.                 *)
TwoDreams ==
  \A m \in Manual : phase[m] # "idle" =>
    crashes = 0 /\ \A j \in Ticks \ {FirstTick} : phase[j] = "idle"
=============================================================================
