--------------------------- MODULE MemoryEntries ---------------------------
(***************************************************************************)
(* What the consolidated memory promises of its entries                    *)
(* (memory/internal/store/consolidated.go): an entry is active, archived,  *)
(* both or neither; writing, archiving, restoring and purging change one   *)
(* entry at once and lose no text but that which they replace or purge.    *)
(*                                                                         *)
(* Two weaknesses are part of the promise.  A move may turn out to be a    *)
(* copy, when it is not finished.  And nothing is promised of the loose    *)
(* entries: those whose move overlapped with another call, and those that  *)
(* could not be read when they were moved.                                 *)
(***************************************************************************)
CONSTANTS Entries, Texts, NoFile

VARIABLES active, archive, loose

vars == <<active, archive, loose>>

Init ==
  /\ active = [e \in Entries |-> NoFile]
  /\ archive = [e \in Entries |-> NoFile]
  /\ loose = {}

(* Create and update.                                                      *)
Write(e, x) ==
  /\ active' = [active EXCEPT ![e] = x]
  /\ UNCHANGED <<archive, loose>>

(* An older archived copy of the entry is replaced, ...                    *)
Archive(e) ==
  /\ active[e] # NoFile
  /\ archive' = [archive EXCEPT ![e] = active[e]]
  /\ active' = [active EXCEPT ![e] = NoFile]
  /\ UNCHANGED loose

(* ... and so is an active entry of the same name when one is restored.    *)
Restore(e) ==
  /\ archive[e] # NoFile
  /\ active' = [active EXCEPT ![e] = archive[e]]
  /\ archive' = [archive EXCEPT ![e] = NoFile]
  /\ UNCHANGED loose

Purge(e) ==
  /\ archive' = [archive EXCEPT ![e] = NoFile]
  /\ UNCHANGED <<active, loose>>

(* Moves that were not finished leave their source where it was.           *)
Linger ==
  /\ \A e \in Entries \ loose :
       /\ active'[e]  # active[e]  => active[e] = NoFile /\ active'[e] = archive[e]
       /\ archive'[e] # archive[e] => archive[e] = NoFile /\ archive'[e] = active[e]
  /\ UNCHANGED loose

(* Whatever happens to loose entries, and to one that becomes loose.       *)
Disturb ==
  /\ loose \subseteq loose'
  /\ \A e \in Entries \ loose' : active'[e] = active[e] /\ archive'[e] = archive[e]

Next ==
  \/ \E e \in Entries : \/ \E x \in Texts : Write(e, x)
                        \/ Archive(e) \/ Restore(e) \/ Purge(e)
  \/ Linger
  \/ Disturb

Spec == Init /\ [][Next]_vars
=============================================================================
