---------------------- MODULE ConsolidatedStoreProofs ----------------------
(***************************************************************************)
(* Proofs about ConsolidatedStore, for any topics, entries, texts, calls   *)
(* and mishaps.  The invariants:                                           *)
(*   TypeOK   types; a file lies in a directory that exists;               *)
(*   Roles    which calls come where;                                      *)
(*   Tracked  what a rebuild that nothing overlapped with has seen;        *)
(*   Moved    what a move holds of an entry that is not loose.             *)
(***************************************************************************)
EXTENDS ConsolidatedStore, TLAPS

LEMMA Chosen == AnyEntry \in Entries /\ \A e \in Entries : TopicOf(e) \in Topics
  BY StoreAssumption DEF AnyEntry, TopicOf

-----------------------------------------------------------------------------
(* Types.                                                                  *)

(* The store starts empty.                                                 *)
LEMMA InitType == Init => TypeOK
<1> SUFFICES ASSUME Init PROVE TypeOK
  OBVIOUS
<1>1. /\ files \in [Places -> [Entries -> Texts \cup {Blank, NoFile}]]
      /\ \A place \in Places, e \in Entries : ~There(place, e)
  BY DEF Init, There
<1>2. /\ pc \in [Calls -> Standing] /\ op \in [Calls -> Writes \cup Moves \cup Sweeps]
      /\ \A c \in Calls : pc[c] \notin Handling /\ pc[c] # "rename"
  BY DEF Init, Writes, Standing, Handling
<1>3. /\ topic \in [Calls -> Topics] /\ entry \in [Calls -> Entries]
      /\ text \in [Calls -> Texts \cup {Blank}]
  BY Chosen DEF Init
<1> QED
  <2>1. /\ dirs = {} /\ litter = {} /\ index = {}
        /\ topics \in [Calls -> SUBSET Topics] /\ names \in [Calls -> SUBSET Entries]
        /\ unseen \in [Calls -> SUBSET Topics] /\ seen \in [Calls -> SUBSET Entries]
        /\ late \in [Calls -> BOOLEAN] /\ \A c \in Calls : names[c] = {}
    BY DEF Init
  <2>2. /\ loose \subseteq Entries /\ blurred \in BOOLEAN
        /\ begun \in 0..MaxCalls /\ mishaps \in 0..MaxMishaps
    <3>1. loose = {} /\ blurred = FALSE /\ begun = 0 /\ mishaps = 0
      BY DEF Init
    <3>2. 0 \in 0..MaxCalls /\ 0 \in 0..MaxMishaps
      BY StoreAssumption
    <3> QED
      BY <3>1, <3>2
  <2>3. \A c \in Calls : pc[c] = "idle"
    BY DEF Init
  <2> QED
    BY <1>1, <1>2, <1>3, <2>1, <2>2, <2>3 DEF TypeOK

(* Every step keeps the types: a directory is removed only when it is      *)
(* empty, and a call renames only into a directory that its own temporary  *)
(* file keeps from being removed.                                          *)
LEMMA StepType == TypeOK /\ [Next]_vars => TypeOK'
<1> SUFFICES ASSUME TypeOK, [Next]_vars PROVE TypeOK'
  OBVIOUS
<1> USE DEF TypeOK
<1> USE DEF Goto, Writes, Moves, Sweeps, Standing, Handling
<1> USE Chosen, StoreAssumption
<1>1. ASSUME NEW c \in Calls, NEW o \in Writes \cup {"archive", "restore"}, NEW e \in Entries,
             Begin(c, o, e)
      PROVE  TypeOK'
  <2>1. pc' \in [Calls -> Standing] /\ text' \in [Calls -> Texts \cup {Blank}]
    <3>1. CASE o \in Writes
      <4>1. PICK x \in Texts : text' = [text EXCEPT ![c] = x]
        BY <1>1, <3>1 DEF Begin
      <4>2. pc' = [pc EXCEPT ![c] = "mkdir"]
        BY <1>1, <3>1 DEF Begin
      <4> QED
        BY <4>1, <4>2
    <3>2. CASE o \notin Writes
      BY <1>1, <3>2 DEF Begin
    <3> QED
      BY <3>1, <3>2
  <2>2. /\ op' \in [Calls -> Writes \cup Moves \cup Sweeps]
        /\ topic' \in [Calls -> Topics] /\ entry' \in [Calls -> Entries]
        /\ loose' \subseteq Entries /\ begun' \in 0..MaxCalls
    BY <1>1 DEF Begin, Begins, TakeInHand
  <2>3. \A d \in Calls :
          /\ pc'[d] \in Handling => topic'[d] = TopicOf(entry'[d])
          /\ pc'[d] \in {"sweep", "names", "remove"} => op'[d] \in Sweeps
          /\ pc'[d] # "idle" /\ op'[d] \in Sweeps =>
               \A f \in names'[d] : topic'[d] = TopicOf(f)
    BY <1>1 DEF Begin, TakeInHand, sweep
  <2>4. \A d \in Calls : pc'[d] = "rename" => <<Target(d)', topic'[d]>> \in dirs'
    BY <1>1 DEF Begin, Target, tree
  <2> QED
    BY <1>1, <2>1, <2>2, <2>3, <2>4 DEF Begin, tree, sweep, rebuild, There
<1>2. ASSUME NEW c \in Calls, NEW o \in Sweeps, BeginSweep(c, o) PROVE TypeOK'
  BY <1>2 DEF BeginSweep, Begins, TopicsOf, tree, rebuild, There, Target
<1>3. ASSUME NEW c \in Calls, SweepTopic(c) PROVE TypeOK'
  BY <1>3 DEF SweepTopic, Listed, tree, rebuild, There, Target
<1>4. ASSUME NEW c \in Calls, SweepEntry(c) PROVE TypeOK'
  <2>1. PICK e \in names[c] :
          /\ names' = [names EXCEPT ![c] = @ \ {e}]
          /\ \/ UNCHANGED <<pc, entry, loose>>
             \/ /\ TakeInHand(c, op[c], e)
                /\ Goto(c, IF op[c] = "purge" THEN "remove" ELSE "read")
    BY <1>4 DEF SweepEntry
  <2>2. names' \in [Calls -> SUBSET Entries] /\ e \in Entries
    BY <2>1
  <2>3. /\ pc' \in [Calls -> Standing] /\ entry' \in [Calls -> Entries]
        /\ loose' \subseteq Entries
    <3>1. CASE UNCHANGED <<pc, entry, loose>>
      BY <3>1
    <3>2. CASE TakeInHand(c, op[c], e) /\ Goto(c, IF op[c] = "purge" THEN "remove" ELSE "read")
      BY <2>2, <3>2 DEF TakeInHand
    <3> QED
      BY <2>1, <3>1, <3>2
  <2>4. \A d \in Calls :
          /\ pc'[d] \in Handling => topic'[d] = TopicOf(entry'[d])
          /\ pc'[d] \in {"sweep", "names", "remove"} => op'[d] \in Sweeps
          /\ pc'[d] # "idle" /\ op'[d] \in Sweeps =>
               \A f \in names'[d] : topic'[d] = TopicOf(f)
    BY <1>4, <2>1, <2>2 DEF SweepEntry, TakeInHand
  <2>5. \A d \in Calls : pc'[d] = "rename" => <<Target(d)', topic'[d]>> \in dirs'
    BY <1>4, <2>1 DEF SweepEntry, Target, tree
  <2> QED
    BY <1>4, <2>2, <2>3, <2>4, <2>5 DEF SweepEntry, tree, rebuild, There
<1>5. ASSUME NEW c \in Calls, TopicDone(c) \/ SweepEnds(c) PROVE TypeOK'
  <2>1. /\ pc' \in [Calls -> Standing]
        /\ \A d \in Calls : /\ pc'[d] \in Handling => pc[d] = pc'[d]
                            /\ pc'[d] \in {"sweep", "names", "remove"} => pc[d] \in {"sweep", "names", "remove"}
                            /\ pc'[d] # "idle" => pc[d] # "idle"
    BY <1>5 DEF TopicDone, SweepEnds
  <2> QED
    BY <1>5, <2>1 DEF TopicDone, SweepEnds, tree, hand, sweep, rebuild, There, Target
<1>6. ASSUME NEW c \in Calls, Remove(c) PROVE TypeOK'
  BY <1>6 DEF Remove, Places, hand, sweep, rebuild, There, Target
<1>7. ASSUME NEW c \in Calls, Read(c) PROVE TypeOK'
  BY <1>7 DEF Read, Places, Source, tree, sweep, rebuild, There, Target
<1>8. ASSUME NEW c \in Calls, MkDir(c) PROVE TypeOK'
  BY <1>8 DEF MkDir, Places, hand, sweep, rebuild, There, Target
<1>9. ASSUME NEW c \in Calls, WriteTmp(c) PROVE TypeOK'
  BY <1>9 DEF WriteTmp, Over, tree, hand, sweep, rebuild, There, Target
<1>10. ASSUME NEW c \in Calls, Rename(c) PROVE TypeOK'
  BY <1>10 DEF Rename, Places, sweep, rebuild, There, Target
<1>11. ASSUME NEW c \in Calls, Unlink(c) PROVE TypeOK'
  BY <1>11 DEF Unlink, Places, Source, hand, sweep, rebuild, There, Target
<1>12. ASSUME NEW c \in Calls, RmDir(c) PROVE TypeOK'
  BY <1>12 DEF RmDir, AfterMove, Empty, Listed, hand, sweep, rebuild, There, Target, Source
<1>13. ASSUME NEW c \in Calls, ListTopics(c) \/ ScanTopic(c) PROVE TypeOK'
  <2>1. /\ unseen' \in [Calls -> SUBSET Topics] /\ seen' \in [Calls -> SUBSET Entries]
        /\ late' \in [Calls -> BOOLEAN] /\ pc' \in [Calls -> Standing]
    <3>1. CASE ListTopics(c)
      BY <3>1 DEF ListTopics, TopicsOf
    <3>2. CASE ScanTopic(c)
      BY <3>2 DEF ScanTopic, Listed
    <3> QED
      BY <1>13, <3>1, <3>2
  <2>2. \A d \in Calls : pc'[d] \in Handling => pc[d] = pc'[d]
    BY <1>13 DEF ListTopics, ScanTopic
  <2> QED
    BY <1>13, <2>1, <2>2 DEF ListTopics, ScanTopic, tree, hand, sweep, There, Target
<1>14. ASSUME NEW c \in Calls, WriteIndex(c) PROVE TypeOK'
  BY <1>14 DEF WriteIndex, RebuildEnds, Over, tree, hand, sweep, There, Target
<1>15. ASSUME NEW c \in Calls, Fails(c) PROVE TypeOK'
  <2>1. CASE WriteFails(c) \/ RemovalFails(c)
    <3>0. /\ pc \in [Calls -> Standing] /\ pc[c] # "idle"
          /\ pc[c] = "remove" => op[c] \in Sweeps
      BY <2>1 DEF WriteFails, RemovalFails
    <3>4. \E q \in {"idle", "names", "rmdir", "sweep", "list"} :
            /\ pc' = [pc EXCEPT ![c] = q]
            /\ q = "sweep" => op[c] = "purge"
            /\ q = "names" => op[c] = "stale" \/ pc[c] = "remove"
      <4>1. CASE WriteFails(c)
        BY ONLY <4>1 DEF WriteFails, AfterFailure, Over, Goto
      <4>2. CASE RemovalFails(c)
        BY ONLY <4>2 DEF RemovalFails, AfterMove, Goto
      <4> QED
        BY <2>1, <4>1, <4>2
    <3>1. /\ pc' \in [Calls -> Standing]
          /\ \A d \in Calls : /\ pc'[d] \in Handling => pc[d] \in Handling
                              /\ pc'[d] \in {"sweep", "names", "remove"} /\ pc[d] # pc'[d] =>
                                   op[d] \in Sweeps
                              /\ pc'[d] # "idle" => pc[d] # "idle"
                              /\ pc'[d] = "rename" => pc[d] = "rename"
      BY ONLY <3>0, <3>4 DEF Handling, Standing, Sweeps
    <3>2. UNCHANGED <<text, unseen, seen, late, loose, blurred>>
      BY <2>1 DEF WriteFails, RemovalFails
    <3> QED
      BY <1>15, <3>1, <3>2 DEF Fails, tree, sweep, There, Target
  <2>2. CASE ReadFails(c)
    BY <1>15, <2>2 DEF Fails, ReadFails, tree, sweep, There, Target
  <2>3. CASE RebuildFails(c)
    <3>1. /\ unseen' \in [Calls -> SUBSET Topics] /\ seen' \in [Calls -> SUBSET Entries]
          /\ late' \in [Calls -> BOOLEAN] /\ pc' \in [Calls -> Standing] /\ blurred' \in BOOLEAN
      <4>1. CASE pc[c] = "list"
        BY <2>3, <4>1 DEF RebuildFails, RebuildEnds
      <4>2. CASE RebuildEnds(c) /\ blurred' = TRUE /\ UNCHANGED unseen
        BY <4>2 DEF RebuildEnds, Over
      <4>3. CASE /\ \E t \in unseen[c] : unseen' = [unseen EXCEPT ![c] = @ \ {t}]
                 /\ late' = [late EXCEPT ![c] = TRUE] /\ UNCHANGED <<pc, seen, blurred>>
        BY <4>3
      <4> QED
        BY <2>3, <4>1, <4>2, <4>3 DEF RebuildFails
    <3>2. \A d \in Calls : /\ pc'[d] \in Handling => pc[d] = pc'[d]
                           /\ pc'[d] \in {"sweep", "names", "remove"} /\ pc[d] # pc'[d] => op[d] = "stale"
                           /\ pc'[d] # "idle" => pc[d] # "idle"
      BY <2>3 DEF RebuildFails, RebuildEnds, Over
    <3> QED
      BY <1>15, <2>3, <3>1, <3>2 DEF Fails, RebuildFails, tree, sweep, There, Target
  <2> QED
    BY <1>15, <2>1, <2>2, <2>3 DEF Fails
<1>16. CASE Crash
  BY <1>16 DEF Crash, hand, sweep, rebuild, There, Target
<1>17. CASE UNCHANGED vars
  BY <1>17 DEF vars, tree, hand, sweep, rebuild, There, Target
<1> QED
  BY <1>1, <1>2, <1>3, <1>4, <1>5, <1>6, <1>7, <1>8, <1>9, <1>10, <1>11, <1>12, <1>13, <1>14,
     <1>15, <1>16, <1>17 DEF Next, Step

(* Every variable keeps its type, every file has its directory, and a      *)
(* temporary file that is about to be renamed still has the directory it   *)
(* was written to (atomic.go:12-27, consolidated.go:374-377).              *)
THEOREM TypeCorrect == Spec => []TypeOK
<1> QED
  BY InitType, StepType, PTL DEF Spec

-----------------------------------------------------------------------------
(* Which calls come where.                                                 *)

Roles ==
  \A c \in Calls :
    /\ pc[c] \in {"read", "unlink"} => op[c] \in Moves
    /\ pc[c] \in {"mkdir", "tmp", "rename"} => op[c] \in Writes \cup Moves
    /\ pc[c] \in {"mkdir", "tmp", "rename"} /\ op[c] \in Writes => text[c] \in Texts
    /\ pc[c] = "remove" => op[c] = "purge"
    /\ pc[c] \in {"list", "scan"} => op[c] # "purge"

(* A step of a call leaves the others where they are, and begins a new     *)
(* call only where none was.                                               *)
LEMMA StepRoles == TypeOK /\ Roles /\ [Next]_vars => Roles'
<1> SUFFICES ASSUME TypeOK, Roles, [Next]_vars PROVE Roles'
  OBVIOUS
<1> USE DEF TypeOK, Roles
<1> USE DEF Goto, Writes, Moves, Sweeps
<1>1. ASSUME NEW c \in Calls, NEW o \in Writes \cup {"archive", "restore"}, NEW e \in Entries,
             Begin(c, o, e)
      PROVE  Roles'
  <2>1. CASE o \in Writes
    <3>1. PICK x \in Texts : text' = [text EXCEPT ![c] = x]
      BY <1>1, <2>1 DEF Begin
    <3>2. pc' = [pc EXCEPT ![c] = "mkdir"] /\ op' = [op EXCEPT ![c] = o]
      BY <1>1, <2>1 DEF Begin
    <3> QED
      BY <3>1, <3>2, <2>1
  <2>2. CASE o \notin Writes
    BY <1>1, <2>2 DEF Begin
  <2> QED
    BY <2>1, <2>2
<1>2. ASSUME NEW c \in Calls, NEW o \in Sweeps, BeginSweep(c, o) PROVE Roles'
  BY <1>2 DEF BeginSweep
<1>3. ASSUME NEW c \in Calls, SweepTopic(c) \/ TopicDone(c) \/ SweepEnds(c) PROVE Roles'
  BY <1>3 DEF SweepTopic, TopicDone, SweepEnds, hand
<1>4. ASSUME NEW c \in Calls, SweepEntry(c) PROVE Roles'
  BY <1>4 DEF SweepEntry
<1>5. ASSUME NEW c \in Calls, Remove(c) \/ MkDir(c) \/ WriteTmp(c) \/ Unlink(c) PROVE Roles'
  BY <1>5 DEF Remove, MkDir, WriteTmp, Unlink, Over, hand
<1>6. ASSUME NEW c \in Calls, Read(c) PROVE Roles'
  BY <1>6 DEF Read
<1>7. ASSUME NEW c \in Calls, Rename(c) PROVE Roles'
  BY <1>7 DEF Rename
<1>8. ASSUME NEW c \in Calls, RmDir(c) PROVE Roles'
  BY <1>8 DEF RmDir, AfterMove, hand
<1>9. ASSUME NEW c \in Calls, ListTopics(c) \/ ScanTopic(c) PROVE Roles'
  BY <1>9 DEF ListTopics, ScanTopic, hand
<1>10. ASSUME NEW c \in Calls, WriteIndex(c) PROVE Roles'
  BY <1>10 DEF WriteIndex, RebuildEnds, Over, hand
<1>11. ASSUME NEW c \in Calls, Fails(c) PROVE Roles'
  <2>1. CASE WriteFails(c)
    BY <1>11, <2>1 DEF Fails, WriteFails, AfterFailure, Over
  <2>2. CASE ReadFails(c)
    BY <1>11, <2>2 DEF Fails, ReadFails
  <2>3. CASE RemovalFails(c)
    BY <1>11, <2>3 DEF Fails, RemovalFails, AfterMove
  <2>4. CASE RebuildFails(c)
    <3>1. \A d \in Calls : pc'[d] # "idle" /\ pc'[d] # "names" =>
            pc'[d] = pc[d] \/ (pc[d] = "list" /\ pc'[d] = "scan")
      <4>1. CASE pc[c] = "list" /\ pc' = [pc EXCEPT ![c] = "scan"]
        BY <4>1
      <4>2. CASE RebuildEnds(c)
        BY <4>2 DEF RebuildEnds, Over
      <4>3. CASE UNCHANGED pc
        BY <4>3
      <4> QED
        BY <2>4, <4>1, <4>2, <4>3 DEF RebuildFails
    <3>2. UNCHANGED <<op, text>>
      BY <1>11, <2>4 DEF Fails, RebuildFails
    <3> QED
      BY <3>1, <3>2
  <2> QED
    BY <1>11, <2>1, <2>2, <2>3, <2>4 DEF Fails
<1>12. CASE Crash
  BY <1>12 DEF Crash
<1>13. CASE UNCHANGED vars
  BY <1>13 DEF vars, hand
<1> QED
  BY <1>1, <1>2, <1>3, <1>4, <1>5, <1>6, <1>7, <1>8, <1>9, <1>10, <1>11, <1>12, <1>13
  DEF Next, Step

-----------------------------------------------------------------------------
(* The index.                                                              *)

Active == {e \in Entries : There("active", e)}

(* The tree has changed, or may have, and the call will rebuild the index. *)
Awaits(c) == pc[c] \in Awaited /\ op[c] # "purge"

(* While nobody else awaits a rebuild, one has found the active entries of *)
(* the topics it has listed; and the index is current when none is awaited.*)
Tracked ==
  /\ ~blurred /\ (\A c \in Calls : ~Awaits(c)) => index = Active
  /\ \A c \in Calls :
       pc[c] = "scan" /\ ~late[c] /\ (\A d \in Calls \ {c} : ~Awaits(d)) =>
         seen[c] = {e \in Active : TopicOf(e) \notin unseen[c]}

(* Steps that change nothing of this.                                      *)
LEMMA StillTracked ==
  ASSUME Tracked, Active' = Active, UNCHANGED <<index, blurred>>,
         \A c \in Calls :
           /\ Awaits(c)' = Awaits(c)
           /\ pc'[c] = "scan" =>
                pc[c] = "scan" /\ seen'[c] = seen[c] /\ unseen'[c] = unseen[c] /\ late'[c] = late[c]
  PROVE  Tracked'
  BY DEF Tracked

(* A write or a move makes its call await the rebuild that follows, and a  *)
(* rebuild that ends tells the others that they may be late.               *)
LEMMA StepTracked == TypeOK /\ Roles /\ Tracked /\ [Next]_vars => Tracked'
<1> SUFFICES ASSUME TypeOK, Roles, Tracked, [Next]_vars PROVE Tracked'
  OBVIOUS
<1> USE DEF Goto, Awaited
<1>0. pc \in [Calls -> Standing] /\ op \in [Calls -> Writes \cup Moves \cup Sweeps]
  BY DEF TypeOK
<1>1. ASSUME NEW c \in Calls, NEW o \in Writes \cup {"archive", "restore"}, NEW e \in Entries,
             Begin(c, o, e)
      PROVE  Tracked'
  <2>1. pc[c] = "idle" /\ \A d \in Calls \ {c} : pc'[d] = pc[d] /\ op'[d] = op[d]
    BY <1>0, <1>1 DEF Begin, Begins
  <2>2. pc'[c] \in {"mkdir", "read"}
    BY <1>0, <1>1 DEF Begin
  <2> QED
    BY <1>1, <2>1, <2>2, StillTracked DEF Begin, Active, Awaits, There, tree, rebuild
<1>2. ASSUME NEW c \in Calls, NEW o \in Sweeps, BeginSweep(c, o) PROVE Tracked'
  <2>1. pc[c] = "idle" /\ \A d \in Calls \ {c} : pc'[d] = pc[d] /\ op'[d] = op[d]
    BY <1>0, <1>2 DEF BeginSweep, Begins
  <2>2. pc'[c] = "sweep"
    BY <1>0, <1>2 DEF BeginSweep
  <2> QED
    BY <1>2, <2>1, <2>2, StillTracked DEF BeginSweep, Active, Awaits, There, tree, rebuild
<1>3. ASSUME NEW c \in Calls, SweepTopic(c) \/ TopicDone(c) \/ SweepEnds(c) PROVE Tracked'
  BY <1>0, <1>3, StillTracked
  DEF SweepTopic, TopicDone, SweepEnds, Active, Awaits, There, tree, hand, rebuild, Roles
<1>4. ASSUME NEW c \in Calls, SweepEntry(c) PROVE Tracked'
  BY <1>0, <1>4, StillTracked DEF SweepEntry, Active, Awaits, There, tree, rebuild
<1>5. ASSUME NEW c \in Calls, MkDir(c) \/ WriteTmp(c) \/ Read(c) PROVE Tracked'
  BY <1>0, <1>5, StillTracked
  DEF MkDir, WriteTmp, Read, Over, Active, Awaits, There, tree, hand, rebuild
<1>6. ASSUME NEW c \in Calls, Remove(c) PROVE Tracked'
  <2>1. Active' = Active
    BY <1>6 DEF Remove, Active, There, TypeOK, Places
  <2> QED
    BY <1>0, <1>6, <2>1, StillTracked DEF Remove, Awaits, hand, rebuild, Roles
<1>7. ASSUME NEW c \in Calls, Rename(c) \/ Unlink(c) PROVE Tracked'
  <2>1. Awaits(c)'
    BY <1>0, <1>7 DEF Rename, Unlink, Awaits, Roles, Moves, Writes, hand
  <2>2. pc'[c] # "scan" /\ \A d \in Calls : pc'[d] = "scan" => d # c
    BY <1>0, <1>7 DEF Rename, Unlink
  <2> QED
    BY <2>1, <2>2 DEF Tracked
<1>8. ASSUME NEW c \in Calls, RmDir(c) PROVE Tracked'
  BY <1>0, <1>8, StillTracked DEF RmDir, AfterMove, Active, Awaits, There, hand, rebuild
<1>9. ASSUME NEW c \in Calls, ListTopics(c) PROVE Tracked'
  <2>1. /\ \A d \in Calls : Awaits(d)' = Awaits(d)
        /\ UNCHANGED <<index, blurred>> /\ Active' = Active
        /\ \A d \in Calls \ {c} : /\ pc'[d] = pc[d] /\ seen'[d] = seen[d]
                                  /\ unseen'[d] = unseen[d] /\ late'[d] = late[d]
    BY <1>0, <1>9 DEF ListTopics, Awaits, Active, There, tree, hand, TypeOK
  <2>2. seen'[c] = {} /\ unseen'[c] = TopicsOf("active")
    BY <1>9 DEF ListTopics, TypeOK
  <2>3. \A e \in Active : TopicOf(e) \in TopicsOf("active")
    BY Chosen DEF Active, TypeOK, TopicsOf, Places
  <2> QED
    BY <2>1, <2>2, <2>3 DEF Tracked
<1>10. ASSUME NEW c \in Calls, ScanTopic(c) PROVE Tracked'
  <2>1. /\ \A d \in Calls : Awaits(d)' = Awaits(d)
        /\ UNCHANGED <<index, blurred, pc, late>> /\ Active' = Active
        /\ \A d \in Calls \ {c} : seen'[d] = seen[d] /\ unseen'[d] = unseen[d]
    BY <1>10 DEF ScanTopic, Awaits, Active, There, tree, hand, TypeOK
  <2>2. PICK t \in unseen[c] :
          unseen'[c] = unseen[c] \ {t} /\ seen'[c] = seen[c] \cup Listed("active", t)
    BY <1>10 DEF ScanTopic, TypeOK
  <2>3. Listed("active", t) = {e \in Active : TopicOf(e) = t}
    BY DEF Listed, Active
  <2> QED
    BY <2>1, <2>2, <2>3 DEF Tracked
<1>11. ASSUME NEW c \in Calls, RebuildEnds(c) PROVE
         /\ \A d \in Calls \ {c} : pc'[d] = pc[d] /\ (pc'[d] = "scan" => late'[d])
         /\ pc'[c] \in {"names", "idle"} /\ ~Awaits(c)' /\ pc[c] = "scan" /\ unseen[c] = {}
  BY <1>0, <1>11 DEF RebuildEnds, Over, Awaits
<1>12. ASSUME NEW c \in Calls, WriteIndex(c) PROVE Tracked'
  <2>1. Active' = Active /\ op' = op /\ index' = seen[c] /\ blurred' = late[c]
    BY <1>12 DEF WriteIndex, Active, There, tree, hand
  <2>2. RebuildEnds(c)
    BY <1>12 DEF WriteIndex
  <2>3. ~blurred' /\ (\A d \in Calls : ~Awaits(d)') => index' = Active
    BY <1>11, <2>1, <2>2 DEF Tracked, Awaits, Active
  <2> QED
    BY <1>11, <2>1, <2>2, <2>3 DEF Tracked
<1>13. ASSUME NEW c \in Calls, Fails(c) PROVE Tracked'
  <2>0. Active' = Active /\ op' = op /\ index' = index
    BY <1>13 DEF Fails, Active, There, tree
  <2>1. CASE WriteFails(c) \/ ReadFails(c) \/ RemovalFails(c)
    BY <1>0, <2>0, <2>1, StillTracked
    DEF WriteFails, ReadFails, RemovalFails, AfterFailure, AfterMove, Over, Awaits, Roles
  <2>2. CASE RebuildFails(c)
    <3>1. CASE RebuildEnds(c) /\ blurred' = TRUE
      BY <1>11, <3>1 DEF Tracked
    <3>2. CASE /\ pc[c] = "list" /\ pc' = [pc EXCEPT ![c] = "scan"]
               /\ unseen' = [unseen EXCEPT ![c] = {}] /\ seen' = [seen EXCEPT ![c] = {}]
               /\ late' = [late EXCEPT ![c] = TRUE] /\ UNCHANGED blurred
      <4>1. /\ \A d \in Calls : Awaits(d)' = Awaits(d)
            /\ late'[c]
            /\ \A d \in Calls \ {c} : /\ pc'[d] = pc[d] /\ seen'[d] = seen[d]
                                      /\ unseen'[d] = unseen[d] /\ late'[d] = late[d]
        BY <1>0, <2>0, <3>2 DEF Awaits, TypeOK
      <4> QED
        BY <2>0, <3>2, <4>1 DEF Tracked
    <3>3. CASE /\ \E t \in unseen[c] : unseen' = [unseen EXCEPT ![c] = @ \ {t}]
               /\ late' = [late EXCEPT ![c] = TRUE] /\ UNCHANGED <<pc, seen, blurred>>
      <4>1. /\ \A d \in Calls : Awaits(d)' = Awaits(d)
            /\ late'[c]
            /\ \A d \in Calls \ {c} : unseen'[d] = unseen[d] /\ late'[d] = late[d]
        BY <2>0, <3>3 DEF Awaits, TypeOK
      <4> QED
        BY <2>0, <3>3, <4>1 DEF Tracked
    <3> QED
      BY <2>2, <3>1, <3>2, <3>3 DEF RebuildFails
  <2> QED
    BY <1>13, <2>1, <2>2 DEF Fails
<1>14. CASE Crash
  <2>1. /\ Active' = Active /\ index' = index /\ \A c \in Calls : pc'[c] = "idle"
        /\ ~blurred' => ~blurred /\ \A c \in Calls : ~Awaits(c)
    BY <1>14 DEF Crash, Active, There, Awaits
  <2> QED
    BY <2>1 DEF Tracked
<1>15. CASE UNCHANGED vars
  BY <1>15, StillTracked DEF vars, Active, Awaits, There, tree, hand, rebuild
<1> QED
  BY <1>1, <1>2, <1>3, <1>4, <1>5, <1>6, <1>7, <1>8, <1>9, <1>10, <1>12, <1>13, <1>14, <1>15
  DEF Next, Step

LEMMA InitTracked == Init => Roles /\ Tracked
<1> SUFFICES ASSUME Init PROVE Roles /\ Tracked
  OBVIOUS
<1>1. \A c \in Calls : pc[c] = "idle"
  BY DEF Init
<1>2. index = {} /\ Active = {}
  BY DEF Init, Active, There, Places
<1> QED
  BY <1>1, <1>2 DEF Roles, Tracked

LEMMA Indexed == Spec => [](TypeOK /\ Roles /\ Tracked)
<1>1. Init => TypeOK /\ Roles /\ Tracked
  BY InitType, InitTracked
<1>2. TypeOK /\ Roles /\ Tracked /\ [Next]_vars => (TypeOK /\ Roles /\ Tracked)'
  BY StepType, StepRoles, StepTracked
<1> QED
  BY <1>1, <1>2, PTL DEF Spec

(* At rest the index lists exactly the active entries, unless its last     *)
(* rebuild overlapped with another or did not finish                       *)
(* (consolidated.go:496-524).                                              *)
THEOREM IndexStaysCurrent == Spec => []IndexIsCurrent
<1>1. Tracked => IndexIsCurrent
  <2> SUFFICES ASSUME Tracked, AtRest, ~blurred PROVE index = Active
    BY DEF IndexIsCurrent, Active
  <2>1. \A c \in Calls : ~Awaits(c)
    BY DEF AtRest, Awaits, Awaited
  <2> QED
    BY <2>1 DEF Tracked
<1> QED
  BY <1>1, Indexed, PTL

-----------------------------------------------------------------------------
(* The promise.                                                            *)

Holds(c, e) == pc[c] \in Handling /\ entry[c] = e

(* What two calls have in hand at a time is loose, or they both write it.  *)
Alone ==
  \A c, d \in Calls :
    c # d /\ pc[c] \in Handling /\ pc[d] \in Handling /\ entry[c] = entry[d] =>
      entry[c] \in loose \/ {op[c], op[d]} \subseteq Writes

(* A move holds the text that is in its old place, and removes it only     *)
(* when the same text is in the new one.                                   *)
Kept(c) ==
  pc[c] \in Handling /\ op[c] \in Moves /\ entry[c] \notin loose =>
    /\ pc[c] = "read" => There(Source(c), entry[c])
    /\ pc[c] \in {"mkdir", "tmp", "rename"} =>
         There(Source(c), entry[c]) /\ text[c] = files[Source(c)][entry[c]]
    /\ pc[c] = "unlink" =>
         There(Source(c), entry[c]) /\ files[Target(c)][entry[c]] = files[Source(c)][entry[c]]

Moved == Alone /\ \A c \in Calls : Kept(c)

LEMMA Ways ==
  \A c \in Calls : /\ Source(c) \in Places /\ Target(c) \in Places /\ Source(c) # Target(c)
                   /\ op[c] \in {"archive", "stale"} => Source(c) = "active" /\ Target(c) = "archive"
                   /\ op[c] \notin {"archive", "stale"} => Source(c) = "archive" /\ Target(c) = "active"
  BY DEF Source, Target, Places

(* Steps that take nothing in hand.                                        *)
LEMMA StillAlone ==
  ASSUME Alone, loose \subseteq loose',
         \A c \in Calls : pc'[c] \in Handling =>
           pc[c] \in Handling /\ entry'[c] = entry[c] /\ op'[c] = op[c]
  PROVE  Alone'
  BY DEF Alone

(* Steps that leave the files as they are, and move nothing forward.       *)
LEMMA StillKept ==
  ASSUME \A c \in Calls : Kept(c), UNCHANGED files, loose \subseteq loose',
         NEW c \in Calls, op'[c] = op[c],
         pc'[c] \in Handling => entry'[c] = entry[c] /\ text'[c] = text[c]
           /\ (pc'[c] = pc[c] \/ {pc[c], pc'[c]} \subseteq {"mkdir", "tmp", "rename"})
  PROVE  Kept(c)'
  BY DEF Kept, There, Source, Target, Handling

(* Taking an entry in hand.                                                *)
LEMMA TakenAlone ==
  ASSUME TypeOK, Alone, NEW c \in Calls, NEW o, NEW e \in Entries, TakeInHand(c, o, e), op'[c] = o,
         \A d \in Calls \ {c} : pc'[d] = pc[d] /\ op'[d] = op[d]
  PROVE  Alone' /\ loose \subseteq loose'
<1>1. /\ entry'[c] = e /\ \A d \in Calls \ {c} : entry'[d] = entry[d]
      /\ loose \subseteq loose'
  BY DEF TakeInHand, TypeOK
<1>2. ASSUME NEW d \in Calls \ {c}, pc[d] \in Handling, entry[d] = e,
             ~({o, op[d]} \subseteq Writes)
      PROVE  e \in loose'
  BY <1>2 DEF TakeInHand
<1> QED
  BY <1>1, <1>2 DEF Alone

(* A call that changes the files of its entry disturbs no other move.      *)
LEMMA OthersKept ==
  ASSUME TypeOK, Moved, NEW c \in Calls, pc[c] \in Handling, UNCHANGED <<op, entry, loose>>,
         \A place \in Places, e \in Entries \ {entry[c]} : files'[place][e] = files[place][e],
         NEW d \in Calls \ {c}, pc'[d] = pc[d], text'[d] = text[d]
  PROVE  Kept(d)'
<1> SUFFICES ASSUME pc[d] \in Handling, op[d] \in Moves, entry[d] \notin loose
             PROVE  Kept(d)'
  BY DEF Kept
<1>1. entry[d] # entry[c]
  BY DEF Moved, Alone, Moves, Writes
<1>2. /\ files'[Source(d)][entry[d]] = files[Source(d)][entry[d]]
      /\ files'[Target(d)][entry[d]] = files[Target(d)][entry[d]]
  BY <1>1, Ways DEF TypeOK
<1>3. Source(d)' = Source(d) /\ Target(d)' = Target(d)
  BY DEF Source, Target
<1>4. Kept(d)
  BY DEF Moved
<1> QED
  BY <1>2, <1>3, <1>4 DEF Kept, There

LEMMA StepMoved == TypeOK /\ Roles /\ Moved /\ [Next]_vars => Moved'
<1> SUFFICES ASSUME TypeOK, Roles, Moved, [Next]_vars PROVE Moved'
  OBVIOUS
<1> USE DEF Goto
<1>0. /\ pc \in [Calls -> Standing] /\ op \in [Calls -> Writes \cup Moves \cup Sweeps]
      /\ entry \in [Calls -> Entries] /\ Alone /\ \A c \in Calls : Kept(c)
  BY DEF TypeOK, Moved
<1>1. ASSUME NEW c \in Calls, NEW o \in Writes \cup {"archive", "restore"}, NEW e \in Entries,
             Begin(c, o, e)
      PROVE  Moved'
  <2>1. /\ \A d \in Calls \ {c} : pc'[d] = pc[d] /\ op'[d] = op[d]
        /\ op'[c] = o /\ TakeInHand(c, o, e) /\ UNCHANGED files
    BY <1>0, <1>1 DEF Begin, tree
  <2>2. Alone' /\ loose \subseteq loose'
    BY <1>0, <2>1, TakenAlone
  <2>3. entry'[c] = e /\ \A d \in Calls \ {c} : entry'[d] = entry[d]
    BY <1>0, <2>1 DEF TakeInHand
  <2>4. \A d \in Calls \ {c} : text'[d] = text[d]
    <3>1. CASE o \in Writes
      BY <1>1, <3>1 DEF Begin, TypeOK
    <3>2. CASE o \notin Writes
      BY <1>1, <3>2 DEF Begin
    <3> QED
      BY <3>1, <3>2
  <2>5. ASSUME NEW d \in Calls \ {c} PROVE Kept(d)'
    BY <1>0, <2>1, <2>2, <2>3, <2>4, StillKept
  <2>6. Kept(c)'
    <3>1. CASE o \in Writes
      BY <2>1, <3>1 DEF Kept, Moves, Writes
    <3>2. CASE o \notin Writes
      <4>1. pc'[c] = "read" /\ MayBegin(o, e)
        BY <1>0, <1>1, <3>2 DEF Begin
      <4>2. There(Source(c)', e)
        BY <2>1, <3>2, <4>1 DEF MayBegin, Source, Writes, There
      <4> QED
        BY <2>1, <2>3, <4>1, <4>2 DEF Kept, There
    <3> QED
      BY <3>1, <3>2
  <2> QED
    BY <2>2, <2>5, <2>6 DEF Moved
<1>2. ASSUME NEW c \in Calls, NEW o \in Sweeps, BeginSweep(c, o) PROVE Moved'
  <2>1. /\ \A d \in Calls \ {c} : pc'[d] = pc[d] /\ op'[d] = op[d]
        /\ pc'[c] \notin Handling /\ UNCHANGED <<files, entry, text, loose>>
    BY <1>0, <1>2 DEF BeginSweep, tree, Handling
  <2>2. Alone'
    BY <1>0, <2>1, StillAlone
  <2>3. ASSUME NEW d \in Calls PROVE Kept(d)'
    <3>1. CASE d = c
      BY <2>1, <3>1 DEF Kept
    <3>2. CASE d # c
      BY <1>0, <2>1, <3>2, StillKept
    <3> QED
      BY <3>1, <3>2
  <2> QED
    BY <2>2, <2>3 DEF Moved
<1>3. ASSUME NEW c \in Calls,
             \/ SweepTopic(c) \/ TopicDone(c) \/ SweepEnds(c) \/ MkDir(c) \/ WriteTmp(c) \/ RmDir(c)
             \/ ListTopics(c) \/ ScanTopic(c) \/ WriteIndex(c)
      PROVE  Moved'
  <2>1. UNCHANGED <<files, op, entry, text, loose>>
    BY <1>3 DEF SweepTopic, TopicDone, SweepEnds, MkDir, WriteTmp, RmDir, ListTopics, ScanTopic,
                WriteIndex, tree, hand
  <2>2. \A d \in Calls : pc'[d] \in Handling =>
          \/ pc'[d] = pc[d]
          \/ {pc[d], pc'[d]} \subseteq {"mkdir", "tmp", "rename"}
    <3>1. CASE SweepTopic(c) \/ TopicDone(c) \/ SweepEnds(c) \/ RmDir(c) \/ ListTopics(c)
      BY <1>0, <3>1 DEF SweepTopic, TopicDone, SweepEnds, RmDir, ListTopics, AfterMove, Handling
    <3>2. CASE MkDir(c) \/ WriteTmp(c)
      BY <1>0, <3>2 DEF MkDir, WriteTmp, Over, Handling
    <3>3. CASE ScanTopic(c) \/ WriteIndex(c)
      BY <1>0, <3>3 DEF ScanTopic, WriteIndex, RebuildEnds, Over, Handling
    <3> QED
      BY <1>3, <3>1, <3>2, <3>3
  <2>3. \A d \in Calls : pc'[d] \in Handling => pc[d] \in Handling
    BY <2>2 DEF Handling
  <2>4. Alone'
    BY <1>0, <2>1, <2>3, StillAlone
  <2>5. ASSUME NEW d \in Calls PROVE Kept(d)'
    BY <1>0, <2>1, <2>2, StillKept
  <2> QED
    BY <2>4, <2>5 DEF Moved
<1>4. ASSUME NEW c \in Calls, SweepEntry(c) PROVE Moved'
  <2>1. PICK e \in names[c] :
          \/ UNCHANGED <<pc, entry, loose>>
          \/ /\ There(Source(c), e) /\ TakeInHand(c, op[c], e)
             /\ pc' = [pc EXCEPT ![c] = IF op[c] = "purge" THEN "remove" ELSE "read"]
    BY <1>4 DEF SweepEntry
  <2>2. UNCHANGED <<files, op, text>> /\ e \in Entries /\ pc[c] = "names"
    BY <1>4 DEF SweepEntry, tree, TypeOK
  <2>3. CASE UNCHANGED <<pc, entry, loose>>
    BY <1>0, <2>2, <2>3, StillAlone, StillKept DEF Moved
  <2>4. CASE /\ There(Source(c), e) /\ TakeInHand(c, op[c], e)
             /\ pc' = [pc EXCEPT ![c] = IF op[c] = "purge" THEN "remove" ELSE "read"]
    <3>1. \A d \in Calls \ {c} : pc'[d] = pc[d] /\ op'[d] = op[d]
      BY <1>0, <2>2, <2>4
    <3>2. Alone' /\ loose \subseteq loose'
      BY <1>0, <2>2, <2>4, <3>1, TakenAlone
    <3>3. entry'[c] = e /\ \A d \in Calls \ {c} : entry'[d] = entry[d]
      BY <1>0, <2>4 DEF TakeInHand
    <3>4. ASSUME NEW d \in Calls \ {c} PROVE Kept(d)'
      BY <1>0, <2>2, <3>1, <3>2, <3>3, StillKept
    <3>5. Kept(c)'
      <4>1. pc'[c] \in {"read", "remove"} /\ Source(c)' = Source(c)
        BY <1>0, <2>2, <2>4 DEF Source
      <4> QED
        BY <2>2, <2>4, <3>3, <4>1 DEF Kept, There
    <3> QED
      BY <3>2, <3>4, <3>5 DEF Moved
  <2> QED
    BY <2>1, <2>3, <2>4
<1>5. ASSUME NEW c \in Calls, Remove(c) \/ Rename(c) \/ Unlink(c) PROVE Moved'
  <2>1. /\ UNCHANGED <<op, entry, loose>> /\ pc[c] \in Handling
        /\ \A d \in Calls \ {c} : pc'[d] = pc[d] /\ text'[d] = text[d]
        /\ pc'[c] = "unlink" \/ pc'[c] \notin Handling
    BY <1>0, <1>5 DEF Remove, Rename, Unlink, hand, Handling, TypeOK
  <2>2. \A place \in Places, e \in Entries \ {entry[c]} : files'[place][e] = files[place][e]
    BY <1>0, <1>5, Ways DEF Remove, Rename, Unlink, TypeOK, Places
  <2>3. Alone'
    BY <1>0, <2>1, StillAlone
  <2>4. ASSUME NEW d \in Calls \ {c} PROVE Kept(d)'
    BY <2>1, <2>2, OthersKept
  <2>5. Kept(c)'
    <3>1. CASE Rename(c) /\ op[c] \in Moves /\ entry[c] \notin loose
      <4>1. There(Source(c), entry[c]) /\ text[c] = files[Source(c)][entry[c]]
        BY <1>0, <3>1 DEF Rename, Kept, Handling
      <4>2. /\ pc'[c] = "unlink" /\ files'[Target(c)][entry[c]] = text[c]
            /\ files'[Source(c)][entry[c]] = files[Source(c)][entry[c]]
        BY <1>0, <3>1, Ways DEF Rename, TypeOK
      <4>3. Source(c)' = Source(c) /\ Target(c)' = Target(c)
        BY <2>1 DEF Source, Target
      <4> QED
        BY <2>1, <4>1, <4>2, <4>3 DEF Kept, There
    <3>2. CASE Rename(c) /\ (op[c] \notin Moves \/ entry[c] \in loose)
      BY <2>1, <3>2 DEF Kept
    <3>3. CASE Remove(c) \/ Unlink(c)
      BY <1>0, <3>3 DEF Remove, Unlink, Kept, Handling
    <3> QED
      BY <1>5, <3>1, <3>2, <3>3
  <2> QED
    BY <2>3, <2>4, <2>5 DEF Moved
<1>6. ASSUME NEW c \in Calls, Read(c) PROVE Moved'
  <2>1. /\ UNCHANGED <<files, op, entry, loose>> /\ pc[c] = "read" /\ pc'[c] = "mkdir"
        /\ \A d \in Calls \ {c} : pc'[d] = pc[d] /\ text'[d] = text[d]
        /\ There(Source(c), entry[c]) => text'[c] = files[Source(c)][entry[c]]
    BY <1>0, <1>6 DEF Read, tree, TypeOK
  <2>2. Alone'
    BY <1>0, <2>1, StillAlone DEF Handling
  <2>3. ASSUME NEW d \in Calls \ {c} PROVE Kept(d)'
    BY <1>0, <2>1, StillKept
  <2>4. Kept(c)'
    <3>1. Source(c)' = Source(c) /\ Target(c)' = Target(c)
      BY <2>1 DEF Source, Target
    <3> QED
      BY <1>0, <2>1, <3>1 DEF Kept, There, Handling
  <2> QED
    BY <2>2, <2>3, <2>4 DEF Moved
<1>7. ASSUME NEW c \in Calls, Fails(c) PROVE Moved'
  <2>0. UNCHANGED <<files, op, entry>>
    BY <1>7 DEF Fails, tree
  <2>1. CASE ReadFails(c)
    <3>1. /\ pc[c] = "read" /\ pc'[c] = "mkdir" /\ loose' = loose \cup {entry[c]}
          /\ \A d \in Calls \ {c} : pc'[d] = pc[d] /\ text'[d] = text[d]
      BY <1>0, <2>1 DEF ReadFails, TypeOK
    <3>2. Alone'
      BY <1>0, <2>0, <3>1, StillAlone DEF Handling
    <3>3. ASSUME NEW d \in Calls \ {c} PROVE Kept(d)'
      BY <1>0, <2>0, <3>1, StillKept
    <3>4. Kept(c)'
      BY <2>0, <3>1 DEF Kept
    <3> QED
      BY <3>2, <3>3, <3>4 DEF Moved
  <2>2. CASE WriteFails(c) \/ RemovalFails(c) \/ RebuildFails(c)
    <3>1. UNCHANGED <<text, loose>>
      BY <2>2 DEF WriteFails, RemovalFails, RebuildFails
    <3>2. \A d \in Calls : pc'[d] \in Handling => pc'[d] = pc[d]
      <4>1. CASE WriteFails(c)
        BY <1>0, <4>1 DEF WriteFails, AfterFailure, Over, Handling
      <4>2. CASE RemovalFails(c)
        BY <1>0, <4>2 DEF RemovalFails, AfterMove, Handling
      <4>3. CASE RebuildFails(c)
        BY <1>0, <4>3 DEF RebuildFails, RebuildEnds, Over, Handling
      <4> QED
        BY <2>2, <4>1, <4>2, <4>3
    <3>3. Alone'
      BY <1>0, <2>0, <3>1, <3>2, StillAlone
    <3>4. ASSUME NEW d \in Calls PROVE Kept(d)'
      BY <1>0, <2>0, <3>1, <3>2, StillKept
    <3> QED
      BY <3>3, <3>4 DEF Moved
  <2> QED
    BY <1>7, <2>1, <2>2 DEF Fails
<1>8. CASE Crash
  <2>1. \A c \in Calls : pc'[c] \notin Handling
    BY <1>8 DEF Crash, Handling
  <2> QED
    BY <2>1 DEF Moved, Alone, Kept
<1>9. CASE UNCHANGED vars
  BY <1>0, <1>9, StillAlone, StillKept DEF vars, tree, hand, Moved
<1> QED
  BY <1>1, <1>2, <1>3, <1>4, <1>5, <1>6, <1>7, <1>8, <1>9 DEF Next, Step

LEMMA Carried == Spec => [](TypeOK /\ Roles /\ Moved)
<1>1. Init => Moved
  BY DEF Init, Moved, Alone, Kept, Handling
<1>2. Init => TypeOK /\ Roles /\ Moved
  BY <1>1, InitType, InitTracked
<1>3. TypeOK /\ Roles /\ Moved /\ [Next]_vars => (TypeOK /\ Roles /\ Moved)'
  BY StepType, StepRoles, StepMoved
<1> QED
  BY <1>2, <1>3, PTL DEF Spec

-----------------------------------------------------------------------------
(* ConsolidatedStore implements MemoryEntries.                             *)

LEMMA InitPromise == Init => Promise!Init
<1> SUFFICES ASSUME Init PROVE Promise!Init
  OBVIOUS
<1>1. /\ \A place \in Places, e \in Entries : files[place][e] = NoFile
      /\ loose = {}
  BY DEF Init
<1>2. \A place \in Places : Shown(place) = [e \in Entries |-> NoFile]
  BY <1>1 DEF Shown
<1> QED
  BY <1>1, <1>2 DEF Promise!Init, Places

(* Only one call can be leaving with an entry that is not loose.           *)
LEMMA Leaver ==
  ASSUME TypeOK, Roles, Moved, NEW c \in Calls, pc[c] \in Handling, entry[c] \notin loose,
         pc[c] = "unlink" \/ op[c] \in Moves \cup Writes
  PROVE  /\ ~Leaving(Target(c), entry[c])
         /\ pc[c] # "unlink" => ~Leaving(Source(c), entry[c])
<1>1. ASSUME NEW d \in Calls \ {c}, pc[d] = "unlink", entry[d] = entry[c] PROVE FALSE
  BY <1>1 DEF Moved, Alone, Handling, Roles, Moves, Writes
<1> QED
  BY <1>1, Ways DEF Leaving

(* Steps that change no file, and begin or end no move.                    *)
LEMMA Disturbing ==
  ASSUME UNCHANGED files, loose \subseteq loose',
         \A c \in Calls : /\ pc'[c] = "unlink" <=> pc[c] = "unlink"
                          /\ pc[c] = "unlink" => entry'[c] = entry[c] /\ op'[c] = op[c]
  PROVE  Promise!Disturb
<1>1. ASSUME NEW e \in Entries \ loose', NEW place PROVE Shown(place)'[e] = Shown(place)[e]
  <2>1. Leaving(place, e)' <=> Leaving(place, e)
    BY DEF Leaving, Source
  <2> QED
    BY <2>1 DEF Shown
<1> QED
  BY <1>1 DEF Promise!Disturb

(* A step of one entry leaves what is shown of the others.                 *)
LEMMA OthersShown ==
  ASSUME TypeOK, NEW c \in Calls, UNCHANGED <<op, entry, loose>>,
         \A d \in Calls \ {c} : pc'[d] = pc[d],
         NEW place \in Places, NEW e \in Entries \ {entry[c]},
         files'[place][e] = files[place][e]
  PROVE  Shown(place)'[e] = Shown(place)[e]
<1>1. Leaving(place, e)' <=> Leaving(place, e)
  BY DEF Leaving, Source
<1> QED
  BY <1>1 DEF Shown

(* Shown changes at one entry.                                             *)
LEMMA ShownUpdate ==
  ASSUME NEW place, NEW e \in Entries, NEW x, Shown(place)'[e] = x,
         \A f \in Entries \ {e} : Shown(place)'[f] = Shown(place)[f]
  PROVE  Shown(place)' = [Shown(place) EXCEPT ![e] = x]
<1>1. Shown(place)' = [f \in Entries |-> Shown(place)'[f]]
  BY DEF Shown
<1>2. Shown(place) = [f \in Entries |-> Shown(place)[f]]
  BY DEF Shown
<1> QED
  BY <1>1, <1>2

LEMMA ShownSame ==
  ASSUME NEW place, \A f \in Entries : Shown(place)'[f] = Shown(place)[f]
  PROVE  Shown(place)' = Shown(place)
<1>1. Shown(place)' = [f \in Entries |-> Shown(place)'[f]]
  BY DEF Shown
<1>2. Shown(place) = [f \in Entries |-> Shown(place)[f]]
  BY DEF Shown
<1> QED
  BY <1>1, <1>2

(* The rename is the moment at which a write or a move takes place.        *)
LEMMA RenameActs ==
  ASSUME TypeOK, Roles, Moved, NEW c \in Calls, Rename(c)
  PROVE  Promise!Next
<1>0. PICK e \in Entries, from \in Places, to \in Places :
        e = entry[c] /\ from = Source(c) /\ to = Target(c) /\ from # to
  BY Ways DEF TypeOK
<1>1. /\ UNCHANGED <<op, entry, loose>> /\ pc[c] = "rename" /\ Source(c)' = from
      /\ \A d \in Calls \ {c} : pc'[d] = pc[d]
      /\ pc'[c] = IF op[c] \in Moves THEN "unlink" ELSE "list"
      /\ files'[to][e] = text[c] /\ files'[from][e] = files[from][e]
      /\ \A place \in Places, f \in Entries \ {e} : files'[place][f] = files[place][f]
  BY <1>0 DEF Rename, Goto, TypeOK, Source
<1>2. \A place \in Places, f \in Entries \ {e} : Shown(place)'[f] = Shown(place)[f]
  BY <1>0, <1>1, OthersShown
<1>3. CASE e \in loose
  BY <1>1, <1>2, <1>3 DEF Promise!Next, Promise!Disturb, Places
<1>4. CASE e \notin loose
  <2>1. ~Leaving(to, e) /\ ~Leaving(from, e) /\ op[c] \in Moves \cup Writes
    BY <1>0, <1>1, <1>4, Leaver DEF Roles, Handling
  <2>2. ~Leaving(to, e)' /\ (Leaving(from, e)' <=> op[c] \in Moves)
    <3>1. \A d \in Calls : Source(d)' = Source(d)
      BY <1>1 DEF Source
    <3> QED
      BY <1>0, <1>1, <2>1, <3>1 DEF Leaving
  <2>3. /\ Shown(to)[e] = files[to][e] /\ Shown(from)[e] = files[from][e]
        /\ Shown(to)'[e] = text[c]
        /\ Shown(from)'[e] = IF op[c] \in Moves THEN NoFile ELSE files[from][e]
    BY <1>1, <1>4, <2>1, <2>2 DEF Shown
  <2>4. Shown(to)' = [Shown(to) EXCEPT ![e] = text[c]]
    BY <1>2, <2>3, ShownUpdate
  <2>5. CASE op[c] \in Writes
    <3>1. to = "active" /\ from = "archive" /\ text[c] \in Texts /\ op[c] \notin Moves
      BY <1>0, <1>1, <2>5 DEF Target, Source, Writes, Moves, Roles
    <3>2. Shown(from)' = Shown(from)
      BY <1>2, <2>3, <3>1, ShownSame
    <3> QED
      BY <1>1, <2>4, <3>1, <3>2 DEF Promise!Next, Promise!Write
  <2>6. CASE op[c] \in Moves
    <3>1. text[c] = Shown(from)[e] /\ Shown(from)[e] # NoFile
      BY <1>0, <1>1, <1>4, <2>3, <2>6 DEF Moved, Kept, There, Handling
    <3>2. Shown(from)' = [Shown(from) EXCEPT ![e] = NoFile]
      BY <1>2, <2>3, <2>6, ShownUpdate
    <3>3. CASE to = "archive" /\ from = "active"
      BY <1>1, <2>4, <3>1, <3>2, <3>3 DEF Promise!Next, Promise!Archive
    <3>4. CASE to = "active" /\ from = "archive"
      BY <1>1, <2>4, <3>1, <3>2, <3>4 DEF Promise!Next, Promise!Restore
    <3> QED
      BY <1>0, <3>3, <3>4 DEF Places
  <2> QED
    BY <2>1, <2>5, <2>6
<1> QED
  BY <1>3, <1>4

(* The entry that a move unlinks has already left.                         *)
LEMMA UnlinkDisturbs ==
  ASSUME TypeOK, Roles, Moved, NEW c \in Calls, Unlink(c)
  PROVE  Promise!Disturb
<1> DEFINE e == entry[c]
<1>1. /\ UNCHANGED <<op, entry, loose>> /\ pc[c] = "unlink" /\ e \in Entries
      /\ pc'[c] = "rmdir" /\ \A d \in Calls \ {c} : pc'[d] = pc[d]
      /\ files'[Source(c)][e] = NoFile /\ files'[Target(c)][e] = files[Target(c)][e]
      /\ \A place \in Places, f \in Entries \ {e} : files'[place][f] = files[place][f]
  BY Ways DEF Unlink, Goto, TypeOK, hand
<1>2. \A place \in Places, f \in Entries \ {e} : Shown(place)'[f] = Shown(place)[f]
  BY <1>1, OthersShown
<1>3. ASSUME e \notin loose, NEW place \in Places PROVE Shown(place)'[e] = Shown(place)[e]
  <2>1. CASE place = Source(c)
    BY <1>1, <1>3, <2>1 DEF Shown, Leaving
  <2>2. CASE place # Source(c)
    <3>1. place = Target(c)
      BY <2>2, Ways DEF Places
    <3>2. Leaving(place, e)' <=> Leaving(place, e)
      BY <1>1, <2>2 DEF Leaving, Source
    <3> QED
      BY <1>1, <3>1, <3>2 DEF Shown
  <2> QED
    BY <2>1, <2>2
<1> QED
  BY <1>1, <1>2, <1>3 DEF Promise!Disturb, Places

LEMMA RemovePurges ==
  ASSUME TypeOK, Roles, Moved, NEW c \in Calls, Remove(c)
  PROVE  Promise!Next
<1> DEFINE e == entry[c]
<1>1. /\ UNCHANGED <<op, entry, loose>> /\ pc[c] = "remove" /\ e \in Entries
      /\ pc'[c] = "names" /\ \A d \in Calls \ {c} : pc'[d] = pc[d]
      /\ files' = [files EXCEPT !["archive"][e] = NoFile]
  BY DEF Remove, Goto, TypeOK, hand
<1>2. \A place, f : Leaving(place, f)' <=> Leaving(place, f)
  BY <1>1 DEF Leaving, Source
<1>3. Shown("active")' = Shown("active")
  BY <1>1, <1>2 DEF Shown, TypeOK, Places
<1>4. Shown("archive")' = [Shown("archive") EXCEPT ![e] = NoFile]
  BY <1>1, <1>2 DEF Shown, TypeOK, Places
<1> QED
  BY <1>1, <1>3, <1>4 DEF Promise!Next, Promise!Purge

(* A move that ends before its unlink, or without one, leaves a copy.      *)
LEMMA MoveLingers ==
  ASSUME TypeOK, Roles, Moved, UNCHANGED <<files, loose>>,
         \A c \in Calls :
           /\ pc'[c] = "unlink" => pc[c] = "unlink"
           /\ entry'[c] = entry[c] /\ op'[c] = op[c]
  PROVE  Promise!Linger
<1>1. ASSUME NEW place \in Places, NEW other \in Places \ {place}, NEW e \in Entries \ loose,
             Shown(place)'[e] # Shown(place)[e]
      PROVE  Shown(place)[e] = NoFile /\ Shown(place)'[e] = Shown(other)[e]
  <2>1. Leaving(place, e) /\ ~Leaving(place, e)'
    BY <1>1 DEF Shown, Leaving, Source
  <2>2. PICK c \in Calls : pc[c] = "unlink" /\ entry[c] = e /\ Source(c) = place
    BY <2>1 DEF Leaving
  <2>3. Target(c) = other
    BY <2>2, Ways DEF Places
  <2>4. ~Leaving(other, e)
    BY <1>1, <2>2, <2>3, Leaver DEF Handling
  <2>5. files[other][e] = files[place][e]
    BY <1>1, <2>2, <2>3 DEF Moved, Kept, Handling, Roles
  <2> QED
    BY <1>1, <2>1, <2>4, <2>5 DEF Shown
<1> QED
  BY <1>1 DEF Promise!Linger, Places

LEMMA StepPromise ==
  TypeOK /\ Roles /\ Moved /\ [Next]_vars => [Promise!Next]_(Promise!vars)
<1> SUFFICES ASSUME TypeOK, Roles, Moved, [Next]_vars
             PROVE  Promise!Next \/ UNCHANGED Promise!vars
  OBVIOUS
<1> USE DEF Goto
<1>0. /\ pc \in [Calls -> Standing] /\ op \in [Calls -> Writes \cup Moves \cup Sweeps]
      /\ entry \in [Calls -> Entries] /\ Alone
  BY DEF TypeOK, Moved
<1>a. Promise!Disturb \/ Promise!Linger => Promise!Next
  BY DEF Promise!Next
<1>1. ASSUME NEW c \in Calls, NEW o \in Writes \cup {"archive", "restore"}, NEW e \in Entries,
             Begin(c, o, e)
      PROVE  Promise!Next
  <2>1. /\ pc[c] = "idle" /\ pc'[c] \in {"read", "mkdir"} /\ UNCHANGED files
        /\ \A d \in Calls \ {c} : pc'[d] = pc[d] /\ op'[d] = op[d]
        /\ op'[c] = o /\ TakeInHand(c, o, e)
    BY <1>0, <1>1 DEF Begin, Begins, tree
  <2>2. loose \subseteq loose'
    BY <1>0, <2>1, TakenAlone
  <2>3. \A d \in Calls \ {c} : entry'[d] = entry[d]
    BY <1>0, <2>1 DEF TakeInHand
  <2> QED
    BY <1>a, <2>1, <2>2, <2>3, Disturbing
<1>2. ASSUME NEW c \in Calls, NEW o \in Sweeps, BeginSweep(c, o) PROVE Promise!Next
  <2>1. /\ pc[c] = "idle" /\ pc'[c] = "sweep" /\ UNCHANGED <<files, entry, loose>>
        /\ \A d \in Calls \ {c} : pc'[d] = pc[d] /\ op'[d] = op[d]
    BY <1>0, <1>2 DEF BeginSweep, Begins, tree
  <2> QED
    BY <1>a, <2>1, Disturbing
<1>3. ASSUME NEW c \in Calls,
             \/ SweepTopic(c) \/ TopicDone(c) \/ SweepEnds(c) \/ MkDir(c) \/ WriteTmp(c) \/ RmDir(c)
             \/ ListTopics(c) \/ ScanTopic(c) \/ WriteIndex(c) \/ Read(c)
      PROVE  Promise!Next
  <2>1. UNCHANGED <<files, op, entry, loose>>
    BY <1>3 DEF SweepTopic, TopicDone, SweepEnds, MkDir, WriteTmp, RmDir, ListTopics, ScanTopic,
                WriteIndex, Read, tree, hand
  <2>2. \A d \in Calls : pc'[d] = "unlink" <=> pc[d] = "unlink"
    <3>1. CASE SweepTopic(c) \/ TopicDone(c) \/ SweepEnds(c) \/ RmDir(c) \/ ListTopics(c)
      BY <1>0, <3>1 DEF SweepTopic, TopicDone, SweepEnds, RmDir, ListTopics, AfterMove
    <3>2. CASE MkDir(c) \/ WriteTmp(c) \/ Read(c)
      BY <1>0, <3>2 DEF MkDir, WriteTmp, Read, Over
    <3>3. CASE ScanTopic(c) \/ WriteIndex(c)
      BY <1>0, <3>3 DEF ScanTopic, WriteIndex, RebuildEnds, Over
    <3> QED
      BY <1>3, <3>1, <3>2, <3>3
  <2> QED
    BY <1>a, <2>1, <2>2, Disturbing
<1>4. ASSUME NEW c \in Calls, SweepEntry(c) PROVE Promise!Next
  <2>1. PICK e \in names[c] :
          \/ UNCHANGED <<pc, entry, loose>>
          \/ /\ TakeInHand(c, op[c], e)
             /\ pc' = [pc EXCEPT ![c] = IF op[c] = "purge" THEN "remove" ELSE "read"]
    BY <1>4 DEF SweepEntry
  <2>2. UNCHANGED <<files, op>> /\ e \in Entries /\ pc[c] = "names"
    BY <1>4 DEF SweepEntry, tree, TypeOK
  <2>3. CASE UNCHANGED <<pc, entry, loose>>
    BY <1>a, <2>2, <2>3, Disturbing
  <2>4. CASE /\ TakeInHand(c, op[c], e)
             /\ pc' = [pc EXCEPT ![c] = IF op[c] = "purge" THEN "remove" ELSE "read"]
    <3>1. pc'[c] # "unlink" /\ \A d \in Calls \ {c} : pc'[d] = pc[d] /\ op'[d] = op[d]
      BY <1>0, <2>2, <2>4
    <3>2. loose \subseteq loose'
      BY <1>0, <2>2, <2>4, <3>1, TakenAlone
    <3>3. \A d \in Calls \ {c} : entry'[d] = entry[d]
      BY <1>0, <2>4 DEF TakeInHand
    <3> QED
      BY <1>a, <2>2, <3>1, <3>2, <3>3, Disturbing
  <2> QED
    BY <2>1, <2>3, <2>4
<1>5. ASSUME NEW c \in Calls, Remove(c) \/ Rename(c) \/ Unlink(c) PROVE Promise!Next
  BY <1>a, <1>5, RemovePurges, RenameActs, UnlinkDisturbs
<1>6. ASSUME NEW c \in Calls, Fails(c) PROVE Promise!Next
  <2>0. UNCHANGED <<files, op, entry>>
    BY <1>6 DEF Fails, tree
  <2>1. CASE ReadFails(c)
    <3>1. /\ pc[c] = "read" /\ pc'[c] = "mkdir" /\ loose' = loose \cup {entry[c]}
          /\ \A d \in Calls \ {c} : pc'[d] = pc[d]
      BY <1>0, <2>1 DEF ReadFails
    <3> QED
      BY <1>a, <2>0, <3>1, Disturbing
  <2>2. CASE WriteFails(c) \/ RemovalFails(c) \/ RebuildFails(c)
    <3>1. UNCHANGED loose
      BY <2>2 DEF WriteFails, RemovalFails, RebuildFails
    <3>2. \A d \in Calls : pc'[d] = "unlink" => pc[d] = "unlink"
      <4>1. CASE WriteFails(c)
        BY <1>0, <4>1 DEF WriteFails, AfterFailure, Over
      <4>2. CASE RemovalFails(c)
        BY <1>0, <4>2 DEF RemovalFails, AfterMove
      <4>3. CASE RebuildFails(c)
        BY <1>0, <4>3 DEF RebuildFails, RebuildEnds, Over
      <4> QED
        BY <2>2, <4>1, <4>2, <4>3
    <3> QED
      BY <1>a, <2>0, <3>1, <3>2, MoveLingers
  <2> QED
    BY <1>6, <2>1, <2>2 DEF Fails
<1>7. CASE Crash
  <2>1. UNCHANGED <<files, op, entry, loose>> /\ \A c \in Calls : pc'[c] # "unlink"
    BY <1>7 DEF Crash, hand
  <2> QED
    BY <1>a, <2>1, MoveLingers
<1>8. CASE UNCHANGED vars
  <2>1. UNCHANGED <<files, pc, op, entry, loose>>
    BY <1>8 DEF vars, tree, hand
  <2> QED
    BY <1>a, <2>1, Disturbing
<1> QED
  BY <1>1, <1>2, <1>3, <1>4, <1>5, <1>6, <1>7, <1>8 DEF Next, Step

(* Of every entry whose moves neither overlapped nor failed to read, each  *)
(* call does at one moment what it says, and no failure or death loses a   *)
(* text (consolidated.go:237-424, atomic.go:12-27).                        *)
THEOREM Refinement == Spec => ImplementsEntries
<1>1. Init => Promise!Init
  BY InitPromise
<1>2. TypeOK /\ Roles /\ Moved /\ [Next]_vars => [Promise!Next]_(Promise!vars)
  BY StepPromise
<1> QED
  BY <1>1, <1>2, Carried, PTL DEF Spec, ImplementsEntries, Promise!Spec
=============================================================================
