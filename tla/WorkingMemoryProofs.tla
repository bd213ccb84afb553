------------------------ MODULE WorkingMemoryProofs ------------------------
(***************************************************************************)
(* Proofs about WorkingMemory, for any dreams, days, observations and      *)
(* crashes.  Five invariants, each with its own induction:                 *)
(*   TypeOK     types;                                                     *)
(*   Bounded    no mark, written or about to be, is beyond the file's end; *)
(*   Locked     the lock is the tick in Run;                               *)
(*   Accounted  what is marked, or may be marked, is known;                *)
(*   Orderly    a clear_working call that is alone writes what it drafted. *)
(***************************************************************************)
EXTENDS WorkingMemory, TLAPS

(* The files' lengths bound the marks file, the temporary file and every   *)
(* draft.                                                                  *)
Within(f) == \A d \in Days : f[d] <= size[d]

Bounded == Within(marks) /\ Within(tmp) /\ \A j \in Dreams : Within(draft[j])

(* A dream that has not begun is in nobody's Run.                          *)
Locked == LockIsTheTick /\ \A j \in Dreams : phase[j] = "idle" => ~waiting[j]

Known == given \cup late

UpTo(f) == {o \in Observation : o[2] <= f[o[1]]}

(* Of a dream that reads, every observation is known, or read, or in a     *)
(* file still to be read and beyond its mark; once a job has been asked,   *)
(* or is calling, everything in the files is known.  A dream calls only    *)
(* after it has asked.                                                     *)
ReadingCovers(j) ==
  phase[j] = "reading" =>
    \A o \in UpTo(size) : o \in Known \/ ( /\ base[j][o[1]] < o[2]
                                           /\ o[1] \in todo[j] \/ o[2] <= upTo[j][o[1]] )

CallsComeLater(j) == phase[j] \in {"idle", "reading"} => call[j] = "none"

AskedCovers(j) == phase[j] = "asked" \/ call[j] # "none" => UpTo(size) \subseteq Known

Accounted ==
  /\ UpTo(marks) \subseteq Known /\ UpTo(tmp) \subseteq Known
  /\ \A j \in Dreams : /\ UpTo(draft[j]) \subseteq Known
                        /\ ReadingCovers(j) /\ AskedCovers(j) /\ CallsComeLater(j)

(* Without a clash there is at most one call, it started from the present  *)
(* marks, and what it has open or has filled is the temporary file.        *)
Ahead(f) == \A d \in Days : marks[d] <= f[d]

Orderly ==
  ~clash =>
    /\ \A i, j \in Dreams : call[i] # "none" /\ call[j] # "none" => i = j
    /\ \A j \in Dreams :
         /\ call[j] # "none" => Ahead(draft[j])
         /\ call[j] = "fill" => fd[j] = "tmp" /\ tmp = NoMarks
         /\ call[j] = "rename" /\ hasTmp => Ahead(tmp)

-----------------------------------------------------------------------------
LEMMA NoMarksType == NoMarks \in Marks /\ \A d \in Days : NoMarks[d] = 0
  BY MemoryAssumption DEF NoMarks, Marks

(* A write leaves the new text or an unreadable file, both marks.          *)
LEMMA WrittenOverCases ==
  ASSUME NEW old, NEW new, NEW f \in WrittenOver(old, new)
  PROVE  f = new \/ (f = NoMarks /\ old # NoMarks)
  BY DEF WrittenOver

THEOREM InitType == Init => TypeOK
<1> SUFFICES ASSUME Init PROVE TypeOK
  OBVIOUS
<1>1. today \in Days /\ crashes \in 0..MaxCrashes
  BY MemoryAssumption DEF Init, Days
<1>2. base \in [Dreams -> Marks] /\ upTo \in [Dreams -> Marks] /\ draft \in [Dreams -> Marks]
  BY NoMarksType DEF Init
<1> QED
  BY <1>1, <1>2, NoMarksType DEF Init, TypeOK

(* Every step keeps the types.                                             *)
LEMMA StepType == TypeOK /\ [Next]_vars => TypeOK'
<1> SUFFICES ASSUME TypeOK, [Next]_vars PROVE TypeOK'
  OBVIOUS
<1> USE NoMarksType, MemoryAssumption DEF TypeOK
<1>1. CASE NextDay
  BY <1>1 DEF NextDay, Days, store, reader, caller, history
<1>2. CASE Observe
  <2>1. PICK d \in {today - 1, today} \cap Days :
          /\ size[d] < MaxObs
          /\ size' = [size EXCEPT ![d] = @ + 1]
          /\ late' \in {late, late \cup {<<d, size[d] + 1>>}}
    BY <1>2 DEF Observe
  <2>2. size[d] + 1 \in 1..MaxObs /\ size' \in Marks
    BY <2>1 DEF Marks
  <2>3. late' \in SUBSET Observation
    BY <2>1, <2>2 DEF Observation
  <2> QED
    BY <1>2, <2>2, <2>3 DEF Observe, store, reader, caller
<1>3. ASSUME NEW j \in Dreams, StartReading(j), lock' \in {j, lock}, j \in Ticks \/ lock' = lock
      PROVE  TypeOK'
  BY <1>3 DEF StartReading, Existing, files, store, caller, history
<1>4. ASSUME NEW j \in Dreams, ReadFile(j) PROVE TypeOK'
  BY <1>4 DEF ReadFile, Marks, files, store, caller, history
<1>5. ASSUME NEW j \in Dreams, GiveUp(j) PROVE TypeOK'
  BY <1>5 DEF GiveUp, Forget, Unlocked, files, store, caller, history
<1>6. ASSUME NEW j \in Dreams, Ask(j) PROVE TypeOK'
  BY <1>6 DEF Ask, Forget, Pending, files, store, caller
<1>7. ASSUME NEW j \in Dreams, SubmitReturns(j) PROVE TypeOK'
  BY <1>7 DEF SubmitReturns, Unlocked, files, store, caller, history
<1>8. ASSUME NEW j \in Dreams, JobEnds(j) PROVE TypeOK'
  BY <1>8 DEF JobEnds, files, store, caller, history
<1>9. ASSUME NEW j \in Dreams, ClearBegin(j) PROVE TypeOK'
  BY <1>9 DEF ClearBegin, Existing, files, store, reader
<1>10. ASSUME NEW j \in Dreams, ClearFile(j) PROVE TypeOK'
  BY <1>10 DEF ClearFile, Marks, files, store, reader, history
<1>11. ASSUME NEW j \in Dreams, OpenTmp(j) PROVE TypeOK'
  BY <1>11 DEF OpenTmp, files, reader, history
<1>12. ASSUME NEW j \in Dreams, FillTmp(j) PROVE TypeOK'
  <2>1. tmp' \in Marks /\ marks' \in Marks
    BY <1>12, WrittenOverCases DEF FillTmp
  <2> QED
    BY <1>12, <2>1 DEF FillTmp, files, reader, history
<1>13. ASSUME NEW j \in Dreams, RenameTmp(j) PROVE TypeOK'
  BY <1>13 DEF RenameTmp, files, reader, history
<1>14. CASE Crash
  BY <1>14 DEF Crash, Forget, Unlocked, files, store, history
<1>15. CASE UNCHANGED vars
  BY <1>15 DEF vars, files, store, reader, caller, history
<1> QED
  BY <1>1, <1>2, <1>3, <1>4, <1>5, <1>6, <1>7, <1>8, <1>9, <1>10, <1>11, <1>12, <1>13,
     <1>14, <1>15 DEF Next, Tick, Consolidate, Run, Mark, Dreams

(* Types hold in every reachable state.                                    *)
THEOREM TypeCorrect == Spec => []TypeOK
  BY InitType, StepType, PTL DEF Spec

-----------------------------------------------------------------------------
(* Files only grow: what was within them stays within them.                *)
LEMMA WithinStays ==
  ASSUME TypeOK, size' \in Marks, \A d \in Days : size'[d] >= size[d],
         NEW f \in Marks, Within(f)
  PROVE  \A d \in Days : f[d] <= size'[d]
  BY DEF TypeOK, Within, Marks

LEMMA SizesGrow ==
  ASSUME TypeOK, [Next]_vars
  PROVE  size' \in Marks /\ \A d \in Days : size'[d] >= size[d]
<1>1. size' \in Marks
  BY StepType DEF TypeOK
<1>2. CASE Observe
  BY <1>1, <1>2 DEF Observe, TypeOK, Marks
<1>3. CASE size' = size
  BY <1>1, <1>3 DEF TypeOK, Marks
<1>4. Observe \/ size' = size
  BY DEF Next, vars, files, NextDay, Crash, Tick, Consolidate, StartReading, Run, Mark,
     ReadFile, GiveUp, Ask, SubmitReturns, JobEnds, ClearBegin, ClearFile, OpenTmp,
     FillTmp, RenameTmp
<1> QED
  BY <1>1, <1>2, <1>3, <1>4

(* Every new content of a marks file or a draft comes from those before it *)
(* or is a file's length.                                                  *)
LEMMA MarksCopied ==
  ASSUME [Next]_vars, TypeOK
  PROVE  /\ marks' \in {marks, tmp, NoMarks} \cup {draft[j] : j \in Dreams}
         /\ tmp' \in {tmp, NoMarks} \cup {draft[j] : j \in Dreams}
         /\ \A j \in Dreams :
              \/ draft'[j] \in {draft[j], marks, NoMarks}
              \/ /\ call[j] = "mark"
                 /\ \E d \in Days : draft'[j] = [draft[j] EXCEPT ![d] = size[d]]
<1>1. CASE \E j \in Dreams : FillTmp(j)
  BY <1>1, WrittenOverCases DEF FillTmp
<1>2. CASE \E j \in Dreams : RenameTmp(j)
  BY <1>2 DEF RenameTmp, TypeOK
<1>3. CASE \E j \in Dreams : ClearFile(j)
  <2>1. PICK i \in Dreams : ClearFile(i)
    BY <1>3
  <2>2. PICK e \in todo[i] : draft' = [draft EXCEPT ![i] = [draft[i] EXCEPT ![e] = size[e]]]
    BY <2>1 DEF ClearFile
  <2>3. e \in Days /\ draft'[i] = [draft[i] EXCEPT ![e] = size[e]] /\ call[i] = "mark"
    BY <2>1, <2>2 DEF ClearFile, TypeOK
  <2>4. \A k \in Dreams \ {i} : draft'[k] = draft[k]
    BY <2>2 DEF TypeOK
  <2>5. marks' = marks /\ tmp' = tmp
    BY <2>1 DEF ClearFile, store
  <2> QED
    BY <2>3, <2>4, <2>5
<1>4. CASE \E j \in Dreams : ClearBegin(j)
  BY <1>4 DEF ClearBegin, store, TypeOK
<1>5. CASE \E j \in Dreams : OpenTmp(j)
  BY <1>5 DEF OpenTmp
<1>6. CASE Crash
  BY <1>6 DEF Crash, store
<1>7. CASE UNCHANGED <<store, draft>>
  BY <1>7 DEF store
<1>8. NextDay \/ Observe => UNCHANGED <<store, draft>>
  BY DEF NextDay, Observe, store, caller
<1>9. (\E j \in Dreams : StartReading(j) \/ Run(j) \/ JobEnds(j)) => UNCHANGED <<store, draft>>
  BY DEF StartReading, Run, ReadFile, GiveUp, Ask, SubmitReturns, JobEnds, store, caller
<1>10. UNCHANGED vars => UNCHANGED <<store, draft>>
  BY DEF vars, caller
<1> QED
  BY <1>1, <1>2, <1>3, <1>4, <1>5, <1>6, <1>7, <1>8, <1>9, <1>10
     DEF Next, Mark, Tick, Consolidate, Dreams

LEMMA StepBounded == TypeOK /\ Bounded /\ [Next]_vars => Bounded'
<1> SUFFICES ASSUME TypeOK, Bounded, [Next]_vars PROVE Bounded'
  OBVIOUS
<1> DEFINE WithinNext(f) == \A d \in Days : f[d] <= size'[d]
<1>1. \A f \in Marks : Within(f) => WithinNext(f)
  BY SizesGrow, WithinStays
<1>2. size' \in Marks /\ \A d \in Days : size'[d] >= size[d]
  BY SizesGrow
<1>3. Within(NoMarks)
  BY NoMarksType DEF Within, TypeOK, Marks
<1>4. ASSUME NEW j \in Dreams PROVE Within(draft[j]) /\ draft[j] \in Marks
  BY DEF Bounded, TypeOK
<1>5. WithinNext(marks') /\ WithinNext(tmp')
  BY <1>1, <1>3, <1>4, MarksCopied, NoMarksType DEF Bounded, TypeOK
<1>6. ASSUME NEW j \in Dreams PROVE WithinNext(draft'[j])
  <2>1. CASE draft'[j] \in {draft[j], marks, NoMarks}
    BY <2>1, <1>1, <1>3, <1>4, NoMarksType DEF Bounded, TypeOK
  <2>2. ASSUME NEW d \in Days, draft'[j] = [draft[j] EXCEPT ![d] = size[d]]
        PROVE  WithinNext(draft'[j])
    <3>1. [draft[j] EXCEPT ![d] = size[d]] \in Marks /\ Within([draft[j] EXCEPT ![d] = size[d]])
      BY <1>4 DEF Within, Marks, TypeOK
    <3> QED
      BY <2>2, <3>1, <1>1
  <2> QED
    BY <2>1, <2>2, MarksCopied
<1> QED
  BY <1>5, <1>6 DEF Bounded, Within

THEOREM BoundedInvariance == Spec => []Bounded
<1>1. Init => Bounded
  BY NoMarksType DEF Init, Bounded, Within
<1> QED
  BY <1>1, StepBounded, TypeCorrect, PTL DEF Spec

(* No file is ever marked beyond its end.                                  *)
THEOREM MarksStayWithinFiles == Spec => []MarksWithinFiles
<1>1. Bounded => MarksWithinFiles
  BY DEF Bounded, Within, MarksWithinFiles
<1> QED
  BY <1>1, BoundedInvariance, PTL

-----------------------------------------------------------------------------
LEMMA StepLocked == TypeOK /\ Locked /\ [Next]_vars => Locked'
<1> SUFFICES ASSUME TypeOK, Locked, [Next]_vars PROVE Locked'
  OBVIOUS
<1> USE MemoryAssumption DEF Locked, LockIsTheTick, TypeOK
<1>1. ASSUME NEW j \in Ticks, Tick(j) PROVE Locked'
  BY <1>1 DEF Tick, StartReading, Dreams
<1>2. ASSUME NEW j \in Manual, Consolidate(j) PROVE Locked'
  BY <1>2 DEF Consolidate, StartReading, Dreams
<1>3. ASSUME NEW j \in Dreams, GiveUp(j) \/ SubmitReturns(j) PROVE Locked'
  BY <1>3 DEF GiveUp, SubmitReturns, Unlocked, Dreams
<1>4. ASSUME NEW j \in Dreams, Ask(j) \/ JobEnds(j) PROVE Locked'
  BY <1>4 DEF Ask, JobEnds, Dreams
<1>5. CASE Crash
  <2>1. PICK R \in SUBSET {j \in Dreams : waiting[j]} :
          /\ waiting' = [j \in Dreams |-> waiting[j] /\ j \notin R]
          /\ phase' = [j \in Dreams |->
                         IF j \in R /\ phase[j] = "reading" THEN "over" ELSE phase[j]]
          /\ lock' = Unlocked(R)
    BY <1>5 DEF Crash
  <2>2. \A j \in Dreams : phase'[j] = "idle" => ~waiting'[j]
    BY <2>1
  <2>3. \A j \in Ticks : waiting'[j] <=> lock' = j
    BY <2>1 DEF Unlocked, Dreams
  <2> QED
    BY <2>2, <2>3
<1>6. CASE UNCHANGED <<lock, phase, waiting>>
  BY <1>6
<1>7. NextDay \/ Observe => UNCHANGED <<lock, phase, waiting>>
  BY DEF NextDay, Observe, reader
<1>8. (\E j \in Dreams : ReadFile(j) \/ Mark(j)) => UNCHANGED <<lock, phase, waiting>>
  BY DEF Mark, ReadFile, ClearBegin, ClearFile, OpenTmp, FillTmp, RenameTmp, reader
<1>9. UNCHANGED vars => UNCHANGED <<lock, phase, waiting>>
  BY DEF vars, reader
<1> QED
  BY <1>1, <1>2, <1>3, <1>4, <1>5, <1>6, <1>7, <1>8, <1>9 DEF Next, Run

(* A tick is in Run exactly when it holds the scheduler's lock, so no two  *)
(* ticks are, and no tick that ended, failed or died still holds it.       *)
THEOREM TicksExclusive == Spec => []LockIsTheTick
<1>1. Init => Locked
  BY MemoryAssumption DEF Init, Locked, LockIsTheTick, Dreams
<1>2. Locked => LockIsTheTick
  BY DEF Locked
<1> QED
  BY <1>1, <1>2, StepLocked, TypeCorrect, PTL DEF Spec

-----------------------------------------------------------------------------
(* What some dream was given or what came in late stays known.             *)
LEMMA KnownGrows ==
  ASSUME [Next]_vars
  PROVE  Known \subseteq Known'
<1>1. (Observe \/ \E j \in Dreams : Ask(j)) => Known \subseteq Known'
  BY DEF Observe, Ask, Known
<1>2. (NextDay \/ Crash \/ UNCHANGED vars) => Known \subseteq Known'
  BY DEF NextDay, Crash, vars, history, Known
<1>3. (\E j \in Dreams : StartReading(j) \/ ReadFile(j) \/ GiveUp(j) \/ SubmitReturns(j)
                           \/ JobEnds(j) \/ Mark(j)) => Known \subseteq Known'
  BY DEF StartReading, ReadFile, GiveUp, SubmitReturns, JobEnds, Mark, ClearBegin,
     ClearFile, OpenTmp, FillTmp, RenameTmp, history, Known
<1> QED
  BY <1>1, <1>2, <1>3 DEF Next, Run, Tick, Consolidate, Dreams

(* An observation that a step adds to the files is known at once if any    *)
(* dream is active.                                                        *)
LEMMA NewIsLate ==
  ASSUME TypeOK, [Next]_vars, NEW j \in Dreams, Active(j), NEW o \in UpTo(size)'
  PROVE  o \in UpTo(size) \/ o \in Known'
<1>1. CASE Observe
  <2>1. PICK d \in {today - 1, today} \cap Days :
          size' = [size EXCEPT ![d] = @ + 1] /\ late' = late \cup {<<d, size[d] + 1>>}
    BY <1>1 DEF Observe
  <2>2. size'[d] = size[d] + 1 /\ \A e \in Days \ {d} : size'[e] = size[e]
    BY <2>1 DEF TypeOK, Marks
  <2>3. o \in Observation /\ o[2] <= size'[o[1]]
    BY DEF UpTo
  <2>4. o[1] \in Days /\ o[2] \in Nat /\ o = <<o[1], o[2]>>
    BY <2>3 DEF Observation
  <2>5. CASE o[1] = d /\ o[2] = size[d] + 1
    BY <2>1, <2>4, <2>5 DEF Known
  <2>6. size[d] \in Nat
    BY DEF TypeOK, Marks
  <2>7. CASE ~(o[1] = d /\ o[2] = size[d] + 1)
    BY <2>2, <2>3, <2>4, <2>6, <2>7 DEF UpTo
  <2> QED
    BY <2>5, <2>7
<1>2. CASE size' = size
  BY <1>2 DEF UpTo
<1>3. Observe \/ size' = size
  BY DEF Next, vars, files, NextDay, Crash, Tick, Consolidate, StartReading, Run, Mark,
     ReadFile, GiveUp, Ask, SubmitReturns, JobEnds, ClearBegin, ClearFile, OpenTmp,
     FillTmp, RenameTmp
<1> QED
  BY <1>1, <1>2, <1>3

(* Steps of others, and j's other steps, leave j's reading as it is.       *)
LEMMA OthersReading ==
  ASSUME TypeOK, Accounted, [Next]_vars, NEW j \in Dreams, phase'[j] = "reading",
         ~StartReading(j), ~ReadFile(j)
  PROVE  phase[j] = "reading" /\ base'[j] = base[j] /\ upTo'[j] = upTo[j] /\ todo'[j] = todo[j]
<1> USE DEF TypeOK
<1>1. ASSUME NEW i \in Dreams, StartReading(i) \/ ReadFile(i) \/ GiveUp(i) \/ Ask(i),
             i = j => GiveUp(i) \/ Ask(i)
      PROVE  phase[j] = "reading" /\ base'[j] = base[j] /\ upTo'[j] = upTo[j] /\ todo'[j] = todo[j]
  BY <1>1 DEF StartReading, ReadFile, GiveUp, Ask, Forget
<1>2. ASSUME NEW i \in Dreams, SubmitReturns(i) \/ JobEnds(i)
      PROVE  phase[j] = "reading" /\ base'[j] = base[j] /\ upTo'[j] = upTo[j] /\ todo'[j] = todo[j]
  BY <1>2 DEF SubmitReturns, JobEnds
<1>3. ASSUME NEW i \in Dreams, Mark(i)
      PROVE  phase[j] = "reading" /\ base'[j] = base[j] /\ upTo'[j] = upTo[j] /\ todo'[j] = todo[j]
  <2>1. phase' = phase /\ base' = base /\ upTo' = upTo
    BY <1>3 DEF Mark, ClearBegin, ClearFile, OpenTmp, FillTmp, RenameTmp, reader
  <2>2. \A k \in Dreams \ {i} : todo'[k] = todo[k]
    BY <1>3 DEF Mark, ClearBegin, ClearFile, OpenTmp, FillTmp, RenameTmp
  <2>3. i # j
    BY <1>3, <2>1 DEF Accounted, CallsComeLater, Mark, ClearBegin, ClearFile, OpenTmp, FillTmp,
       RenameTmp
  <2> QED
    BY <2>1, <2>2, <2>3
<1>4. CASE Crash
  <2>1. PICK R \in SUBSET {k \in Dreams : waiting[k]}, C \in SUBSET {k \in Dreams : call[k] # "none"} :
          /\ phase' = [k \in Dreams |->
                         IF k \in R /\ phase[k] = "reading" THEN "over" ELSE phase[k]]
          /\ Forget({k \in R : phase[k] = "reading"})
          /\ todo' = [k \in Dreams |-> IF k \in C \/ (k \in R /\ phase[k] = "reading")
                                         THEN {} ELSE todo[k]]
    BY <1>4 DEF Crash
  <2>2. phase[j] = "reading" /\ j \notin R
    BY <2>1
  <2>3. j \notin C
    BY <2>2 DEF Accounted, CallsComeLater
  <2> QED
    BY <2>1, <2>2, <2>3 DEF Forget
<1>5. CASE NextDay \/ Observe \/ UNCHANGED vars
  BY <1>5 DEF NextDay, Observe, vars, reader
<1> QED
  BY <1>1, <1>2, <1>3, <1>4, <1>5 DEF Next, Run, Tick, Consolidate, Dreams

(* A dream that reads after a step was reading before it, or has just      *)
(* started with every unmarked observation before it.                      *)
LEMMA ReadingKept ==
  ASSUME TypeOK, Accounted, [Next]_vars, NEW j \in Dreams
  PROVE  ReadingCovers(j)'
<1> SUFFICES ASSUME phase'[j] = "reading", NEW o \in UpTo(size)'
             PROVE  o \in Known' \/ ( /\ base'[j][o[1]] < o[2]
                                      /\ o[1] \in todo'[j] \/ o[2] <= upTo'[j][o[1]] )
  BY DEF ReadingCovers
<1>1. CASE StartReading(j)
  <2>1. o \in UpTo(size) /\ o[1] \in Existing
    BY <1>1 DEF StartReading, files, UpTo, Existing, Observation, TypeOK, Marks
  <2>2. o \in UpTo(marks) \/ marks[o[1]] < o[2]
    BY <2>1 DEF UpTo, Observation, TypeOK, Marks
  <2>3. o \in UpTo(marks) => o \in Known'
    BY KnownGrows DEF Accounted
  <2>4. base'[j] = marks /\ todo'[j] = Existing
    BY <1>1 DEF StartReading, TypeOK
  <2> QED
    BY <2>1, <2>2, <2>3, <2>4
<1>2. CASE phase[j] = "reading"
  <2>1. o \in Known' \/ o \in UpTo(size)
    BY <1>2, NewIsLate DEF Active
  <2>2. o \in UpTo(size) =>
          o \in Known \/ ( /\ base[j][o[1]] < o[2]
                           /\ o[1] \in todo[j] \/ o[2] <= upTo[j][o[1]] )
    BY <1>2 DEF Accounted, ReadingCovers
  <2>3. CASE ReadFile(j)
    <3>1. PICK d \in todo[j] : /\ upTo' = [upTo EXCEPT ![j][d] = size[d]]
                               /\ todo' = [todo EXCEPT ![j] = @ \ {d}]
      BY <2>3 DEF ReadFile
    <3>2. base' = base /\ Known' = Known /\ UpTo(size)' = UpTo(size)
      BY <2>3 DEF ReadFile, history, files, Known, UpTo
    <3>3. upTo'[j][d] = size[d] /\ \A e \in Days \ {d} : upTo'[j][e] = upTo[j][e]
      BY <3>1 DEF TypeOK, Marks
    <3>4. o[1] \in Days /\ o[2] <= size[o[1]]
      BY <3>2 DEF UpTo, Observation
    <3>5. todo'[j] = todo[j] \ {d}
      BY <3>1 DEF TypeOK
    <3> QED
      BY <2>1, <2>2, <3>2, <3>3, <3>4, <3>5
  <2>4. CASE base'[j] = base[j] /\ todo'[j] = todo[j] /\ upTo'[j] = upTo[j]
    BY <2>1, <2>2, <2>4, KnownGrows
  <2> QED
    BY <1>2, <2>3, <2>4, OthersReading DEF StartReading
<1> QED
  BY <1>1, <1>2, OthersReading DEF ReadFile

(* A dream comes to calling, or to being asked, only through Ask.          *)
LEMMA OthersCalling ==
  ASSUME TypeOK, Accounted, [Next]_vars, NEW j \in Dreams, ~Ask(j)
  PROVE  /\ phase'[j] = "asked" \/ call'[j] # "none" => phase[j] = "asked" \/ call[j] # "none"
         /\ phase'[j] \in {"idle", "reading"} => call'[j] = "none"
<1> DEFINE Goal == /\ phase'[j] = "asked" \/ call'[j] # "none" => phase[j] = "asked" \/ call[j] # "none"
                   /\ phase'[j] \in {"idle", "reading"} => call'[j] = "none"
<1>0. phase[j] \in {"idle", "reading"} => call[j] = "none"
  BY DEF Accounted, CallsComeLater
<1> USE <1>0 DEF TypeOK
<1>1. ASSUME NEW i \in Dreams, StartReading(i) \/ ReadFile(i) \/ GiveUp(i) \/ SubmitReturns(i)
                                \/ JobEnds(i)
      PROVE  Goal
  BY <1>1 DEF StartReading, ReadFile, GiveUp, SubmitReturns, JobEnds, caller
<1>2. ASSUME NEW i \in Dreams, Ask(i) PROVE Goal
  BY <1>2 DEF Ask, caller
<1>3. ASSUME NEW i \in Dreams, Mark(i) PROVE Goal
  BY <1>3 DEF Mark, ClearBegin, ClearFile, OpenTmp, FillTmp, RenameTmp, reader
<1>4. CASE Crash
  BY <1>4 DEF Crash
<1>5. CASE NextDay \/ Observe \/ UNCHANGED vars
  BY <1>5 DEF NextDay, Observe, vars, reader, caller
<1> QED
  BY <1>1, <1>2, <1>3, <1>4, <1>5 DEF Next, Run, Tick, Consolidate, Dreams

LEMMA StepAccounted == TypeOK /\ Accounted /\ [Next]_vars => Accounted'
<1> SUFFICES ASSUME TypeOK, Accounted, [Next]_vars PROVE Accounted'
  OBVIOUS
<1> DEFINE KnownNext(f) == UpTo(f) \subseteq Known'
<1>1. \A f : UpTo(f) \subseteq Known => KnownNext(f)
  BY KnownGrows
<1>2. UpTo(NoMarks) = {}
  BY NoMarksType DEF UpTo, Observation
<1>3. KnownNext(marks') /\ KnownNext(tmp')
  BY <1>1, <1>2, MarksCopied DEF Accounted
<1>4. ASSUME NEW j \in Dreams PROVE KnownNext(draft'[j])
  <2>1. CASE draft'[j] \in {draft[j], marks, NoMarks}
    BY <2>1, <1>1, <1>2 DEF Accounted
  <2>2. ASSUME NEW d \in Days, call[j] = "mark", draft'[j] = [draft[j] EXCEPT ![d] = size[d]]
        PROVE  KnownNext(draft'[j])
    <3>1. UpTo(size) \subseteq Known /\ UpTo(draft[j]) \subseteq Known
      BY <2>2 DEF Accounted, AskedCovers
    <3>2. UpTo(draft'[j]) \subseteq UpTo(draft[j]) \cup UpTo(size)
      BY <2>2 DEF UpTo, Observation, TypeOK, Marks
    <3> QED
      BY <3>1, <3>2, KnownGrows
  <2> QED
    BY <2>1, <2>2, MarksCopied
<1>5. ASSUME NEW j \in Dreams PROVE ReadingCovers(j)'
  BY ReadingKept
<1>6. ASSUME NEW j \in Dreams PROVE AskedCovers(j)' /\ CallsComeLater(j)'
  <2>1. CASE Ask(j)
    <3>1. UpTo(size)' = UpTo(size)
      BY <2>1 DEF Ask, files, UpTo
    <3>2. Known' = Known \cup Pending(j)
      BY <2>1 DEF Ask, Known
    <3>3. UpTo(size) \subseteq Known \cup Pending(j)
      BY <2>1 DEF Ask, Accounted, ReadingCovers, Pending, UpTo
    <3>4. phase'[j] = "asked"
      BY <2>1 DEF Ask, TypeOK
    <3> QED
      BY <3>1, <3>2, <3>3, <3>4 DEF AskedCovers, CallsComeLater
  <2>2. CASE ~Ask(j)
    <3>1. /\ phase'[j] = "asked" \/ call'[j] # "none" => phase[j] = "asked" \/ call[j] # "none"
          /\ phase'[j] \in {"idle", "reading"} => call'[j] = "none"
      BY <2>2, OthersCalling
    <3>2. CASE phase'[j] = "asked" \/ call'[j] # "none"
      BY <3>1, <3>2, NewIsLate, KnownGrows DEF Active, Accounted, AskedCovers, CallsComeLater
    <3> QED
      BY <3>1, <3>2 DEF AskedCovers, CallsComeLater
  <2> QED
    BY <2>1, <2>2
<1> QED
  BY <1>3, <1>4, <1>5, <1>6 DEF Accounted

(* What some dream marks was read by a dream, or was appended while one    *)
(* was active.                                                             *)
THEOREM NothingElseIsLost == Spec => []LostOnlyLate
<1>1. Init => Accounted
  <2>1. NoMarks \in Marks /\ UpTo(NoMarks) = {}
    BY NoMarksType DEF UpTo, Observation
  <2> QED
    BY <2>1 DEF Init, Accounted, ReadingCovers, AskedCovers, CallsComeLater
<1>2. Accounted => LostOnlyLate
  BY DEF Accounted, LostOnlyLate, Marked, UpTo, Known
<1> QED
  BY <1>1, <1>2, StepAccounted, TypeCorrect, PTL DEF Spec

-----------------------------------------------------------------------------
(* As long as no two calls were under way together, a step either leaves   *)
(* the marks and every call alone or is a step of the only call.           *)
LEMMA StepOrderly ==
  TypeOK /\ Bounded /\ Orderly /\ [Next]_vars => Orderly' /\ (clash' \/ Ahead(marks'))
<1> SUFFICES ASSUME TypeOK, Bounded, Orderly, [Next]_vars, ~clash'
             PROVE  Orderly' /\ Ahead(marks')
  BY DEF Orderly
<1> DEFINE Goal == Orderly' /\ Ahead(marks')
<1>1. ASSUME NEW j \in Dreams, ClearBegin(j) PROVE Goal
  <2>1. ~clash /\ marks' = marks /\ tmp' = tmp /\ hasTmp' = hasTmp /\ fd' = fd
    BY <1>1 DEF ClearBegin, store
  <2>2. \A i \in Dreams : call[i] = "none"
    BY <1>1 DEF ClearBegin
  <2>3. call' = [call EXCEPT ![j] = "mark"] /\ draft'[j] = marks
    BY <1>1 DEF ClearBegin, TypeOK
  <2>4. \A i \in Dreams : call'[i] = IF i = j THEN "mark" ELSE "none"
    BY <2>2, <2>3 DEF TypeOK
  <2>5. \A d \in Days : marks[d] <= marks[d]
    BY DEF TypeOK, Marks
  <2> QED
    BY <2>1, <2>3, <2>4, <2>5 DEF Orderly, Ahead
<1>2. ASSUME ~clash
      PROVE  /\ \A i, j \in Dreams : call[i] # "none" /\ call[j] # "none" => i = j
             /\ \A j \in Dreams :
                  /\ call[j] # "none" => Ahead(draft[j])
                  /\ call[j] = "fill" => fd[j] = "tmp" /\ tmp = NoMarks
                  /\ call[j] = "rename" /\ hasTmp => Ahead(tmp)
  BY <1>2 DEF Orderly
<1>3. \A d \in Days : marks[d] <= marks[d]
  BY DEF TypeOK, Marks
<1>4. ASSUME NEW j \in Dreams, ClearFile(j) PROVE Goal
  <2>1. ~clash /\ marks' = marks /\ tmp' = tmp /\ hasTmp' = hasTmp /\ fd' = fd /\ call' = call
    BY <1>4 DEF ClearFile, store, history
  <2>2. PICK d \in todo[j] : draft' = [draft EXCEPT ![j][d] = size[d]]
    BY <1>4 DEF ClearFile
  <2>3. draft'[j][d] = size[d] /\ \A e \in Days \ {d} : draft'[j][e] = draft[j][e]
    BY <2>2 DEF TypeOK, Marks
  <2>4. \A i \in Dreams \ {j} : draft'[i] = draft[i]
    BY <2>2 DEF TypeOK
  <2>5. Ahead(draft[j]) /\ \A e \in Days : marks[e] <= size[e]
    BY <1>2, <1>4, <2>1 DEF ClearFile, Bounded, Within
  <2>6. Ahead(draft'[j])
    BY <2>3, <2>5 DEF Ahead
  <2> QED
    BY <1>2, <1>3, <2>1, <2>4, <2>6 DEF Orderly, Ahead
<1>5. ASSUME NEW j \in Dreams, OpenTmp(j) PROVE Goal
  <2>1. ~clash /\ marks' = marks /\ draft' = draft /\ tmp' = NoMarks
    BY <1>5 DEF OpenTmp, history
  <2>2. call[j] # "none" /\ call' = [call EXCEPT ![j] = "fill"] /\ fd' = [fd EXCEPT ![j] = "tmp"]
    BY <1>5 DEF OpenTmp
  <2>3. \A i \in Dreams \ {j} : call[i] = "none" /\ call'[i] = "none"
    BY <1>2, <2>1, <2>2 DEF TypeOK
  <2>4. call'[j] = "fill" /\ fd'[j] = "tmp"
    BY <2>2 DEF TypeOK
  <2> QED
    BY <1>2, <1>3, <2>1, <2>2, <2>3, <2>4 DEF Orderly, Ahead
<1>6. ASSUME NEW j \in Dreams, FillTmp(j) PROVE Goal
  <2>1. ~clash /\ draft' = draft /\ hasTmp' = hasTmp
    BY <1>6 DEF FillTmp, history
  <2>2. call[j] = "fill" /\ call' = [call EXCEPT ![j] = "rename"]
    BY <1>6 DEF FillTmp
  <2>3. \A i \in Dreams \ {j} : call[i] = "none" /\ call'[i] = "none"
    BY <1>2, <2>1, <2>2 DEF TypeOK
  <2>4. call'[j] = "rename"
    BY <2>2 DEF TypeOK
  <2>5. fd[j] = "tmp" /\ tmp = NoMarks /\ Ahead(draft[j])
    BY <1>2, <2>1, <2>2
  <2>6. marks' = marks /\ tmp' = draft[j]
    BY <1>6, <2>5, WrittenOverCases DEF FillTmp
  <2> QED
    BY <1>3, <2>1, <2>3, <2>4, <2>5, <2>6 DEF Orderly, Ahead
<1>7. ASSUME NEW j \in Dreams, RenameTmp(j) PROVE Goal
  <2>1. ~clash /\ call[j] = "rename" /\ call' = [call EXCEPT ![j] = "none"]
    BY <1>7 DEF RenameTmp, history
  <2>2. \A i \in Dreams : call'[i] = "none"
    BY <1>2, <2>1 DEF TypeOK
  <2>3. Ahead(marks')
    BY <1>2, <1>3, <1>7, <2>1 DEF RenameTmp, Ahead
  <2> QED
    BY <2>2, <2>3 DEF Orderly
<1>8. CASE Crash
  <2>1. ~clash /\ marks' = marks /\ tmp' = tmp /\ hasTmp' = hasTmp
    BY <1>8 DEF Crash, store, history
  <2>2. PICK C \in SUBSET {j \in Dreams : call[j] # "none"} :
          /\ call' = [j \in Dreams |-> IF j \in C THEN "none" ELSE call[j]]
          /\ draft' = [j \in Dreams |-> IF j \in C THEN NoMarks ELSE draft[j]]
          /\ fd' = [j \in Dreams |-> IF j \in C THEN "none" ELSE fd[j]]
    BY <1>8 DEF Crash
  <2>3. \A j \in Dreams : \/ call'[j] = "none"
                          \/ call'[j] = call[j] /\ draft'[j] = draft[j] /\ fd'[j] = fd[j]
    BY <2>2
  <2> QED
    BY <1>2, <1>3, <2>1, <2>3 DEF Orderly, Ahead
<1>9. CASE UNCHANGED <<store, caller, clash>>
  BY <1>2, <1>3, <1>9 DEF store, caller, Orderly, Ahead
<1>10. (NextDay \/ Observe \/ UNCHANGED vars) => UNCHANGED <<store, caller, clash>>
  BY DEF NextDay, Observe, vars, history
<1>11. (\E j \in Dreams : StartReading(j) \/ Run(j) \/ JobEnds(j)) => UNCHANGED <<store, caller, clash>>
  BY DEF StartReading, Run, ReadFile, GiveUp, Ask, SubmitReturns, JobEnds, history
<1> QED
  BY <1>1, <1>4, <1>5, <1>6, <1>7, <1>8, <1>9, <1>10, <1>11
     DEF Next, Mark, Tick, Consolidate, Dreams

(* Without overlapping clear_working calls no mark ever goes back.         *)
THEOREM MarksNeverGoBack == Spec => MarksAdvance
<1>1. Init => Orderly
  BY DEF Init, Orderly
<1>2. TypeOK /\ Bounded /\ Orderly /\ [Next]_vars =>
        Orderly' /\ [clash' \/ \A d \in Days : marks'[d] >= marks[d]]_vars
  <2> SUFFICES ASSUME TypeOK, Bounded, Orderly, [Next]_vars
               PROVE  Orderly' /\ (clash' \/ \A d \in Days : marks'[d] >= marks[d])
    OBVIOUS
  <2>1. Orderly' /\ (clash' \/ Ahead(marks'))
    BY StepOrderly
  <2>2. marks \in Marks /\ marks' \in Marks
    BY StepType DEF TypeOK
  <2> QED
    BY <2>1, <2>2 DEF Ahead, Marks
<1> QED
  BY <1>1, <1>2, BoundedInvariance, TypeCorrect, PTL DEF Spec, MarksAdvance
=============================================================================
