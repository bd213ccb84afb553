--------------------------- MODULE WorkingMemory ---------------------------
(***************************************************************************)
(* Working memory of one scope and the dreams that consolidate it          *)
(* (memory/internal/store/working.go, consolidate/service.go and           *)
(* scheduler.go, engineclient/engineclient.go, and the clear_working       *)
(* command of mcp/tools.go).                                               *)
(*                                                                         *)
(* Observations are appended to the daily file of the UTC day.  A dream    *)
(* reads each file from its processed mark on and submits what it read to  *)
(* the engine as one job; the job's model calls clear_working through MCP, *)
(* which marks whole files processed.  Sizes and marks count observations  *)
(* (bytes in the code; an append adds one observation in one write).       *)
(*                                                                         *)
(* Reads and marks are several file operations each, and nothing but the   *)
(* scheduler's lock keeps dreams apart: a manual consolidation takes no    *)
(* lock, and a job may outlive the Submit that waits for it.  The marks    *)
(* file is replaced through one temporary file with a fixed name, which    *)
(* all calls share.                                                        *)
(***************************************************************************)
EXTENDS Integers, FiniteSets

CONSTANTS
  Ticks,       (* dreams of the scheduler, in one process or several       *)
  Manual,      (* dreams started by POST /v1/consolidate                   *)
  NoDream,     (* nobody holds the scheduler's lock                        *)
  MaxDays,     (* bound: days that pass                                    *)
  MaxObs,      (* bound: observations in a daily file                      *)
  MaxCrashes   (* bound: processes that die                                *)

Dreams == Ticks \cup Manual
Days   == 1..MaxDays     (* a daily file is named by its day *)

ASSUME MemoryAssumption ==
  /\ MaxDays \in Nat \ {0} /\ MaxObs \in Nat /\ MaxCrashes \in Nat
  /\ Ticks \cap Manual = {}
  /\ NoDream \notin Dreams

VARIABLES
  today,       (* the UTC day                                              *)
  size,        (* size[d]: observations in the file of day d, 0: no file   *)
  marks,       (* what .processed.json says                                *)
  tmp,         (* the contents of .processed.json.tmp ...                  *)
  hasTmp,      (* ... if there is one                                      *)
  lock,        (* the tick that holds dream.lock                           *)
  phase,       (* phase[j]: how far dream j has come                       *)
  waiting,     (* waiting[j]: a goroutine is in Run for dream j            *)
  base,        (* base[j]: the marks dream j reads from                    *)
  upTo,        (* upTo[j]: how far dream j has read each file              *)
  todo,        (* todo[j]: files that j's read, or j's call, has yet to do *)
  call,        (* call[j]: where j's clear_working stands                  *)
  draft,       (* draft[j]: the marks that call will write                 *)
  fd,          (* fd[j]: the file that call has open for writing           *)
  given,       (* history: observations that were in some dream's Job      *)
  late,        (* history: appended while a dream was active, not given    *)
  clash,       (* history: two calls were under way at the same time       *)
  crashes      (* history: processes that died                             *)

files   == <<today, size>>
store   == <<marks, tmp, hasTmp>>
reader  == <<phase, waiting, base, upTo>>
caller  == <<call, draft, fd>>
history == <<given, late, clash>>
vars    == <<files, store, lock, reader, todo, caller, history, crashes>>

Marks       == [Days -> 0..MaxObs]
NoMarks     == [d \in Days |-> 0]   (* no marks file, or one that does not parse *)
Observation == Days \X (1..MaxObs)
Existing    == {d \in Days : size[d] > 0}

TypeOK ==
  /\ today \in Days /\ size \in Marks
  /\ marks \in Marks /\ tmp \in Marks /\ hasTmp \in BOOLEAN
  /\ lock \in Ticks \cup {NoDream}
  /\ phase \in [Dreams -> {"idle", "reading", "asked", "over"}]
  /\ waiting \in [Dreams -> BOOLEAN]
  /\ base \in [Dreams -> Marks] /\ upTo \in [Dreams -> Marks]
  /\ todo \in [Dreams -> SUBSET Days]
  /\ call \in [Dreams -> {"none", "mark", "fill", "rename"}]
  /\ draft \in [Dreams -> Marks]
  /\ fd \in [Dreams -> {"none", "tmp", "marks", "gone"}]
  /\ given \in SUBSET Observation /\ late \in SUBSET Observation
  /\ clash \in BOOLEAN /\ crashes \in 0..MaxCrashes

Init ==
  /\ today = 1 /\ size = NoMarks
  /\ marks = NoMarks /\ tmp = NoMarks /\ hasTmp = FALSE
  /\ lock = NoDream
  /\ phase = [j \in Dreams |-> "idle"] /\ waiting = [j \in Dreams |-> FALSE]
  /\ base = [j \in Dreams |-> NoMarks] /\ upTo = [j \in Dreams |-> NoMarks]
  /\ todo = [j \in Dreams |-> {}]
  /\ call = [j \in Dreams |-> "none"] /\ draft = [j \in Dreams |-> NoMarks]
  /\ fd = [j \in Dreams |-> "none"]
  /\ given = {} /\ late = {} /\ clash = FALSE /\ crashes = 0

(* Active: dream j has begun to read, and its job or a call of its job may *)
(* still mark files.                                                       *)
Active(j) == phase[j] \in {"reading", "asked"} \/ call[j] # "none"

-----------------------------------------------------------------------------
(* Chats and the calendar.                                                 *)

NextDay ==
  /\ today < MaxDays
  /\ today' = today + 1
  /\ UNCHANGED <<size, store, lock, reader, todo, caller, history, crashes>>

(* Append: the file's name is chosen before the file is locked, so shortly *)
(* after midnight an observation may still go to yesterday's file.         *)
Observe ==
  \E d \in {today - 1, today} \cap Days :
    /\ size[d] < MaxObs
    /\ size' = [size EXCEPT ![d] = @ + 1]
    /\ late' = IF \E j \in Dreams : Active(j)
                 THEN late \cup {<<d, size[d] + 1>>} ELSE late
    /\ UNCHANGED <<today, store, lock, reader, todo, caller, given, clash, crashes>>

-----------------------------------------------------------------------------
(* A dream: Service.Run under tick or under POST /v1/consolidate.          *)

(* MUTANT of StartReading: only the newest daily file is read.             *)
StartReadingNewest(j) ==
  /\ phase[j] = "idle"
  /\ phase' = [phase EXCEPT ![j] = "reading"]
  /\ waiting' = [waiting EXCEPT ![j] = TRUE]
  /\ base' = [base EXCEPT ![j] = marks]
  /\ todo' = [todo EXCEPT ![j] = Existing \cap {today}]
  /\ UNCHANGED <<files, store, upTo, caller, history, crashes>>

(* ListScopes finds the scope if it has a daily file; ReadPending reads    *)
(* the marks and lists the files.  What is appended to a scope that was    *)
(* found, before its files are listed, might as well have come before.     *)
StartReading(j) ==
  /\ phase[j] = "idle"
  /\ phase' = [phase EXCEPT ![j] = "reading"]
  /\ waiting' = [waiting EXCEPT ![j] = TRUE]
  /\ base' = [base EXCEPT ![j] = marks]
  /\ todo' = [todo EXCEPT ![j] = Existing]
  /\ UNCHANGED <<files, store, upTo, caller, history, crashes>>

(* MUTANT of Tick: the result of TryLock is not looked at.                 *)
TickUnlocked(j) == lock' = j /\ StartReading(j)

(* tick: a tick that does not get the lock is skipped.                     *)
Tick(j) == lock = NoDream /\ lock' = j /\ StartReading(j)

Consolidate(j) == StartReading(j) /\ UNCHANGED lock

(* One file of ReadPending's loop, in the order of the names.              *)
ReadFile(j) ==
  /\ phase[j] = "reading"
  /\ \E d \in todo[j] :
       /\ \A e \in todo[j] : d <= e
       /\ upTo' = [upTo EXCEPT ![j][d] = size[d]]
       /\ todo' = [todo EXCEPT ![j] = @ \ {d}]
  /\ UNCHANGED <<files, store, lock, phase, waiting, base, caller, history, crashes>>

(* What the files hold from the processed marks on, as far as j read them. *)
Pending(j) == {o \in Observation : base[j][o[1]] < o[2] /\ o[2] <= upTo[j][o[1]]}

(* The deferred Unlock of a tick that returns; a manual dream has no lock. *)
Unlocked(R) == IF lock \in R THEN NoDream ELSE lock

(* The variables of ReadPending are gone when it has returned.              *)
Forget(R) ==
  /\ base' = [j \in Dreams |-> IF j \in R THEN NoMarks ELSE base[j]]
  /\ upTo' = [j \in Dreams |-> IF j \in R THEN NoMarks ELSE upTo[j]]

(* Run returns before there is a job: there is nothing to consolidate, or  *)
(* the engine refuses the job.                                             *)
GiveUp(j) ==
  /\ phase[j] = "reading" /\ todo[j] = {}
  /\ phase' = [phase EXCEPT ![j] = "over"]
  /\ waiting' = [waiting EXCEPT ![j] = FALSE]
  /\ lock' = Unlocked({j}) /\ Forget({j})
  /\ UNCHANGED <<files, store, todo, caller, history, crashes>>

(* Submit: the engine takes the job, with what was read in its prompt.     *)
(* Other scopes may have something pending even when this one has not.     *)
Ask(j) ==
  /\ phase[j] = "reading" /\ todo[j] = {}
  /\ phase' = [phase EXCEPT ![j] = "asked"]
  /\ given' = given \cup Pending(j) /\ late' = late \ Pending(j)
  /\ Forget({j})
  /\ UNCHANGED <<files, store, lock, waiting, todo, caller, clash, crashes>>

(* External: the job comes to its end, or is cut off in the middle of a    *)
(* tool call.                                                              *)
JobEnds(j) ==
  /\ phase[j] = "asked"
  /\ phase' = [phase EXCEPT ![j] = "over"]
  /\ UNCHANGED <<files, store, lock, waiting, base, upTo, todo, caller, history, crashes>>

(* MUTANT of SubmitReturns: no timeout, so Submit waits for the job's end. *)
SubmitReturnsAtEnd(j) ==
  /\ waiting[j] /\ phase[j] = "over"
  /\ waiting' = [waiting EXCEPT ![j] = FALSE]
  /\ lock' = Unlocked({j})
  /\ UNCHANGED <<files, store, phase, base, upTo, todo, caller, history, crashes>>

(* Submit returns: after the terminal event, or when the stream breaks or  *)
(* the client's 30 minutes are up, with the job possibly still at work.    *)
SubmitReturns(j) ==
  /\ waiting[j] /\ phase[j] \in {"asked", "over"}
  /\ waiting' = [waiting EXCEPT ![j] = FALSE]
  /\ lock' = Unlocked({j})
  /\ UNCHANGED <<files, store, phase, base, upTo, todo, caller, history, crashes>>

-----------------------------------------------------------------------------
(* clear_working: MarkProcessed.                                           *)

(* MUTANT of ClearBegin: the marks of the other files are not read first.  *)
ClearBeginFresh(j) ==
  /\ phase[j] = "asked" /\ call[j] = "none"
  /\ \E names \in SUBSET Existing :
       todo' = [todo EXCEPT ![j] = names]
  /\ call' = [call EXCEPT ![j] = "mark"]
  /\ draft' = [draft EXCEPT ![j] = NoMarks]
  /\ clash' = (clash \/ \E i \in Dreams : call[i] # "none")
  /\ UNCHANGED <<files, store, lock, reader, fd, given, late, crashes>>

(* The model names some daily files, or none at all, which stands for all. *)
ClearBegin(j) ==
  /\ phase[j] = "asked" /\ call[j] = "none"
  /\ \E names \in SUBSET Existing :
       todo' = [todo EXCEPT ![j] = names]
  /\ call' = [call EXCEPT ![j] = "mark"]
  /\ draft' = [draft EXCEPT ![j] = marks]
  /\ clash' = (clash \/ \E i \in Dreams : call[i] # "none")
  /\ UNCHANGED <<files, store, lock, reader, fd, given, late, crashes>>

(* MUTANT of ClearFile: the mark is one past the end.                      *)
ClearFileAhead(j) ==
  /\ call[j] = "mark"
  /\ \E d \in todo[j] :
       /\ draft' = [draft EXCEPT ![j][d] = size[d] + 1]
       /\ todo' = [todo EXCEPT ![j] = @ \ {d}]
  /\ UNCHANGED <<files, store, lock, reader, call, fd, history, crashes>>

(* One turn of the loop: the file is marked up to its length NOW.          *)
ClearFile(j) ==
  /\ call[j] = "mark"
  /\ \E d \in todo[j] :
       /\ draft' = [draft EXCEPT ![j][d] = size[d]]
       /\ todo' = [todo EXCEPT ![j] = @ \ {d}]
  /\ UNCHANGED <<files, store, lock, reader, call, fd, history, crashes>>

(* os.WriteFile, first half: open the temporary file, emptying it if a     *)
(* call has left it or is writing it.                                      *)
OpenTmp(j) ==
  /\ call[j] = "mark" /\ todo[j] = {}
  /\ call' = [call EXCEPT ![j] = "fill"]
  /\ fd' = [fd EXCEPT ![j] = "tmp"]
  /\ tmp' = NoMarks /\ hasTmp' = TRUE
  /\ UNCHANGED <<files, marks, lock, reader, todo, draft, history, crashes>>

(* A file that two calls write from its beginning holds the later text,    *)
(* followed by the rest of a longer earlier one, which does not parse.     *)
WrittenOver(old, new) == IF old = NoMarks THEN {new} ELSE {new, NoMarks}

(* os.WriteFile, second half: into the file that was opened, which another *)
(* call may have renamed to the marks file by now, or replaced.            *)
FillTmp(j) ==
  /\ call[j] = "fill"
  /\ call' = [call EXCEPT ![j] = "rename"]
  /\ IF fd[j] = "tmp" THEN tmp' \in WrittenOver(tmp, draft[j]) ELSE tmp' = tmp
  /\ IF fd[j] = "marks" THEN marks' \in WrittenOver(marks, draft[j]) ELSE marks' = marks
  /\ fd' = [fd EXCEPT ![j] = "none"]
  /\ UNCHANGED <<files, hasTmp, lock, reader, todo, draft, history, crashes>>

(* os.Rename; its error, when another call has moved the file, is ignored. *)
RenameTmp(j) ==
  /\ call[j] = "rename"
  /\ call' = [call EXCEPT ![j] = "none"]
  /\ draft' = [draft EXCEPT ![j] = NoMarks]
  /\ marks' = IF hasTmp THEN tmp ELSE marks
  /\ hasTmp' = FALSE /\ tmp' = NoMarks
  /\ fd' = IF hasTmp
             THEN [i \in Dreams |-> CASE fd[i] = "tmp"   -> "marks"
                                      [] fd[i] = "marks" -> "gone"
                                      [] OTHER           -> fd[i]]
             ELSE fd
  /\ UNCHANGED <<files, lock, reader, todo, history, crashes>>

-----------------------------------------------------------------------------
(* A process of the memory service dies, with the dreams R and the calls C *)
(* that it serves; the kernel drops its flock.  Jobs live in the engine.   *)
(* With R empty and C one call this is also a write that fails.            *)
Crash ==
  /\ crashes < MaxCrashes
  /\ crashes' = crashes + 1
  /\ \E R \in SUBSET {j \in Dreams : waiting[j]}, C \in SUBSET {j \in Dreams : call[j] # "none"} :
       /\ waiting' = [j \in Dreams |-> waiting[j] /\ j \notin R]
       /\ phase' = [j \in Dreams |->
                      IF j \in R /\ phase[j] = "reading" THEN "over" ELSE phase[j]]
       /\ lock' = Unlocked(R)
       /\ Forget({j \in R : phase[j] = "reading"})
       /\ todo' = [j \in Dreams |-> IF j \in C \/ (j \in R /\ phase[j] = "reading")
                                     THEN {} ELSE todo[j]]
       /\ call' = [j \in Dreams |-> IF j \in C THEN "none" ELSE call[j]]
       /\ draft' = [j \in Dreams |-> IF j \in C THEN NoMarks ELSE draft[j]]
       /\ fd' = [j \in Dreams |-> IF j \in C THEN "none" ELSE fd[j]]
  /\ UNCHANGED <<files, store, history>>

Run(j)  == ReadFile(j) \/ GiveUp(j) \/ Ask(j) \/ SubmitReturns(j)
Mark(j) == ClearBegin(j) \/ ClearFile(j) \/ OpenTmp(j) \/ FillTmp(j) \/ RenameTmp(j)

Next ==
  \/ NextDay \/ Observe \/ Crash
  \/ \E j \in Ticks : Tick(j)
  \/ \E j \in Manual : Consolidate(j)
  \/ \E j \in Dreams : Run(j) \/ JobEnds(j) \/ Mark(j)

(* Go schedules the goroutines in Run, and the client's timeout ends a     *)
(* Submit that the engine does not.                                        *)
Fairness == \A j \in Dreams : WF_vars(Run(j))

Spec == Init /\ [][Next]_vars /\ Fairness

-----------------------------------------------------------------------------
(* Properties.                                                             *)

Marked == {o \in Observation : o[2] <= marks[o[1]]}

(* Whatever calls overlap, fail or die, no file is marked beyond its end:  *)
(* observations still to come would be skipped by every later dream        *)
(* (ReadPending goes on at the mark, working.go:88-92).                    *)
MarksWithinFiles == \A d \in Days : marks[d] <= size[d]

(* A dream may only cost observations that were appended while a dream was *)
(* at work: anything recorded in a quiet time is read by a dream before it *)
(* is marked (ReadPending against MarkProcessed, working.go:76-99, :195).  *)
LostOnlyLate == Marked \subseteq given \cup late

(* The lock is held by the tick that is in Run, and by nobody when none    *)
(* is: ticks never overlap, and none leaves the lock behind                *)
(* (scheduler.go:58-70).                                                   *)
LockIsTheTick == \A j \in Ticks : waiting[j] <=> lock = j

(* As long as clear_working calls do not overlap, a mark never goes back,  *)
(* so what was consolidated is not consolidated again (working.go:182-198). *)
MarksAdvance == [][clash' \/ \A d \in Days : marks'[d] >= marks[d]]_vars

(* A tick does not keep the scheduler's lock for ever, even if the engine  *)
(* never answers (engineclient.go:67).                                     *)
LockIsReleased == \A j \in Ticks : lock = j ~> lock # j

(* What clear_working marks as consolidated was given to some dream        *)
(* (mcp/tools.go:29: "mark processed working observations as               *)
(* consolidated").  The code marks each file up to its present length, so  *)
(* what was appended since the dream read it is marked unread.             *)
MarkedWasRead == Marked \subseteq given
=============================================================================
