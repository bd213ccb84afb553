--------------------------- MODULE IndexerProofs ---------------------------
(***************************************************************************)
(* Proofs about Indexer, for any repositories, paths, contents, threads,   *)
(* commits, mishaps and removals.  The invariants, each with an induction  *)
(* that may use those above it:                                            *)
(*   TypeOK, Aimed  types; a pass aims at a commit that exists;            *)
(*   Locked         a name is held exactly by the one pass inside;         *)
(*   Shown          progress is shown exactly for a pass at work;          *)
(*   Counted        processed and what is ahead make the total;            *)
(*   Forward        a recorded commit is never beyond the fetched one;     *)
(*   Cleared        what the steps of a removal have left behind so far;   *)
(*   Matched        records and points agree away from a path in hand;     *)
(*   Renewed        doc points and saved documents agree away from a pass  *)
(*                  that renews them;                                      *)
(*   Visited        the points of a path a pass has been at are those of   *)
(*                  the tree it aims at.                                   *)
(***************************************************************************)
EXTENDS Indexer, FiniteSetTheorems, TLAPS

(* Where a pass has a tree to reconcile with.                              *)
Reconciling == {"loop", "clear", "upsert", "record"}

(* Branches have a commit and mirrors one of them; a pass that reconciles  *)
(* aims at a commit of its repository.                                     *)
Aimed ==
  /\ \A r \in Repos : commits[r] # <<>> /\ mirror[r] <= Len(commits[r])
                      /\ Len(commits[r]) <= MaxCommits
  /\ \A t \in Threads : pc[t] \in Reconciling => tip[t] \in 1..Len(commits[repo[t]])

(* A pass inside holds its name, a name held has a pass inside, and two    *)
(* passes inside one repository are the same.                              *)
Locked ==
  /\ \A t \in Threads : pc[t] \in Inside => repo[t] \in held
  /\ \A r \in held : \E t \in Threads : pc[t] \in Inside /\ repo[t] = r
  /\ \A t, u \in Threads :
       pc[t] \in Inside /\ pc[u] \in Inside /\ repo[t] = repo[u] => t = u

(* A pass at work shows a phase, and a phase shown has a pass at work.     *)
Shown ==
  /\ \A t \in Threads : pc[t] \in Working => progress[repo[t]].phase # "none"
  /\ \A r \in Repos : progress[r].phase # "none" =>
       \E t \in Threads : pc[t] \in Working /\ repo[t] = r

(* The paths a pass has yet to visit that are in its tree: those it will   *)
(* count when it takes them.                                               *)
Ahead(t) == {p \in todo[t] : Want(t)[p] # NoBlob}

(* What has been processed and what is ahead add up to the total.          *)
Counted ==
  /\ \A r \in Repos : progress[r].processed <= progress[r].total
  /\ \A t \in Threads : pc[t] \in Reconciling =>
       progress[repo[t]].processed + Cardinality(Ahead(t)) = progress[repo[t]].total

(* A recorded commit is on the branch and not beyond the mirror; nobody    *)
(* fetches while a pass reconciles, though a removal may take the mirror   *)
(* away.                                                                   *)
Forward ==
  /\ \A r \in Repos : /\ stCommit[r] <= Len(commits[r])
                      /\ mirror[r] # 0 => stCommit[r] <= mirror[r]
  /\ \A t \in Threads : pc[t] \in Reconciling =>
       /\ stCommit[repo[t]] <= tip[t]
       /\ mirror[repo[t]] \in {0, tip[t]}

(* The parts of Cleared: nobody is inside r; its mirror, its documents and *)
(* its collection are gone, if the volume and the store let them go; and   *)
(* its records are forgotten.                                              *)
NoPass(r) == \A t \in Threads : ~InPass(t, r)

NoMirror(r) == "mirror" \notin unremoved[r] => mirror[r] = 0 /\ ~debris[r]

NoDocs(r) == "docs" \notin unremoved[r] => docCache[r] = 0

Dropped(r) == ~undropped[r] => ~coll[r] /\ points[r] = Empty /\ docPoints[r] = 0

Forgotten(r) == stCommit[r] = 0 /\ stPaths[r] = Empty

(* A repository that is not registered has nothing left, and a removal has *)
(* done what lies before the step it stands at, unless it overlapped with  *)
(* a pass. The registry has nothing that a restart would not find.         *)
Cleared ==
  /\ registry \subseteq Overlay
  /\ \A r \in Repos \ registry : ~raced[r] =>
       NoPass(r) /\ Dropped(r) /\ NoMirror(r) /\ NoDocs(r) /\ Forgotten(r)
  /\ \A t \in Threads, r \in Repos : Removal(t, r) /\ ~raced[r] =>
       /\ NoPass(r)
       /\ pc[t] # "drop" => Dropped(r)
       /\ pc[t] \in {"rmDocs", "forget", "deregister"} => NoMirror(r)
       /\ pc[t] \in {"forget", "deregister"} => NoDocs(r)
       /\ pc[t] = "deregister" => Forgotten(r)

(* A removal has dropped the collection of r and not yet forgotten its     *)
(* records.                                                                *)
Busy(r) ==
  \E t \in Threads : repo[t] = r /\ pc[t] \in {"rmMirror", "rmDocs", "forget"}

(* A pass stands between the delete and the record of path p of r.         *)
Writing(r, p) ==
  \E t \in Threads : pc[t] \in {"upsert", "record"} /\ repo[t] = r /\ cur[t] = p

(* Records and points agree, except while the path is in hand, while a     *)
(* removal stands between the two, and where history says they came apart. *)
(* A pass upserts only what has chunks, and before it records a path its   *)
(* points are those of the wanted blob.                                    *)
Matched ==
  /\ \A r \in Repos, p \in Paths :
       ~raced[r] /\ ~Busy(r) /\ ~Writing(r, p) /\ p \notin lost[r] =>
         stPaths[r][p] = points[r][p]
  /\ \A t \in Threads : pc[t] = "upsert" =>
       Indexed(Want(t)[cur[t]]) = Want(t)[cur[t]]
  /\ \A t \in Threads : pc[t] = "record" /\ ~raced[repo[t]] =>
       points[repo[t]][cur[t]] = Indexed(Want(t)[cur[t]])

-----------------------------------------------------------------------------
(* What the actions with more than one outcome move, and what they leave   *)
(* alone: all that most of the invariants below need to know of them.      *)
LEMMA DocsMoves ==
  ASSUME NEW t \in Threads, Docs(t)
  PROVE  /\ pc[t] = "docs"
         /\ pc' = [pc EXCEPT ![t] = "clearDocs"] \/ pc' = [pc EXCEPT ![t] = "collection"]
              \/ pc' = [pc EXCEPT ![t] = "finally"]
         /\ UNCHANGED <<commits, mirror, coll, points, docPoints, persisted, registry,
                        stCommit, stPaths, held, progress, repo, tip, had, todo, cur,
                        debris, lost, raced, undropped, unremoved>>
  BY DEF Docs, AfterDocs, Goto, git, store, reg, state

LEMMA DocsFailMoves ==
  ASSUME NEW t \in Threads, DocsFail(t)
  PROVE  /\ pc[t] \in {"docs", "clearDocs", "storeDocs"}
         /\ pc' = [pc EXCEPT ![t] = "collection"] \/ pc' = [pc EXCEPT ![t] = "finally"]
         /\ UNCHANGED <<commits, mirror, points, persisted, registry, stCommit, stPaths,
                        held, progress, repo, made, tip, had, todo, cur, debris, lost,
                        raced, undropped, unremoved>>
<1>1. pc[t] \in {"docs", "clearDocs", "storeDocs"} /\ pc' = [pc EXCEPT ![t] = AfterDocs]
  BY DEF DocsFail, Goto
<1>2. AfterDocs \in {"collection", "finally"}
  BY DEF AfterDocs
<1>3. UNCHANGED <<git, points, reg, state, held, progress, repo, pass, lost, raced, undropped,
                  unremoved>>
  BY DEF DocsFail
<1> QED
  BY <1>1, <1>2, <1>3 DEF git, reg, state, pass

LEMMA TakeMoves ==
  ASSUME NEW t \in Threads, Take(t)
  PROVE  /\ pc[t] = "loop"
         /\ pc' = pc \/ pc' = [pc EXCEPT ![t] = "clear"]
         /\ cur' = cur \/ \E p \in todo[t] : cur' = [cur EXCEPT ![t] = p]
         /\ UNCHANGED <<commits, mirror, docCache, coll, points, docPoints, persisted,
                        registry, stCommit, stPaths, held, repo, made, tip, had, debris,
                        lost, raced, undropped, unremoved, docsLost>>
<1>1. PICK p \in todo[t] :
        /\ pc[t] = "loop"
        /\ pc' = pc \/ pc' = [pc EXCEPT ![t] = "clear"]
        /\ cur' = cur \/ cur' = [cur EXCEPT ![t] = p]
        /\ UNCHANGED <<git, docCache, store, reg, state, held, repo, made, tip, had, history>>
  BY DEF Take, Goto
<1> QED
  BY <1>1 DEF git, store, reg, state, history

LEMMA FailsMoves ==
  ASSUME NEW t \in Threads, Fails(t)
  PROVE  /\ pc[t] \in {"ensure", "docs", "collection", "plan", "clear", "upsert"}
         /\ pc' = [pc EXCEPT ![t] = "finally"]
         /\ UNCHANGED <<commits, mirror, docCache, docPoints, persisted, registry,
                        stCommit, stPaths, held, progress, repo, made, tip, had, todo,
                        cur, debris, raced, undropped, unremoved, docsLost>>
<1>1. UNCHANGED <<git, docCache, docPoints, reg, state, held, progress, repo, pass, raced,
                  undropped, unremoved, docsLost>>
  BY DEF Fails
<1>2. pc[t] \in {"ensure", "docs", "collection", "plan", "clear", "upsert"}
      /\ pc' = [pc EXCEPT ![t] = "finally"]
  BY DEF Fails, Goto
<1> QED
  BY <1>1, <1>2 DEF git, reg, state, pass

(* A thread that looks a repository up, or does not get its lock, moves    *)
(* outside of passes and removals and touches nothing.                     *)
Waits(t) ==
  /\ pc[t] \in {"idle", "acquire"}
  /\ pc' = [pc EXCEPT ![t] = "idle"] \/ pc' = [pc EXCEPT ![t] = "acquire"]
  /\ \E r \in Repos : repo' = [repo EXCEPT ![t] = r]
  /\ UNCHANGED <<commits, mirror, debris, docCache, coll, points, docPoints, persisted,
                 registry, stCommit, stPaths, held, progress, made, tip, had, todo, cur,
                 lost, raced, undropped, unremoved, docsLost>>

LEMMA LookupWaits ==
  ASSUME NEW t \in Threads, NEW r \in Repos, NEW all \in BOOLEAN, Lookup(t, r, all)
  PROVE  Waits(t)
  BY DEF Lookup, Waits, Goto, git, store, reg, state, history

LEMMA AlreadyRunningWaits ==
  ASSUME NEW t \in Threads, AlreadyRunning(t)
  PROVE  Waits(t)
<1>1. AnyRepo \in Repos
  BY IndexerAssumption DEF AnyRepo
<1> QED
  BY <1>1 DEF AlreadyRunning, Waits, Goto, git, store, reg, state, history

(* The round goes on with a lookup, or without a repository.               *)
LEMMA RoundMoves ==
  ASSUME TypeOK, NextInRound
  PROVE  /\ Sched \in Threads /\ round' \subseteq Repos
         /\ \/ \E r \in Repos : Lookup(Sched, r, FALSE)
            \/ UNCHANGED <<git, docCache, store, reg, state, held, progress, pc, repo, pass,
                           history, budget>>
  BY DEF TypeOK, NextInRound, Threads

(* What a pass does that has got the lock.                                 *)
Begun(t) ==
  /\ pc[t] = "acquire" /\ pc' = [pc EXCEPT ![t] = "ensure"]
  /\ repo[t] \notin held /\ held' = held \cup {repo[t]}
  /\ progress' = [progress EXCEPT ![repo[t]] = At("cloning")]
  /\ raced' = [raced EXCEPT ![repo[t]] =
                 @ \/ repo[t] \notin registry \/ \E u \in Threads : Removal(u, repo[t])]
  /\ UNCHANGED <<commits, mirror, debris, docCache, coll, points, docPoints, persisted,
                 registry, stCommit, stPaths, repo, made, tip, had, todo, cur, lost,
                 undropped, unremoved, docsLost, semantic, captured, full, round, mishaps,
                 removals>>

LEMMA BeginMoves ==
  ASSUME NEW t \in Threads, Begin(t)
  PROVE  Begun(t)
  BY DEF Begin, Begun, Acquire, Goto, git, store, reg, state, pass, budget

(* A removal of the mirror or of the documents may leave what it was to    *)
(* delete, and touches nothing else.                                       *)
MirrorGone(t) ==
  /\ pc[t] = "rmMirror" /\ pc' = [pc EXCEPT ![t] = "rmDocs"]
  /\ mirror' = mirror \/ mirror' = [mirror EXCEPT ![repo[t]] = 0]
  /\ UNCHANGED <<commits, docCache, coll, points, docPoints, persisted, registry,
                 stCommit, stPaths, held, progress, repo, made, tip, had, todo, cur, lost,
                 raced, undropped, docsLost, semantic, captured, full, round, removals>>

LEMMA RmMirrorMoves ==
  ASSUME NEW t \in Threads, RmMirror(t)
  PROVE  MirrorGone(t)
  BY DEF RmMirror, MirrorGone, Goto, store, reg, state, pass

DocsGone(t) ==
  /\ pc[t] = "rmDocs" /\ pc' = [pc EXCEPT ![t] = "forget"]
  /\ docCache' = docCache \/ docCache' = [docCache EXCEPT ![repo[t]] = 0]
  /\ UNCHANGED <<commits, mirror, debris, coll, points, docPoints, persisted, registry,
                 stCommit, stPaths, held, progress, repo, made, tip, had, todo, cur, lost,
                 raced, undropped, docsLost, semantic, captured, full, round, removals>>

LEMMA RmDocsMoves ==
  ASSUME NEW t \in Threads, RmDocs(t)
  PROVE  DocsGone(t)
  BY DEF RmDocs, DocsGone, Goto, git, store, reg, state, pass

-----------------------------------------------------------------------------
(* The defaults that a thread at rest holds are of their types.            *)
LEMMA Chosen == AnyPath \in Paths /\ AnyRepo \in Repos
  BY IndexerAssumption DEF AnyPath, AnyRepo

(* No file at all is a tree.                                               *)
LEMMA EmptyType == Empty \in Tree
  BY DEF Empty, Tree

(* Commits are natural numbers, and none is 0.                             *)
LEMMA CommitType == 0 \in Commit /\ Commit \subseteq Nat
  BY IndexerAssumption DEF Commit

(* A pass that reconciles aims at a tree.                                  *)
LEMMA WantType ==
  ASSUME TypeOK, Aimed, NEW t \in Threads, pc[t] \in Reconciling
  PROVE  Want(t) \in Tree
  BY DEF TypeOK, Aimed, Want

(* What is stored of a blob is a blob or nothing.                          *)
LEMMA IndexedType ==
  ASSUME NEW b \in Blobs \cup {NoBlob} PROVE Indexed(b) \in Blobs \cup {NoBlob}
  BY DEF Indexed

(* Changing one path of one repository keeps the type.                     *)
LEMMA TreeExcept ==
  ASSUME NEW f \in [Repos -> Tree], NEW r \in Repos, NEW p \in Paths,
         NEW b \in Blobs \cup {NoBlob}
  PROVE  [f EXCEPT ![r][p] = b] \in [Repos -> Tree]
  BY DEF Tree

(* What a start and a restart put into memory has its type.                *)
LEMMA ClearedTypes ==
  /\ [r \in Repos |-> 0] \in [Repos -> Commit]
  /\ [r \in Repos |-> Empty] \in [Repos -> Tree]
  /\ [t \in Threads |-> 0] \in [Threads -> Commit]
  /\ [t \in Threads |-> Empty] \in [Threads -> Tree]
  /\ [t \in Threads |-> AnyRepo] \in [Threads -> Repos]
  /\ [t \in Threads |-> AnyPath] \in [Threads -> Paths]
  BY Chosen, EmptyType, CommitType

(* Counting a path keeps the type of progress.                             *)
LEMMA StepOn ==
  ASSUME NEW Phases, NEW q \in [phase : Phases, processed : Nat, total : Nat]
  PROVE  [q EXCEPT !.processed = @ + 1] \in [phase : Phases, processed : Nat, total : Nat]
  OBVIOUS

(* The indexer starts with its types, and with no pass.                    *)
THEOREM InitType == Init => TypeOK /\ Aimed
<1> SUFFICES ASSUME Init PROVE TypeOK /\ Aimed
  OBVIOUS
<1>1. PICK b \in Blobs \ Unchunked : commits = [r \in Repos |-> <<[p \in Paths |-> b]>>]
  BY DEF Init
<1>2. commits \in [Repos -> Seq(Tree)] /\ \A r \in Repos : Len(commits[r]) = 1
  <2>1. [p \in Paths |-> b] \in Tree
    BY DEF Tree
  <2> QED
    BY <1>1, <2>1
<1>3. TypeOK
  <2>1. /\ mirror \in [Repos -> Commit] /\ docCache \in [Repos -> Commit]
        /\ debris \in [Repos -> BOOLEAN]
        /\ coll \in [Repos -> BOOLEAN] /\ points \in [Repos -> Tree]
        /\ docPoints \in [Repos -> Commit]
        /\ stCommit \in [Repos -> Commit] /\ stPaths \in [Repos -> Tree]
        /\ persisted \subseteq Repos /\ registry \subseteq Repos /\ captured \subseteq Repos
        /\ semantic \in BOOLEAN /\ held \subseteq Repos /\ round \subseteq Repos
    BY ClearedTypes, IndexerAssumption DEF Init
  <2>2. progress \in [Repos -> [phase : {"none", "cloning", "docs", "embedding"},
                                processed : Nat, total : Nat]]
    BY DEF Init, NoProgress
  <2>3. /\ pc \in [Threads -> Inside \cup Removing \cup {"idle", "acquire", "deregister"}]
        /\ repo \in [Threads -> Repos] /\ full \in [Threads -> BOOLEAN]
        /\ made \in [Threads -> Commit] /\ tip \in [Threads -> Commit]
        /\ had \in [Threads -> Tree]
        /\ todo \in [Threads -> SUBSET Paths] /\ cur \in [Threads -> Paths]
    BY ClearedTypes DEF Init
  <2>4. /\ lost \in [Repos -> SUBSET Paths]
        /\ raced \in [Repos -> BOOLEAN] /\ undropped \in [Repos -> BOOLEAN]
        /\ unremoved \in [Repos -> SUBSET {"mirror", "docs"}]
        /\ docsLost \in [Repos -> BOOLEAN]
        /\ mishaps \in 0..MaxMishaps /\ removals \in 0..MaxRemovals
    BY IndexerAssumption DEF Init
  <2> QED
    BY <1>2, <2>1, <2>2, <2>3, <2>4 DEF TypeOK
<1>4. Aimed
  BY <1>2, IndexerAssumption DEF Init, Aimed, Reconciling
<1> QED
  BY <1>3, <1>4

(* Every step keeps the types: the write of a path needs the tree it aims  *)
(* at (WantType), a plan needs the number of its paths (IsFiniteSet).      *)
LEMMA StepType == TypeOK /\ Aimed /\ [Next]_vars => TypeOK'
<1> SUFFICES ASSUME TypeOK, Aimed, [Next]_vars PROVE TypeOK'
  OBVIOUS
<1> USE DEF TypeOK
<1>1. ASSUME NEW t \in Threads, Ensure(t) PROVE TypeOK'
  <2>1. Fetched(repo[t]) \in Commit
    BY DEF Fetched, Aimed, Commit
  <2> QED
    BY <1>1, <2>1 DEF Ensure, At, Goto, Inside, Working, Removing, git, store, reg, state, pass, history, budget
<1>2. ASSUME NEW t \in Threads, Docs(t) PROVE TypeOK'
  <2>1. docCache' \in [Repos -> Commit] /\ made' \in [Threads -> Commit]
    <3>1. CASE \E c \in {0, mirror[repo[t]]} : /\ docCache' = [docCache EXCEPT ![repo[t]] = c]
                                               /\ made' = [made EXCEPT ![t] = c]
      BY <3>1, CommitType
    <3>2. CASE UNCHANGED <<docCache, made>>
      BY <3>2
    <3> QED
      BY <1>2, <3>1, <3>2 DEF Docs
  <2>3. docsLost' \in [Repos -> BOOLEAN]
    BY <1>2 DEF Docs
  <2>2. pc' \in [Threads -> Inside \cup Removing \cup {"idle", "acquire", "deregister"}]
    <3>1. pc \in [Threads -> Inside \cup Removing \cup {"idle", "acquire", "deregister"}]
      OBVIOUS
    <3> QED
      BY ONLY <1>2, <3>1, DocsMoves, t \in Threads DEF Inside, Working
  <2> QED
    <3>1. UNCHANGED <<git, store, reg, state, held, progress, repo, full, tip, had,
                      todo, cur, round, lost, raced, undropped, unremoved, budget>>
      BY <1>2 DEF Docs
    <3> QED
      BY <2>1, <2>2, <2>3, <3>1 DEF git, store, reg, state, budget
<1>3. ASSUME NEW t \in Threads, ClearDocs(t) PROVE TypeOK'
  BY <1>3, CommitType, EmptyType, Chosen
     DEF ClearDocs, DeleteDocs, Goto, Inside, Working, Removing, git, store, reg, state, pass, history, budget
<1>4. ASSUME NEW t \in Threads, StoreDocs(t) PROVE TypeOK'
  BY <1>4, CommitType, EmptyType, Chosen
     DEF StoreDocs, Goto, Inside, Working, Removing, git, store, reg, state, pass, history, budget
<1>5. ASSUME NEW t \in Threads, DocsFail(t) PROVE TypeOK'
  <2>1. docCache' \in [Repos -> Commit] /\ docPoints' \in [Repos -> Commit]
    <3>1. \/ docCache' \in {docCache, [docCache EXCEPT ![repo[t]] = mirror[repo[t]]]}
          \/ UNCHANGED docCache
      BY <1>5 DEF DocsFail
    <3>2. \/ docPoints' \in {docPoints, [docPoints EXCEPT ![repo[t]] = 0],
                                        [docPoints EXCEPT ![repo[t]] = made[t]]}
          \/ UNCHANGED docPoints
      BY <1>5 DEF DocsFail
    <3>3. docCache' \in [Repos -> Commit]
      BY <3>1
    <3>4. docPoints' \in [Repos -> Commit]
      BY <3>2, CommitType
    <3> QED
      BY <3>3, <3>4
  <2>3. coll' \in [Repos -> BOOLEAN]
    BY <1>5 DEF DocsFail
  <2>4. mishaps' \in 0..MaxMishaps
    BY <1>5, IndexerAssumption DEF DocsFail
  <2>2. /\ pc' \in [Threads -> Inside \cup Removing \cup {"idle", "acquire", "deregister"}]
        /\ docsLost' \in [Repos -> BOOLEAN]
    BY <1>5 DEF DocsFail, AfterDocs, Goto, Inside, Working
  <2> QED
    BY <1>5, <2>1, <2>2, <2>3, <2>4 DEF DocsFail, git, reg, state, pass
<1>6. ASSUME NEW t \in Threads, EnsureCollection(t) PROVE TypeOK'
  <2>1. /\ coll' = [coll EXCEPT ![repo[t]] = TRUE] /\ pc' = [pc EXCEPT ![t] = "plan"]
        /\ UNCHANGED <<git, docCache, points, docPoints, reg, state, held, progress, repo, pass,
                       round, history, budget>>
    BY <1>6 DEF EnsureCollection, Goto
  <2>2. coll' \in [Repos -> BOOLEAN]
        /\ pc' \in [Threads -> Inside \cup Removing \cup {"idle", "acquire", "deregister"}]
    BY <2>1 DEF Inside, Working
  <2> QED
    BY <2>1, <2>2 DEF git, reg, state, pass, history, budget
<1>7. ASSUME NEW t \in Threads, Plan(t) PROVE TypeOK'
  <2> DEFINE desired == {p \in Paths : commits[repo[t]][mirror[repo[t]]][p] # NoBlob}
  <2>1. Cardinality(desired) \in Nat
    BY IndexerAssumption, FS_Subset, FS_CardinalityType
  <2>2. progress' \in [Repos -> [phase : {"none", "cloning", "docs", "embedding"},
                                 processed : Nat, total : Nat]]
    BY <1>7, <2>1 DEF Plan, At
  <2>3. todo' \in [Threads -> SUBSET Paths]
    BY <1>7 DEF Plan, Gone
  <2> QED
    <3>1. /\ pc' = [pc EXCEPT ![t] = "loop"] /\ tip' = [tip EXCEPT ![t] = mirror[repo[t]]]
          /\ had' = [had EXCEPT ![t] = stPaths[repo[t]]]
          /\ UNCHANGED <<git, docCache, store, reg, state, held, repo, full, made, cur, round,
                         history, budget>>
      BY <1>7 DEF Plan, Goto
    <3>2. /\ pc' \in [Threads -> Inside \cup Removing \cup {"idle", "acquire", "deregister"}]
          /\ tip' \in [Threads -> Commit] /\ had' \in [Threads -> Tree]
      BY <3>1 DEF Inside, Working
    <3> QED
      BY <2>2, <2>3, <3>1, <3>2 DEF git, store, reg, state, history, budget
<1>8. ASSUME NEW t \in Threads, Take(t) PROVE TypeOK'
  <2>1. PICK p \in todo[t] :
          /\ progress' \in {progress, [progress EXCEPT ![repo[t]].processed = @ + 1]}
          /\ todo' = [todo EXCEPT ![t] = @ \ {p}]
          /\ \/ UNCHANGED <<pc, cur>>
             \/ Goto(t, "clear") /\ cur' = [cur EXCEPT ![t] = p]
          /\ UNCHANGED <<git, docCache, store, reg, state, held, repo, full, made,
                         tip, had, round, history, budget>>
    BY <1>8 DEF Take
  <2>2. progress' \in [Repos -> [phase : {"none", "cloning", "docs", "embedding"},
                                 processed : Nat, total : Nat]]
    <3>1. CASE progress' = progress
      BY <3>1
    <3>2. CASE progress' = [progress EXCEPT ![repo[t]].processed = @ + 1]
      <4> DEFINE q == [progress[repo[t]] EXCEPT !.processed = @ + 1]
      <4>1. q \in [phase : {"none", "cloning", "docs", "embedding"},
                   processed : Nat, total : Nat]
        <5>1. progress[repo[t]] \in [phase : {"none", "cloning", "docs", "embedding"},
                                     processed : Nat, total : Nat]
          OBVIOUS
        <5> QED
          BY ONLY <5>1, StepOn DEF q
      <4>2. progress' = [progress EXCEPT ![repo[t]] = q]
        BY <3>2
      <4> QED
        BY <4>1, <4>2
    <3> QED
      BY <2>1, <3>1, <3>2
  <2>3. todo' \in [Threads -> SUBSET Paths] /\ cur' \in [Threads -> Paths]
    <3>1. todo' \in [Threads -> SUBSET Paths]
      BY <2>1
    <3>2. cur' \in [Threads -> Paths]
      <4>1. p \in Paths
        OBVIOUS
      <4>2. cur \in [Threads -> Paths]
        OBVIOUS
      <4>3. cur' = cur \/ cur' = [cur EXCEPT ![t] = p]
        BY <2>1
      <4> QED
        BY ONLY <4>1, <4>2, <4>3
    <3> QED
      BY <3>1, <3>2
  <2>4. pc' \in [Threads -> Inside \cup Removing \cup {"idle", "acquire", "deregister"}]
    BY <2>1 DEF Goto, Inside, Working
  <2> QED
    BY <2>1, <2>2, <2>3, <2>4 DEF git, store, reg, state, history, budget
<1>9. ASSUME NEW t \in Threads, Clear(t) PROVE TypeOK'
  <2>1. [points EXCEPT ![repo[t]][cur[t]] = NoBlob] \in [Repos -> Tree]
    BY TreeExcept
  <2> QED
    BY <1>9, <2>1 DEF Clear, DeleteByPath, Goto, Inside, Working, Removing, git, store, reg, state, pass, history, budget
<1>10. ASSUME NEW t \in Threads, Upsert(t) PROVE TypeOK'
  <2>1. Want(t)[cur[t]] \in Blobs \cup {NoBlob}
    BY <1>10, WantType DEF Upsert, Reconciling, Tree
  <2>2. [points EXCEPT ![repo[t]][cur[t]] = Want(t)[cur[t]]] \in [Repos -> Tree]
    BY <2>1, TreeExcept
  <2> QED
    BY <1>10, <2>2 DEF Upsert, UpsertPath, Goto, Inside, Working, Removing, git, store, reg, state, pass, history, budget
<1>11. ASSUME NEW t \in Threads, Record(t) PROVE TypeOK'
  <2>1. Indexed(Want(t)[cur[t]]) \in Blobs \cup {NoBlob}
    BY <1>11, WantType, IndexedType DEF Record, Reconciling, Tree
  <2>2. [stPaths EXCEPT ![repo[t]][cur[t]] = Indexed(Want(t)[cur[t]])] \in [Repos -> Tree]
    BY <2>1, TreeExcept
  <2> QED
    BY <1>11, <2>2 DEF Record, Goto, Inside, Working, Removing, git, store, reg, state, pass, history, budget
<1>12. ASSUME NEW t \in Threads, SetCommit(t) PROVE TypeOK'
  BY <1>12, CommitType, EmptyType, Chosen
     DEF SetCommit, Done, Goto, Inside, Working, Removing, git, store, reg, state, pass, history, budget
<1>13. ASSUME NEW t \in Threads, Fails(t) PROVE TypeOK'
  <2>1. [points EXCEPT ![repo[t]][cur[t]] = NoBlob] \in [Repos -> Tree]
    BY TreeExcept
  <2>2. pc[t] = "upsert" => [points EXCEPT ![repo[t]][cur[t]] = Want(t)[cur[t]]] \in [Repos -> Tree]
    <3> SUFFICES ASSUME pc[t] = "upsert"
                 PROVE  [points EXCEPT ![repo[t]][cur[t]] = Want(t)[cur[t]]] \in [Repos -> Tree]
      OBVIOUS
    <3>1. Want(t)[cur[t]] \in Blobs \cup {NoBlob}
      BY WantType DEF Reconciling, Tree
    <3> QED
      BY <3>1, TreeExcept
  <2>3. /\ points' \in [Repos -> Tree] /\ coll' \in [Repos -> BOOLEAN]
        /\ mishaps' \in 0..MaxMishaps
    <3>1. CASE UNCHANGED <<coll, points, mishaps>>
      BY <3>1
    <3>2. mishaps' \in 0..MaxMishaps
      BY <1>13, IndexerAssumption DEF Fails
    <3>3. CASE UNCHANGED <<coll, points>>
      BY <3>2, <3>3
    <3>4. CASE TookEffect(t)
      BY <2>1, <2>2, <3>2, <3>4 DEF TookEffect, DeleteByPath, UpsertPath
    <3> QED
      BY <1>13, <3>1, <3>3, <3>4 DEF Fails
  <2>4. /\ lost' \in [Repos -> SUBSET Paths]
        /\ pc' \in [Threads -> Inside \cup Removing \cup {"idle", "acquire", "deregister"}]
    BY <1>13 DEF Fails, Goto, Inside, Working
  <2> QED
    BY <1>13, <2>3, <2>4 DEF Fails, git, reg, state, pass
<1>14. ASSUME NEW t \in Threads, ClearProgress(t) PROVE TypeOK'
  BY <1>14, CommitType, EmptyType, Chosen
     DEF ClearProgress, NoProgress, Goto, Inside, Working, Removing, git, store, reg, state, pass, history, budget
<1>15. ASSUME NEW t \in Threads, Return(t) PROVE TypeOK'
  BY <1>15, CommitType, EmptyType, Chosen
     DEF Return, Release, Goto, Inside, Working, Removing, git, store, reg, state, pass, history, budget
<1>16. ASSUME NEW t \in Threads, Drop(t) PROVE TypeOK'
  <2>1. coll' \in [Repos -> BOOLEAN] /\ undropped' \in [Repos -> BOOLEAN]
    BY <1>16 DEF Drop, DropCollection, store
  <2>2. points' \in [Repos -> Tree] /\ docPoints' \in [Repos -> Commit]
    <3>1. CASE DropCollection(repo[t])
      BY <3>1, EmptyType, CommitType DEF DropCollection
    <3>2. CASE UNCHANGED store
      BY <3>2 DEF store
    <3> QED
      BY <1>16, <3>1, <3>2 DEF Drop
  <2>3. mishaps' \in 0..MaxMishaps
    BY <1>16, IndexerAssumption DEF Drop
  <2> QED
    BY <1>16, <2>1, <2>2, <2>3 DEF Drop, Goto, Inside, Removing, git, reg, state, pass
<1>17. ASSUME NEW t \in Threads, RmMirror(t) PROVE TypeOK'
  <2>0. MirrorGone(t)
    BY ONLY t \in Threads, <1>17, RmMirrorMoves
  <2>1. mirror' \in [Repos -> Commit]
    BY <1>17, CommitType, <2>0 DEF MirrorGone
  <2>2. debris' \in [Repos -> BOOLEAN]
    BY <1>17 DEF RmMirror
  <2>3. unremoved' \in [Repos -> SUBSET {"mirror", "docs"}]
    <3>1. \/ unremoved' = [unremoved EXCEPT ![repo[t]] = @ \ {"mirror"}]
          \/ unremoved' = [unremoved EXCEPT ![repo[t]] = @ \cup {"mirror"}]
      BY <1>17 DEF RmMirror
    <3>2. unremoved \in [Repos -> SUBSET {"mirror", "docs"}]
      OBVIOUS
    <3> QED
      BY ONLY <3>1, <3>2
  <2>4. mishaps' \in 0..MaxMishaps
    BY <1>17, IndexerAssumption DEF RmMirror, RmtreeLeaves
  <2>5. pc' \in [Threads -> Inside \cup Removing \cup {"idle", "acquire", "deregister"}]
    BY <1>17, <2>0 DEF MirrorGone, Removing
  <2> QED
    BY <1>17, <2>1, <2>2, <2>3, <2>4, <2>5, <2>0 DEF MirrorGone
<1>18. ASSUME NEW t \in Threads, RmDocs(t) PROVE TypeOK'
  <2>0. DocsGone(t)
    BY ONLY t \in Threads, <1>18, RmDocsMoves
  <2>1. docCache' \in [Repos -> Commit]
    BY <1>18, CommitType, <2>0 DEF DocsGone
  <2>2. unremoved' \in [Repos -> SUBSET {"mirror", "docs"}]
    <3>1. \/ unremoved' = [unremoved EXCEPT ![repo[t]] = @ \ {"docs"}]
          \/ unremoved' = [unremoved EXCEPT ![repo[t]] = @ \cup {"docs"}]
      BY <1>18 DEF RmDocs
    <3>2. unremoved \in [Repos -> SUBSET {"mirror", "docs"}]
      OBVIOUS
    <3> QED
      BY ONLY <3>1, <3>2
  <2>3. mishaps' \in 0..MaxMishaps
    BY <1>18, IndexerAssumption DEF RmDocs, RmtreeLeaves
  <2>4. pc' \in [Threads -> Inside \cup Removing \cup {"idle", "acquire", "deregister"}]
    BY <1>18, <2>0 DEF DocsGone, Removing
  <2> QED
    BY <1>18, <2>1, <2>2, <2>3, <2>4, <2>0 DEF DocsGone, git
<1>19. ASSUME NEW t \in Threads, ForgetState(t) PROVE TypeOK'
  BY <1>19, CommitType, EmptyType, Chosen
     DEF ForgetState, Forget, Stored, Goto, Inside, Working, Removing, git, store, reg, state, pass, history, budget
<1>20. ASSUME NEW t \in Threads, DropRegistration(t) PROVE TypeOK'
  BY <1>20, CommitType, EmptyType, Chosen
     DEF DropRegistration, Unsave, Goto, Inside, Working, Removing, git, store, reg, state, pass, history, budget
<1>21. ASSUME NEW t \in Threads, NEW r \in Repos, NEW all \in BOOLEAN, Lookup(t, r, all),
              round' \subseteq Repos
       PROVE  TypeOK'
  BY <1>21 DEF Lookup, Goto, git, store, reg, state, history, budget
<1>22. CASE NextRound
  BY <1>22 DEF NextRound, git, store, reg, state, pass, history, budget
<1>23. CASE NextInRound
  <2>1. CASE \E r \in Repos : Lookup(Sched, r, FALSE)
    BY <1>21, <1>23, <2>1, RoundMoves
  <2>2. CASE UNCHANGED <<git, docCache, store, reg, state, held, progress, pc, repo, pass,
                         history, budget>>
    BY <1>23, <2>2, RoundMoves DEF git, store, reg, state, pass, history, budget
  <2> QED
    BY <1>23, <2>1, <2>2, RoundMoves
<1>24. ASSUME NEW t \in Requests, Reindex(t) PROVE TypeOK'
  <2>1. PICK r \in Repos, all \in BOOLEAN : Lookup(t, r, all)
    BY <1>24 DEF Reindex
  <2>2. t \in Threads /\ round' \subseteq Repos
    BY <1>24 DEF Reindex, Threads
  <2> QED
    BY ONLY <1>21, <2>1, <2>2, r \in Repos, all \in BOOLEAN
<1>25. ASSUME NEW t \in Threads, NEW r \in Repos, Deregister(t, r) PROVE TypeOK'
  BY <1>25, IndexerAssumption
     DEF Deregister, Goto, Removing, git, store, reg, state, pass
<1>26. ASSUME NEW r \in Repos, Register(r) PROVE TypeOK'
  BY <1>26 DEF Register, Save, Merge, git, store, state, pass, history, budget
<1>27. ASSUME NEW r \in Repos, Push(r) PROVE TypeOK'
  <2>1. PICK p \in Paths, b \in Blobs \cup {NoBlob} :
          commits' = [commits EXCEPT ![r] = Append(@, [commits[r][Len(commits[r])] EXCEPT ![p] = b])]
    BY <1>27 DEF Push
  <2>2. commits[r][Len(commits[r])] \in Tree
    BY DEF Aimed
  <2>3. [commits[r][Len(commits[r])] EXCEPT ![p] = b] \in Tree
    BY <2>2 DEF Tree
  <2>4. commits' \in [Repos -> Seq(Tree)]
    BY <2>1, <2>3
  <2> QED
    BY <1>27, <2>4 DEF Push, store, reg, state, pass, history, budget
<1>28. CASE Crash
  <2>1. /\ mishaps' \in 0..MaxMishaps
        /\ registry' \subseteq Repos /\ captured' \subseteq Repos
    BY <1>28, IndexerAssumption DEF Crash, Overlay
  <2>2. /\ stCommit' \in [Repos -> Commit] /\ stPaths' \in [Repos -> Tree]
        /\ repo' \in [Threads -> Repos] /\ had' \in [Threads -> Tree]
        /\ made' \in [Threads -> Commit] /\ tip' \in [Threads -> Commit]
        /\ cur' \in [Threads -> Paths] /\ todo' \in [Threads -> SUBSET Paths]
        /\ full' \in [Threads -> BOOLEAN]
        /\ pc' \in [Threads -> Inside \cup Removing \cup {"idle", "acquire", "deregister"}]
    BY <1>28, ClearedTypes DEF Crash
  <2>3. /\ progress' \in [Repos -> [phase : {"none", "cloning", "docs", "embedding"},
                                    processed : Nat, total : Nat]]
        /\ lost' \in [Repos -> SUBSET Paths] /\ docsLost' \in [Repos -> BOOLEAN]
    BY <1>28 DEF Crash, NoProgress, Stored
  <2>4. debris' \in [Repos -> BOOLEAN]
    BY <1>28 DEF Crash
  <2> QED
    BY <1>28, <2>1, <2>2, <2>3, <2>4 DEF Crash, store
<1>29. CASE UNCHANGED vars
  BY <1>29 DEF vars, git, store, reg, state, pass, history, budget
<1>31. ASSUME NEW t \in Threads, Begin(t) PROVE TypeOK'
  <2>0. Begun(t)
    BY ONLY t \in Threads, <1>31, BeginMoves
  <2> QED
    BY <1>31, <2>0 DEF Begun, At, Inside, Working, git
<1>32. ASSUME NEW t \in Threads, AlreadyRunning(t) PROVE TypeOK'
  BY <1>32, Chosen DEF AlreadyRunning, Goto, git, store, reg, state, history, budget
<1>30. ASSUME NEW t \in Threads, Step(t) PROVE TypeOK'
  BY <1>1, <1>2, <1>3, <1>4, <1>5, <1>6, <1>7, <1>8, <1>9, <1>10, <1>11, <1>12,
     <1>13, <1>14, <1>15, <1>16, <1>17, <1>18, <1>19, <1>20, <1>30, <1>31, <1>32 DEF Step
<1> QED
  BY <1>22, <1>23, <1>24, <1>25, <1>26, <1>27, <1>28, <1>29, <1>30 DEF Next, Threads

(* Commits are only added, and a pass keeps its tip until it has ended.    *)
LEMMA StepAimed == TypeOK /\ Aimed /\ [Next]_vars => Aimed'
<1> SUFFICES ASSUME TypeOK, Aimed, [Next]_vars PROVE Aimed'
  OBVIOUS
<1> USE DEF TypeOK, Aimed
<1>0. /\ pc \in [Threads -> Inside \cup Removing \cup {"idle", "acquire", "deregister"}]
      /\ repo \in [Threads -> Repos] /\ tip \in [Threads -> Commit]
      /\ cur \in [Threads -> Paths]
  OBVIOUS
<1>1. ASSUME UNCHANGED git, NEW t \in Threads,
             \A u \in Threads \ {t} : pc'[u] = pc[u] /\ tip'[u] = tip[u] /\ repo'[u] = repo[u],
             \/ pc'[t] \notin Reconciling
             \/ pc[t] \in Reconciling /\ tip'[t] = tip[t] /\ repo'[t] = repo[t]
             \/ repo'[t] = repo[t] /\ tip'[t] = mirror[repo[t]] /\ mirror[repo[t]] # 0
      PROVE  Aimed'
  <2>1. \A r \in Repos : commits[r] # <<>> /\ mirror[r] \in Nat /\ Len(commits[r]) \in Nat
    BY IndexerAssumption DEF Commit
  <2>2. \A u \in Threads \ {t} : pc'[u] \in Reconciling => tip'[u] \in 1..Len(commits'[repo'[u]])
    BY <1>1 DEF git
  <2>3. pc'[t] \in Reconciling => tip'[t] \in 1..Len(commits'[repo'[t]])
    BY <1>1, <2>1 DEF git
  <2> QED
    BY <1>1, <2>2, <2>3 DEF git
<1>W. ASSUME NEW t \in Threads, Waits(t) PROVE Aimed'
  BY <1>1, <1>W DEF Waits, Reconciling, git
<1>2. ASSUME NEW t \in Threads, Step(t) PROVE Aimed'
  <2>1. CASE Ensure(t)
    BY <2>1 DEF Ensure, Fetched, Goto, Reconciling, pass
  <2>2. CASE RmMirror(t)
    <3>0. MirrorGone(t)
      BY ONLY t \in Threads, <2>2, RmMirrorMoves
    <3>1. \A r \in Repos : mirror'[r] \in {0, mirror[r]}
      BY <2>2, <3>0 DEF MirrorGone
    <3>2. /\ pc' = [pc EXCEPT ![t] = "rmDocs"]
          /\ UNCHANGED <<commits, repo, tip>>
      BY <2>2, <3>0 DEF MirrorGone
    <3>3. \A r \in Repos : Len(commits[r]) \in Nat
      OBVIOUS
    <3>4. \A r \in Repos : commits'[r] # <<>> /\ mirror'[r] <= Len(commits'[r])
                          /\ Len(commits'[r]) <= MaxCommits
      <4>1. commits' = commits
        BY <3>2
      <4>2. \A r \in Repos : commits[r] # <<>> /\ mirror[r] <= Len(commits[r])
                            /\ Len(commits[r]) <= MaxCommits
        BY DEF Aimed
      <4> QED
        BY ONLY <3>1, <3>3, <4>1, <4>2
    <3>5. \A u \in Threads : pc'[u] \in Reconciling => pc[u] \in Reconciling
      BY <3>2 DEF Reconciling
    <3> QED
      BY <3>2, <3>4, <3>5
  <2>3. CASE Docs(t)
    BY ONLY t \in Threads, <1>0, <1>1, <2>3, DocsMoves DEF Reconciling, git
  <2>4. CASE ClearDocs(t)
    BY <1>1, <2>4 DEF ClearDocs, Goto, Reconciling, pass
  <2>13. CASE StoreDocs(t)
    BY <1>1, <2>13 DEF StoreDocs, Goto, Reconciling, pass
  <2>15. CASE EnsureCollection(t)
    BY <1>1, <2>15 DEF EnsureCollection, Goto, Reconciling, pass
  <2>5. CASE DocsFail(t)
    BY ONLY t \in Threads, <1>0, <1>1, <2>5, DocsFailMoves DEF Reconciling, git
  <2>6. CASE Plan(t)
    BY <1>1, <2>6 DEF Plan, Goto
  <2>7. CASE Take(t)
    BY ONLY t \in Threads, <1>0, <1>1, <2>7, TakeMoves DEF Reconciling, git
  <2>8. CASE Clear(t)
    BY <1>1, <2>8 DEF Clear, Goto, Reconciling, pass
  <2>19. CASE Upsert(t)
    BY <1>1, <2>19 DEF Upsert, Goto, Reconciling, pass
  <2>9. CASE Record(t)
    BY <1>1, <2>9 DEF Record, Goto, Reconciling, pass
  <2>17. CASE SetCommit(t)
    BY <1>1, <2>17 DEF SetCommit, Done, Goto, Reconciling, pass
  <2>10. CASE Fails(t)
    BY ONLY t \in Threads, <1>0, <1>1, <2>10, FailsMoves DEF Reconciling, git
  <2>18. CASE ClearProgress(t)
    BY <1>1, <2>18 DEF ClearProgress, Goto, Reconciling, pass
  <2>11. CASE Return(t)
    BY <1>1, <2>11 DEF Return, Release, Goto, Reconciling
  <2>12. CASE Drop(t)
    <3>1. /\ pc' = [pc EXCEPT ![t] = "rmMirror"]
          /\ UNCHANGED <<git, repo, pass>>
      BY <2>12 DEF Drop, Goto
    <3> QED
      BY <1>1, <3>1 DEF Reconciling, pass
  <2>20. CASE RmDocs(t)
    <3>0. DocsGone(t)
      BY ONLY t \in Threads, <2>20, RmDocsMoves
    <3> QED
      BY <1>1, <2>20, <3>0 DEF DocsGone, Reconciling
  <2>14. CASE ForgetState(t)
    BY <1>1, <2>14 DEF ForgetState, Goto, Reconciling, pass
  <2>16. CASE DropRegistration(t)
    BY <1>1, <2>16 DEF DropRegistration, Goto, Reconciling, pass
  <2>21. CASE Begin(t)
    <3>0. Begun(t)
      BY ONLY t \in Threads, <2>21, BeginMoves
    <3> QED
      BY <1>1, <2>21, <3>0 DEF Begun, Reconciling
  <2>22. CASE AlreadyRunning(t)
    BY <1>W, <2>22, AlreadyRunningWaits
  <2> QED
    BY <1>2, <2>1, <2>2, <2>3, <2>4, <2>5, <2>6, <2>7, <2>8, <2>9, <2>10, <2>11, <2>12,
       <2>13, <2>14, <2>15, <2>16, <2>17, <2>18, <2>19, <2>20, <2>21, <2>22 DEF Step
<1>3. CASE NextRound
  BY <1>3 DEF NextRound, git, pass
<1>4. CASE NextInRound
  <2>1. CASE \E r \in Repos : Lookup(Sched, r, FALSE)
    BY <1>W, <1>4, <2>1, LookupWaits, RoundMoves
  <2>2. CASE UNCHANGED <<git, docCache, store, reg, state, held, progress, pc, repo, pass,
                         history, budget>>
    BY <2>2 DEF git, pass
  <2> QED
    BY <1>4, <2>1, <2>2, RoundMoves
<1>5. ASSUME NEW t \in Requests, Reindex(t) PROVE Aimed'
  BY <1>W, <1>5, LookupWaits DEF Reindex, Threads
<1>6. ASSUME NEW t \in Threads, NEW r \in Repos, Deregister(t, r) PROVE Aimed'
  BY <1>1, <1>6 DEF Deregister, Goto, Reconciling, pass
<1>7. ASSUME NEW r \in Repos, Register(r) PROVE Aimed'
  BY <1>7 DEF Register, git, pass
<1>8. ASSUME NEW r \in Repos, Push(r) PROVE Aimed'
  <2>1. PICK c \in Tree : commits' = [commits EXCEPT ![r] = Append(@, c)]
    <3>1. PICK p \in Paths, b \in Blobs \cup {NoBlob} :
            commits' = [commits EXCEPT ![r] = Append(@, [commits[r][Len(commits[r])] EXCEPT ![p] = b])]
      BY <1>8 DEF Push
    <3>2. [commits[r][Len(commits[r])] EXCEPT ![p] = b] \in Tree
      BY DEF Tree
    <3> QED
      BY <3>1, <3>2
  <2>2. \A s \in Repos : Len(commits'[s]) = Len(commits[s]) \/ (s = r /\ Len(commits'[s]) = Len(commits[s]) + 1)
    BY <2>1
  <2>3. \A s \in Repos : commits'[s] # <<>> /\ Len(commits'[s]) <= MaxCommits
    BY <1>8, <2>1, <2>2, IndexerAssumption DEF Push
  <2>4. \A s \in Repos : mirror'[s] <= Len(commits'[s])
    BY <1>8, <2>2, IndexerAssumption DEF Push, Commit
  <2>5. \A t \in Threads : pc'[t] \in Reconciling => tip'[t] \in 1..Len(commits'[repo'[t]])
    BY <1>8, <2>2 DEF Push, pass
  <2> QED
    BY <2>3, <2>4, <2>5
<1>9. CASE Crash
  BY <1>9 DEF Crash, Reconciling
<1>10. CASE UNCHANGED vars
  BY <1>10 DEF vars, git, pass
<1> QED
  BY <1>2, <1>3, <1>4, <1>5, <1>6, <1>7, <1>8, <1>9, <1>10 DEF Next, Threads

(* Types and aims hold in every behaviour.                                 *)
THEOREM TypeInvariance == Spec => [](TypeOK /\ Aimed)
<1> QED
  BY InitType, StepType, StepAimed, PTL DEF Spec

(* Every variable keeps its type (the stores and files of service.py,      *)
(* state.py, lock/__init__.py and qdrant.py).                              *)
THEOREM TypeCorrect == Spec => []TypeOK
<1> QED
  BY TypeInvariance, PTL

-----------------------------------------------------------------------------
(* The lock.                                                               *)

(* Nobody is inside at the start.                                          *)
THEOREM InitLocked == Init => Locked /\ Shown
  BY Chosen DEF Init, Locked, Shown, Inside, Working, NoProgress

(* A step inside keeps the name and the progress of its repository; only   *)
(* Begin takes a name, which was free, and only Return gives one back      *)
(* (lock/__init__.py, service.py:82-103).                                  *)
LEMMA StepLocked == TypeOK /\ Locked /\ Shown /\ [Next]_vars => Locked' /\ Shown'
<1> SUFFICES ASSUME TypeOK, Locked, Shown, [Next]_vars PROVE Locked' /\ Shown'
  OBVIOUS
<1> USE DEF TypeOK
<1>0. /\ pc \in [Threads -> Inside \cup Removing \cup {"idle", "acquire", "deregister"}]
      /\ repo \in [Threads -> Repos]
  OBVIOUS
<1>1. ASSUME NEW t \in Threads, NEW q \in Working, pc[t] \in Working,
             pc' = [pc EXCEPT ![t] = q], UNCHANGED <<held, repo>>,
             \A r \in Repos \ {repo[t]} : progress'[r] = progress[r],
             progress'[repo[t]].phase # "none"
      PROVE  Locked' /\ Shown'
  <2>1. Working \subseteq Inside
    BY DEF Inside
  <2>2. Locked'
    BY <1>1, <2>1 DEF Locked
  <2>3. Shown'
    BY <1>1, <2>1 DEF Locked, Shown
  <2> QED
    BY <2>2, <2>3
<1>2. ASSUME NEW t \in Threads, pc[t] \notin Inside, pc'[t] \notin Inside,
             \A u \in Threads \ {t} : pc'[u] = pc[u] /\ repo'[u] = repo[u],
             UNCHANGED <<held, progress>>
      PROVE  Locked' /\ Shown'
  <2>1. Working \subseteq Inside
    BY DEF Inside
  <2>2. \A u \in Threads : pc[u] \in Inside <=> pc'[u] \in Inside
    BY <1>2
  <2>3. \A u \in Threads : pc[u] \in Inside => pc'[u] = pc[u] /\ repo'[u] = repo[u]
    BY <1>2
  <2>4. Locked'
    <3>1. \A u \in Threads : pc'[u] \in Inside => repo'[u] \in held'
      BY <1>2, <2>2, <2>3 DEF Locked
    <3>2. \A r \in held' : \E u \in Threads : pc'[u] \in Inside /\ repo'[u] = r
      <4> SUFFICES ASSUME NEW r \in held' PROVE \E u \in Threads : pc'[u] \in Inside /\ repo'[u] = r
        OBVIOUS
      <4>1. PICK u \in Threads : pc[u] \in Inside /\ repo[u] = r
        BY <1>2 DEF Locked
      <4> QED
        BY <2>2, <2>3, <4>1
    <3>3. \A u, v \in Threads :
            pc'[u] \in Inside /\ pc'[v] \in Inside /\ repo'[u] = repo'[v] => u = v
      BY <2>2, <2>3 DEF Locked
    <3> QED
      BY <3>1, <3>2, <3>3 DEF Locked
  <2>5. Shown'
    <3>1. \A u \in Threads : pc[u] \in Working <=> pc'[u] \in Working
      BY <1>2, <2>1
    <3>2. \A u \in Threads : pc[u] \in Working => repo'[u] = repo[u]
      BY <2>1, <2>3
    <3>3. UNCHANGED progress
      BY <1>2
    <3>4. \A u \in Threads : pc[u] \in Working => progress[repo[u]].phase # "none"
      BY DEF Shown
    <3>5. \A u \in Threads : pc'[u] \in Working => progress'[repo'[u]].phase # "none"
      BY ONLY <3>1, <3>2, <3>3, <3>4
    <3>6. ASSUME NEW r \in Repos, progress'[r].phase # "none"
          PROVE  \E u \in Threads : pc'[u] \in Working /\ repo'[u] = r
      <4>1. PICK u \in Threads : pc[u] \in Working /\ repo[u] = r
        BY <3>3, <3>6 DEF Shown
      <4> QED
        BY ONLY <3>1, <3>2, <4>1
    <3> QED
      BY ONLY <3>5, <3>6 DEF Shown
  <2> QED
    BY <2>4, <2>5
<1>W. ASSUME NEW t \in Threads, Waits(t) PROVE Locked' /\ Shown'
  BY ONLY t \in Threads, <1>0, <1>2, <1>W DEF Waits, Inside, Working
<1>3. ASSUME NEW t \in Threads, Step(t) PROVE Locked' /\ Shown'
  <2>0. pc[t] \in Working => progress[repo[t]].phase # "none"
    BY DEF Shown
  <2>1. CASE Ensure(t)
    BY <1>1, <2>1 DEF Shown, Ensure, At, Goto, Working
  <2>2. CASE Docs(t)
    BY ONLY t \in Threads, <1>0, <1>1, <2>0, <2>2, DocsMoves DEF Working
  <2>3. CASE ClearDocs(t)
    BY <1>1, <2>3 DEF Shown, ClearDocs, Goto, Working
  <2>4. CASE StoreDocs(t)
    BY <1>1, <2>4 DEF Shown, StoreDocs, Goto, Working
  <2>5. CASE DocsFail(t)
    BY ONLY t \in Threads, <1>0, <1>1, <2>0, <2>5, DocsFailMoves DEF Working
  <2>6. CASE EnsureCollection(t)
    BY <1>1, <2>6 DEF Shown, EnsureCollection, Goto, Working
  <2>7. CASE Plan(t)
    <3>1. /\ pc[t] = "plan" /\ pc' = [pc EXCEPT ![t] = "loop"] /\ UNCHANGED <<held, repo>>
          /\ \A r \in Repos \ {repo[t]} : progress'[r] = progress[r]
          /\ progress'[repo[t]].phase = "embedding"
      BY <2>7 DEF Plan, At, Goto
    <3> QED
      BY ONLY t \in Threads, <1>0, <1>1, <3>1 DEF Working
  <2>8. CASE Take(t)
    <3>1. /\ pc[t] = "loop"
          /\ pc' = pc \/ pc' = [pc EXCEPT ![t] = "clear"]
          /\ UNCHANGED <<held, repo>>
      BY <2>8, TakeMoves
    <3>2. /\ \A r \in Repos \ {repo[t]} : progress'[r] = progress[r]
          /\ progress'[repo[t]].phase = progress[repo[t]].phase
      BY <2>8 DEF Take
    <3> QED
      BY ONLY t \in Threads, <1>0, <1>1, <2>0, <3>1, <3>2 DEF Working
  <2>9. CASE Clear(t)
    BY <1>1, <2>9 DEF Shown, Clear, Goto, Working
  <2>10. CASE Upsert(t)
    BY <1>1, <2>10 DEF Shown, Upsert, Goto, Working
  <2>11. CASE Record(t)
    BY <1>1, <2>11 DEF Shown, Record, Goto, Working
  <2>12. CASE SetCommit(t)
    BY <1>1, <2>12 DEF Shown, SetCommit, Done, Goto, Working
  <2>13. CASE Fails(t)
    BY ONLY t \in Threads, <1>0, <1>1, <2>0, <2>13, FailsMoves DEF Working
  <2>14. CASE ClearProgress(t)
    <3>1. pc[t] = "finally" /\ pc' = [pc EXCEPT ![t] = "release"] /\ UNCHANGED <<held, repo>>
      BY <2>14 DEF ClearProgress, Goto
    <3>2. \A u \in Threads : pc[u] \in Inside <=> pc'[u] \in Inside
      BY <3>1 DEF Inside, Working
    <3>3. Locked'
      BY <3>1, <3>2 DEF Locked
    <3>4. Shown'
      BY <2>14, <3>1 DEF Locked, Shown, ClearProgress, NoProgress, Inside, Working
    <3> QED
      BY <3>3, <3>4
  <2>15. CASE Return(t)
    <3>1. /\ pc[t] = "release" /\ pc' = [pc EXCEPT ![t] = "idle"]
          /\ held' = held \ {repo[t]} /\ repo' = [repo EXCEPT ![t] = AnyRepo]
          /\ UNCHANGED progress
      BY <2>15 DEF Return, Release, Goto
    <3>2. \A u \in Threads : pc'[u] \in Inside <=> pc[u] \in Inside /\ u # t
      BY <3>1 DEF Inside, Working
    <3>3. Locked'
      BY <3>1, <3>2 DEF Locked, Inside
    <3>4. \A u \in Threads : pc'[u] \in Working <=> pc[u] \in Working
      BY <3>1 DEF Working
    <3>5. \A u \in Threads : pc[u] \in Working => repo'[u] = repo[u]
      BY <3>1 DEF Working
    <3>6. Shown'
      BY <3>1, <3>4, <3>5 DEF Shown
    <3> QED
      BY <3>3, <3>6
  <2>16. CASE Drop(t)
    BY <1>2, <2>16 DEF Drop, Goto, Inside, Working
  <2>17. CASE RmMirror(t)
    <3>0. MirrorGone(t)
      BY ONLY t \in Threads, <2>17, RmMirrorMoves
    <3> QED
      BY <1>2, <2>17, <3>0 DEF MirrorGone, Inside, Working
  <2>18. CASE RmDocs(t)
    <3>0. DocsGone(t)
      BY ONLY t \in Threads, <2>18, RmDocsMoves
    <3> QED
      BY <1>2, <2>18, <3>0 DEF DocsGone, Inside, Working
  <2>19. CASE ForgetState(t)
    BY <1>2, <2>19 DEF ForgetState, Goto, Inside, Working
  <2>20. CASE DropRegistration(t)
    BY <1>2, <2>20 DEF DropRegistration, Goto, Inside, Working
  <2>21. CASE Begin(t)
    <3>0. Begun(t)
      BY ONLY t \in Threads, <2>21, BeginMoves
    <3> DEFINE r == repo[t]
    <3>1. /\ pc[t] = "acquire" /\ pc' = [pc EXCEPT ![t] = "ensure"]
          /\ r \notin held /\ held' = held \cup {r} /\ repo' = repo
          /\ progress' = [progress EXCEPT ![r] = At("cloning")]
      BY <2>21, <3>0 DEF Begun
    <3>2. \A u \in Threads : pc'[u] \in Inside <=> pc[u] \in Inside \/ u = t
      BY <3>1 DEF Inside, Working
    <3>3. Locked'
      BY <3>1, <3>2 DEF Locked, Inside, Working
    <3>4. Shown'
      <4>1. \A u \in Threads : pc[u] \in Working => u # t /\ repo[u] # r
        BY <3>1 DEF Locked, Inside, Working
      <4>2. \A u \in Threads : pc'[u] \in Working => progress'[repo'[u]].phase # "none"
        BY <3>1, <4>1 DEF Shown, At
      <4>3. ASSUME NEW s \in Repos, progress'[s].phase # "none"
            PROVE  \E u \in Threads : pc'[u] \in Working /\ repo'[u] = s
        <5>1. CASE s = r
          BY <3>1, <5>1 DEF Working
        <5>2. CASE s # r
          BY <3>1, <4>1, <4>3, <5>2 DEF Shown
        <5> QED
          BY <5>1, <5>2
      <4> QED
        BY <4>2, <4>3 DEF Shown
    <3> QED
      BY <3>3, <3>4
  <2>22. CASE AlreadyRunning(t)
    BY <1>W, <2>22, AlreadyRunningWaits
  <2> QED
    BY <1>3, <2>1, <2>2, <2>3, <2>4, <2>5, <2>6, <2>7, <2>8, <2>9, <2>10, <2>11, <2>12,
       <2>13, <2>14, <2>15, <2>16, <2>17, <2>18, <2>19, <2>20, <2>21, <2>22 DEF Step
<1>4. CASE NextRound
  BY <1>4 DEF NextRound, Locked, Shown
<1>5. CASE NextInRound
  <2>1. CASE \E r \in Repos : Lookup(Sched, r, FALSE)
    BY <1>W, <1>5, <2>1, LookupWaits, RoundMoves
  <2>2. CASE UNCHANGED <<git, docCache, store, reg, state, held, progress, pc, repo, pass,
                         history, budget>>
    BY <2>2 DEF Locked, Shown
  <2> QED
    BY <1>5, <2>1, <2>2, RoundMoves
<1>6. ASSUME NEW t \in Requests, Reindex(t) PROVE Locked' /\ Shown'
  BY <1>W, <1>6, LookupWaits DEF Reindex, Threads
<1>7. ASSUME NEW t \in Threads, NEW r \in Repos, Deregister(t, r) PROVE Locked' /\ Shown'
  BY <1>2, <1>7 DEF Deregister, Goto, Inside, Working
<1>8. ASSUME NEW r \in Repos, Register(r) \/ Push(r) PROVE Locked' /\ Shown'
  BY <1>8 DEF Register, Push, Locked, Shown
<1>9. CASE Crash
  BY <1>9 DEF Crash, NoProgress, Inside, Working, Locked, Shown
<1>10. CASE UNCHANGED vars
  BY <1>10 DEF vars, Locked, Shown
<1> QED
  BY <1>3, <1>4, <1>5, <1>6, <1>7, <1>8, <1>9, <1>10 DEF Next, Threads

-----------------------------------------------------------------------------
(* The count of a pass: what it has processed and what is ahead of it.     *)

(* What is ahead of a pass can be counted.                                 *)
LEMMA AheadFinite ==
  ASSUME TypeOK, NEW t \in Threads
  PROVE  IsFiniteSet(Ahead(t)) /\ Cardinality(Ahead(t)) \in Nat
<1>1. Ahead(t) \subseteq Paths
  BY DEF TypeOK, Ahead
<1> QED
  BY <1>1, IndexerAssumption, FS_Subset, FS_CardinalityType

(* Nothing is counted at the start.                                        *)
THEOREM InitCounted == Init => Counted
  BY DEF Init, Counted, NoProgress, Reconciling

(* Taking a path counts it exactly if it was ahead; the lock keeps every   *)
(* other pass from the progress of this repository                         *)
(* (pipeline/indexer.py:145-160).                                          *)
LEMMA StepCounted ==
  TypeOK /\ Aimed /\ Locked /\ Counted /\ [Next]_vars => Counted'
<1> SUFFICES ASSUME TypeOK, Aimed, Locked, Counted, [Next]_vars PROVE Counted'
  OBVIOUS
<1> USE DEF TypeOK
<1> DEFINE Keeps(t) == /\ pc'[t] \in Reconciling => pc[t] \in Reconciling
                       /\ UNCHANGED <<repo[t], todo[t], tip[t]>>
                       /\ pc[t] \in Reconciling => progress'[repo[t]] = progress[repo[t]]
<1>0. /\ pc \in [Threads -> Inside \cup Removing \cup {"idle", "acquire", "deregister"}]
      /\ repo \in [Threads -> Repos] /\ tip \in [Threads -> Commit]
      /\ cur \in [Threads -> Paths]
  OBVIOUS
<1>1. ASSUME \A t \in Threads : pc'[t] \in Reconciling => Keeps(t),
             \A r \in Repos : \A n \in 1..Len(commits[r]) : commits'[r][n] = commits[r][n],
             \A r \in Repos : progress'[r].processed <= progress'[r].total
      PROVE  Counted'
  <2> SUFFICES ASSUME NEW t \in Threads, pc'[t] \in Reconciling
               PROVE  progress'[repo'[t]].processed + Cardinality(Ahead(t)') = progress'[repo'[t]].total
    BY <1>1 DEF Counted
  <2>1. pc[t] \in Reconciling /\ Keeps(t)
    BY <1>1
  <2>2. Want(t)' = Want(t)
    BY <1>1, <2>1 DEF Want, Aimed
  <2>3. Ahead(t)' = Ahead(t)
    BY <2>1, <2>2 DEF Ahead
  <2> QED
    BY <2>1, <2>3 DEF Counted
<1>2. ASSUME NEW t \in Threads, UNCHANGED <<commits, progress>>,
             pc'[t] \notin Reconciling \/ Keeps(t),
             \A u \in Threads \ {t} : UNCHANGED <<pc[u], repo[u], todo[u], tip[u]>>
      PROVE  Counted'
  BY <1>1, <1>2 DEF Counted
<1>3. ASSUME NEW t \in Threads, NEW r \in Repos, NEW q, UNCHANGED commits,
             progress' = [progress EXCEPT ![r] = q], q.processed <= q.total,
             pc'[t] \notin Reconciling,
             \A u \in Threads \ {t} : UNCHANGED <<pc[u], repo[u], todo[u], tip[u]>>,
             \A u \in Threads \ {t} : pc[u] \in Reconciling => repo[u] # r
      PROVE  Counted'
  BY <1>1, <1>3 DEF Counted
<1>4. ASSUME NEW t \in Threads, pc[t] \in Inside
      PROVE  \A u \in Threads \ {t} : pc[u] \in Reconciling => repo[u] # repo[t]
  <2>1. Reconciling \subseteq Inside
    BY DEF Inside, Working, Reconciling
  <2> QED
    BY <1>4, <2>1 DEF Locked
<1>W. ASSUME NEW t \in Threads, Waits(t) PROVE Counted'
  BY ONLY t \in Threads, <1>0, <1>2, <1>W DEF Waits, Reconciling
<1>5. ASSUME NEW t \in Threads, Step(t) PROVE Counted'
  <2>1. CASE Ensure(t)
    <3>1. pc[t] \in Inside
      BY <2>1 DEF Ensure, Inside, Working
    <3>2. /\ progress' = [progress EXCEPT ![repo[t]] = At("docs")]
          /\ pc' = [pc EXCEPT ![t] = "docs"] /\ UNCHANGED <<commits, repo, todo, tip>>
      BY <2>1 DEF Ensure, Goto, pass
    <3>3. At("docs").processed <= At("docs").total
      BY DEF At
    <3>4. pc'[t] \notin Reconciling
      BY <3>2 DEF Reconciling
    <3> QED
      BY <1>3, <1>4, <3>1, <3>2, <3>3, <3>4
  <2>2. CASE Docs(t)
    BY ONLY t \in Threads, <1>0, <1>2, <2>2, DocsMoves DEF Reconciling
  <2>3. CASE ClearDocs(t)
    BY <1>2, <2>3 DEF ClearDocs, Goto, git, pass, Reconciling
  <2>4. CASE StoreDocs(t)
    BY <1>2, <2>4 DEF StoreDocs, Goto, git, pass, Reconciling
  <2>5. CASE DocsFail(t)
    BY ONLY t \in Threads, <1>0, <1>2, <2>5, DocsFailMoves DEF Reconciling
  <2>6. CASE EnsureCollection(t)
    BY <1>2, <2>6 DEF EnsureCollection, Goto, git, pass, Reconciling
  <2>7. CASE Plan(t)
    <3> DEFINE r == repo[t]
               desired == {p \in Paths : commits[r][mirror[r]][p] # NoBlob}
    <3>1. /\ pc[t] = "plan" /\ pc' = [pc EXCEPT ![t] = "loop"]
          /\ progress' = [progress EXCEPT ![r] =
                            [At("embedding") EXCEPT !.total = Cardinality(desired)]]
          /\ UNCHANGED <<commits, repo>>
          /\ \A u \in Threads \ {t} : UNCHANGED <<pc[u], todo[u], tip[u]>>
      BY <2>7 DEF Plan, Goto, git
    <3>2. Want(t)' = commits[r][mirror[r]]
      BY <2>7 DEF Plan, Want, git
    <3>3. Ahead(t)' = desired
      BY <2>7, <3>2 DEF Plan, Ahead, Gone
    <3>4. Cardinality(desired) \in Nat
      BY IndexerAssumption, FS_Subset, FS_CardinalityType
    <3>5. /\ progress'[r].processed = 0 /\ progress'[r].total = Cardinality(desired)
          /\ \A s \in Repos \ {r} : progress'[s] = progress[s]
      BY <3>1 DEF At
    <3>6. \A s \in Repos : progress'[s].processed <= progress'[s].total
      <4>1. progress'[r].processed <= progress'[r].total
        BY <3>4, <3>5
      <4> QED
        BY <3>5, <4>1 DEF Counted
    <3>7. ASSUME NEW u \in Threads \ {t}, pc'[u] \in Reconciling
          PROVE  progress'[repo'[u]].processed + Cardinality(Ahead(u)') = progress'[repo'[u]].total
      <4>3. pc[t] \in Inside /\ pc[u] \in Reconciling
        BY <3>1, <3>7 DEF Inside, Working
      <4>1. pc[u] \in Reconciling /\ repo[u] # r
        BY <1>4, <4>3
      <4>2. Ahead(u)' = Ahead(u)
        BY <3>1 DEF Ahead, Want
      <4>4. repo[u] \in Repos /\ repo'[u] = repo[u]
        BY <3>1
      <4>5. progress'[repo'[u]] = progress[repo[u]]
        BY ONLY <3>5, <4>1, <4>4
      <4>6. progress[repo[u]].processed + Cardinality(Ahead(u)) = progress[repo[u]].total
        BY ONLY u \in Threads, <4>1, Counted DEF Counted
      <4> QED
        BY ONLY <4>2, <4>5, <4>6
    <3>8. progress'[repo'[t]].processed + Cardinality(Ahead(t)') = progress'[repo'[t]].total
      <4>1. repo'[t] = r
        BY <3>1
      <4> HIDE DEF desired
      <4> QED
        BY ONLY <3>3, <3>4, <3>5, <4>1
    <3> QED
      BY <3>6, <3>7, <3>8 DEF Counted
  <2>8. CASE Take(t)
    <3> DEFINE r == repo[t]
    <3>1. PICK p \in todo[t] :
            /\ pc[t] = "loop" /\ todo' = [todo EXCEPT ![t] = @ \ {p}]
            /\ progress' = IF Want(t)[p] = NoBlob THEN progress
                           ELSE [progress EXCEPT ![r].processed = @ + 1]
            /\ UNCHANGED <<commits, repo, tip>>
            /\ \A u \in Threads \ {t} : pc'[u] = pc[u]
      BY <2>8 DEF Take, Goto, git
    <3>2. Want(t)' = Want(t)
      BY <3>1 DEF Want
    <3>3. Ahead(t)' = Ahead(t) \ {p}
      BY <3>1, <3>2 DEF Ahead
    <3>4. IsFiniteSet(Ahead(t)) /\ Cardinality(Ahead(t)) \in Nat
      BY AheadFinite
    <3>5. progress[r].processed + Cardinality(Ahead(t)) = progress[r].total
      BY <3>1 DEF Counted, Reconciling
    <3>6. /\ progress'[r].processed + Cardinality(Ahead(t)') = progress'[r].total
          /\ progress'[r].processed <= progress'[r].total
      <4>1. CASE Want(t)[p] = NoBlob
        <5>1. Ahead(t)' = Ahead(t)
          BY <3>3, <4>1 DEF Ahead
        <5> QED
          BY <3>1, <3>4, <3>5, <4>1, <5>1
      <4>2. CASE Want(t)[p] # NoBlob
        <5>1. Cardinality(Ahead(t)') = Cardinality(Ahead(t)) - 1 /\ Cardinality(Ahead(t)) > 0
          <6>1. p \in Ahead(t)
            BY <4>2 DEF Ahead
          <6>2. Cardinality(Ahead(t)) # 0
            BY <3>4, <6>1, FS_EmptySet
          <6> QED
            <7>1. Cardinality(Ahead(t) \ {p}) = Cardinality(Ahead(t)) - 1
              BY <3>4, <6>1, FS_RemoveElement
            <7> QED
              BY <3>3, <3>4, <6>2, <7>1
        <5>2. /\ progress'[r].processed = progress[r].processed + 1
              /\ progress'[r].total = progress[r].total
          BY <3>1, <4>2
        <5> QED
          BY <3>4, <3>5, <5>1, <5>2
      <4> QED
        BY <4>1, <4>2
    <3>7. \A s \in Repos \ {r} : progress'[s] = progress[s]
      BY <3>1
    <3>8. \A s \in Repos : progress'[s].processed <= progress'[s].total
      BY <3>6, <3>7 DEF Counted
    <3>9. ASSUME NEW u \in Threads \ {t}, pc'[u] \in Reconciling
          PROVE  progress'[repo'[u]].processed + Cardinality(Ahead(u)') = progress'[repo'[u]].total
      <4>1. pc[u] \in Reconciling /\ repo[u] # r
        BY <1>4, <3>1, <3>9 DEF Inside, Working
      <4>2. Ahead(u)' = Ahead(u)
        BY <3>1 DEF Ahead, Want
      <4> QED
        BY <3>1, <3>7, <4>1, <4>2 DEF Counted
    <3> QED
      BY <3>1, <3>6, <3>8, <3>9 DEF Counted
  <2>9. CASE Clear(t)
    BY <1>2, <2>9 DEF Clear, Goto, git, pass, Reconciling
  <2>10. CASE Upsert(t)
    BY <1>2, <2>10 DEF Upsert, Goto, git, pass, Reconciling
  <2>11. CASE Record(t)
    BY <1>2, <2>11 DEF Record, Goto, git, pass, Reconciling
  <2>12. CASE SetCommit(t)
    BY <1>2, <2>12 DEF SetCommit, Done, Goto, git, pass, Reconciling
  <2>13. CASE Fails(t)
    BY ONLY t \in Threads, <1>0, <1>2, <2>13, FailsMoves DEF Reconciling
  <2>14. CASE ClearProgress(t)
    <3>1. pc[t] \in Inside
      BY <2>14 DEF ClearProgress, Inside, Working
    <3>2. /\ progress' = [progress EXCEPT ![repo[t]] = NoProgress]
          /\ pc' = [pc EXCEPT ![t] = "release"] /\ UNCHANGED <<commits, repo, todo, tip>>
      BY <2>14 DEF ClearProgress, Goto, git, pass
    <3>3. NoProgress.processed <= NoProgress.total
      BY DEF NoProgress
    <3>4. pc'[t] \notin Reconciling
      BY <3>2 DEF Reconciling
    <3> QED
      BY <1>3, <1>4, <3>1, <3>2, <3>3, <3>4
  <2>15. CASE Return(t)
    BY <1>2, <2>15 DEF Return, Release, Goto, git, Reconciling
  <2>16. CASE Drop(t)
    BY <1>2, <2>16 DEF Drop, Goto, git, pass, Reconciling
  <2>17. CASE RmMirror(t)
    <3>0. MirrorGone(t)
      BY ONLY t \in Threads, <2>17, RmMirrorMoves
    <3> QED
      BY <1>2, <2>17, <3>0 DEF MirrorGone, Reconciling
  <2>18. CASE RmDocs(t)
    <3>0. DocsGone(t)
      BY ONLY t \in Threads, <2>18, RmDocsMoves
    <3> QED
      BY <1>2, <2>18, <3>0 DEF DocsGone, git, Reconciling
  <2>19. CASE ForgetState(t)
    BY <1>2, <2>19 DEF ForgetState, Goto, git, pass, Reconciling
  <2>20. CASE DropRegistration(t)
    BY <1>2, <2>20 DEF DropRegistration, Goto, git, pass, Reconciling
  <2>21. CASE Begin(t)
    <3>0. Begun(t)
      BY ONLY t \in Threads, <2>21, BeginMoves
    <3>1. \A u \in Threads \ {t} : pc[u] \in Reconciling => repo[u] # repo[t]
      BY <2>21, <3>0 DEF Begun, Locked, Inside, Working, Reconciling
    <3>2. /\ progress' = [progress EXCEPT ![repo[t]] = At("cloning")]
          /\ pc' = [pc EXCEPT ![t] = "ensure"] /\ UNCHANGED <<commits, repo, todo, tip>>
      BY <2>21, <3>0 DEF Begun, git
    <3>3. At("cloning").processed <= At("cloning").total
      BY DEF At
    <3>4. /\ pc'[t] \notin Reconciling
          /\ \A u \in Threads \ {t} : UNCHANGED <<pc[u], repo[u], todo[u], tip[u]>>
      BY <3>2 DEF Reconciling
    <3> QED
      BY <1>3, <3>1, <3>2, <3>3, <3>4
  <2>22. CASE AlreadyRunning(t)
    BY <1>W, <2>22, AlreadyRunningWaits
  <2> QED
    BY <1>5, <2>1, <2>2, <2>3, <2>4, <2>5, <2>6, <2>7, <2>8, <2>9, <2>10, <2>11, <2>12,
       <2>13, <2>14, <2>15, <2>16, <2>17, <2>18, <2>19, <2>20, <2>21, <2>22 DEF Step
<1>6. CASE NextRound
  BY <1>6 DEF NextRound, Counted, Ahead, Want, git, pass
<1>7. CASE NextInRound
  <2>1. CASE \E r \in Repos : Lookup(Sched, r, FALSE)
    BY <1>W, <1>7, <2>1, LookupWaits, RoundMoves
  <2>2. CASE UNCHANGED <<git, docCache, store, reg, state, held, progress, pc, repo, pass,
                         history, budget>>
    BY <2>2 DEF Counted, Ahead, Want, git, pass
  <2> QED
    BY <1>7, <2>1, <2>2, RoundMoves
<1>8. ASSUME NEW t \in Requests, Reindex(t) PROVE Counted'
  BY <1>W, <1>8, LookupWaits DEF Reindex, Threads
<1>9. ASSUME NEW t \in Threads, NEW r \in Repos, Deregister(t, r) PROVE Counted'
  BY <1>2, <1>9 DEF Deregister, Goto, git, pass, Reconciling
<1>10. ASSUME NEW r \in Repos, Register(r) PROVE Counted'
  BY <1>10 DEF Register, Counted, Ahead, Want, git, pass
<1>11. ASSUME NEW r \in Repos, Push(r) PROVE Counted'
  <2>1. \A s \in Repos : \A n \in 1..Len(commits[s]) : commits'[s][n] = commits[s][n]
    BY <1>11 DEF Push
  <2> QED
    BY <1>1, <1>11, <2>1 DEF Push, Counted, pass
<1>12. CASE Crash
  BY <1>12 DEF Crash, Counted, NoProgress, Reconciling
<1>13. CASE UNCHANGED vars
  BY <1>13 DEF vars, Counted, Ahead, Want, git, pass
<1> QED
  BY <1>5, <1>6, <1>7, <1>8, <1>9, <1>10, <1>11, <1>12, <1>13 DEF Next, Threads

(* The lock, the progress shown and the count, in every behaviour.         *)
THEOREM LockInvariance == Spec => [](Locked /\ Shown /\ Counted)
<1>1. Init => Locked /\ Shown /\ Counted
  BY InitLocked, InitCounted
<1>2. TypeOK /\ Aimed /\ (Locked /\ Shown /\ Counted) /\ [Next]_vars
        => (Locked /\ Shown /\ Counted)'
  BY StepLocked, StepCounted
<1> QED
  BY <1>1, <1>2, TypeInvariance, PTL DEF Spec

(* A collection has one writer, and a status tells what it does.           *)
THEOREM OneWriter == Spec => []OnePassAtATime
<1>1. TypeOK /\ Locked /\ Shown /\ Counted => OnePassAtATime
  <2> SUFFICES ASSUME TypeOK, Locked, Shown, Counted, NEW r \in Repos
               PROVE  /\ r \in held <=> \E t \in Threads : InPass(t, r)
                      /\ \A t, u \in Threads : InPass(t, r) /\ InPass(u, r) => t = u
                      /\ Status(r).phase # "none" <=>
                           \E t \in Threads : InPass(t, r) /\ pc[t] \in Working
                      /\ Status(r).part[1] <= Status(r).part[2]
    BY DEF OnePassAtATime
  <2>1. r \in held <=> \E t \in Threads : InPass(t, r)
    BY DEF Locked, InPass
  <2>2. \A t, u \in Threads : InPass(t, r) /\ InPass(u, r) => t = u
    BY DEF Locked, InPass
  <2>3. Status(r).phase # "none" <=> \E t \in Threads : InPass(t, r) /\ pc[t] \in Working
    BY DEF Shown, Status, InPass, Inside
  <2>4. Status(r).part[1] <= Status(r).part[2]
    BY DEF Counted, Status
  <2> QED
    BY <2>1, <2>2, <2>3, <2>4
<1> QED
  BY <1>1, TypeInvariance, LockInvariance, PTL

-----------------------------------------------------------------------------
(* The recorded commit.                                                    *)

(* No commit is recorded at the start.                                     *)
THEOREM InitForward == Init => Forward
  BY DEF Init, Forward, Reconciling

(* The mirror only moves forward or away, and a pass that reconciles is    *)
(* alone with it but for removals.                                         *)
LEMMA StepForward ==
  TypeOK /\ Aimed /\ Locked /\ Forward /\ [Next]_vars => Forward'
<1> SUFFICES ASSUME TypeOK, Aimed, Locked, Forward, [Next]_vars PROVE Forward'
  OBVIOUS
<1> USE DEF TypeOK
<1>0. /\ pc \in [Threads -> Inside \cup Removing \cup {"idle", "acquire", "deregister"}]
      /\ repo \in [Threads -> Repos] /\ tip \in [Threads -> Commit]
      /\ cur \in [Threads -> Paths]
  OBVIOUS
<1>1. ASSUME UNCHANGED <<git, stCommit>>, NEW t \in Threads,
             \/ pc'[t] \notin Reconciling
             \/ pc[t] \in Reconciling /\ UNCHANGED <<repo[t], tip[t]>>,
             \A u \in Threads \ {t} : UNCHANGED <<pc[u], repo[u], tip[u]>>
      PROVE  Forward'
  BY <1>1 DEF Forward, git
<1>2. \A r \in Repos : Len(commits[r]) \in Nat /\ mirror[r] \in Nat /\ stCommit[r] \in Nat
  BY IndexerAssumption DEF Commit
<1>3. \A t, u \in Threads : pc[t] \in Inside /\ pc[u] \in Reconciling /\ repo[t] = repo[u] => t = u
  <2>1. Reconciling \subseteq Inside
    BY DEF Inside, Working, Reconciling
  <2> QED
    BY <2>1 DEF Locked
<1>W. ASSUME NEW t \in Threads, Waits(t) PROVE Forward'
  BY ONLY t \in Threads, <1>0, <1>1, <1>W DEF Waits, Reconciling, git
<1>4. ASSUME NEW t \in Threads, Step(t) PROVE Forward'
  <2>1. CASE Ensure(t)
    <3>1. /\ pc[t] \in Inside /\ pc'[t] \notin Reconciling
          /\ mirror' = [mirror EXCEPT ![repo[t]] = Len(commits[repo[t]])]
          /\ \A u \in Threads \ {t} : pc'[u] = pc[u]
          /\ UNCHANGED <<commits, stCommit, repo, tip>>
      BY <2>1 DEF Ensure, Fetched, Goto, state, pass, Inside, Working, Reconciling
    <3>2. \A r \in Repos : mirror'[r] # 0 => stCommit'[r] <= mirror'[r]
      BY <1>2, <3>1 DEF Forward
    <3>3. \A u \in Threads \ {t} : pc[u] \in Reconciling => repo[u] # repo[t]
      BY <1>3, <3>1
    <3> QED
      BY <3>1, <3>2, <3>3 DEF Forward
  <2>2. CASE Docs(t)
    BY ONLY t \in Threads, <1>0, <1>1, <2>2, DocsMoves DEF git, Reconciling
  <2>3. CASE ClearDocs(t)
    BY <1>1, <2>3 DEF ClearDocs, Goto, state, pass, Reconciling
  <2>4. CASE StoreDocs(t)
    BY <1>1, <2>4 DEF StoreDocs, Goto, state, pass, Reconciling
  <2>5. CASE DocsFail(t)
    BY ONLY t \in Threads, <1>0, <1>1, <2>5, DocsFailMoves DEF git, Reconciling
  <2>6. CASE EnsureCollection(t)
    BY <1>1, <2>6 DEF EnsureCollection, Goto, state, pass, Reconciling
  <2>7. CASE Plan(t)
    BY <2>7 DEF Plan, Goto, git, state, Forward
  <2>8. CASE Take(t)
    BY ONLY t \in Threads, <1>0, <1>1, <2>8, TakeMoves DEF git, Reconciling
  <2>9. CASE Clear(t)
    BY <1>1, <2>9 DEF Clear, Goto, state, pass, Reconciling
  <2>10. CASE Upsert(t)
    BY <1>1, <2>10 DEF Upsert, Goto, state, pass, Reconciling
  <2>11. CASE Record(t)
    BY <1>1, <2>11 DEF Record, Goto, pass, Reconciling
  <2>12. CASE SetCommit(t)
    <3>1. /\ pc[t] = "loop" /\ pc'[t] \notin Reconciling
          /\ stCommit' = [stCommit EXCEPT ![repo[t]] = tip[t]]
          /\ \A u \in Threads \ {t} : pc'[u] = pc[u]
          /\ UNCHANGED <<git, repo, tip>>
      BY <2>12 DEF SetCommit, Done, Goto, pass, Reconciling
    <3>2. /\ tip[t] <= Len(commits[repo[t]]) /\ mirror[repo[t]] \in {0, tip[t]}
          /\ tip[t] \in Nat
      BY <3>1 DEF Aimed, Forward, Reconciling
    <3>3. \A u \in Threads \ {t} : pc[u] \in Reconciling => repo[u] # repo[t]
      BY <1>3, <3>1 DEF Inside, Working
    <3>4. \A r \in Repos : /\ stCommit'[r] <= Len(commits'[r])
                           /\ mirror'[r] # 0 => stCommit'[r] <= mirror'[r]
      BY <1>2, <3>1, <3>2 DEF Forward, git
    <3>5. \A u \in Threads : pc'[u] \in Reconciling =>
            stCommit'[repo'[u]] <= tip'[u] /\ mirror'[repo'[u]] \in {0, tip'[u]}
      BY <1>2, <3>1, <3>3 DEF Forward, git
    <3> QED
      BY <3>4, <3>5 DEF Forward
  <2>13. CASE Fails(t)
    BY ONLY t \in Threads, <1>0, <1>1, <2>13, FailsMoves DEF git, Reconciling
  <2>14. CASE ClearProgress(t)
    BY <1>1, <2>14 DEF ClearProgress, Goto, state, pass, Reconciling
  <2>15. CASE Return(t)
    BY <1>1, <2>15 DEF Return, Release, Goto, state, Reconciling
  <2>16. CASE Drop(t)
    BY <1>1, <2>16 DEF Drop, Goto, state, pass, Reconciling
  <2>17. CASE RmMirror(t)
    <3>0. MirrorGone(t)
      BY ONLY t \in Threads, <2>17, RmMirrorMoves
    <3>1. \A r \in Repos : mirror'[r] \in {0, mirror[r]}
      BY <2>17, <3>0 DEF MirrorGone
    <3>2. /\ pc' = [pc EXCEPT ![t] = "rmDocs"]
          /\ UNCHANGED <<commits, stCommit, repo, tip>>
      BY <2>17, <3>0 DEF MirrorGone
    <3> QED
      BY <3>1, <3>2 DEF Reconciling, Forward
  <2>18. CASE RmDocs(t)
    <3>0. DocsGone(t)
      BY ONLY t \in Threads, <2>18, RmDocsMoves
    <3> QED
      BY <1>1, <2>18, <3>0 DEF DocsGone, git, Reconciling
  <2>19. CASE ForgetState(t)
    <3>1. /\ pc'[t] \notin Reconciling /\ stCommit' = [stCommit EXCEPT ![repo[t]] = 0]
          /\ \A u \in Threads \ {t} : pc'[u] = pc[u]
          /\ UNCHANGED <<git, repo, tip>>
      BY <2>19 DEF ForgetState, Forget, Goto, pass, Reconciling
    <3>2. \A u \in Threads : pc[u] \in Reconciling => tip[u] \in Nat
      BY DEF Aimed
    <3>3. \A r \in Repos : /\ stCommit'[r] <= Len(commits'[r])
                           /\ mirror'[r] # 0 => stCommit'[r] <= mirror'[r]
      BY <1>2, <3>1 DEF Forward, git
    <3>4. \A u \in Threads : pc'[u] \in Reconciling =>
            stCommit'[repo'[u]] <= tip'[u] /\ mirror'[repo'[u]] \in {0, tip'[u]}
      <4> SUFFICES ASSUME NEW u \in Threads, pc'[u] \in Reconciling
                   PROVE  stCommit'[repo'[u]] <= tip'[u] /\ mirror'[repo'[u]] \in {0, tip'[u]}
        OBVIOUS
      <4>1. /\ pc[u] \in Reconciling /\ UNCHANGED <<mirror, repo, tip>>
            /\ stCommit'[repo[u]] \in {0, stCommit[repo[u]]}
        BY <3>1 DEF git
      <4> QED
        BY <3>2, <4>1 DEF Forward
    <3> QED
      BY <3>3, <3>4 DEF Forward
  <2>20. CASE DropRegistration(t)
    BY <1>1, <2>20 DEF DropRegistration, Goto, state, pass, Reconciling
  <2>21. CASE Begin(t)
    <3>0. Begun(t)
      BY ONLY t \in Threads, <2>21, BeginMoves
    <3> QED
      BY <1>1, <2>21, <3>0 DEF Begun, git, Reconciling
  <2>22. CASE AlreadyRunning(t)
    BY <1>W, <2>22, AlreadyRunningWaits
  <2> QED
    BY <1>4, <2>1, <2>2, <2>3, <2>4, <2>5, <2>6, <2>7, <2>8, <2>9, <2>10, <2>11, <2>12,
       <2>13, <2>14, <2>15, <2>16, <2>17, <2>18, <2>19, <2>20, <2>21, <2>22 DEF Step
<1>5. CASE NextRound
  BY <1>5 DEF NextRound, Forward, git, state, pass
<1>6. CASE NextInRound
  <2>1. CASE \E r \in Repos : Lookup(Sched, r, FALSE)
    BY <1>W, <1>6, <2>1, LookupWaits, RoundMoves
  <2>2. CASE UNCHANGED <<git, docCache, store, reg, state, held, progress, pc, repo, pass,
                         history, budget>>
    BY <2>2 DEF Forward, git, state, pass
  <2> QED
    BY <1>6, <2>1, <2>2, RoundMoves
<1>7. ASSUME NEW t \in Requests, Reindex(t) PROVE Forward'
  BY <1>W, <1>7, LookupWaits DEF Reindex, Threads
<1>8. ASSUME NEW t \in Threads, NEW r \in Repos, Deregister(t, r) PROVE Forward'
  BY <1>1, <1>8 DEF Deregister, Goto, state, pass, Reconciling
<1>9. ASSUME NEW r \in Repos, Register(r) PROVE Forward'
  BY <1>9 DEF Register, Forward, git, state, pass
<1>10. ASSUME NEW r \in Repos, Push(r) PROVE Forward'
  <2>1. \A s \in Repos : Len(commits'[s]) \in Nat /\ Len(commits'[s]) >= Len(commits[s])
    BY <1>10 DEF Push
  <2> QED
    BY <1>2, <1>10, <2>1 DEF Push, Forward, state, pass
<1>11. CASE Crash
  BY <1>2, <1>11 DEF Crash, Forward, Reconciling
<1>12. CASE UNCHANGED vars
  BY <1>12 DEF vars, Forward, git, state, pass
<1> QED
  BY <1>4, <1>5, <1>6, <1>7, <1>8, <1>9, <1>10, <1>11, <1>12 DEF Next, Threads

(* Recorded commits stay behind the mirror, in every behaviour.            *)
THEOREM ForwardInvariance == Spec => []Forward
<1>1. TypeOK /\ Aimed /\ Locked /\ Forward /\ [Next]_vars => Forward'
  BY StepForward
<1> QED
  BY InitForward, <1>1, TypeInvariance, LockInvariance, PTL DEF Spec

(* The only step that sets a commit sets its pass's tip.                   *)
LEMMA StepCommit ==
  ASSUME TypeOK, Aimed, Forward, [Next]_vars, NEW r \in Repos
  PROVE  stCommit'[r] >= stCommit[r] \/ stCommit'[r] = 0
<1> USE DEF TypeOK
<1>1. stCommit[r] \in Nat
  BY IndexerAssumption DEF Commit
<1>2. CASE UNCHANGED stCommit
  BY <1>1, <1>2
<1>3. ASSUME NEW t \in Threads, SetCommit(t) PROVE stCommit'[r] >= stCommit[r]
  BY <1>1, <1>3 DEF SetCommit, Done, Forward, Aimed, Reconciling
<1>4. ASSUME NEW t \in Threads, ForgetState(t)
      PROVE  stCommit'[r] >= stCommit[r] \/ stCommit'[r] = 0
  BY <1>1, <1>4 DEF ForgetState, Forget
<1>5. ASSUME Crash PROVE stCommit'[r] = 0
  BY <1>5 DEF Crash
<1>6. ASSUME NEW t \in Threads, Step(t), ~SetCommit(t), ~ForgetState(t)
      PROVE  UNCHANGED stCommit
  BY <1>6 DEF Step, Ensure, Docs, ClearDocs, StoreDocs, DocsFail, EnsureCollection, Plan, Take,
              Clear, Upsert, Record, Fails, ClearProgress, Return, Drop, RmMirror, RmDocs,
              DropRegistration, Begin, AlreadyRunning, state
<1>7. ASSUME Next, ~Crash, \A t \in Threads : ~Step(t) PROVE UNCHANGED stCommit
  BY <1>7 DEF Next, Reindex, NextRound, NextInRound, Lookup, Deregister, Push, Register, state
<1>8. ASSUME UNCHANGED vars PROVE UNCHANGED stCommit
  BY <1>8 DEF vars, state
<1> QED
  BY <1>2, <1>3, <1>4, <1>5, <1>6, <1>7, <1>8

(* A status never reports an older commit than before.                     *)
THEOREM CommitsGoForward == Spec => CommitNeverGoesBack
<1>1. TypeOK /\ Aimed /\ Forward /\ [Next]_vars
        => [\A r \in Repos : stCommit'[r] >= stCommit[r] \/ stCommit'[r] = 0]_vars
  BY StepCommit
<1> QED
  BY <1>1, TypeInvariance, ForwardInvariance, PTL DEF Spec, CommitNeverGoesBack

-----------------------------------------------------------------------------
(* Removal.                                                                *)

(* Nothing is on the volume or in the store at the start.                  *)
THEOREM InitCleared == Init => Cleared
  BY DEF Init, Cleared, Overlay, NoPass, InPass, Inside, Working, Removal, Removing,
         Dropped, Forgotten, NoMirror, NoDocs

(* A removal and a pass of one repository mark each other (raced); without *)
(* that mark each step of a removal stays done until a registration.       *)
LEMMA StepCleared == TypeOK /\ Locked /\ Cleared /\ [Next]_vars => Cleared'
<1> SUFFICES ASSUME TypeOK, Locked, Cleared, [Next]_vars PROVE Cleared'
  OBVIOUS
<1> USE DEF TypeOK
<1> DEFINE Same(r) == UNCHANGED <<coll[r], points[r], docPoints[r], mirror[r], debris[r],
                                  docCache[r], stCommit[r], stPaths[r], undropped[r],
                                  unremoved[r], raced[r]>>
           Others(t) == \A u \in Threads \ {t} : UNCHANGED <<pc[u], repo[u]>>
<1>1. ASSUME NEW r \in Repos, Same(r)
      PROVE  /\ Dropped(r)' <=> Dropped(r)
             /\ Forgotten(r)' <=> Forgotten(r)
             /\ NoMirror(r)' <=> NoMirror(r)
             /\ NoDocs(r)' <=> NoDocs(r)
  BY <1>1 DEF Dropped, Forgotten, NoMirror, NoDocs
<1>2. ASSUME NEW t \in Threads, pc[t] \in Inside, pc'[t] \in Inside \cup {"idle"}, Others(t),
             pc'[t] \in Inside => repo'[t] = repo[t],
             \A r \in Repos \ {repo[t]} : Same(r), UNCHANGED <<raced, persisted, registry>>
      PROVE  Cleared'
  <2>1. \A u \in Threads, r \in Repos : InPass(u, r)' => InPass(u, r)
    BY <1>2 DEF InPass
  <2>2. \A u \in Threads, r \in Repos : Removal(u, r)' => Removal(u, r) /\ pc'[u] = pc[u]
    BY <1>2 DEF Removal, Removing, Inside, Working
  <2>3. repo[t] \in registry \/ raced[repo[t]]
    BY <1>2 DEF Cleared, NoPass, InPass
  <2>4. \A u \in Threads : Removal(u, repo[t]) => raced[repo[t]]
    BY <1>2 DEF Cleared, NoPass, InPass
  <2>5. \A r \in Repos : NoPass(r) => NoPass(r)'
    BY <2>1 DEF NoPass
  <2>6. registry' \subseteq Overlay'
    BY <1>2 DEF Cleared, Overlay
  <2>7. ASSUME NEW r \in Repos \ registry', ~raced'[r]
        PROVE  /\ NoPass(r)' /\ Dropped(r)' /\ NoMirror(r)' /\ NoDocs(r)'
               /\ Forgotten(r)'
    <3>1. r \notin registry /\ ~raced[r] /\ r # repo[t]
      BY <1>2, <2>3, <2>7
    <3>2. NoPass(r) /\ Dropped(r) /\ NoMirror(r) /\ NoDocs(r) /\ Forgotten(r)
      BY <3>1 DEF Cleared
    <3>3. Same(r)
      BY <1>2, <3>1
    <3> QED
      BY <1>1, <2>5, <3>2, <3>3
  <2>8. ASSUME NEW u \in Threads, NEW r \in Repos, Removal(u, r)', ~raced'[r]
        PROVE  /\ NoPass(r)'
               /\ pc'[u] # "drop" => Dropped(r)'
               /\ pc'[u] \in {"rmDocs", "forget", "deregister"} => NoMirror(r)'
               /\ pc'[u] \in {"forget", "deregister"} => NoDocs(r)'
               /\ pc'[u] = "deregister" => Forgotten(r)'
    <3>1. Removal(u, r) /\ pc'[u] = pc[u] /\ ~raced[r] /\ r # repo[t]
      BY <1>2, <2>2, <2>4, <2>8
    <3>2. /\ NoPass(r)
          /\ pc[u] # "drop" => Dropped(r)
          /\ pc[u] \in {"rmDocs", "forget", "deregister"} => NoMirror(r)
          /\ pc[u] \in {"forget", "deregister"} => NoDocs(r)
          /\ pc[u] = "deregister" => Forgotten(r)
      BY <3>1 DEF Cleared
    <3>3. Same(r)
      BY <1>2, <3>1
    <3> QED
      BY <1>1, <2>5, <3>1, <3>2, <3>3
  <2> QED
    BY <2>6, <2>7, <2>8 DEF Cleared
<1>3. ASSUME NEW t \in Threads, NEW r \in Repos, r = repo[t], pc[t] \in Removing,
             pc'[t] \in Removing \cup {"deregister"},
             Others(t), UNCHANGED <<repo, registry, persisted, raced>>,
             \A s \in Repos \ {r} : Same(s),
             Dropped(r) \/ pc[t] = "drop" => Dropped(r)',
             NoMirror(r) => NoMirror(r)',
             NoDocs(r) => NoDocs(r)',
             Forgotten(r) => Forgotten(r)',
             pc'[t] # "drop",
             pc'[t] = "rmDocs" => NoMirror(r)',
             pc'[t] = "forget" => pc[t] = "rmDocs" /\ NoDocs(r)',
             pc'[t] = "deregister" => pc[t] = "forget" /\ Forgotten(r)'
      PROVE  Cleared'
  <2>1. \A u \in Threads, s \in Repos : InPass(u, s)' => InPass(u, s)
    BY <1>3 DEF InPass, Inside, Working, Removing
  <2>2. \A s \in Repos : NoPass(s) => NoPass(s)'
    BY <2>1 DEF NoPass
  <2>3. \A u \in Threads, s \in Repos : Removal(u, s)' => Removal(u, s)
    BY <1>3 DEF Removal
  <2>4. Removal(t, r)
    BY <1>3 DEF Removal
  <2>5. registry' \subseteq Overlay'
    BY <1>3 DEF Cleared, Overlay
  <2>6. ASSUME NEW s \in Repos \ registry', ~raced'[s]
        PROVE  /\ NoPass(s)' /\ Dropped(s)' /\ NoMirror(s)' /\ NoDocs(s)'
               /\ Forgotten(s)'
    <3>1. NoPass(s) /\ Dropped(s) /\ NoMirror(s) /\ NoDocs(s) /\ Forgotten(s)
      BY <1>3, <2>6 DEF Cleared
    <3>2. CASE s = r
      BY <1>3, <2>2, <3>1, <3>2
    <3>3. CASE s # r
      BY <1>1, <1>3, <2>2, <3>1, <3>3
    <3> QED
      BY <3>2, <3>3
  <2>7. ASSUME NEW u \in Threads, NEW s \in Repos, Removal(u, s)', ~raced'[s]
        PROVE  /\ NoPass(s)'
               /\ pc'[u] # "drop" => Dropped(s)'
               /\ pc'[u] \in {"rmDocs", "forget", "deregister"} => NoMirror(s)'
               /\ pc'[u] \in {"forget", "deregister"} => NoDocs(s)'
               /\ pc'[u] = "deregister" => Forgotten(s)'
    <3>1. /\ NoPass(s)
          /\ pc[u] # "drop" => Dropped(s)
          /\ pc[u] \in {"rmDocs", "forget", "deregister"} => NoMirror(s)
          /\ pc[u] \in {"forget", "deregister"} => NoDocs(s)
          /\ pc[u] = "deregister" => Forgotten(s)
      BY <1>3, <2>3, <2>7 DEF Cleared
    <3>2. CASE s # r
      <4>1. u # t
        BY <1>3, <2>7, <3>2 DEF Removal
      <4> QED
        BY <1>1, <1>3, <2>2, <3>1, <3>2, <4>1
    <3>3. CASE s = r /\ u # t
      BY <1>3, <2>2, <3>1, <3>3
    <3>4. CASE s = r /\ u = t
      BY <1>3, <2>2, <3>1, <3>4
    <3> QED
      BY <3>2, <3>3, <3>4
  <2> QED
    BY <2>5, <2>6, <2>7 DEF Cleared
<1>W. ASSUME NEW t \in Threads, Waits(t) PROVE Cleared'
  <2>1. /\ Others(t) /\ pc[t] \in {"idle", "acquire"} /\ pc'[t] \in {"idle", "acquire"}
        /\ \A s \in Repos : Same(s)
        /\ UNCHANGED <<registry, persisted>>
    BY <1>W DEF Waits
  <2>2. \A u \in Threads, s \in Repos : InPass(u, s)' => InPass(u, s)
    BY <2>1 DEF InPass, Inside, Working
  <2>3. \A s \in Repos : NoPass(s) => NoPass(s)'
    BY <2>2 DEF NoPass
  <2>4. \A u \in Threads, s \in Repos : Removal(u, s)' => Removal(u, s) /\ pc'[u] = pc[u]
    BY <2>1 DEF Removal, Removing
  <2>6. registry' \subseteq Overlay'
    BY <2>1 DEF Cleared, Overlay
  <2>7. ASSUME NEW s \in Repos \ registry', ~raced'[s]
        PROVE  /\ NoPass(s)' /\ Dropped(s)' /\ NoMirror(s)' /\ NoDocs(s)'
               /\ Forgotten(s)'
    BY <1>1, <2>1, <2>3, <2>7 DEF Cleared
  <2>8. ASSUME NEW u \in Threads, NEW s \in Repos, Removal(u, s)', ~raced'[s]
        PROVE  /\ NoPass(s)'
               /\ pc'[u] # "drop" => Dropped(s)'
               /\ pc'[u] \in {"rmDocs", "forget", "deregister"} => NoMirror(s)'
               /\ pc'[u] \in {"forget", "deregister"} => NoDocs(s)'
               /\ pc'[u] = "deregister" => Forgotten(s)'
    BY <1>1, <2>1, <2>3, <2>4, <2>8 DEF Cleared
  <2> QED
    BY <2>6, <2>7, <2>8 DEF Cleared
<1>4. ASSUME NEW t \in Threads, Step(t) PROVE Cleared'
  <2>1. CASE Ensure(t)
    BY <1>2, <2>1
    DEF Ensure, Fetched, Goto, Inside, Working, git, store, reg, state, history
  <2>2. CASE Docs(t)
    BY <1>2, <2>2
    DEF Docs, AfterDocs, Goto, Inside, Working, git, store, reg, state, history
  <2>3. CASE ClearDocs(t)
    BY <1>2, <2>3
    DEF ClearDocs, DeleteDocs, Goto, Inside, Working, git, store, reg, state, history
  <2>4. CASE StoreDocs(t)
    BY <1>2, <2>4
    DEF StoreDocs, Goto, Inside, Working, git, store, reg, state, history
  <2>5. CASE DocsFail(t)
    BY <1>2, <2>5
    DEF DocsFail, AfterDocs, Goto, Inside, Working, git, store, reg, state, history
  <2>6. CASE EnsureCollection(t)
    BY <1>2, <2>6
    DEF EnsureCollection, Goto, Inside, Working, git, store, reg, state, history
  <2>7. CASE Plan(t)
    BY <1>2, <2>7
    DEF Plan, Goto, Inside, Working, git, store, reg, state, history
  <2>8. CASE Take(t)
    <3>1. /\ pc \in [Threads -> Inside \cup Removing \cup {"idle", "acquire", "deregister"}]
          /\ repo \in [Threads -> Repos]
      OBVIOUS
    <3>2. /\ pc[t] \in Inside /\ pc'[t] \in Inside /\ Others(t)
          /\ \A r \in Repos : Same(r)
          /\ UNCHANGED <<repo, raced, persisted, registry>>
      BY ONLY t \in Threads, <3>1, <2>8, TakeMoves DEF Inside, Working
    <3> HIDE DEF Others, Same
    <3> QED
      BY <1>2, <3>2
  <2>9. CASE Clear(t)
    BY <1>2, <2>9
    DEF Clear, DeleteByPath, Goto, Inside, Working, git, store, reg, state, history
  <2>10. CASE Upsert(t)
    BY <1>2, <2>10
    DEF Upsert, UpsertPath, Goto, Inside, Working, git, store, reg, state, history
  <2>11. CASE Record(t)
    BY <1>2, <2>11
    DEF Record, Goto, Inside, Working, git, store, reg, state, history
  <2>12. CASE SetCommit(t)
    BY <1>2, <2>12
    DEF SetCommit, Done, Goto, Inside, Working, git, store, reg, state, history
  <2>13. CASE Fails(t)
    BY <1>2, <2>13
    DEF Fails, TookEffect, DeleteByPath, UpsertPath, Goto, Inside, Working, git, store, reg, state, history
  <2>14. CASE ClearProgress(t)
    BY <1>2, <2>14
    DEF ClearProgress, Goto, Inside, Working, git, store, reg, state, history
  <2>15. CASE Return(t)
    BY <1>2, <2>15 DEF Return, Release, Goto, Inside, Working, git, store, reg, state, history
  <2>16. CASE Drop(t)
    <3>1. Dropped(repo[t])'
      BY <2>16 DEF Drop, DropCollection, Dropped
    <3>2. /\ Forgotten(repo[t]) => Forgotten(repo[t])'
          /\ NoMirror(repo[t]) => NoMirror(repo[t])'
          /\ NoDocs(repo[t]) => NoDocs(repo[t])'
      BY <2>16 DEF Drop, Forgotten, NoMirror, NoDocs, state, git
    <3> QED
      BY <1>3, <2>16, <3>1, <3>2 DEF Drop, DropCollection, Goto, Removing, git, store, reg, state
  <2>17. CASE RmMirror(t)
    <3>0. MirrorGone(t)
      BY ONLY t \in Threads, <2>17, RmMirrorMoves
    <3> DEFINE r == repo[t]
    <3>1. /\ Dropped(r) => Dropped(r)'
          /\ Forgotten(r) => Forgotten(r)'
      BY <2>17, <3>0 DEF MirrorGone, Dropped, Forgotten
    <3>2. NoMirror(r)' /\ (NoDocs(r) => NoDocs(r)')
      BY <2>17 DEF RmMirror, NoMirror, NoDocs
    <3>3. \A s \in Repos \ {r} : Same(s)
      <4>1. \A s \in Repos \ {r} : UNCHANGED <<mirror[s], debris[s], unremoved[s]>>
        BY <2>17 DEF RmMirror
      <4> QED
        BY <2>17, <4>1, <3>0 DEF MirrorGone
    <3>4. /\ pc[t] = "rmMirror" /\ pc' = [pc EXCEPT ![t] = "rmDocs"]
          /\ UNCHANGED <<repo, registry, persisted, raced>>
      BY <2>17, <3>0 DEF MirrorGone
    <3> HIDE DEF Same
    <3> QED
      BY <1>3, <3>1, <3>2, <3>3, <3>4 DEF Removing
  <2>18. CASE RmDocs(t)
    <3>0. DocsGone(t)
      BY ONLY t \in Threads, <2>18, RmDocsMoves
    <3> DEFINE r == repo[t]
    <3>1. /\ Dropped(r) => Dropped(r)'
          /\ Forgotten(r) => Forgotten(r)'
      BY <2>18, <3>0 DEF DocsGone, Dropped, Forgotten
    <3>2. NoDocs(r)' /\ (NoMirror(r) => NoMirror(r)')
      BY <2>18 DEF RmDocs, NoMirror, NoDocs, git
    <3>3. \A s \in Repos \ {r} : Same(s)
      <4>1. \A s \in Repos \ {r} : UNCHANGED <<docCache[s], unremoved[s]>>
        BY <2>18 DEF RmDocs
      <4> QED
        BY <2>18, <4>1, <3>0 DEF DocsGone, git
    <3>4. /\ pc[t] = "rmDocs" /\ pc' = [pc EXCEPT ![t] = "forget"]
          /\ UNCHANGED <<repo, registry, persisted, raced>>
      BY <2>18, <3>0 DEF DocsGone
    <3> HIDE DEF Same
    <3> QED
      BY <1>3, <3>1, <3>2, <3>3, <3>4 DEF Removing
  <2>19. CASE ForgetState(t)
    <3>1. /\ Dropped(repo[t]) => Dropped(repo[t])'
          /\ Forgotten(repo[t])'
          /\ NoMirror(repo[t]) => NoMirror(repo[t])'
          /\ NoDocs(repo[t]) => NoDocs(repo[t])'
      BY <2>19 DEF ForgetState, Forget, Dropped, Forgotten, NoMirror, NoDocs, store, git
    <3> QED
      BY <1>3, <2>19, <3>1 DEF ForgetState, Forget, Goto, Removing, git, store, reg
  <2>20. CASE DropRegistration(t)
    <3> DEFINE r == repo[t]
    <3>1. /\ pc[t] = "deregister" /\ pc'[t] = "idle" /\ Others(t)
          /\ registry' = registry \ {r} /\ persisted' = persisted \ {r}
          /\ \A s \in Repos : Same(s)
      BY <2>20 DEF DropRegistration, Unsave, Goto, git, store, state, history
    <3>2. \A u \in Threads, s \in Repos : InPass(u, s)' => InPass(u, s)
      BY <3>1 DEF InPass, Inside, Working
    <3>3. \A s \in Repos : NoPass(s) => NoPass(s)'
      BY <3>2 DEF NoPass
    <3>4. \A u \in Threads, s \in Repos : Removal(u, s)' => Removal(u, s) /\ pc'[u] = pc[u]
      BY <3>1 DEF Removal, Removing
    <3>5. Removal(t, r)
      BY <3>1 DEF Removal
    <3>6. registry' \subseteq Overlay'
      BY <3>1 DEF Cleared, Overlay
    <3>7. ASSUME NEW s \in Repos \ registry', ~raced'[s]
          PROVE  /\ NoPass(s)' /\ Dropped(s)' /\ NoMirror(s)' /\ NoDocs(s)'
                 /\ Forgotten(s)'
      <4>1. NoPass(s) /\ Dropped(s) /\ NoMirror(s) /\ NoDocs(s) /\ Forgotten(s)
        BY <3>1, <3>5, <3>7 DEF Cleared
      <4> QED
        BY <1>1, <3>1, <3>3, <4>1
    <3>8. ASSUME NEW u \in Threads, NEW s \in Repos, Removal(u, s)', ~raced'[s]
          PROVE  /\ NoPass(s)'
                 /\ pc'[u] # "drop" => Dropped(s)'
                 /\ pc'[u] \in {"rmDocs", "forget", "deregister"} => NoMirror(s)'
                 /\ pc'[u] \in {"forget", "deregister"} => NoDocs(s)'
                 /\ pc'[u] = "deregister" => Forgotten(s)'
      BY <1>1, <3>1, <3>3, <3>4, <3>8 DEF Cleared
    <3> QED
      BY <3>6, <3>7, <3>8 DEF Cleared
  <2>21. CASE Begin(t)
    <3>0. Begun(t)
      BY ONLY t \in Threads, <2>21, BeginMoves
    <3> DEFINE r == repo[t]
    <3>1. /\ pc[t] = "acquire" /\ pc'[t] = "ensure" /\ repo' = repo /\ Others(t)
          /\ raced'[r] = (raced[r] \/ r \notin registry \/ \E u \in Threads : Removal(u, r))
          /\ \A s \in Repos \ {r} : Same(s)
          /\ UNCHANGED <<registry, persisted>>
      BY <2>21, <3>0 DEF Begun, git
    <3>2. \A u \in Threads, s \in Repos \ {r} : InPass(u, s)' => InPass(u, s)
      BY <3>1 DEF InPass
    <3>3. \A s \in Repos \ {r} : NoPass(s) => NoPass(s)'
      BY <3>2 DEF NoPass
    <3>4. \A u \in Threads, s \in Repos : Removal(u, s)' => Removal(u, s) /\ pc'[u] = pc[u]
      BY <3>1 DEF Removal, Removing
    <3>5. \A u \in Threads : Removal(u, r)' => raced'[r]
      BY <3>1, <3>4
    <3>6. registry' \subseteq Overlay'
      BY <3>1 DEF Cleared, Overlay
    <3>7. ASSUME NEW s \in Repos \ registry', ~raced'[s]
          PROVE  /\ NoPass(s)' /\ Dropped(s)' /\ NoMirror(s)' /\ NoDocs(s)'
                 /\ Forgotten(s)'
      BY <1>1, <3>1, <3>3, <3>7 DEF Cleared
    <3>8. ASSUME NEW u \in Threads, NEW s \in Repos, Removal(u, s)', ~raced'[s]
          PROVE  /\ NoPass(s)'
                 /\ pc'[u] # "drop" => Dropped(s)'
                 /\ pc'[u] \in {"rmDocs", "forget", "deregister"} => NoMirror(s)'
                 /\ pc'[u] \in {"forget", "deregister"} => NoDocs(s)'
                 /\ pc'[u] = "deregister" => Forgotten(s)'
      <4>1. s # r
        BY <3>1, <3>5, <3>8
      <4> QED
        BY <1>1, <3>1, <3>3, <3>4, <3>8, <4>1 DEF Cleared
    <3> QED
      BY <3>6, <3>7, <3>8 DEF Cleared
  <2>22. CASE AlreadyRunning(t)
    BY <1>W, <2>22, AlreadyRunningWaits
  <2> QED
    BY <1>4, <2>1, <2>2, <2>3, <2>4, <2>5, <2>6, <2>7, <2>8, <2>9, <2>10, <2>11, <2>12,
       <2>13, <2>14, <2>15, <2>16, <2>17, <2>18, <2>19, <2>20, <2>21, <2>22 DEF Step
<1>6. ASSUME \A r \in Repos : Same(r), UNCHANGED <<pc, repo>>,
             registry \subseteq registry', registry' \subseteq Overlay'
      PROVE  Cleared'
  <2>1. \A r \in Repos : NoPass(r) <=> NoPass(r)'
    BY <1>6 DEF NoPass, InPass
  <2>2. \A u \in Threads, r \in Repos : Removal(u, r)' <=> Removal(u, r)
    BY <1>6 DEF Removal
  <2>3. ASSUME NEW r \in Repos \ registry', ~raced'[r]
        PROVE  /\ NoPass(r)' /\ Dropped(r)' /\ NoMirror(r)' /\ NoDocs(r)'
               /\ Forgotten(r)'
    BY <1>1, <1>6, <2>1, <2>3 DEF Cleared
  <2>4. ASSUME NEW u \in Threads, NEW r \in Repos, Removal(u, r)', ~raced'[r]
        PROVE  /\ NoPass(r)'
               /\ pc'[u] # "drop" => Dropped(r)'
               /\ pc'[u] \in {"rmDocs", "forget", "deregister"} => NoMirror(r)'
               /\ pc'[u] \in {"forget", "deregister"} => NoDocs(r)'
               /\ pc'[u] = "deregister" => Forgotten(r)'
    BY <1>1, <1>6, <2>1, <2>2, <2>4 DEF Cleared
  <2> QED
    BY <1>6, <2>3, <2>4 DEF Cleared
<1>7. CASE NextRound
  BY <1>6, <1>7 DEF NextRound, Cleared, Overlay, git, store, reg, state, history
<1>8. CASE NextInRound
  <2>1. CASE \E r \in Repos : Lookup(Sched, r, FALSE)
    BY <1>W, <1>8, <2>1, LookupWaits, RoundMoves
  <2>2. CASE UNCHANGED <<git, docCache, store, reg, state, held, progress, pc, repo, pass,
                         history, budget>>
    BY <1>6, <2>2 DEF Cleared, Overlay, git, store, reg, state, history
  <2> QED
    BY <1>8, <2>1, <2>2, RoundMoves
<1>9. ASSUME NEW t \in Requests, Reindex(t) PROVE Cleared'
  BY <1>W, <1>9, LookupWaits DEF Reindex, Threads
<1>10. ASSUME NEW r \in Repos, Register(r) PROVE Cleared'
  <2>1. registry \subseteq registry' /\ registry' \subseteq Overlay'
    BY <1>10 DEF Register, Save, Merge, Cleared, Overlay
  <2> QED
    BY <1>6, <1>10, <2>1 DEF Register, git, store, state, history
<1>11. ASSUME NEW r \in Repos, Push(r) PROVE Cleared'
  BY <1>6, <1>11 DEF Push, Cleared, Overlay, store, reg, state, history
<1>12. ASSUME NEW t \in Requests, NEW r \in Repos, Deregister(t, r) PROVE Cleared'
  <2>1. /\ t \in Threads /\ pc[t] = "idle" /\ repo'[t] = r /\ Others(t)
        /\ pc'[t] = IF r \in registry THEN "drop" ELSE "deregister"
        /\ raced' = [raced EXCEPT ![r] = @ \/ r \in held]
        /\ \A s \in Repos \ {r} : Same(s)
        /\ UNCHANGED <<registry, persisted, held, coll, points, docPoints, mirror, debris,
                       docCache, stCommit, stPaths, undropped, unremoved>>
    BY <1>12 DEF Deregister, Threads, Goto, git, store, reg, state
  <2>2. \A u \in Threads, s \in Repos : InPass(u, s)' => InPass(u, s)
    BY <2>1 DEF InPass, Inside, Working
  <2>3. \A s \in Repos : NoPass(s) => NoPass(s)'
    BY <2>2 DEF NoPass
  <2>4. \A u \in Threads \ {t}, s \in Repos : Removal(u, s)' => Removal(u, s) /\ pc'[u] = pc[u]
    BY <2>1 DEF Removal
  <2>5. ~raced'[r] => NoPass(r) /\ ~raced[r]
    BY <2>1 DEF Locked, NoPass, InPass
  <2>6. \A s \in Repos : /\ (Dropped(s)' <=> Dropped(s)) /\ (Forgotten(s)' <=> Forgotten(s))
                         /\ (NoMirror(s)' <=> NoMirror(s)) /\ (NoDocs(s)' <=> NoDocs(s))
    BY <2>1 DEF Dropped, Forgotten, NoMirror, NoDocs
  <2>7. registry' \subseteq Overlay'
    BY <2>1 DEF Cleared, Overlay
  <2>8. ASSUME NEW s \in Repos \ registry', ~raced'[s]
        PROVE  /\ NoPass(s)' /\ Dropped(s)' /\ NoMirror(s)' /\ NoDocs(s)'
               /\ Forgotten(s)'
    BY <2>1, <2>3, <2>5, <2>6, <2>8 DEF Cleared
  <2>9. ASSUME NEW u \in Threads, NEW s \in Repos, Removal(u, s)', ~raced'[s]
        PROVE  /\ NoPass(s)'
               /\ pc'[u] # "drop" => Dropped(s)'
               /\ pc'[u] \in {"rmDocs", "forget", "deregister"} => NoMirror(s)'
               /\ pc'[u] \in {"forget", "deregister"} => NoDocs(s)'
               /\ pc'[u] = "deregister" => Forgotten(s)'
    <3>1. CASE u # t
      BY <2>1, <2>3, <2>4, <2>5, <2>6, <2>9, <3>1 DEF Cleared
    <3>2. CASE u = t
      <4>1. s = r
        BY <2>1, <2>9, <3>2 DEF Removal
      <4>2. CASE r \in registry
        BY <2>1, <2>3, <2>5, <2>9, <3>2, <4>1, <4>2
      <4>3. CASE r \notin registry
        BY <2>1, <2>8, <2>9, <4>1, <4>3
      <4> QED
        BY <4>2, <4>3
    <3> QED
      BY <3>1, <3>2
  <2> QED
    BY <2>7, <2>8, <2>9 DEF Cleared
<1>13. CASE Crash
  <2>1. /\ registry' = Overlay /\ persisted' = persisted
        /\ UNCHANGED <<coll, points, docPoints, mirror, docCache, undropped, unremoved, raced>>
        /\ \A r \in Repos : Forgotten(r)'
        /\ pc' = [t \in Threads |-> "idle"]
    BY <1>13 DEF Crash, Forgotten, store
  <2>2. \A r \in Repos : NoPass(r)' /\ (Dropped(r)' <=> Dropped(r)) /\ (NoDocs(r)' <=> NoDocs(r))
    BY <2>1 DEF NoPass, InPass, Inside, Working, Dropped, NoDocs
  <2>3. \A u \in Threads, r \in Repos : ~Removal(u, r)'
    BY <2>1 DEF Removal, Removing
  (* A clone that dies leaves debris, but nobody clones here.              *)
  <2>4. ASSUME NEW r \in Repos, NoPass(r), NoMirror(r) PROVE NoMirror(r)'
    <3>1. ~Cloning(r)
      BY <2>4 DEF Cloning, NoPass, InPass, Inside, Working
    <3>2. debris'[r] => debris[r]
      <4>1. \/ debris' = debris
            \/ debris' = [q \in Repos |-> debris[q] \/ Cloning(q)]
        BY <1>13 DEF Crash
      <4> QED
        BY ONLY <3>1, <4>1, r \in Repos, Zenon
    <3> QED
      BY <2>1, <2>4, <3>2 DEF NoMirror
  <2>5. ASSUME NEW r \in Repos \ registry', ~raced'[r]
        PROVE  NoPass(r)' /\ Dropped(r)' /\ NoMirror(r)' /\ NoDocs(r)' /\ Forgotten(r)'
    <3>1. r \notin registry /\ ~raced[r]
      BY <2>1, <2>5 DEF Cleared
    <3>2. NoPass(r) /\ Dropped(r) /\ NoMirror(r) /\ NoDocs(r)
      BY <3>1 DEF Cleared
    <3> QED
      BY <2>1, <2>2, <2>4, <3>2
  <2> QED
    BY <2>1, <2>3, <2>5 DEF Cleared, Overlay
<1>14. CASE UNCHANGED vars
  BY <1>6, <1>14 DEF vars, Cleared, Overlay, git, store, reg, state, history
<1> QED
  BY <1>4, <1>7, <1>8, <1>9, <1>10, <1>11, <1>12, <1>13, <1>14 DEF Next, Threads

(* What removals have left behind, in every behaviour.                     *)
THEOREM ClearedInvariance == Spec => []Cleared
<1>1. TypeOK /\ Locked /\ Cleared /\ [Next]_vars => Cleared'
  BY StepCleared
<1> QED
  BY InitCleared, <1>1, TypeInvariance, LockInvariance, PTL DEF Spec

(* A removal leaves no records, and nothing else but what it could not     *)
(* drop or delete, artifact by artifact, unless a pass overlapped with it  *)
(* or began later for a repository looked up before (service.py:66-80).    *)
THEOREM RemovalIsClean == Spec => []RemovalLeavesNothing
<1>1. Cleared => RemovalLeavesNothing
  BY DEF Cleared, Dropped, Forgotten, NoMirror, NoDocs, RemovalLeavesNothing
<1> QED
  BY <1>1, ClearedInvariance, PTL

-----------------------------------------------------------------------------
(* Records and points.                                                     *)

(* A pass that no removal overlaps with is alone with its repository.      *)
LEMMA Alone ==
  ASSUME TypeOK, Locked, Cleared, NEW t \in Threads, pc[t] \in Inside
  PROVE  /\ \A u \in Threads : pc[u] \in Inside /\ repo[u] = repo[t] => u = t
         /\ ~raced[repo[t]] => ~Busy(repo[t])
<1>1. \A u \in Threads : pc[u] \in Inside /\ repo[u] = repo[t] => u = t
  BY DEF Locked
<1>2. ASSUME ~raced[repo[t]], NEW u \in Threads, repo[u] = repo[t],
             pc[u] \in {"rmMirror", "rmDocs", "forget"}
      PROVE  FALSE
  <2>1. Removal(u, repo[t])
    BY <1>2 DEF Removal, Removing
  <2>2. NoPass(repo[t])
    BY <1>2, <2>1 DEF TypeOK, Cleared
  <2> QED
    BY <2>2 DEF NoPass, InPass
<1> QED
  BY <1>1, <1>2 DEF Busy

(* Nothing is recorded and nothing stored at the start.                    *)
THEOREM InitMatched == Init => Matched
  BY DEF Init, Matched

(* Delete, upsert and record keep to one path, which the lock gives to one *)
(* pass; a failing call, a restart and a removal that forgets note the     *)
(* paths that came apart (lost).                                           *)
LEMMA StepMatched ==
  TypeOK /\ Aimed /\ Locked /\ Cleared /\ Matched /\ [Next]_vars => Matched'
<1> SUFFICES ASSUME TypeOK, Aimed, Locked, Cleared, Matched, [Next]_vars PROVE Matched'
  OBVIOUS
<1> USE DEF TypeOK
<1> DEFINE Places == {"upsert", "record"}
           Same(t) == UNCHANGED <<pc[t], repo[t], tip[t], cur[t]>>
           Others(t) == \A u \in Threads \ {t} : Same(u)
           Grows == \A r \in Repos : \A n \in 1..Len(commits[r]) : commits'[r][n] = commits[r][n]
<1>0. /\ pc \in [Threads -> Inside \cup Removing \cup {"idle", "acquire", "deregister"}]
      /\ repo \in [Threads -> Repos] /\ tip \in [Threads -> Commit]
      /\ cur \in [Threads -> Paths]
  OBVIOUS
<1>1. ASSUME Grows, NEW t \in Threads, pc[t] \in Reconciling, Same(t)
      PROVE  Want(t)' = Want(t)
  BY <1>1 DEF Want, Aimed
<1>2. ASSUME Grows, UNCHANGED <<points, stPaths, lost>>,
             \A r \in Repos : ~raced'[r] => ~raced[r],
             \A t \in Threads : pc[t] \in Places \/ pc'[t] \in Places => Same(t),
             \A r \in Repos : Busy(r) => Busy(r)'
      PROVE  Matched'
  <2>1. \A r \in Repos, p \in Paths : Writing(r, p)' <=> Writing(r, p)
    BY <1>2 DEF Writing
  <2>2. ASSUME NEW t \in Threads, pc'[t] \in Places
        PROVE  Same(t) /\ Want(t)' = Want(t)
    BY <1>1, <1>2, <2>2 DEF Reconciling
  <2>3. \A r \in Repos, p \in Paths :
          ~raced'[r] /\ ~Busy(r)' /\ ~Writing(r, p)' /\ p \notin lost'[r] =>
            stPaths'[r][p] = points'[r][p]
    BY <1>2, <2>1 DEF Matched
  <2>4. \A t \in Threads : pc'[t] = "upsert" =>
          Indexed(Want(t)'[cur'[t]]) = Want(t)'[cur'[t]]
    BY <1>2, <2>2 DEF Matched, Indexed
  <2>5. \A t \in Threads : pc'[t] = "record" /\ ~raced'[repo'[t]] =>
          points'[repo'[t]][cur'[t]] = Indexed(Want(t)'[cur'[t]])
    BY <1>2, <2>2 DEF Matched, Indexed
  <2> QED
    BY <2>3, <2>4, <2>5 DEF Matched, Indexed
<1>3. ASSUME Grows, UNCHANGED <<points, stPaths, lost, raced>>, NEW t \in Threads,
             pc[t] \notin Places, pc'[t] \notin Places, Others(t),
             pc[t] \in {"rmMirror", "rmDocs", "forget"} =>
               repo'[t] = repo[t] /\ pc'[t] \in {"rmMirror", "rmDocs", "forget"}
      PROVE  Matched'
  <2>1. \A r \in Repos : Busy(r) => Busy(r)'
    BY <1>3 DEF Busy
  <2> QED
    BY <1>2, <1>3, <2>1
<1>W. ASSUME NEW t \in Threads, Waits(t) PROVE Matched'
  BY ONLY t \in Threads, <1>0, <1>3, <1>W DEF Waits
<1>4. ASSUME NEW t \in Threads, Step(t) PROVE Matched'
  <2>1. CASE Ensure(t)
    BY <1>3, <2>1 DEF Ensure, pass, Goto, git, store, state, history
  <2>2. CASE Docs(t)
    BY ONLY t \in Threads, <1>0, <1>3, <2>2, DocsMoves
  <2>3. CASE ClearDocs(t)
    BY <1>3, <2>3 DEF ClearDocs, pass, Goto, git, store, state, history
  <2>4. CASE StoreDocs(t)
    BY <1>3, <2>4 DEF StoreDocs, pass, Goto, git, store, state, history
  <2>5. CASE DocsFail(t)
    BY ONLY t \in Threads, <1>0, <1>3, <2>5, DocsFailMoves
  <2>6. CASE EnsureCollection(t)
    BY <1>3, <2>6 DEF EnsureCollection, pass, Goto, git, store, state, history
  <2>7. CASE Plan(t)
    BY <1>3, <2>7 DEF Plan, Goto, git, store, state, history
  <2>8. CASE Take(t)
    BY ONLY t \in Threads, <1>0, <1>3, <2>8, TakeMoves
  <2>9. CASE Clear(t)
    <3> DEFINE r == repo[t]
               b == Want(t)[cur[t]]
    <3>1. /\ pc[t] = "clear" /\ Others(t)
          /\ pc' = [pc EXCEPT ![t] = IF Indexed(b) = NoBlob THEN "record" ELSE "upsert"]
          /\ points' = [points EXCEPT ![r][cur[t]] = NoBlob]
          /\ UNCHANGED <<git, stPaths, lost, raced, repo, tip, cur>>
      BY <2>9 DEF Clear, DeleteByPath, Goto, state, pass, history
    <3>2. /\ \A u \in Threads : pc[u] \in Inside /\ repo[u] = r => u = t
          /\ ~raced[r] => ~Busy(r)
      BY <3>1, Alone DEF Inside, Working
    <3>3. \A u \in Threads : Want(u)' = Want(u)
      BY <3>1 DEF Want, git
    <3>4. \A s \in Repos : Busy(s)' <=> Busy(s)
      BY <3>1 DEF Busy
    <3>5. ASSUME NEW s \in Repos, NEW p \in Paths, ~raced'[s], ~Busy(s)', ~Writing(s, p)',
                 p \notin lost'[s]
          PROVE  stPaths'[s][p] = points'[s][p]
      <4>1. ~Writing(s, p) /\ ~(s = r /\ p = cur[t])
        BY <3>1, <3>5 DEF Writing
      <4> QED
        BY <3>1, <3>4, <3>5, <4>1 DEF Matched, Tree
    <3>6. ASSUME NEW u \in Threads, pc'[u] = "upsert"
          PROVE  Indexed(Want(u)'[cur'[u]]) = Want(u)'[cur'[u]]
      BY <3>1, <3>3, <3>6 DEF Matched, Indexed
    <3>7. ASSUME NEW u \in Threads, pc'[u] = "record", ~raced'[repo'[u]]
          PROVE  points'[repo'[u]][cur'[u]] = Indexed(Want(u)'[cur'[u]])
      <4>1. CASE u = t
        BY <3>1, <3>3, <3>7, <4>1 DEF Tree
      <4>2. CASE u # t
        <5>1. pc[u] = "record" /\ repo[u] # r
          BY <3>1, <3>2, <3>7, <4>2 DEF Inside, Working
        <5> QED
          BY <3>1, <3>3, <3>7, <5>1 DEF Matched
      <4> QED
        BY <4>1, <4>2
    <3> QED
      BY <3>5, <3>6, <3>7 DEF Matched, Indexed
  <2>10. CASE Upsert(t)
    <3> DEFINE r == repo[t]
               b == Want(t)[cur[t]]
    <3>1. /\ pc[t] = "upsert" /\ Others(t) /\ pc' = [pc EXCEPT ![t] = "record"]
          /\ points' = [points EXCEPT ![r][cur[t]] = b]
          /\ UNCHANGED <<git, stPaths, lost, raced, repo, tip, cur>>
      BY <2>10 DEF Upsert, UpsertPath, Goto, state, pass, history
    <3>2. \A u \in Threads : pc[u] \in Inside /\ repo[u] = r => u = t
      BY <3>1, Alone DEF Inside, Working
    <3>3. \A u \in Threads : Want(u)' = Want(u)
      BY <3>1 DEF Want, git
    <3>4. \A s \in Repos : Busy(s)' <=> Busy(s)
      BY <3>1 DEF Busy
    <3>5. ASSUME NEW s \in Repos, NEW p \in Paths, ~raced'[s], ~Busy(s)', ~Writing(s, p)',
                 p \notin lost'[s]
          PROVE  stPaths'[s][p] = points'[s][p]
      <4>1. ~Writing(s, p) /\ ~(s = r /\ p = cur[t])
        BY <3>1, <3>5 DEF Writing
      <4> QED
        BY <3>1, <3>4, <3>5, <4>1 DEF Matched, Tree
    <3>6. ASSUME NEW u \in Threads, pc'[u] = "upsert"
          PROVE  Indexed(Want(u)'[cur'[u]]) = Want(u)'[cur'[u]]
      BY <3>1, <3>3, <3>6 DEF Matched, Indexed
    <3>7. ASSUME NEW u \in Threads, pc'[u] = "record", ~raced'[repo'[u]]
          PROVE  points'[repo'[u]][cur'[u]] = Indexed(Want(u)'[cur'[u]])
      <4>1. CASE u = t
        <5>1. points'[r][cur[t]] = b /\ Indexed(b) = b
          BY <3>1 DEF Matched, Tree
        <5> QED
          BY <3>1, <3>3, <4>1, <5>1
      <4>2. CASE u # t
        <5>1. pc[u] = "record" /\ repo[u] # r
          BY <3>1, <3>2, <3>7, <4>2 DEF Inside, Working
        <5> QED
          BY <3>1, <3>3, <3>7, <5>1 DEF Matched
      <4> QED
        BY <4>1, <4>2
    <3> QED
      BY <3>5, <3>6, <3>7 DEF Matched, Indexed
  <2>11. CASE Record(t)
    <3> DEFINE r == repo[t]
               b == Indexed(Want(t)[cur[t]])
    <3>1. /\ pc[t] = "record" /\ Others(t) /\ pc' = [pc EXCEPT ![t] = "loop"]
          /\ stPaths' = [stPaths EXCEPT ![r][cur[t]] = b]
          /\ lost' = [lost EXCEPT ![r] = @ \ {cur[t]}]
          /\ UNCHANGED <<git, points, raced, repo, tip, cur>>
      BY <2>11 DEF Record, Goto, store, pass
    <3>2. \A u \in Threads : Want(u)' = Want(u)
      BY <3>1 DEF Want, git
    <3>3. \A s \in Repos : Busy(s)' <=> Busy(s)
      BY <3>1 DEF Busy
    <3>4. ASSUME NEW s \in Repos, NEW p \in Paths, ~raced'[s], ~Busy(s)', ~Writing(s, p)',
                 p \notin lost'[s]
          PROVE  stPaths'[s][p] = points'[s][p]
      <4>1. CASE s = r /\ p = cur[t]
        BY <3>1, <3>4, <4>1 DEF Matched, Tree
      <4>2. CASE ~(s = r /\ p = cur[t])
        <5>1. ~Writing(s, p)
          BY <3>1, <3>4, <4>2 DEF Writing
        <5>2. p \notin lost[s] /\ stPaths'[s][p] = stPaths[s][p]
          BY <3>1, <3>4, <4>2 DEF Tree
        <5> QED
          BY <3>1, <3>3, <3>4, <5>1, <5>2 DEF Matched
      <4> QED
        BY <4>1, <4>2
    <3>5. ASSUME NEW u \in Threads, pc'[u] = "upsert"
          PROVE  Indexed(Want(u)'[cur'[u]]) = Want(u)'[cur'[u]]
      BY <3>1, <3>2, <3>5 DEF Matched, Indexed
    <3>6. ASSUME NEW u \in Threads, pc'[u] = "record", ~raced'[repo'[u]]
          PROVE  points'[repo'[u]][cur'[u]] = Indexed(Want(u)'[cur'[u]])
      BY <3>1, <3>2, <3>6 DEF Matched
    <3> QED
      BY <3>4, <3>5, <3>6 DEF Matched, Indexed
  <2>12. CASE SetCommit(t)
    BY <1>3, <2>12 DEF SetCommit, Done, Goto, git, store, pass, history
  <2>13. CASE Fails(t)
    <3> DEFINE r == repo[t]
    <3>1. /\ pc[t] \in Inside /\ pc' = [pc EXCEPT ![t] = "finally"] /\ Others(t)
          /\ UNCHANGED <<git, stPaths, raced, repo, tip, cur>>
      BY <2>13 DEF Fails, Goto, state, pass, Inside, Working
    <3>2. /\ \A s \in Repos, p \in Paths :
               ~(s = r /\ p = cur[t] /\ pc[t] \in {"clear", "upsert"}) =>
                 points'[s][p] = points[s][p]
          /\ lost' = IF pc[t] \in {"clear", "upsert"} /\ points'[r][cur[t]] # stPaths[r][cur[t]]
                       THEN [lost EXCEPT ![r] = @ \cup {cur[t]}] ELSE lost
      BY <2>13 DEF Fails, TookEffect, DeleteByPath, UpsertPath, Tree
    <3>3. \A u \in Threads : Want(u)' = Want(u)
      BY <3>1 DEF Want, git
    <3>4. \A s \in Repos : Busy(s)' <=> Busy(s)
      BY <3>1 DEF Busy, Inside, Working
    <3>5. /\ pc[t] # "record"
          /\ \A u \in Threads \ {t} : pc[u] = "record" => repo[u] # r
      <4>1. pc[t] # "record"
        BY <2>13 DEF Fails
      <4> QED
        BY <3>1, <4>1, Alone DEF Inside, Working
    <3>6. ASSUME NEW s \in Repos, NEW p \in Paths, ~raced'[s], ~Busy(s)', ~Writing(s, p)',
                 p \notin lost'[s]
          PROVE  stPaths'[s][p] = points'[s][p]
      <4>1. CASE s = r /\ p = cur[t] /\ pc[t] \in {"clear", "upsert"}
        BY <3>1, <3>2, <3>6, <4>1
      <4>2. CASE ~(s = r /\ p = cur[t] /\ pc[t] \in {"clear", "upsert"})
        <5>1. ~Writing(s, p)
          BY <3>1, <3>5, <3>6, <4>2 DEF Writing
        <5>2. p \notin lost[s]
          BY <3>2, <3>6
        <5> QED
          BY <3>1, <3>2, <3>4, <3>6, <4>2, <5>1, <5>2 DEF Matched
      <4> QED
        BY <4>1, <4>2
    <3>7. ASSUME NEW u \in Threads, pc'[u] = "upsert"
          PROVE  Indexed(Want(u)'[cur'[u]]) = Want(u)'[cur'[u]]
      BY <3>1, <3>3, <3>7 DEF Matched, Indexed
    <3>8. ASSUME NEW u \in Threads, pc'[u] = "record", ~raced'[repo'[u]]
          PROVE  points'[repo'[u]][cur'[u]] = Indexed(Want(u)'[cur'[u]])
      <4>1. pc[u] = "record" /\ u # t
        BY <3>1, <3>8
      <4>2. points'[repo[u]][cur[u]] = points[repo[u]][cur[u]]
        BY <3>2, <3>5, <4>1
      <4> QED
        BY <3>1, <3>3, <3>8, <4>1, <4>2 DEF Matched
    <3> QED
      BY <3>6, <3>7, <3>8 DEF Matched, Indexed
  <2>14. CASE ClearProgress(t)
    BY <1>3, <2>14 DEF ClearProgress, Goto, git, store, state, pass, history
  <2>15. CASE Return(t)
    BY <1>3, <2>15 DEF Return, Release, Goto, git, store, state, history
  <2>16. CASE Drop(t)
    <3> DEFINE r == repo[t]
    <3>1. /\ pc[t] = "drop" /\ pc' = [pc EXCEPT ![t] = "rmMirror"] /\ Others(t)
          /\ \A s \in Repos \ {r} : points'[s] = points[s]
          /\ UNCHANGED <<git, stPaths, lost, raced, repo, tip, cur>>
      BY <2>16 DEF Drop, DropCollection, Goto, store, state, pass
    <3>2. \A u \in Threads : Want(u)' = Want(u)
      BY <3>1 DEF Want, git
    <3>3. Busy(r)' /\ \A s \in Repos : Busy(s) => Busy(s)'
      BY <3>1 DEF Busy
    <3>4. \A s \in Repos, p \in Paths : Writing(s, p)' <=> Writing(s, p)
      BY <3>1 DEF Writing
    <3>5. ASSUME NEW s \in Repos, NEW p \in Paths, ~raced'[s], ~Busy(s)', ~Writing(s, p)',
                 p \notin lost'[s]
          PROVE  stPaths'[s][p] = points'[s][p]
      <4>1. s # r
        <5>1. repo'[t] = repo[t]
          BY <3>1
        <5>2. SUFFICES ASSUME s = repo[t] PROVE FALSE
          OBVIOUS
        <5>3. Busy(s)'
          BY <3>1, <5>1, <5>2 DEF Busy
        <5> QED
          BY <3>5, <5>3
      <4>2. ~Busy(s)
        BY ONLY <3>3, <3>5
      <4>3. ~Writing(s, p)
        BY ONLY <3>4, <3>5
      <4> QED
        BY <3>1, <3>5, <4>1, <4>2, <4>3 DEF Matched
    <3>6. ASSUME NEW u \in Threads, pc'[u] = "upsert"
          PROVE  Indexed(Want(u)'[cur'[u]]) = Want(u)'[cur'[u]]
      BY <3>1, <3>2, <3>6 DEF Matched, Indexed
    <3>7. ASSUME NEW u \in Threads, pc'[u] = "record", ~raced'[repo'[u]]
          PROVE  points'[repo'[u]][cur'[u]] = Indexed(Want(u)'[cur'[u]])
      <4>1. /\ pc[u] = "record" /\ ~raced[repo[u]]
        BY <3>1, <3>7
      <4>2. repo[u] # r
        <5>1. NoPass(r) \/ raced[r]
          BY <3>1 DEF Cleared, Removal, Removing
        <5> QED
          BY <4>1, <5>1 DEF NoPass, InPass, Inside, Working
      <4> QED
        BY <3>1, <3>2, <4>1, <4>2 DEF Matched
    <3> QED
      BY <3>5, <3>6, <3>7 DEF Matched, Indexed
  <2>17. CASE RmMirror(t)
    <3>0. MirrorGone(t)
      BY ONLY t \in Threads, <2>17, RmMirrorMoves
    <3> QED
      BY <1>3, <2>17, <3>0 DEF MirrorGone
  <2>18. CASE RmDocs(t)
    <3>0. DocsGone(t)
      BY ONLY t \in Threads, <2>18, RmDocsMoves
    <3> QED
      BY <1>3, <2>18, <3>0 DEF DocsGone, git
  <2>19. CASE ForgetState(t)
    <3> DEFINE r == repo[t]
    <3>1. /\ pc[t] = "forget" /\ pc' = [pc EXCEPT ![t] = "deregister"] /\ Others(t)
          /\ stPaths' = [stPaths EXCEPT ![r] = Empty]
          /\ lost' = [lost EXCEPT ![r] = Stored(r)]
          /\ UNCHANGED <<git, points, raced, repo, tip, cur>>
      BY <2>19 DEF ForgetState, Forget, Goto, store, pass
    <3>2. \A u \in Threads : Want(u)' = Want(u)
      BY <3>1 DEF Want, git
    <3>3. \A s \in Repos \ {r} : Busy(s)' <=> Busy(s)
      BY <3>1 DEF Busy
    <3>4. \A s \in Repos, p \in Paths : Writing(s, p)' <=> Writing(s, p)
      BY <3>1 DEF Writing
    <3>5. ASSUME NEW s \in Repos, NEW p \in Paths, ~raced'[s], ~Busy(s)', ~Writing(s, p)',
                 p \notin lost'[s]
          PROVE  stPaths'[s][p] = points'[s][p]
      <4>1. CASE s = r
        BY <3>1, <3>5, <4>1 DEF Stored, Empty
      <4>2. CASE s # r
        BY <3>1, <3>3, <3>4, <3>5, <4>2 DEF Matched
      <4> QED
        BY <4>1, <4>2
    <3>6. ASSUME NEW u \in Threads, pc'[u] = "upsert"
          PROVE  Indexed(Want(u)'[cur'[u]]) = Want(u)'[cur'[u]]
      BY <3>1, <3>2, <3>6 DEF Matched, Indexed
    <3>7. ASSUME NEW u \in Threads, pc'[u] = "record", ~raced'[repo'[u]]
          PROVE  points'[repo'[u]][cur'[u]] = Indexed(Want(u)'[cur'[u]])
      BY <3>1, <3>2, <3>7 DEF Matched
    <3> QED
      BY <3>5, <3>6, <3>7 DEF Matched, Indexed
  <2>20. CASE DropRegistration(t)
    BY <1>3, <2>20 DEF DropRegistration, Goto, git, store, state, pass, history
  <2>21. CASE Begin(t)
    <3>0. Begun(t)
      BY ONLY t \in Threads, <2>21, BeginMoves
    <3>1. /\ pc[t] = "acquire" /\ pc'[t] = "ensure" /\ Others(t)
          /\ \A s \in Repos : ~raced'[s] => ~raced[s]
          /\ UNCHANGED <<git, points, stPaths, lost>>
      BY <2>21, <3>0 DEF Begun, git
    <3>2. \A s \in Repos : Busy(s) => Busy(s)'
      BY <3>1 DEF Busy
    <3> QED
      BY <1>2, <3>1, <3>2 DEF git
  <2>22. CASE AlreadyRunning(t)
    BY <1>W, <2>22, AlreadyRunningWaits
  <2> QED
    BY <1>4, <2>1, <2>2, <2>3, <2>4, <2>5, <2>6, <2>7, <2>8, <2>9, <2>10, <2>11, <2>12,
       <2>13, <2>14, <2>15, <2>16, <2>17, <2>18, <2>19, <2>20, <2>21, <2>22 DEF Step
<1>6. CASE NextRound
  BY <1>2, <1>6 DEF NextRound, Busy, git, store, state, pass, history
<1>7. CASE NextInRound
  <2>1. CASE \E r \in Repos : Lookup(Sched, r, FALSE)
    BY <1>W, <1>7, <2>1, LookupWaits, RoundMoves
  <2>2. CASE UNCHANGED <<git, docCache, store, reg, state, held, progress, pc, repo, pass,
                         history, budget>>
    BY <1>2, <2>2 DEF Busy, git, store, state, pass, history
  <2> QED
    BY <1>7, <2>1, <2>2, RoundMoves
<1>8. ASSUME NEW t \in Requests, Reindex(t) PROVE Matched'
  BY <1>W, <1>8, LookupWaits DEF Reindex, Threads
<1>9. ASSUME NEW t \in Requests, NEW r \in Repos, Deregister(t, r) PROVE Matched'
  <2>1. /\ t \in Threads /\ pc[t] = "idle" /\ pc'[t] \in {"drop", "deregister"} /\ Others(t)
        /\ \A s \in Repos : ~raced'[s] => ~raced[s]
        /\ UNCHANGED <<git, points, stPaths, lost>>
    BY <1>9 DEF Deregister, Threads, Goto, store, state, pass
  <2>2. \A s \in Repos : Busy(s) => Busy(s)'
    BY <2>1 DEF Busy
  <2> QED
    BY <1>2, <2>1, <2>2 DEF git
<1>10. ASSUME NEW r \in Repos, Register(r) PROVE Matched'
  BY <1>2, <1>10 DEF Register, Busy, git, store, state, pass, history
<1>11. ASSUME NEW r \in Repos, Push(r) PROVE Matched'
  <2>1. Grows
    BY <1>11 DEF Push
  <2> QED
    BY <1>2, <1>11, <2>1 DEF Push, Busy, store, state, pass, history
<1>12. CASE Crash
  BY <1>12 DEF Crash, Matched, Stored, Empty, store
<1>13. CASE UNCHANGED vars
  BY <1>2, <1>13 DEF vars, Busy, git, store, state, pass, history
<1> QED
  BY <1>4, <1>6, <1>7, <1>8, <1>9, <1>10, <1>11, <1>12, <1>13 DEF Next

(* Records and points agree where they should, in every behaviour.         *)
THEOREM MatchedInvariance == Spec => []Matched
<1>1. TypeOK /\ Aimed /\ Locked /\ Cleared /\ Matched /\ [Next]_vars => Matched'
  BY StepMatched
<1> QED
  BY InitMatched, <1>1, TypeInvariance, LockInvariance, ClearedInvariance, PTL DEF Spec

(* What is recorded is what is stored, except where something went wrong.  *)
THEOREM RecordsAreTrue == Spec => []RecordsMatchPoints
<1>1. TypeOK /\ Matched => RecordsMatchPoints
  <2> SUFFICES ASSUME TypeOK, Matched, NEW r \in Repos, NEW p \in Paths, Quiet(r, p),
                      p \notin lost[r]
               PROVE  stPaths[r][p] = points[r][p]
    BY DEF RecordsMatchPoints
  <2>1. ~Busy(r)
    BY DEF Quiet, Busy, Removal, Removing
  <2>2. ~Writing(r, p)
    BY DEF Quiet, Writing, InPass, Inside, Working
  <2> QED
    BY <2>1, <2>2 DEF Quiet, Matched
<1> QED
  BY <1>1, TypeInvariance, MatchedInvariance, PTL

-----------------------------------------------------------------------------
(* What a pass achieves.                                                   *)

(* A pass stands between saving documents and storing their points.        *)
Renewing(r) == \E t \in Threads : pc[t] \in {"clearDocs", "storeDocs"} /\ repo[t] = r

(* Doc points and documents agree, except while a pass renews them, while  *)
(* a removal stands between the two, and where history says they came      *)
(* apart.  A pass that renews them has generated what is saved.            *)
Renewed ==
  /\ \A r \in Repos :
       ~raced[r] /\ ~docsLost[r] /\ ~Busy(r) /\ ~Renewing(r) => docPoints[r] = docCache[r]
  /\ \A t \in Threads : pc[t] \in {"clearDocs", "storeDocs"} /\ ~raced[repo[t]] =>
       made[t] = docCache[repo[t]]

(* A path is in the hands of the pass.                                     *)
InHand(t, p) == pc[t] \in {"clear", "upsert", "record"} /\ cur[t] = p

(* A path in hand is no longer ahead; the records of what is ahead are     *)
(* those the pass has copied; and every other path has been visited, or    *)
(* had nothing to be done: its points are those of the wanted tree, unless *)
(* history says that record and points of the path came apart.             *)
VisitedBy(t) ==
  /\ \A p \in Paths : InHand(t, p) => p \notin todo[t]
  /\ \A p \in todo[t] : had[t][p] = stPaths[repo[t]][p]
  /\ \A p \in Paths \ todo[t] : ~InHand(t, p) /\ p \notin lost[repo[t]] =>
       points[repo[t]][p] = Indexed(Want(t)[p])

(* That of every pass, and only what has chunks is recorded.               *)
Visited ==
  /\ \A r \in Repos, p \in Paths : Indexed(stPaths[r][p]) = stPaths[r][p]
  /\ \A t \in Threads : pc[t] \in Reconciling /\ ~raced[repo[t]] => VisitedBy(t)

-----------------------------------------------------------------------------
(* Documents.                                                              *)

(* There are neither documents nor points of them at the start.            *)
THEOREM InitRenewed == Init => Renewed
  BY DEF Init, Renewed

(* The lock gives the documents of a repository to one pass; a pass that   *)
(* fails at them, a restart and a removal note that they came apart.       *)
LEMMA StepRenewed ==
  TypeOK /\ Locked /\ Cleared /\ Renewed /\ [Next]_vars => Renewed'
<1> SUFFICES ASSUME TypeOK, Locked, Cleared, Renewed, [Next]_vars PROVE Renewed'
  OBVIOUS
<1> USE DEF TypeOK
<1> DEFINE Places == {"clearDocs", "storeDocs"}
           Same(t) == UNCHANGED <<pc[t], repo[t], made[t]>>
           Others(t) == \A u \in Threads \ {t} : Same(u)
<1>0. /\ pc \in [Threads -> Inside \cup Removing \cup {"idle", "acquire", "deregister"}]
      /\ repo \in [Threads -> Repos] /\ made \in [Threads -> Commit]
  OBVIOUS
<1>2. ASSUME UNCHANGED <<docPoints, docCache, docsLost>>,
             \A r \in Repos : ~raced'[r] => ~raced[r],
             \A t \in Threads : pc[t] \in Places \/ pc'[t] \in Places => Same(t),
             \A r \in Repos : Busy(r) => Busy(r)'
      PROVE  Renewed'
  <2>1. \A r \in Repos : Renewing(r)' <=> Renewing(r)
    BY <1>2 DEF Renewing
  <2> QED
    BY <1>2, <2>1 DEF Renewed
<1>3. ASSUME UNCHANGED <<docPoints, docCache, docsLost, raced>>, NEW t \in Threads,
             pc[t] \notin Places, pc'[t] \notin Places, Others(t),
             pc[t] \in {"rmMirror", "rmDocs", "forget"} =>
               repo'[t] = repo[t] /\ pc'[t] \in {"rmMirror", "rmDocs", "forget"}
      PROVE  Renewed'
  <2>1. \A r \in Repos : Busy(r) => Busy(r)'
    BY <1>3 DEF Busy
  <2> QED
    BY <1>2, <1>3, <2>1
<1>W. ASSUME NEW t \in Threads, Waits(t) PROVE Renewed'
  BY ONLY t \in Threads, <1>0, <1>3, <1>W DEF Waits
<1>4. ASSUME NEW t \in Threads, Step(t) PROVE Renewed'
  <2> DEFINE r == repo[t]
             Only == \A u \in Threads : pc[u] \in Inside /\ repo[u] = r => u = t
             Elsewhere == \A s \in Repos \ {r} : /\ docPoints'[s] = docPoints[s]
                                                 /\ docCache'[s] = docCache[s]
                                                 /\ docsLost'[s] = docsLost[s]
  <2>0. ASSUME pc[t] \in Inside, pc'[t] \in Inside, Others(t), UNCHANGED <<raced, repo>>,
               Elsewhere,
               pc'[t] \in Places => made'[t] = docCache'[r] \/ raced[r],
               pc'[t] \notin Places => docPoints'[r] = docCache'[r] \/ docsLost'[r] \/ raced[r]
        PROVE  Renewed'
    <3>1. Only
      BY <2>0, Alone
    <3>2. \A s \in Repos : Busy(s)' <=> Busy(s)
      BY <2>0 DEF Busy, Inside, Working
    <3>3. \A s \in Repos \ {r} : Renewing(s)' <=> Renewing(s)
      BY <2>0 DEF Renewing
    <3>4. ASSUME NEW s \in Repos, ~raced'[s], ~docsLost'[s], ~Busy(s)', ~Renewing(s)'
          PROVE  docPoints'[s] = docCache'[s]
      <4>1. CASE s = r
        BY <2>0, <3>4, <4>1 DEF Renewing
      <4>2. CASE s # r
        BY <2>0, <3>2, <3>3, <3>4, <4>2 DEF Renewed
      <4> QED
        BY <4>1, <4>2
    <3>5. ASSUME NEW u \in Threads, pc'[u] \in Places, ~raced'[repo'[u]]
          PROVE  made'[u] = docCache'[repo'[u]]
      <4>1. CASE u = t
        BY <2>0, <3>5, <4>1
      <4>2. CASE u # t
        <5>1. pc[u] \in Places /\ repo[u] # r
          BY <2>0, <3>1, <3>5, <4>2 DEF Inside, Working
        <5> QED
          BY <2>0, <3>5, <4>2, <5>1 DEF Renewed
      <4> QED
        BY <4>1, <4>2
    <3> QED
      BY <3>4, <3>5 DEF Renewed
  <2>1. CASE Ensure(t)
    BY <1>3, <2>1 DEF Ensure, pass, Goto, git, store, state, history
  <2>2. CASE Docs(t)
    <3>1. /\ pc[t] = "docs" /\ Others(t) /\ UNCHANGED <<raced, repo, docPoints>>
          /\ pc'[t] \in {"clearDocs", "collection", "finally"}
      BY <2>2 DEF Docs, AfterDocs, Goto, store
    <3>2. CASE Refresh(r)
      <4>1. PICK c \in {0, mirror[r]} :
              /\ docCache' = [docCache EXCEPT ![r] = c]
              /\ made' = [made EXCEPT ![t] = c]
              /\ docsLost' = [docsLost EXCEPT ![r] = @ \/ ~semantic]
              /\ pc' = [pc EXCEPT ![t] = IF semantic THEN "clearDocs" ELSE "finally"]
        BY <2>2, <3>2 DEF Docs, Goto
      <4>2. Elsewhere /\ pc'[t] \in Inside /\ pc[t] \in Inside
        BY <3>1, <4>1 DEF Inside, Working
      <4>3. made'[t] = docCache'[r]
        BY <4>1
      <4>4. pc'[t] \notin Places => docsLost'[r]
        BY <4>1
      <4> QED
        BY <2>0, <3>1, <4>2, <4>3, <4>4
    <3>3. CASE ~Refresh(r)
      <4>1. UNCHANGED <<docCache, made, docsLost>> /\ pc'[t] \in {"collection", "finally"}
        BY <2>2, <3>3 DEF Docs, AfterDocs, Goto
      <4> QED
        BY <1>3, <3>1, <4>1
    <3> QED
      BY <3>2, <3>3
  <2>3. CASE ClearDocs(t)
    <3>1. /\ pc[t] = "clearDocs" /\ Others(t) /\ UNCHANGED <<raced, repo, docCache, made>>
          /\ docPoints' = [docPoints EXCEPT ![r] = 0]
          /\ docsLost' = [docsLost EXCEPT ![r] = @ /\ made[t] # 0]
          /\ pc' = [pc EXCEPT ![t] = IF made[t] = 0 THEN "collection" ELSE "storeDocs"]
      BY <2>3 DEF ClearDocs, DeleteDocs, Goto, pass
    <3>2. made[t] = docCache[r] \/ raced[r]
      BY <3>1 DEF Renewed
    <3> QED
      BY <2>0, <3>1, <3>2 DEF Inside, Working
  <2>4. CASE StoreDocs(t)
    <3>1. /\ pc[t] = "storeDocs" /\ Others(t) /\ UNCHANGED <<raced, repo, docCache, made>>
          /\ docPoints' = [docPoints EXCEPT ![r] = made[t]]
          /\ docsLost' = [docsLost EXCEPT ![r] = FALSE]
          /\ pc' = [pc EXCEPT ![t] = "collection"]
      BY <2>4 DEF StoreDocs, Goto, pass
    <3>2. made[t] = docCache[r] \/ raced[r]
      BY <3>1 DEF Renewed
    <3> QED
      BY <2>0, <3>1, <3>2 DEF Inside, Working
  <2>5. CASE DocsFail(t)
    <3>1. /\ pc[t] \in {"docs", "clearDocs", "storeDocs"} /\ Others(t)
          /\ UNCHANGED <<raced, repo, made>>
          /\ docsLost' = [docsLost EXCEPT ![r] = TRUE]
          /\ pc' = [pc EXCEPT ![t] = AfterDocs]
      BY <2>5 DEF DocsFail, Goto, pass
    <3>2. \A s \in Repos \ {r} : docPoints'[s] = docPoints[s] /\ docCache'[s] = docCache[s]
      BY <2>5 DEF DocsFail
    <3>3. AfterDocs \in {"collection", "finally"}
      BY DEF AfterDocs
    <3> QED
      BY <2>0, <3>1, <3>2, <3>3 DEF Inside, Working
  <2>6. CASE EnsureCollection(t)
    BY <1>3, <2>6 DEF EnsureCollection, pass, Goto, git, store, state, history
  <2>7. CASE Plan(t)
    BY <1>3, <2>7 DEF Plan, Goto, git, store, state, history
  <2>8. CASE Take(t)
    BY ONLY t \in Threads, <1>0, <1>3, <2>8, TakeMoves
  <2>9. CASE Clear(t)
    BY <1>3, <2>9 DEF Clear, DeleteByPath, Goto, state, pass, history
  <2>10. CASE Upsert(t)
    BY <1>3, <2>10 DEF Upsert, UpsertPath, Goto, state, pass, history
  <2>11. CASE Record(t)
    BY <1>3, <2>11 DEF Record, Goto, store, pass
  <2>12. CASE SetCommit(t)
    BY <1>3, <2>12 DEF SetCommit, Done, Goto, git, store, pass, history
  <2>13. CASE Fails(t)
    BY ONLY t \in Threads, <1>0, <1>3, <2>13, FailsMoves
  <2>14. CASE ClearProgress(t)
    BY <1>3, <2>14 DEF ClearProgress, Goto, git, store, state, pass, history
  <2>15. CASE Return(t)
    BY <1>3, <2>15 DEF Return, Release, Goto, git, store, state, history
  <2>16. CASE Drop(t)
    <3>1. /\ pc[t] = "drop" /\ pc' = [pc EXCEPT ![t] = "rmMirror"] /\ Others(t)
          /\ \A s \in Repos \ {r} : docPoints'[s] = docPoints[s]
          /\ UNCHANGED <<docCache, docsLost, raced, repo, made>>
      BY <2>16 DEF Drop, DropCollection, Goto, store, pass
    <3>2. Busy(r)' /\ \A s \in Repos : Busy(s) => Busy(s)'
      BY <3>1 DEF Busy
    <3>3. \A s \in Repos : Renewing(s)' <=> Renewing(s)
      BY <3>1 DEF Renewing
    <3>4. ASSUME NEW s \in Repos, ~raced'[s], ~docsLost'[s], ~Busy(s)', ~Renewing(s)'
          PROVE  docPoints'[s] = docCache'[s]
      <4>1. ~Busy(s) /\ ~Renewing(s)
        BY ONLY <3>2, <3>3, <3>4
      <4>2. CASE s = r
        <5>1. Busy(s)'
          BY <3>1, <4>2 DEF Busy
        <5> QED
          BY <3>4, <5>1
      <4>3. CASE s # r
        BY <3>1, <3>4, <4>1, <4>3 DEF Renewed
      <4> QED
        BY <4>2, <4>3
    <3> QED
      BY <3>1, <3>4 DEF Renewed
  <2>17. CASE RmMirror(t)
    <3>0. MirrorGone(t)
      BY ONLY t \in Threads, <2>17, RmMirrorMoves
    <3> QED
      BY <1>3, <2>17, <3>0 DEF MirrorGone
  <2>18. CASE RmDocs(t)
    <3>0. DocsGone(t)
      BY ONLY t \in Threads, <2>18, RmDocsMoves
    <3>1. /\ pc[t] = "rmDocs" /\ pc' = [pc EXCEPT ![t] = "forget"] /\ Others(t)
          /\ \A s \in Repos \ {r} : docCache'[s] = docCache[s]
          /\ UNCHANGED <<docPoints, docsLost, raced, repo, made>>
      BY <2>18, <3>0 DEF DocsGone
    <3>2. Busy(r)' /\ \A s \in Repos : Busy(s) => Busy(s)'
      BY <3>1 DEF Busy
    <3>3. \A s \in Repos : Renewing(s)' <=> Renewing(s)
      BY <3>1 DEF Renewing
    <3>4. ASSUME NEW s \in Repos, ~raced'[s], ~docsLost'[s], ~Busy(s)', ~Renewing(s)'
          PROVE  docPoints'[s] = docCache'[s]
      <4>1. ~Busy(s) /\ ~Renewing(s)
        BY ONLY <3>2, <3>3, <3>4
      <4>2. CASE s = r
        <5>1. Busy(s)'
          BY <3>1, <4>2 DEF Busy
        <5> QED
          BY <3>4, <5>1
      <4>3. CASE s # r
        BY <3>1, <3>4, <4>1, <4>3 DEF Renewed
      <4> QED
        BY <4>2, <4>3
    <3>5. ASSUME NEW u \in Threads, pc'[u] \in Places, ~raced'[repo'[u]]
          PROVE  made'[u] = docCache'[repo'[u]]
      <4>1. pc[u] \in Places /\ pc[u] \in Inside
        BY <3>1, <3>5 DEF Inside, Working
      <4>2. repo[u] # r
        <5>1. NoPass(r) \/ raced[r]
          BY <3>1 DEF Cleared, Removal, Removing
        <5> QED
          BY <3>1, <3>5, <4>1, <5>1 DEF NoPass, InPass
      <4> QED
        BY <3>1, <3>5, <4>1, <4>2 DEF Renewed
    <3> QED
      BY <3>4, <3>5 DEF Renewed
  <2>19. CASE ForgetState(t)
    <3>1. /\ pc[t] = "forget" /\ pc' = [pc EXCEPT ![t] = "deregister"] /\ Others(t)
          /\ docsLost' = [docsLost EXCEPT ![r] = docPoints[r] # docCache[r]]
          /\ UNCHANGED <<docPoints, docCache, raced, repo, made>>
      BY <2>19 DEF ForgetState, Goto, store, pass
    <3>2. \A s \in Repos \ {r} : Busy(s)' <=> Busy(s)
      BY <3>1 DEF Busy
    <3>3. \A s \in Repos : Renewing(s)' <=> Renewing(s)
      BY <3>1 DEF Renewing
    <3>4. ASSUME NEW s \in Repos, ~raced'[s], ~docsLost'[s], ~Busy(s)', ~Renewing(s)'
          PROVE  docPoints'[s] = docCache'[s]
      <4>1. CASE s = r
        BY <3>1, <3>4, <4>1
      <4>2. CASE s # r
        BY <3>1, <3>2, <3>3, <3>4, <4>2 DEF Renewed
      <4> QED
        BY <4>1, <4>2
    <3> QED
      BY <3>1, <3>4 DEF Renewed
  <2>20. CASE DropRegistration(t)
    BY <1>3, <2>20 DEF DropRegistration, Goto, git, store, state, pass, history
  <2>21. CASE Begin(t)
    <3>0. Begun(t)
      BY ONLY t \in Threads, <2>21, BeginMoves
    <3>1. /\ pc[t] = "acquire" /\ pc'[t] = "ensure" /\ Others(t)
          /\ \A s \in Repos : ~raced'[s] => ~raced[s]
          /\ UNCHANGED <<docPoints, docCache, docsLost>>
      BY <2>21, <3>0 DEF Begun
    <3>2. \A s \in Repos : Busy(s) => Busy(s)'
      BY <3>1 DEF Busy
    <3> QED
      BY <1>2, <3>1, <3>2
  <2>22. CASE AlreadyRunning(t)
    BY <1>W, <2>22, AlreadyRunningWaits
  <2> QED
    BY <1>4, <2>1, <2>2, <2>3, <2>4, <2>5, <2>6, <2>7, <2>8, <2>9, <2>10, <2>11, <2>12,
       <2>13, <2>14, <2>15, <2>16, <2>17, <2>18, <2>19, <2>20, <2>21, <2>22 DEF Step
<1>6. CASE NextRound
  BY <1>2, <1>6 DEF NextRound, Busy, git, store, state, pass, history
<1>7. CASE NextInRound
  <2>1. CASE \E r \in Repos : Lookup(Sched, r, FALSE)
    BY <1>W, <1>7, <2>1, LookupWaits, RoundMoves
  <2>2. CASE UNCHANGED <<git, docCache, store, reg, state, held, progress, pc, repo, pass,
                         history, budget>>
    BY <1>2, <2>2 DEF Busy, git, store, state, pass, history
  <2> QED
    BY <1>7, <2>1, <2>2, RoundMoves
<1>8. ASSUME NEW t \in Requests, Reindex(t) PROVE Renewed'
  BY <1>W, <1>8, LookupWaits DEF Reindex, Threads
<1>9. ASSUME NEW t \in Requests, NEW r \in Repos, Deregister(t, r) PROVE Renewed'
  <2>1. /\ t \in Threads /\ pc[t] = "idle" /\ pc'[t] \in {"drop", "deregister"} /\ Others(t)
        /\ \A s \in Repos : ~raced'[s] => ~raced[s]
        /\ UNCHANGED <<docPoints, docCache, docsLost>>
    BY <1>9 DEF Deregister, Threads, Goto, store, state, pass
  <2>2. \A s \in Repos : Busy(s) => Busy(s)'
    BY <2>1 DEF Busy
  <2> QED
    BY <1>2, <2>1, <2>2
<1>10. ASSUME NEW r \in Repos, Register(r) PROVE Renewed'
  BY <1>2, <1>10 DEF Register, Busy, git, store, state, pass, history
<1>11. ASSUME NEW r \in Repos, Push(r) PROVE Renewed'
  BY <1>2, <1>11 DEF Push, Busy, store, state, pass, history
<1>12. CASE Crash
  BY <1>12 DEF Crash, Renewed, store
<1>13. CASE UNCHANGED vars
  BY <1>2, <1>13 DEF vars, Busy, git, store, state, pass, history
<1> QED
  BY <1>4, <1>6, <1>7, <1>8, <1>9, <1>10, <1>11, <1>12, <1>13 DEF Next

(* Doc points and documents agree where they should, in every behaviour.   *)
THEOREM RenewedInvariance == Spec => []Renewed
<1>1. TypeOK /\ Locked /\ Cleared /\ Renewed /\ [Next]_vars => Renewed'
  BY StepRenewed
<1> QED
  BY InitRenewed, <1>1, TypeInvariance, LockInvariance, ClearedInvariance, PTL DEF Spec

(* The doc points are those of the saved documents, except where history   *)
(* says why not.                                                           *)
THEOREM DocsAreTheSaved == Spec => []DocPointsMatchDocs
<1>1. Renewed => DocPointsMatchDocs
  <2> SUFFICES ASSUME Renewed, NEW r \in Repos, ~raced[r], ~docsLost[r],
                      ~\E t \in Threads : Removal(t, r),
                      ~\E t \in Threads : InPass(t, r) /\ pc[t] \in {"clearDocs", "storeDocs"}
               PROVE  docPoints[r] = docCache[r]
    BY DEF DocPointsMatchDocs
  <2>1. ~Busy(r)
    BY DEF Busy, Removal, Removing
  <2>2. ~Renewing(r)
    BY DEF Renewing, InPass, Inside, Working
  <2> QED
    BY <2>1, <2>2 DEF Renewed
<1> QED
  BY <1>1, RenewedInvariance, PTL

-----------------------------------------------------------------------------
(* Paths.                                                                  *)

(* Nothing is recorded and no pass runs at the start.                      *)
THEOREM InitVisited == Init => Visited
  BY IndexerAssumption DEF Init, Visited, Reconciling, Empty, Indexed

(* The lock keeps everybody else away from the repository of a pass that   *)
(* reconciles, and a removal that does not keep away is in its history.    *)
LEMMA StepVisited ==
  TypeOK /\ Aimed /\ Locked /\ Cleared /\ Matched /\ Visited /\ [Next]_vars => Visited'
<1> SUFFICES ASSUME TypeOK, Aimed, Locked, Cleared, Matched, Visited, [Next]_vars
             PROVE  Visited'
  OBVIOUS
<1> USE DEF TypeOK
<1> DEFINE Same(t) == UNCHANGED <<pc[t], repo[t], tip[t], cur[t], todo[t], had[t]>>
           Others(t) == \A u \in Threads \ {t} : Same(u)
           Grows == \A r \in Repos : \A n \in 1..Len(commits[r]) : commits'[r][n] = commits[r][n]
           Kept(r) == UNCHANGED <<points[r], stPaths[r], lost[r]>>
           Chunked == \A r \in Repos, p \in Paths : Indexed(stPaths'[r][p]) = stPaths'[r][p]
<1>0. /\ pc \in [Threads -> Inside \cup Removing \cup {"idle", "acquire", "deregister"}]
      /\ repo \in [Threads -> Repos] /\ tip \in [Threads -> Commit]
      /\ cur \in [Threads -> Paths] /\ todo \in [Threads -> SUBSET Paths]
      /\ had \in [Threads -> Tree]
  OBVIOUS
<1>1. ASSUME Grows, NEW t \in Threads, pc[t] \in Reconciling, ~raced[repo[t]], Same(t),
             Kept(repo[t])
      PROVE  VisitedBy(t)'
  <2>1. Want(t)' = Want(t)
    BY <1>1 DEF Want, Aimed
  <2>2. VisitedBy(t) /\ \A p \in Paths : InHand(t, p)' <=> InHand(t, p)
    BY <1>1 DEF Visited, InHand
  <2> QED
    BY <1>1, <2>1, <2>2 DEF VisitedBy, Indexed
<1>2. ASSUME Grows, UNCHANGED <<points, stPaths, lost>>,
             \A r \in Repos : ~raced'[r] => ~raced[r],
             \A t \in Threads : pc'[t] \in Reconciling => Same(t)
      PROVE  Visited'
  <2>1. ASSUME NEW t \in Threads, pc'[t] \in Reconciling, ~raced'[repo'[t]]
        PROVE  VisitedBy(t)'
    BY <1>1, <1>2, <2>1
  <2>2. Chunked
    BY <1>2 DEF Visited
  <2> QED
    BY <2>1, <2>2 DEF Visited, Indexed
<1>3. ASSUME Grows, UNCHANGED <<points, stPaths, lost, raced>>, NEW t \in Threads,
             pc'[t] \notin Reconciling, Others(t)
      PROVE  Visited'
  BY <1>2, <1>3
<1>W. ASSUME NEW t \in Threads, Waits(t) PROVE Visited'
  BY ONLY t \in Threads, <1>0, <1>3, <1>W DEF Waits, Reconciling
<1>4. ASSUME NEW t \in Threads, Step(t) PROVE Visited'
  <2> DEFINE r == repo[t]
             Elsewhere == \A s \in Repos \ {r} : Kept(s)
  (* A step of a pass that reconciles or is about to: it is alone.         *)
  <2>0. ASSUME pc[t] \in Inside, Others(t), UNCHANGED <<commits, raced, repo>>, Elsewhere,
               Chunked, pc'[t] \in Reconciling /\ ~raced[r] => VisitedBy(t)'
        PROVE  Visited'
    <3>1. ASSUME NEW u \in Threads, pc'[u] \in Reconciling, ~raced'[repo'[u]]
          PROVE  VisitedBy(u)'
      <4>1. CASE u = t
        BY <2>0, <3>1, <4>1
      <4>2. CASE u # t
        <5>1. Same(u) /\ pc[u] \in Reconciling /\ ~raced[repo[u]]
          BY <2>0, <3>1, <4>2
        <5>2. repo[u] # r
          BY <2>0, <4>2, <5>1, Alone DEF Reconciling, Inside, Working
        <5>3. Grows /\ Kept(repo[u])
          BY <2>0, <5>2
        <5> QED
          BY <1>1, <5>1, <5>3
      <4> QED
        BY <4>1, <4>2
    <3> QED
      BY <2>0, <3>1 DEF Visited, Indexed
  (* A step of a removal: there is no pass, or history says so.            *)
  <2>00. ASSUME pc[t] \in Removing, pc'[t] \notin Reconciling, Others(t),
                UNCHANGED <<commits, raced, repo>>, Elsewhere, Chunked
         PROVE  Visited'
    <3>1. ASSUME NEW u \in Threads, pc'[u] \in Reconciling, ~raced'[repo'[u]]
          PROVE  VisitedBy(u)'
      <4>1. u # t /\ Same(u) /\ pc[u] \in Reconciling /\ ~raced[repo[u]]
        BY <2>00, <3>1
      <4>2. repo[u] # r
        <5>1. Removal(t, r)
          BY <2>00 DEF Removal
        <5>2. NoPass(r) \/ raced[r]
          BY <5>1 DEF Cleared
        <5> QED
          BY <4>1, <5>2 DEF NoPass, InPass, Reconciling, Inside, Working
      <4>3. Grows /\ Kept(repo[u])
        BY <2>00, <4>2
      <4> QED
        BY <1>1, <4>1, <4>3
    <3> QED
      BY <2>00, <3>1 DEF Visited, Indexed
  <2>1. CASE Ensure(t)
    BY <1>3, <2>1 DEF Ensure, pass, Goto, git, store, state, history, Reconciling
  <2>2. CASE Docs(t)
    BY ONLY t \in Threads, <1>0, <1>3, <2>2, DocsMoves DEF Reconciling
  <2>3. CASE ClearDocs(t)
    BY <1>3, <2>3 DEF ClearDocs, pass, Goto, git, store, state, history, Reconciling
  <2>4. CASE StoreDocs(t)
    BY <1>3, <2>4 DEF StoreDocs, pass, Goto, git, store, state, history, Reconciling
  <2>5. CASE DocsFail(t)
    BY ONLY t \in Threads, <1>0, <1>3, <2>5, DocsFailMoves DEF Reconciling
  <2>6. CASE EnsureCollection(t)
    BY <1>3, <2>6 DEF EnsureCollection, pass, Goto, git, store, state, history, Reconciling
  <2>7. CASE Plan(t)
    <3> DEFINE tree == commits[r][mirror[r]]
    <3>1. /\ pc[t] = "plan" /\ mirror[r] # 0 /\ Others(t) /\ pc' = [pc EXCEPT ![t] = "loop"]
          /\ tip' = [tip EXCEPT ![t] = mirror[r]]
          /\ had' = [had EXCEPT ![t] = stPaths[r]]
          /\ todo' = [todo EXCEPT ![t] = {p \in Paths : tree[p] # NoBlob}
                                           \cup Gone(stPaths[r], tree)]
          /\ UNCHANGED <<commits, points, stPaths, lost, raced, repo>>
      BY <2>7 DEF Plan, Goto, git, store, state, history
    <3>2. Want(t)' = tree /\ tree \in Tree
      BY <3>1 DEF Want, Aimed, Commit
    <3>3. \A p \in Paths : ~InHand(t, p)'
      BY <3>1 DEF InHand
    <3>4. ASSUME ~raced[r], NEW p \in Paths \ todo'[t], p \notin lost'[r]
          PROVE  points'[r][p] = Indexed(tree[p])
      <4>1. tree[p] = NoBlob /\ stPaths[r][p] = NoBlob
        BY <3>1, <3>4 DEF Gone
      <4>2. ~Busy(r) /\ ~Writing(r, p)
        BY <3>1, <3>4, Alone DEF Writing, Inside, Working
      <4>3. points[r][p] = NoBlob
        BY <3>1, <3>4, <4>1, <4>2 DEF Matched
      <4> QED
        BY <3>1, <4>1, <4>3, IndexerAssumption DEF Indexed
    <3>5. \A p \in todo'[t] : had'[t][p] = stPaths'[repo'[t]][p]
      BY <3>1
    <3>6. ~raced[r] => VisitedBy(t)'
      BY <3>1, <3>2, <3>3, <3>4, <3>5 DEF VisitedBy, Indexed
    <3>7. Chunked
      BY <3>1 DEF Visited
    <3> QED
      BY <2>0, <3>1, <3>6, <3>7 DEF Inside, Working
  <2>8. CASE Take(t)
    <3>1. PICK p \in todo[t] :
            /\ todo' = [todo EXCEPT ![t] = @ \ {p}]
            /\ IF Want(t)[p] # NoBlob /\ ~full[t] /\ had[t][p] = Want(t)[p]
                 THEN UNCHANGED <<pc, cur>>
                 ELSE pc' = [pc EXCEPT ![t] = "clear"] /\ cur' = [cur EXCEPT ![t] = p]
      BY <2>8 DEF Take, Goto
    <3>2. /\ pc[t] = "loop" /\ Others(t)
          /\ UNCHANGED <<commits, points, stPaths, lost, raced, repo, tip, had>>
      BY <2>8 DEF Take, Goto, git, store, state, history
    <3>3. Want(t)' = Want(t) /\ p \in Paths /\ todo[t] \subseteq Paths
      BY <3>1, <3>2 DEF Want
    <3>4. ASSUME ~raced[r] PROVE VisitedBy(t)'
      <4>1. VisitedBy(t)
        BY <3>2, <3>4 DEF Visited, Reconciling
      <4>2. \A q \in Paths : ~InHand(t, q)
        BY <3>2 DEF InHand
      <4>3. \A q \in todo'[t] : had'[t][q] = stPaths'[repo'[t]][q]
        BY <3>1, <3>2, <4>1 DEF VisitedBy
      <4>4. \A q \in Paths \ todo'[t] : q # p /\ q \notin lost'[r] =>
              points'[r][q] = Indexed(Want(t)[q])
        BY <3>1, <3>2, <4>1, <4>2 DEF VisitedBy
      <4>5. CASE UNCHANGED <<pc, cur>> /\ Want(t)[p] # NoBlob /\ had[t][p] = Want(t)[p]
        <5>1. stPaths[r][p] = Want(t)[p]
          BY <4>1, <4>5 DEF VisitedBy
        <5>2. Indexed(Want(t)[p]) = stPaths[r][p]
          BY <3>3, <5>1 DEF Visited
        <5>3. ~Busy(r) /\ ~Writing(r, p)
          BY <3>2, <3>4, Alone DEF Writing, Inside, Working
        <5>4. p \notin lost[r] => points[r][p] = Indexed(Want(t)[p])
          BY <3>3, <3>4, <5>2, <5>3 DEF Matched
        <5>5. \A q \in Paths : ~InHand(t, q)'
          BY <3>2, <4>5 DEF InHand
        <5> QED
          BY <3>1, <3>2, <3>3, <4>3, <4>4, <5>4, <5>5 DEF VisitedBy, Indexed
      <4>6. CASE pc' = [pc EXCEPT ![t] = "clear"] /\ cur' = [cur EXCEPT ![t] = p]
        <5>1. \A q \in Paths : InHand(t, q)' <=> q = p
          BY <3>3, <4>6 DEF InHand
        <5>2. p \notin todo'[t]
          BY <3>1
        <5> QED
          BY <3>2, <3>3, <4>3, <4>4, <5>1, <5>2 DEF VisitedBy, Indexed
      <4> QED
        BY <3>1, <4>5, <4>6
    <3>5. Chunked
      BY <3>2 DEF Visited
    <3> QED
      BY <2>0, <3>1, <3>2, <3>4, <3>5 DEF Inside, Working
  <2>9. CASE Clear(t)
    <3>1. /\ pc[t] = "clear" /\ Others(t) /\ pc'[t] \in {"record", "upsert"}
          /\ points' = [points EXCEPT ![r][cur[t]] = NoBlob]
          /\ UNCHANGED <<commits, stPaths, lost, raced, repo, tip, cur, todo, had>>
      BY <2>9 DEF Clear, DeleteByPath, Goto, git, state, pass, history
    <3>2. ASSUME ~raced[r] PROVE VisitedBy(t)'
      <4>1. Want(t)' = Want(t) /\ VisitedBy(t)
        BY <3>1, <3>2 DEF Want, Visited, Reconciling
      <4>2. \A q \in Paths : (InHand(t, q) <=> q = cur[t]) /\ (InHand(t, q)' <=> q = cur[t])
        BY <3>1 DEF InHand
      <4>3. \A q \in Paths : q # cur[t] => points'[r][q] = points[r][q]
        BY <3>1 DEF Tree
      <4> QED
        BY <3>1, <4>1, <4>2, <4>3 DEF VisitedBy, Indexed
    <3>3. Chunked
      BY <3>1 DEF Visited
    <3> QED
      BY <2>0, <3>1, <3>2, <3>3 DEF Inside, Working
  <2>10. CASE Upsert(t)
    <3>1. /\ pc[t] = "upsert" /\ Others(t) /\ pc'[t] = "record"
          /\ points' = [points EXCEPT ![r][cur[t]] = Want(t)[cur[t]]]
          /\ UNCHANGED <<commits, stPaths, lost, raced, repo, tip, cur, todo, had>>
      BY <2>10 DEF Upsert, UpsertPath, Goto, git, state, pass, history
    <3>2. ASSUME ~raced[r] PROVE VisitedBy(t)'
      <4>1. Want(t)' = Want(t) /\ VisitedBy(t)
        BY <3>1, <3>2 DEF Want, Visited, Reconciling
      <4>2. \A q \in Paths : (InHand(t, q) <=> q = cur[t]) /\ (InHand(t, q)' <=> q = cur[t])
        BY <3>1 DEF InHand
      <4>3. \A q \in Paths : q # cur[t] => points'[r][q] = points[r][q]
        BY <3>1 DEF Tree
      <4> QED
        BY <3>1, <4>1, <4>2, <4>3 DEF VisitedBy, Indexed
    <3>3. Chunked
      BY <3>1 DEF Visited
    <3> QED
      BY <2>0, <3>1, <3>2, <3>3 DEF Inside, Working
  <2>11. CASE Record(t)
    <3> DEFINE b == Indexed(Want(t)[cur[t]])
    <3>1. /\ pc[t] = "record" /\ Others(t) /\ pc'[t] = "loop"
          /\ stPaths' = [stPaths EXCEPT ![r][cur[t]] = b]
          /\ lost' = [lost EXCEPT ![r] = @ \ {cur[t]}]
          /\ UNCHANGED <<commits, points, raced, repo, tip, cur, todo, had>>
      BY <2>11 DEF Record, Goto, git, store, pass
    <3>2. ASSUME ~raced[r] PROVE VisitedBy(t)'
      <4>1. Want(t)' = Want(t) /\ VisitedBy(t)
        BY <3>1, <3>2 DEF Want, Visited, Reconciling
      <4>2. \A q \in Paths : (InHand(t, q) <=> q = cur[t]) /\ ~InHand(t, q)'
        BY <3>1 DEF InHand
      <4>3. \A q \in Paths : q # cur[t] => stPaths'[r][q] = stPaths[r][q]
                                           /\ (q \in lost'[r] <=> q \in lost[r])
        BY <3>1 DEF Tree
      <4>4. points'[r][cur[t]] = b /\ cur[t] \notin todo[t]
        BY <3>1, <3>2, <4>1, <4>2 DEF Matched, VisitedBy
      <4> QED
        BY <3>1, <4>1, <4>2, <4>3, <4>4 DEF VisitedBy, Indexed
    <3>3. Indexed(b) = b
      BY IndexerAssumption DEF Indexed
    <3>4. Chunked
      BY <3>1, <3>3 DEF Visited, Tree
    <3> QED
      BY <2>0, <3>1, <3>2, <3>4 DEF Inside, Working
  <2>12. CASE SetCommit(t)
    BY <1>3, <2>12 DEF SetCommit, Done, Goto, git, store, pass, history, Reconciling
  <2>13. CASE Fails(t)
    <3>1. /\ pc[t] \in Inside /\ pc'[t] \notin Reconciling /\ Others(t)
          /\ UNCHANGED <<commits, stPaths, raced, repo>>
      BY <2>13 DEF Fails, Goto, git, state, pass, Inside, Working, Reconciling
    <3>2. Elsewhere
      BY <2>13 DEF Fails, TookEffect, DeleteByPath, UpsertPath, state, Tree
    <3>3. Chunked
      BY <3>1 DEF Visited
    <3> QED
      BY <2>0, <3>1, <3>2, <3>3
  <2>14. CASE ClearProgress(t)
    BY <1>3, <2>14 DEF ClearProgress, Goto, git, store, state, pass, history, Reconciling
  <2>15. CASE Return(t)
    BY <1>3, <2>15 DEF Return, Release, Goto, git, store, state, history, Reconciling
  <2>16. CASE Drop(t)
    <3>1. /\ pc[t] \in Removing /\ pc'[t] \notin Reconciling /\ Others(t) /\ Elsewhere
          /\ UNCHANGED <<commits, stPaths, raced, repo>>
      BY <2>16 DEF Drop, DropCollection, Goto, git, store, state, pass, Removing, Reconciling
    <3> QED
      BY <2>00, <3>1 DEF Visited
  <2>17. CASE RmMirror(t)
    <3>0. MirrorGone(t)
      BY ONLY t \in Threads, <2>17, RmMirrorMoves
    <3> QED
      BY <1>3, <2>17, <3>0 DEF MirrorGone, Reconciling
  <2>18. CASE RmDocs(t)
    <3>0. DocsGone(t)
      BY ONLY t \in Threads, <2>18, RmDocsMoves
    <3> QED
      BY <1>3, <2>18, <3>0 DEF DocsGone, git, Reconciling
  <2>19. CASE ForgetState(t)
    <3>1. /\ pc[t] \in Removing /\ pc'[t] \notin Reconciling /\ Others(t) /\ Elsewhere
          /\ UNCHANGED <<commits, raced, repo>>
          /\ stPaths' = [stPaths EXCEPT ![r] = Empty]
      BY <2>19 DEF ForgetState, Forget, Goto, git, store, pass, Removing, Reconciling
    <3>2. Chunked
      BY <3>1, IndexerAssumption DEF Visited, Empty, Indexed
    <3> QED
      BY <2>00, <3>1, <3>2
  <2>20. CASE DropRegistration(t)
    BY <1>3, <2>20 DEF DropRegistration, Goto, git, store, state, pass, history, Reconciling
  <2>21. CASE Begin(t)
    <3>0. Begun(t)
      BY ONLY t \in Threads, <2>21, BeginMoves
    <3>1. /\ pc'[t] = "ensure" /\ Others(t)
          /\ \A s \in Repos : ~raced'[s] => ~raced[s]
          /\ UNCHANGED <<commits, points, stPaths, lost>>
      BY <2>21, <3>0 DEF Begun, git
    <3> QED
      BY <1>2, <3>1 DEF Reconciling
  <2>22. CASE AlreadyRunning(t)
    BY <1>W, <2>22, AlreadyRunningWaits
  <2> QED
    BY <1>4, <2>1, <2>2, <2>3, <2>4, <2>5, <2>6, <2>7, <2>8, <2>9, <2>10, <2>11, <2>12,
       <2>13, <2>14, <2>15, <2>16, <2>17, <2>18, <2>19, <2>20, <2>21, <2>22 DEF Step
<1>6. CASE NextRound
  BY <1>2, <1>6 DEF NextRound, git, store, state, pass, history
<1>7. CASE NextInRound
  <2>1. CASE \E r \in Repos : Lookup(Sched, r, FALSE)
    BY <1>W, <1>7, <2>1, LookupWaits, RoundMoves
  <2>2. CASE UNCHANGED <<git, docCache, store, reg, state, held, progress, pc, repo, pass,
                         history, budget>>
    BY <1>2, <2>2 DEF git, store, state, pass, history
  <2> QED
    BY <1>7, <2>1, <2>2, RoundMoves
<1>8. ASSUME NEW t \in Requests, Reindex(t) PROVE Visited'
  BY <1>W, <1>8, LookupWaits DEF Reindex, Threads
<1>9. ASSUME NEW t \in Requests, NEW r \in Repos, Deregister(t, r) PROVE Visited'
  <2>1. /\ t \in Threads /\ pc'[t] \in {"drop", "deregister"} /\ Others(t)
        /\ \A s \in Repos : ~raced'[s] => ~raced[s]
        /\ UNCHANGED <<commits, points, stPaths, lost>>
    BY <1>9 DEF Deregister, Threads, Goto, git, store, state, pass
  <2> QED
    BY <1>2, <2>1 DEF Reconciling
<1>10. ASSUME NEW r \in Repos, Register(r) PROVE Visited'
  BY <1>2, <1>10 DEF Register, git, store, state, pass, history
<1>11. ASSUME NEW r \in Repos, Push(r) PROVE Visited'
  <2>1. Grows
    BY <1>11 DEF Push
  <2> QED
    BY <1>2, <1>11, <2>1 DEF Push, store, state, pass, history
<1>12. CASE Crash
  BY <1>12, IndexerAssumption DEF Crash, Visited, Reconciling, Empty, Indexed
<1>13. CASE UNCHANGED vars
  BY <1>2, <1>13 DEF vars, git, store, state, pass, history
<1> QED
  BY <1>4, <1>6, <1>7, <1>8, <1>9, <1>10, <1>11, <1>12, <1>13 DEF Next

(* What a pass has visited is as it should be, in every behaviour.         *)
THEOREM VisitedInvariance == Spec => []Visited
<1>1. TypeOK /\ Aimed /\ Locked /\ Cleared /\ Matched /\ Visited /\ [Next]_vars => Visited'
  BY StepVisited
<1> QED
  BY InitVisited, <1>1, TypeInvariance, LockInvariance, ClearedInvariance,
     MatchedInvariance, PTL DEF Spec

(* A pass that is through has made the collection what the tree is, except *)
(* where history says why not.                                             *)
THEOREM PassesMatch == Spec => []PassMatchesTree
<1>1. TypeOK /\ Visited => PassMatchesTree
  <2> SUFFICES ASSUME TypeOK, Visited, NEW t \in Threads, Done(t), ~raced[repo[t]],
                      NEW p \in Paths \ lost[repo[t]]
               PROVE  points[repo[t]][p] = Indexed(Want(t)[p])
    BY DEF PassMatchesTree
  <2>1. VisitedBy(t)
    BY DEF Visited, Done, Reconciling
  <2>2. ~InHand(t, p) /\ p \notin todo[t]
    BY DEF Done, InHand
  <2> QED
    BY <2>1, <2>2 DEF VisitedBy
<1> QED
  BY <1>1, TypeInvariance, VisitedInvariance, PTL
=============================================================================
