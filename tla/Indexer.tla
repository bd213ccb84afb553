------------------------------ MODULE Indexer ------------------------------
(***************************************************************************)
(* The indexer's write side: index passes, the scheduler, registration and *)
(* removal of repositories (indexer/indexer/service.py, pipeline/*.py,     *)
(* scheduler/cron.py, lock/__init__.py, registry_store.py, git/mirror.py,  *)
(* store/qdrant.py and the write endpoints of app.py).                     *)
(*                                                                         *)
(* A repository's branch moves.  A pass fetches it into a mirror, renews   *)
(* the generated documents, and makes the repository's collection of       *)
(* points match the fetched tree, path by path.  What it has indexed it    *)
(* records in the memory of the process, nowhere else.  A pass runs in a   *)
(* worker thread under a lock named after the repository; the removal of a *)
(* repository runs in another thread and takes no lock, and what it cannot *)
(* delete of the volume it leaves without a word.  Any call to git, to the *)
(* embedding service or to the store may fail, before or after it took     *)
(* effect, a call to git may also never return, and the process may die    *)
(* between any two of them.                                                *)
(***************************************************************************)
EXTENDS Integers, FiniteSets, Sequences

CONSTANTS
  Repos,        (* repository ids                                          *)
  Declared,     (* those that repos.yaml declares                          *)
  Paths,        (* the paths that a repository's globs include             *)
  Blobs,        (* contents of a file                                      *)
  Unchunked,    (* contents that yield no chunk: binary, too large, empty  *)
  NoBlob,       (* no such file; no points; not recorded                   *)
  Sched,        (* the scheduler's thread                                  *)
  Requests,     (* threads that serve requests                             *)
  MaxCommits,   (* bound: commits of a branch                              *)
  MaxMishaps,   (* bound: calls and deletions that fail, deaths of the     *)
                (* process                                                 *)
  MaxRemovals   (* bound: removals of a repository                         *)

Threads == Requests \cup {Sched}
Tree    == [Paths -> Blobs \cup {NoBlob}]
Empty   == [p \in Paths |-> NoBlob]
Commit  == 0..MaxCommits   (* 0: none *)

ASSUME IndexerAssumption ==
  /\ Declared \subseteq Repos
  /\ NoBlob \notin Blobs /\ Unchunked \subseteq Blobs
  /\ Sched \notin Requests
  /\ Repos # {} /\ Paths # {} /\ IsFiniteSet(Paths)
  /\ MaxCommits \in Nat \ {0} /\ MaxMishaps \in Nat /\ MaxRemovals \in Nat

VARIABLES
  commits,      (* commits[r]: the trees of r's branch, oldest first       *)
  mirror,       (* mirror[r]: the commit the mirror has fetched, 0: none   *)
  debris,       (* debris[r]: a part of a mirror, which git may not be     *)
                (* able to use                                             *)
  docCache,     (* docCache[r]: the commit whose domain docs are on disk   *)
  coll,         (* coll[r]: r's collection exists                          *)
  points,       (* points[r][p]: the blob whose chunks are stored for p    *)
  docPoints,    (* docPoints[r]: the commit whose doc points are stored    *)
  persisted,    (* repos.json                                              *)
  semantic,     (* the process has a store and an embedder                 *)
  registry,     (* ctx.registry and service.registry                       *)
  captured,     (* the registry the scheduler was built with               *)
  stCommit,     (* InMemoryStateStore: the commit of the last full pass    *)
  stPaths,      (* ... and path -> blob of what it recorded as indexed     *)
  held,         (* InMemoryLock: names in use                              *)
  progress,     (* ProgressStore                                           *)
  pc, repo,     (* where a thread stands, and on which repository          *)
  full,         (* the pass ignores what is recorded                       *)
  made,         (* the commit of the docs the pass has generated           *)
  tip, had,     (* the tree the pass aims at, its copy of the records      *)
  todo, cur,    (* the paths it has yet to visit, the one in hand          *)
  round,        (* repositories left in the scheduler's round              *)
  lost,         (* history: paths whose record and points came apart       *)
  raced,        (* history: a removal overlapped with a pass               *)
  undropped,    (* history: a removal could not drop the collection        *)
  unremoved,    (* history: what a removal could not delete of the volume  *)
  docsLost,     (* history: doc points and saved documents came apart      *)
  mishaps, removals

git     == <<commits, mirror, debris>>
store   == <<coll, points, docPoints>>
reg     == <<persisted, semantic, registry, captured>>
state   == <<stCommit, stPaths>>
pass    == <<full, made, tip, had, todo, cur>>
history == <<lost, raced, undropped, unremoved, docsLost>>
budget  == <<mishaps, removals>>
vars    == <<git, docCache, store, reg, state, held, progress, pc, repo,
             pass, round, history, budget>>

NoProgress == [phase |-> "none", processed |-> 0, total |-> 0]
At(phase)  == [phase |-> phase, processed |-> 0, total |-> 0]

(* Working: inside the lock, progress shown.  Removing: inside purge_repo. *)
Working  == {"ensure", "docs", "clearDocs", "storeDocs", "collection", "plan",
             "loop", "clear", "upsert", "record", "commit", "finally"}
Inside   == Working \cup {"release"}
Removing == {"drop", "rmMirror", "rmDocs", "forget"}

InPass(t, r)   == pc[t] \in Inside /\ repo[t] = r
Removal(t, r)  == pc[t] \in Removing \cup {"deregister"} /\ repo[t] = r

TypeOK ==
  /\ commits \in [Repos -> Seq(Tree)] /\ mirror \in [Repos -> Commit]
  /\ debris \in [Repos -> BOOLEAN] /\ docCache \in [Repos -> Commit]
  /\ coll \in [Repos -> BOOLEAN] /\ points \in [Repos -> Tree]
  /\ docPoints \in [Repos -> Commit]
  /\ persisted \subseteq Repos /\ registry \subseteq Repos /\ captured \subseteq Repos
  /\ semantic \in BOOLEAN
  /\ stCommit \in [Repos -> Commit] /\ stPaths \in [Repos -> Tree]
  /\ held \subseteq Repos
  /\ progress \in [Repos -> [phase : {"none", "cloning", "docs", "embedding"},
                             processed : Nat, total : Nat]]
  /\ pc \in [Threads -> Inside \cup Removing \cup {"idle", "acquire", "deregister"}]
  /\ repo \in [Threads -> Repos] /\ full \in [Threads -> BOOLEAN]
  /\ made \in [Threads -> Commit] /\ tip \in [Threads -> Commit]
  /\ had \in [Threads -> Tree]
  /\ todo \in [Threads -> SUBSET Paths] /\ cur \in [Threads -> Paths]
  /\ round \subseteq Repos
  /\ lost \in [Repos -> SUBSET Paths]
  /\ raced \in [Repos -> BOOLEAN] /\ undropped \in [Repos -> BOOLEAN]
  /\ unremoved \in [Repos -> SUBSET {"mirror", "docs"}]
  /\ docsLost \in [Repos -> BOOLEAN]
  /\ mishaps \in 0..MaxMishaps /\ removals \in 0..MaxRemovals

AnyPath == CHOOSE p \in Paths : TRUE
AnyRepo == CHOOSE r \in Repos : TRUE

(* The first commit has one content everywhere, so that it may be reverted *)
(* to.  The indexer starts with nothing on its volume.                     *)
Init ==
  /\ \E b \in Blobs \ Unchunked : commits = [r \in Repos |-> <<[p \in Paths |-> b]>>]
  /\ mirror = [r \in Repos |-> 0] /\ debris = [r \in Repos |-> FALSE]
  /\ docCache = [r \in Repos |-> 0]
  /\ coll = [r \in Repos |-> FALSE] /\ points = [r \in Repos |-> Empty]
  /\ docPoints = [r \in Repos |-> 0]
  /\ persisted = {} /\ registry = Declared /\ captured = Declared
  /\ semantic \in BOOLEAN
  /\ stCommit = [r \in Repos |-> 0] /\ stPaths = [r \in Repos |-> Empty]
  /\ held = {} /\ progress = [r \in Repos |-> NoProgress]
  /\ pc = [t \in Threads |-> "idle"] /\ repo = [t \in Threads |-> AnyRepo]
  /\ full = [t \in Threads |-> FALSE] /\ made = [t \in Threads |-> 0]
  /\ tip = [t \in Threads |-> 0] /\ had = [t \in Threads |-> Empty]
  /\ todo = [t \in Threads |-> {}] /\ cur = [t \in Threads |-> AnyPath]
  /\ round = {}
  /\ lost = [r \in Repos |-> {}] /\ raced = [r \in Repos |-> FALSE]
  /\ undropped = [r \in Repos |-> FALSE] /\ unremoved = [r \in Repos |-> {}]
  /\ docsLost = [r \in Repos |-> FALSE]
  /\ mishaps = 0 /\ removals = 0

Goto(t, place) == pc' = [pc EXCEPT ![t] = place]

(* The tree the pass aims at, and what of a blob ends up in the store.     *)
Want(t)    == commits[repo[t]][tip[t]]
Indexed(b) == IF b \in Unchunked THEN NoBlob ELSE b

(* The calls to the store.                                                 *)
DeleteByPath(r, p) == points' = [points EXCEPT ![r][p] = NoBlob]
UpsertPath(r, p, b) == points' = [points EXCEPT ![r][p] = b]
DeleteDocs(r) == docPoints' = [docPoints EXCEPT ![r] = 0]

DropCollection(r) ==
  /\ coll' = [coll EXCEPT ![r] = FALSE]
  /\ points' = [points EXCEPT ![r] = Empty]
  /\ docPoints' = [docPoints EXCEPT ![r] = 0]

-----------------------------------------------------------------------------
(* The source: somebody pushes a commit that changes one file.             *)

Push(r) ==
  /\ Len(commits[r]) < MaxCommits
  /\ LET head == commits[r][Len(commits[r])] IN
     \E p \in Paths : \E b \in (Blobs \cup {NoBlob}) \ {head[p]} :
       commits' = [commits EXCEPT ![r] = Append(@, [head EXCEPT ![p] = b])]
  /\ UNCHANGED <<mirror, debris, docCache, store, reg, state, held, progress, pc, repo,
                 pass, round, history, budget>>

-----------------------------------------------------------------------------
(* IndexService.index_repo.                                                *)

(* A known repository is looked up in the registry of the moment; for an   *)
(* unknown one nothing happens.                                            *)
Lookup(t, r, all) ==
  /\ pc[t] = "idle" /\ r \in registry
  /\ repo' = [repo EXCEPT ![t] = r] /\ full' = [full EXCEPT ![t] = all]
  /\ Goto(t, "acquire")
  /\ UNCHANGED <<git, docCache, store, reg, state, held, progress, made, tip,
                 had, todo, cur, history, budget>>

(* POST /reindex, POST /v1/index/{repo}                                    *)
Reindex(t) ==
  /\ t \in Requests
  /\ \E r \in Repos, all \in BOOLEAN : Lookup(t, r, all)
  /\ UNCHANGED round

(* The scheduler's loop: the interval is over; the next repository of the  *)
(* round, which is looked up or skipped.                                   *)
NextRound ==
  /\ pc[Sched] = "idle" /\ round = {}
  /\ round' = captured
  /\ UNCHANGED <<git, docCache, store, reg, state, held, progress, pc, repo,
                 pass, history, budget>>

NextInRound ==
  /\ pc[Sched] = "idle"
  /\ \E r \in round :
       /\ round' = round \ {r}
       /\ \/ Lookup(Sched, r, FALSE)
          \/ /\ r \notin registry
             /\ UNCHANGED <<git, docCache, store, reg, state, held, progress,
                            pc, repo, pass, history, budget>>

(* MUTANT of Acquire: the caller does not look at what acquire yielded.    *)
AcquireAnyway(r) == TRUE

Acquire(r) == r \notin held

(* The lock is taken.  A removal may be under way, or over, by now.        *)
Begin(t) ==
  LET r == repo[t] IN
  /\ pc[t] = "acquire" /\ Acquire(r)
  /\ held' = held \cup {r}
  /\ progress' = [progress EXCEPT ![r] = At("cloning")]
  /\ raced' = [raced EXCEPT ![r] =
                 @ \/ r \notin registry \/ \E u \in Threads : Removal(u, r)]
  /\ Goto(t, "ensure")
  /\ UNCHANGED <<git, docCache, store, reg, state, repo, pass, round, lost,
                 undropped, unremoved, docsLost, budget>>

(* The lock is not free: "already_running".                                *)
AlreadyRunning(t) ==
  /\ pc[t] = "acquire" /\ repo[t] \in held
  /\ repo' = [repo EXCEPT ![t] = AnyRepo] /\ full' = [full EXCEPT ![t] = FALSE]
  /\ Goto(t, "idle")
  /\ UNCHANGED <<git, docCache, store, reg, state, held, progress, made, tip,
                 had, todo, cur, round, history, budget>>

(* MUTANT of Fetched: one commit too far.                                  *)
FetchedAhead(r) == Len(commits[r]) + 1

(* What clone or fetch brings: the branch as it is now.                    *)
Fetched(r) == Len(commits[r])

(* Mirror.ensure.  Where a part of a mirror lies, the fetch may repair it, *)
(* or it, or the clone, fails.                                             *)
Ensure(t) ==
  /\ pc[t] = "ensure"
  /\ mirror' = [mirror EXCEPT ![repo[t]] = Fetched(repo[t])]
  /\ debris' = [debris EXCEPT ![repo[t]] = FALSE]
  /\ progress' = [progress EXCEPT ![repo[t]] = At("docs")]
  /\ Goto(t, "docs")
  /\ UNCHANGED <<commits, docCache, store, reg, state, held, repo, pass, round,
                 history, budget>>

AfterDocs == IF semantic THEN "collection" ELSE "finally"

(* Documents are generated unless there are some and the tip is the        *)
(* commit of the last pass.                                                *)
Refresh(r) == docCache[r] = 0 \/ mirror[r] # stCommit[r]

(* _refresh_docs, with domain docs enabled: generated (0: the model gave   *)
(* none) and saved.                                                        *)
Docs(t) ==
  LET r == repo[t] IN
  /\ pc[t] = "docs" /\ mirror[r] # 0
  /\ IF Refresh(r)
       THEN \E c \in {0, mirror[r]} :
              /\ docCache' = [docCache EXCEPT ![r] = c]
              /\ made' = [made EXCEPT ![t] = c]
              /\ docsLost' = [docsLost EXCEPT ![r] = @ \/ ~semantic]
              /\ Goto(t, IF semantic THEN "clearDocs" ELSE "finally")
       ELSE Goto(t, AfterDocs) /\ UNCHANGED <<docCache, made, docsLost>>
  /\ UNCHANGED <<git, store, reg, state, held, progress, repo, full, tip, had,
                 todo, cur, round, lost, raced, undropped, unremoved, budget>>

(* MUTANT of ClearDocs: it returns before the delete when there are none.  *)
ClearSomeDocs(t) ==
  LET r == repo[t] IN
  /\ pc[t] = "clearDocs"
  /\ coll' = [coll EXCEPT ![r] = TRUE]
  /\ docPoints' = IF made[t] = 0 THEN docPoints ELSE [docPoints EXCEPT ![r] = 0]
  /\ docsLost' = [docsLost EXCEPT ![r] = @ /\ made[t] # 0]
  /\ Goto(t, IF made[t] = 0 THEN "collection" ELSE "storeDocs")
  /\ UNCHANGED <<git, docCache, points, reg, state, held, progress, repo, pass,
                 round, lost, raced, undropped, unremoved, budget>>

(* Pipeline.embed_docs: the collection is made, the old doc points go ...  *)
ClearDocs(t) ==
  LET r == repo[t] IN
  /\ pc[t] = "clearDocs"
  /\ coll' = [coll EXCEPT ![r] = TRUE]
  /\ DeleteDocs(r)
  /\ docsLost' = [docsLost EXCEPT ![r] = @ /\ made[t] # 0]
  /\ Goto(t, IF made[t] = 0 THEN "collection" ELSE "storeDocs")
  /\ UNCHANGED <<git, docCache, points, reg, state, held, progress, repo, pass,
                 round, lost, raced, undropped, unremoved, budget>>

(* ... and the new ones are embedded and stored.                           *)
StoreDocs(t) ==
  LET r == repo[t] IN
  /\ pc[t] = "storeDocs" /\ coll[r]
  /\ docPoints' = [docPoints EXCEPT ![r] = made[t]]
  /\ docsLost' = [docsLost EXCEPT ![r] = FALSE]
  /\ Goto(t, "collection")
  /\ UNCHANGED <<git, docCache, coll, points, reg, state, held, progress, repo,
                 pass, round, lost, raced, undropped, unremoved, budget>>

(* A failure while documents are renewed is logged and forgotten, whatever *)
(* of the step was done.                                                   *)
DocsFail(t) ==
  LET r == repo[t]
      broken == \/ pc[t] = "docs" /\ mirror[r] = 0
                \/ pc[t] = "storeDocs" /\ ~coll[r]
  IN
  /\ pc[t] \in {"docs", "clearDocs", "storeDocs"}
  /\ \/ broken /\ UNCHANGED <<docCache, coll, docPoints, mishaps>>
     \/ /\ ~broken /\ mishaps < MaxMishaps /\ mishaps' = mishaps + 1
        /\ \/ pc[t] = "docs" /\ Refresh(r)
              /\ docCache' \in {docCache, [docCache EXCEPT ![r] = mirror[r]]}
              /\ UNCHANGED <<coll, docPoints>>
           \/ pc[t] = "clearDocs"
              /\ coll' \in {coll, [coll EXCEPT ![r] = TRUE]}
              /\ docPoints' \in {docPoints, [docPoints EXCEPT ![r] = 0]}
              /\ UNCHANGED docCache
           \/ pc[t] = "storeDocs"
              /\ docPoints' \in {docPoints, [docPoints EXCEPT ![r] = made[t]]}
              /\ UNCHANGED <<docCache, coll>>
  /\ docsLost' = [docsLost EXCEPT ![r] = TRUE]
  /\ Goto(t, AfterDocs)
  /\ UNCHANGED <<git, points, reg, state, held, progress, repo, pass, round,
                 lost, raced, undropped, unremoved, removals>>

-----------------------------------------------------------------------------
(* Pipeline.reconcile.                                                     *)

EnsureCollection(t) ==
  /\ pc[t] = "collection"
  /\ coll' = [coll EXCEPT ![repo[t]] = TRUE]
  /\ Goto(t, "plan")
  /\ UNCHANGED <<git, docCache, points, docPoints, reg, state, held, progress,
                 repo, pass, round, history, budget>>

(* MUTANT of Gone: what the branch no longer has is not looked for.        *)
NothingGone(records, tree) == {}

(* Recorded paths that the tree does not have.                             *)
Gone(records, tree) == {p \in Paths : records[p] # NoBlob /\ tree[p] = NoBlob}

(* The tip, its tree and a copy of the records are read.                   *)
Plan(t) ==
  LET r == repo[t]
      tree == commits[r][mirror[r]]
      desired == {p \in Paths : tree[p] # NoBlob} IN
  /\ pc[t] = "plan" /\ mirror[r] # 0
  /\ tip' = [tip EXCEPT ![t] = mirror[r]]
  /\ had' = [had EXCEPT ![t] = stPaths[r]]
  /\ todo' = [todo EXCEPT ![t] = desired \cup Gone(stPaths[r], tree)]
  /\ progress' = [progress EXCEPT ![r] =
                    [At("embedding") EXCEPT !.total = Cardinality(desired)]]
  /\ Goto(t, "loop")
  /\ UNCHANGED <<git, docCache, store, reg, state, held, repo, full, made, cur,
                 round, history, budget>>

(* The next path, desired ones first (in whatever order git lists them);   *)
(* one whose recorded blob is the desired one is skipped.                  *)
Take(t) ==
  \E p \in todo[t] :
    LET r == repo[t] IN
    /\ pc[t] = "loop"
    /\ Want(t)[p] = NoBlob => \A q \in todo[t] : Want(t)[q] = NoBlob
    /\ todo' = [todo EXCEPT ![t] = @ \ {p}]
    /\ progress' = IF Want(t)[p] = NoBlob THEN progress
                   ELSE [progress EXCEPT ![r].processed = @ + 1]
    /\ IF Want(t)[p] # NoBlob /\ ~full[t] /\ had[t][p] = Want(t)[p]
         THEN UNCHANGED <<pc, cur>>
         ELSE Goto(t, "clear") /\ cur' = [cur EXCEPT ![t] = p]
    /\ UNCHANGED <<git, docCache, store, reg, state, held, repo, full, made,
                   tip, had, round, history, budget>>

(* The blob is read, chunked and embedded; the path's points are deleted.  *)
Clear(t) ==
  LET r == repo[t] IN
  /\ pc[t] = "clear" /\ coll[r]
  /\ mirror[r] # 0 \/ Want(t)[cur[t]] = NoBlob
  /\ DeleteByPath(r, cur[t])
  /\ Goto(t, IF Indexed(Want(t)[cur[t]]) = NoBlob THEN "record" ELSE "upsert")
  /\ UNCHANGED <<git, docCache, coll, docPoints, reg, state, held, progress,
                 repo, pass, round, history, budget>>

Upsert(t) ==
  LET r == repo[t] IN
  /\ pc[t] = "upsert" /\ coll[r]
  /\ UpsertPath(r, cur[t], Want(t)[cur[t]])
  /\ Goto(t, "record")
  /\ UNCHANGED <<git, docCache, coll, docPoints, reg, state, held, progress,
                 repo, pass, round, history, budget>>

(* MUTANT of Record: a file that lost its chunks keeps its record.         *)
RecordOnlyChunked(t) ==
  LET r == repo[t]
      b == Indexed(Want(t)[cur[t]]) IN
  /\ pc[t] = "record"
  /\ stPaths' = IF b = NoBlob THEN stPaths ELSE [stPaths EXCEPT ![r][cur[t]] = b]
  /\ lost' = [lost EXCEPT ![r] = @ \ {cur[t]}]
  /\ Goto(t, "loop")
  /\ UNCHANGED <<git, docCache, store, reg, stCommit, held, progress, repo,
                 pass, round, raced, undropped, unremoved, docsLost, budget>>

(* set_path or remove_path                                                 *)
Record(t) ==
  LET r == repo[t] IN
  /\ pc[t] = "record"
  /\ stPaths' = [stPaths EXCEPT ![r][cur[t]] = Indexed(Want(t)[cur[t]])]
  /\ lost' = [lost EXCEPT ![r] = @ \ {cur[t]}]
  /\ Goto(t, "loop")
  /\ UNCHANGED <<git, docCache, store, reg, stCommit, held, progress, repo,
                 pass, round, raced, undropped, unremoved, docsLost, budget>>

Done(t) == pc[t] = "loop" /\ todo[t] = {}

SetCommit(t) ==
  /\ Done(t)
  /\ stCommit' = [stCommit EXCEPT ![repo[t]] = tip[t]]
  /\ Goto(t, "finally")
  /\ UNCHANGED <<git, docCache, store, reg, stPaths, held, progress, repo,
                 pass, round, history, budget>>

-----------------------------------------------------------------------------
(* A call of the pass fails, because it does or because a removal took the *)
(* mirror or the collection away; it may have taken effect all the same.   *)

Broken(t) ==
  LET r == repo[t] IN
  \/ pc[t] = "ensure" /\ debris[r]
  \/ pc[t] \in {"docs", "plan"} /\ mirror[r] = 0
  \/ pc[t] = "clear" /\ (~coll[r] \/ (mirror[r] = 0 /\ Want(t)[cur[t]] # NoBlob))
  \/ pc[t] = "upsert" /\ ~coll[r]

TookEffect(t) ==
  LET r == repo[t] IN
  \/ pc[t] = "collection" /\ coll' = [coll EXCEPT ![r] = TRUE] /\ UNCHANGED points
  \/ pc[t] = "clear" /\ DeleteByPath(r, cur[t]) /\ UNCHANGED coll
  \/ pc[t] = "upsert" /\ UpsertPath(r, cur[t], Want(t)[cur[t]]) /\ UNCHANGED coll

Fails(t) ==
  LET r == repo[t] IN
  /\ pc[t] \in {"ensure", "docs", "collection", "plan", "clear", "upsert"}
  /\ \/ Broken(t) /\ UNCHANGED <<coll, points, mishaps>>
     \/ /\ ~Broken(t) /\ mishaps < MaxMishaps /\ mishaps' = mishaps + 1
        /\ UNCHANGED <<coll, points>> \/ TookEffect(t)
  /\ lost' = IF pc[t] \in {"clear", "upsert"} /\ points'[r][cur[t]] # stPaths[r][cur[t]]
               THEN [lost EXCEPT ![r] = @ \cup {cur[t]}] ELSE lost
  /\ Goto(t, "finally")
  /\ UNCHANGED <<git, docCache, docPoints, reg, state, held, progress, repo,
                 pass, round, raced, undropped, unremoved, docsLost, removals>>

(* The end of a pass, however it went: progress is cleared, then the lock  *)
(* is released.                                                            *)
ClearProgress(t) ==
  /\ pc[t] = "finally"
  /\ progress' = [progress EXCEPT ![repo[t]] = NoProgress]
  /\ Goto(t, "release")
  /\ UNCHANGED <<git, docCache, store, reg, state, held, repo, pass, round,
                 history, budget>>

(* MUTANT of Release: the lock is kept.                                    *)
ReleaseNothing(t) == pc[t] = "release" /\ Goto(t, "idle") /\ UNCHANGED held

Release(t) == pc[t] = "release" /\ Goto(t, "idle") /\ held' = held \ {repo[t]}

Return(t) ==
  /\ Release(t)
  /\ repo' = [repo EXCEPT ![t] = AnyRepo]
  /\ full' = [full EXCEPT ![t] = FALSE] /\ made' = [made EXCEPT ![t] = 0]
  /\ tip' = [tip EXCEPT ![t] = 0] /\ had' = [had EXCEPT ![t] = Empty]
  /\ todo' = [todo EXCEPT ![t] = {}] /\ cur' = [cur EXCEPT ![t] = AnyPath]
  /\ UNCHANGED <<git, docCache, store, reg, state, progress, round, history, budget>>

-----------------------------------------------------------------------------
(* Registration and removal.                                               *)

(* FsRepoStore: repos.json is read, changed and written.                   *)
Save(r)   == persisted' = persisted \cup {r}
Unsave(r) == persisted' = persisted \ {r}

(* A registry with a repository added.                                     *)
Merge(cfg, r) == cfg \cup {r}

(* POST /v1/repos: persisted, and merged into the registry.                *)
Register(r) ==
  /\ r \notin registry \cap persisted
  /\ Save(r) /\ registry' = Merge(registry, r)
  /\ UNCHANGED <<git, docCache, store, semantic, captured, state, held,
                 progress, pc, repo, pass, round, history, budget>>

(* DELETE /v1/repos/{repo}: a registered repository is purged first.       *)
Deregister(t, r) ==
  /\ t \in Requests /\ pc[t] = "idle" /\ removals < MaxRemovals
  /\ removals' = removals + 1
  /\ repo' = [repo EXCEPT ![t] = r]
  /\ raced' = [raced EXCEPT ![r] = @ \/ r \in held]
  /\ Goto(t, IF r \in registry THEN "drop" ELSE "deregister")
  /\ UNCHANGED <<git, docCache, store, reg, state, held, progress, pass, round,
                 lost, undropped, unremoved, docsLost, mishaps>>

(* purge_repo drops the collection, if there is a store and it answers ... *)
Drop(t) ==
  LET r == repo[t] IN
  /\ pc[t] = "drop"
  /\ \/ /\ DropCollection(r)
        /\ undropped' = [undropped EXCEPT ![r] = FALSE] /\ UNCHANGED mishaps
     \/ /\ undropped' = [undropped EXCEPT ![r] = TRUE] /\ UNCHANGED store
        /\ \/ mishaps < MaxMishaps /\ mishaps' = mishaps + 1
           \/ ~semantic /\ UNCHANGED mishaps
  /\ Goto(t, "rmMirror")
  /\ UNCHANGED <<git, docCache, reg, state, held, progress, repo, pass, round,
                 lost, raced, unremoved, docsLost, removals>>

(* rmtree with ignore_errors says nothing of what it leaves: because it    *)
(* cannot delete it, or because a pass is writing there.                   *)
RmtreeLeaves(r, writing) ==
  \/ mishaps < MaxMishaps /\ mishaps' = mishaps + 1
  \/ (\E u \in Threads : pc[u] = writing /\ repo[u] = r) /\ UNCHANGED mishaps

(* ... removes the mirror, or leaves it whole or in parts ...              *)
RmMirror(t) ==
  LET r == repo[t] IN
  /\ pc[t] = "rmMirror"
  /\ \/ /\ mirror' = [mirror EXCEPT ![r] = 0] /\ debris' = [debris EXCEPT ![r] = FALSE]
        /\ unremoved' = [unremoved EXCEPT ![r] = @ \ {"mirror"}]
        /\ UNCHANGED mishaps
     \/ /\ (mirror[r] # 0 \/ debris[r]) /\ RmtreeLeaves(r, "ensure")
        /\ mirror' \in {mirror, [mirror EXCEPT ![r] = 0]}
        /\ debris' = [debris EXCEPT ![r] = mirror'[r] = 0]
        /\ unremoved' = [unremoved EXCEPT ![r] = @ \cup {"mirror"}]
  /\ Goto(t, "rmDocs")
  /\ UNCHANGED <<commits, docCache, store, reg, state, held, progress, repo,
                 pass, round, lost, raced, undropped, docsLost, removals>>

(* ... and the document cache, or leaves it ...                            *)
RmDocs(t) ==
  LET r == repo[t] IN
  /\ pc[t] = "rmDocs"
  /\ \/ /\ docCache' = [docCache EXCEPT ![r] = 0]
        /\ unremoved' = [unremoved EXCEPT ![r] = @ \ {"docs"}]
        /\ UNCHANGED mishaps
     \/ /\ docCache[r] # 0 /\ RmtreeLeaves(r, "docs") /\ UNCHANGED docCache
        /\ unremoved' = [unremoved EXCEPT ![r] = @ \cup {"docs"}]
  /\ Goto(t, "forget")
  /\ UNCHANGED <<git, store, reg, state, held, progress, repo, pass, round,
                 lost, raced, undropped, docsLost, removals>>

Stored(r) == {p \in Paths : points[r][p] # NoBlob}

(* MUTANT of Forget: the records survive the removal.                      *)
ForgetCommit(r) == stCommit' = [stCommit EXCEPT ![r] = 0] /\ UNCHANGED stPaths

(* InMemoryStateStore.forget                                               *)
Forget(r) ==
  /\ stCommit' = [stCommit EXCEPT ![r] = 0]
  /\ stPaths' = [stPaths EXCEPT ![r] = Empty]

(* ... and forgets what it has recorded.                                   *)
ForgetState(t) ==
  LET r == repo[t] IN
  /\ pc[t] = "forget"
  /\ Forget(r)
  /\ lost' = [lost EXCEPT ![r] = Stored(r)]
  /\ docsLost' = [docsLost EXCEPT ![r] = docPoints[r] # docCache[r]]
  /\ Goto(t, "deregister")
  /\ UNCHANGED <<git, docCache, store, reg, held, progress, repo, pass, round,
                 raced, undropped, unremoved, budget>>

(* The handler goes on: repos.json, then the registry.                     *)
DropRegistration(t) ==
  /\ pc[t] = "deregister"
  /\ Unsave(repo[t]) /\ registry' = registry \ {repo[t]}
  /\ repo' = [repo EXCEPT ![t] = AnyRepo]
  /\ Goto(t, "idle")
  /\ UNCHANGED <<git, docCache, store, semantic, captured, state, held,
                 progress, pass, round, history, budget>>

(* repos.yaml, overlaid with repos.json.                                   *)
Overlay == Declared \cup persisted

(* The process dies and starts again: the volume and the store stay, what  *)
(* is in memory does not.  The store or the embedder may be unavailable    *)
(* from now on, and a clone that dies with the process leaves a part of a  *)
(* mirror.                                                                 *)
Cloning(r) == mirror[r] = 0 /\ \E t \in Threads : pc[t] = "ensure" /\ repo[t] = r

Crash ==
  /\ mishaps < MaxMishaps /\ mishaps' = mishaps + 1
  /\ registry' = Overlay /\ captured' = Overlay
  /\ semantic' \in BOOLEAN
  /\ stCommit' = [r \in Repos |-> 0] /\ stPaths' = [r \in Repos |-> Empty]
  /\ held' = {} /\ progress' = [r \in Repos |-> NoProgress]
  /\ pc' = [t \in Threads |-> "idle"] /\ repo' = [t \in Threads |-> AnyRepo]
  /\ full' = [t \in Threads |-> FALSE] /\ made' = [t \in Threads |-> 0]
  /\ tip' = [t \in Threads |-> 0] /\ had' = [t \in Threads |-> Empty]
  /\ todo' = [t \in Threads |-> {}] /\ cur' = [t \in Threads |-> AnyPath]
  /\ round' = {}
  /\ lost' = [r \in Repos |-> Stored(r)]
  /\ docsLost' = [r \in Repos |-> docPoints[r] # docCache[r]]
  /\ debris' \in {debris, [r \in Repos |-> debris[r] \/ Cloning(r)]}
  /\ UNCHANGED <<commits, mirror, docCache, store, persisted, raced, undropped,
                 unremoved, removals>>

-----------------------------------------------------------------------------
(* What a thread does once it has looked up a repository or begun to       *)
(* remove one.                                                             *)
Step(t) ==
  \/ Begin(t) \/ AlreadyRunning(t)
  \/ Ensure(t) \/ Docs(t) \/ ClearDocs(t) \/ StoreDocs(t) \/ DocsFail(t)
  \/ EnsureCollection(t) \/ Plan(t) \/ Take(t) \/ Clear(t) \/ Upsert(t)
  \/ Record(t) \/ SetCommit(t) \/ Fails(t) \/ ClearProgress(t) \/ Return(t)
  \/ Drop(t) \/ RmMirror(t) \/ RmDocs(t) \/ ForgetState(t) \/ DropRegistration(t)

Next ==
  \/ \E t \in Threads : Step(t)
  \/ \E t \in Requests : Reindex(t) \/ \E r \in Repos : Deregister(t, r)
  \/ NextRound \/ NextInRound
  \/ \E r \in Repos : Push(r) \/ Register(r)
  \/ Crash

(* Where a pass waits for git, which nobody limits in time: clone or fetch *)
(* (mirror.py:55), and reads of the mirror (repo.py:51, :61).              *)
CallsGit == {"ensure", "docs", "plan", "clear"}

(* Worker threads run, the clients of the store and of the embedding       *)
(* service give up in the end, and the scheduler's interval passes.        *)
(* Nothing is assumed of users, of whoever pushes, or of git, which may    *)
(* never return.                                                           *)
Fairness ==
  /\ \A t \in Threads : WF_vars(pc[t] \notin CallsGit /\ Step(t))
  /\ WF_vars(NextRound) /\ WF_vars(NextInRound)

Spec == Init /\ [][Next]_vars /\ Fairness

-----------------------------------------------------------------------------
(* What holds.                                                             *)

(* The status endpoints: the phase of a running pass, the commit of the    *)
(* last one.                                                               *)
Status(r) ==
  [phase  |-> progress[r].phase,
   commit |-> IF mirror[r] # 0 THEN stCommit[r] ELSE 0,
   part   |-> IF progress[r].phase = "embedding"
                THEN <<progress[r].processed, progress[r].total>> ELSE <<0, 0>>]

(* A repository's collection has one writer: its lock is held exactly      *)
(* while a pass is inside, no two passes are, a status shows a phase       *)
(* exactly while a pass works, and never more than the whole of it         *)
(* (lock/__init__.py, service.py:96).                                      *)
OnePassAtATime ==
  \A r \in Repos :
    /\ r \in held <=> \E t \in Threads : InPass(t, r)
    /\ \A t, u \in Threads : InPass(t, r) /\ InPass(u, r) => t = u
    /\ Status(r).phase # "none" <=> \E t \in Threads : InPass(t, r) /\ pc[t] \in Working
    /\ Status(r).part[1] <= Status(r).part[2]

Quiet(r, p) ==
  /\ ~raced[r] /\ ~\E t \in Threads : Removal(t, r)
  /\ ~\E t \in Threads : InPass(t, r) /\ pc[t] \in {"upsert", "record"} /\ cur[t] = p

(* What is recorded as indexed is what is stored, path by path, in both    *)
(* directions: it comes apart only where a call failed between delete and  *)
(* record, where the process died with its memory, where a removal could   *)
(* not drop the collection, or when a removal overlapped with a pass       *)
(* (state.py:6, pipeline/indexer.py:88-152).                               *)
RecordsMatchPoints ==
  \A r \in Repos, p \in Paths :
    Quiet(r, p) /\ p \notin lost[r] => stPaths[r][p] = points[r][p]

(* When a pass has visited all paths, the collection holds exactly what    *)
(* the fetched tree has, apart from such paths ("Make the index match the  *)
(* primary-branch tip exactly", pipeline/indexer.py:128).                  *)
PassMatchesTree ==
  \A t \in Threads :
    LET r == repo[t] IN
    Done(t) /\ ~raced[r] =>
      \A p \in Paths \ lost[r] : points[r][p] = Indexed(Want(t)[p])

(* The doc points are those of the saved documents, unless a step of the   *)
(* document phase failed, the process had no embedder or died in between:  *)
(* the next pass at the same commit does not repair that (service.py:152). *)
DocPointsMatchDocs ==
  \A r \in Repos :
    \/ raced[r] \/ docsLost[r]
    \/ \E t \in Threads : Removal(t, r)
    \/ \E t \in Threads : InPass(t, r) /\ pc[t] \in {"clearDocs", "storeDocs"}
    \/ docPoints[r] = docCache[r]

(* A repository that is no longer registered has left no records, and no   *)
(* collection, mirror or documents except what the removal failed to drop  *)
(* or to delete; unless a pass overlapped with the removal, or began after *)
(* it for a repository looked up before (service.py:66-80, :88-92).        *)
RemovalLeavesNothing ==
  \A r \in Repos \ registry : ~raced[r] =>
    /\ stCommit[r] = 0 /\ stPaths[r] = Empty
    /\ ~undropped[r] => ~coll[r] /\ points[r] = Empty /\ docPoints[r] = 0
    /\ "mirror" \notin unremoved[r] => mirror[r] = 0 /\ ~debris[r]
    /\ "docs" \notin unremoved[r] => docCache[r] = 0

(* app.py:327 says more: the purge comes before the registration goes "so  *)
(* nothing is left orphaned on the volume".  The purge takes no lock, so a *)
(* pass that is under way makes anew what has been removed.                *)
NothingOrphaned ==
  \A r \in Repos \ registry :
    (\A t \in Threads : pc[t] # "idle" => repo[t] # r) =>
      mirror[r] = 0 /\ ~debris[r] /\ docCache[r] = 0 /\ ~coll[r]

(* The commit that a status reports never goes back, except to none.       *)
CommitNeverGoesBack ==
  [][\A r \in Repos : stCommit'[r] >= stCommit[r] \/ stCommit'[r] = 0]_vars

Follows(r) == stCommit[r] = Len(commits[r])

(* Every call to git returns.                                              *)
GitReturns == \A t \in Threads : []<>(pc[t] \notin CallsGit)

(* A pass for r may succeed: it is registered, there are a store and an    *)
(* embedder, and no part of a mirror is in the way of the clone.           *)
Indexable(r) == r \in registry /\ semantic /\ ~debris[r]

(* If git returns, a repository the scheduler knows is eventually indexed  *)
(* at its branch's last commit, whatever failed before and whoever else    *)
(* holds its lock (cron.py:4, "repairing any drift").  A call that never   *)
(* returns holds the lock and the scheduler's one loop (cron.py:30).       *)
ScheduledReposFollow ==
  GitReturns => \A r \in Repos :
    <>[](r \in captured /\ Indexable(r)) => <>[]Follows(r)

(* cron.py:4 says so of every registered repository.                       *)
RegisteredReposFollow ==
  GitReturns => \A r \in Repos : <>[]Indexable(r) => <>[]Follows(r)
=============================================================================
