# Dexiask in TLA+

Dexiask answers questions about a workspace's code: a web UI and a Slack bot send
chat turns to a Go backend, the backend has a Python engine run a model with
tools, and an indexer and a memory service give the model search and long-term
memory. This directory holds TLA+ models of the parts of that system whose
correctness depends on interleavings, failures and order, the TLC runs that
check them, and proofs of their main properties. Paths below are relative to the
repository.

## 1. The system

| Component | State it keeps | Operations |
|---|---|---|
| Run buffer (`backend/internal/agent/run_manager.go`, `Run`) | event log, `done`, the `ready` channel | `appendAndBroadcast`, `markDoneAndBroadcast`, `Subscribe` |
| Run manager (same file, `RunManager`) | map conversation -> run, run contexts, eviction timers | `Start`, `Get`, `Stop` |
| Streaming handler (`handler/chat_handler.go`) | one request: SSE index, request context | `handleStart`, `handleResume`, `ServeStop` |
| Chat service (`service/chat_service.go`) | none of its own; one goroutine per run | `Start`, `drain`, `Resume`, `Stop` |
| Engine client (`agent/runner_http.go`) | bounded events channel, one scanner goroutine | `Run` |
| Repositories (`repository/*`, PostgreSQL) | users, sessions, invites, conversations, messages, attachments, Slack threads, MCP servers | append, update, list, transactions |
| Start-up sweep (`infrastructure/database/postgres.go`) | messages left `running` | `MigrateDB` |
| Attachments (`service/attachment_service.go`) | files of the workspace and their rows | store, reconcile, open |
| Sign-in (`service/auth_service.go`, `auth/*`) | users, roles, sessions, invites | login, logout, invite |
| Slack bot (`slack/bot.go`) | thread -> conversation mapping | one goroutine per event |
| Memory, working (`memory/internal/store/working.go`, `consolidate/*`) | daily observation files, processed marks, the scheduler's lock | append, read pending, mark, dream |
| Memory, consolidated (`store/consolidated.go`) | topics, entries, their archive, `INDEX.md` | create, update, archive, restore, purge, archive the stale |
| Indexer, write side (`indexer/indexer/service.py`, `pipeline/*`, `scheduler/cron.py`, `lock/*`) | mirrors, registry and `repos.json`, records in memory, progress, collections | index, reindex, register, remove, schedule |
| Indexer, read side (`mcp/*`, `access.py`, `github.py`, `chunking/*`, `embedding/*`, `store/*`) | cache of access decisions | chunk, embed, search, list, show |
| Engine server (`engine/engine_core/app.py`, `claude_engine/core/*`) | active jobs, one task and one event queue per job, open blocks | submit, cancel, stream, shut down |
| Engine capabilities (`engine_core/capabilities/*`, `claude_engine/sdk_adapters.py`) | the tools of a run, the router's catalog | set up a run, search and call tools, read the workspace |
| Web BFF (`web/src/lib/chat/go-sse-to-ui.ts`) | open stream parts | translate the backend's frames |
| Web UI (`web/src/*`) | current conversation | post, return, stop |

How they interact. The browser posts a turn to the BFF, which posts it to
`handleStart`. `ChatService.Start` writes the user message and a `running`
placeholder in one transaction, then registers a run. The run's goroutine
(`drain`) opens a job on the engine, reads its NDJSON body through a bounded
channel, emits each event into the run's buffer and finally writes the message
and the engine session id. The handler only subscribes to the buffer, so a lost
connection does not stop the run; the browser comes back with `Last-Event-ID`
and `handleResume` continues from the buffer, or answers 204 once the run is
over. A stop request cancels the run's context. The next turn resumes the engine
session that the previous one saved. The engine calls the indexer and the memory
service as MCP servers. The memory service submits its own consolidation jobs to
the engine, which write back through MCP.

What is hard: a run has four kinds of goroutine around it (handler, subscriber,
drain, scanner) and three timers (idle, deadline, eviction); viewers come and go
at any moment; a second turn may replace a live run; every database write may
fail alone; the process may die between any two of them; the engine may fall
silent, break off or end without a result. The memory service and the indexer
add unlocked read-modify-write files and stores that are updated in several
steps, with removals that run beside index passes and state that a restart
forgets. The engine's event loop and the indexer's serve calls that may be given
up while the request they sent runs on. `PROJECT.json` lists these hazards at
their lines, with the properties that cover them.

What makes each part correct:

- run buffer and handler: no lost wake-up; every event once, in order, across
  reconnects; the end is reported only after the last event; nothing blocks for
  ever behind a client that went away;
- run manager: the map leads to the newest live run; a run that left the map is
  cancelled; an old timer never takes a newer run away;
- chat service: the persisted message tells the story the stream told; a settled
  message stays settled; a running message has somebody who will settle it; a
  resumed session belongs to a settled answer; every turn ends;
- working memory: no observation is marked processed unread; one tick at a time;
- consolidated memory: each call changes one entry at one moment and loses no
  text, whatever fails; the index lists what is there;
- indexer, write side: one writer per collection; what is recorded is stored;
  the collection comes to be the branch's tip while git answers; a removal leaves
  nothing behind but what it could not delete;
- engine server and BFF: every body closes, with a verdict where there is one;
  blocks and calls can be followed, also by a browser that comes back;
- agent tools: a run has the tools its job asked for; nothing is shown on an
  expired permission; an answer leaves nothing out without saying so; every call
  ends although a server hangs;
- sign-in: at most one bootstrap admin; an invite buys exactly one account;
- Slack: one conversation per thread.

## 2. Modules

| Module | What it is |
|---|---|
| `RunFeed` | what a run promises its viewers: a log, and for each viewer a gapless, duplicate-free reading of it |
| `RunBuffer` | `Run`, `Subscribe`, `streamRun`, `handleStart`, `handleResume`, and clients that lose connections and return; implements `RunFeed` |
| `RunBufferProofs` | inductive invariant, safety theorems and the refinement theorem |
| `ChatTurns` | turns from POST to persisted message: `ChatService.Start`, `RunManager`, `drain`, the repositories' writes, stop, deadline, eviction, crash and restart |
| `ChatTurnsProofs` | inductive invariants and the theorems about them |
| `WorkingMemory` | daily observation files, their processed marks, and the dreams that read and mark them: `Append`, `ReadPending`, `MarkProcessed`, `Scheduler.tick`, `Service.Run`, `Submit` |
| `WorkingMemoryProofs` | inductive invariants and the theorems about them |
| `MemoryEntries` | what the consolidated memory promises: entries that are written, archived, restored and purged at one moment each |
| `ConsolidatedStore` | the same file operation by file operation, with calls that overlap, failures and deaths of the process; implements `MemoryEntries` |
| `ConsolidatedStoreProofs` | inductive invariants, the index and the refinement theorem |
| `Indexer` | index passes, the lock, progress and records, the scheduler, registration and removal, failing calls and restarts |
| `IndexerProofs` | inductive invariants and the theorems about them |
| `EngineJob` | one job of the engine: task, queue, response body, cancellation, and the mapping of the SDK's messages to events |
| `EngineJobProofs` | inductive invariants and the theorems about them; what the pump makes of any stream |
| `StreamPump` | the BFF's translation of those events to UI chunks; extends `EngineJob`, whose streams are its inputs |
| `Lists` | what Python's `min`, `sorted`, `sum` and list comprehensions compute, as operators that take sets and lists and that proofs can use |
| `EngineSetup` | what a job's run is given: tools, servers, permissions, prompt; operators |
| `IndexSearch` | from files to chunks, batches, points, results and rows; operators |
| `IndexSearchProofs` | theorems about those operators and about `Lists` |
| `AgentTools` | the calls of a run: the router and its catalog, workspace tools, the indexer's server with its access gate, web requests; extends `EngineSetup` and `IndexSearch` |
| `AgentToolsProofs` | inductive invariants and the theorems about them; what a job's set-up gives it; extends `AgentTools` and `IndexSearchProofs` |
| `MC*` | the modules TLC runs, one for each of the above that has state |

### RunBuffer and the code

`events`, `done` and `ready` are the fields of `Run`. Ready channels are numbered
in the order they are installed: `gen` is the installed one, channels below
`woken` are closed. `appendAndBroadcast` swaps the channel under the lock and
closes the old one afterwards, so it is two actions, `AppendAndBroadcast` and
`CloseReady`; the run's goroutine stands between them exactly when
`woken < gen`. `Subscribe` is cut at every lock and every select:
`TakeSnapshot` (lines 59-63), `Send` (65-68), `SentAll`, `Recheck` (74-82),
`WakeUp` (84-85) and `Unsubscribe` (both `ctx.Done()` arms). `out` is its
32-slot channel. `WriteFrame` is one turn of `streamRun`'s loop; the id it
writes counts from the index subscribed at, so it is the index of the event.
`ConversationFrame` is the frame that `handleStart` writes first, with id 0.
`Connect` is `handleResume`. The client is external: it may lose its connection
at any moment (`LoseConnection`), and what the handler writes after that reaches
nobody. `start` and `drops` are history variables.

Left out: the payload of events, JSON, headers, authorisation. A viewer's client
is assumed to keep the last id over its own reconnects to this run; a client that
carries an id over to a later run is on the list below.

### ChatTurns and the code

A turn is one call of `ChatService.Start` with the run it registers. `phase[t]`
is where the handler (`txn`, `register`) or the run's goroutine (`starting`,
`streaming`, `persist`, `session`, `return`) stands. Between any two phases other
turns, timers, stops and a crash may act.

| Action | Code |
|---|---|
| `Begin`, `Commit`, `Abort` | the transaction of `Start`: conversation read or created, both messages appended; it may fail, for one because two turns computed the same `seq` |
| `Register` | `RunManager.Start`: an unfinished run is cancelled and replaced |
| `EngineStarts`, `StartCancelled`, `StartRefused` | the outcomes of `rt.Start` in `drain` |
| `EngineSends`, `BodyEnds` | the engine's body through `HTTPRunner`'s channel |
| `DrainEvent`, `DrainClosed`, `IdleTimeout` | the arms of `drain`'s select, with `finalStatus`, `sawResult`, `newSessionID` |
| `Persist`, `SaveSession` | `persistAssistant`, `UpdateSessionID`; both only log an error, so both may leave the row as it was |
| `Return`, `Evict`, `Deadline` | the deferred end of the run, its eviction timer, `MaxRunDuration` |
| `Stop` | `RunManager.Stop` |
| `Crash`, `Restart` | the process dies; `MigrateDB` sweeps at the next start |

An assistant message and an engine session carry the number of their turn. Text
is the number of deltas. The engine is only what its body shows: any events, at
most one terminal event, an end at any time (`engine/PROTOCOL.md` promises a
terminal event, which the model does not rely on). Left out: what the Job
contains, attachments, the questions a message carries, the order of `seq`.
Which conversation a turn is sent to is an input, fixed in `conv`.

### WorkingMemory and the code

One scope of one workspace. `size[d]` counts the observations in the file of day
`d`, `marks` is `.processed.json`; both count bytes in the code, but an append
adds one observation in one write under a lock on the file, and a mark is always
a file's length. A dream `j` stands in `phase[j]`; `waiting[j]` says that a
goroutine of the memory service is in `Service.Run` for it.

| Action | Code |
|---|---|
| `Observe`, `NextDay` | `Append`, which picks the file's name before it locks the file; the UTC day |
| `Tick`, `Consolidate` | `tick` with its `TryLock`, the goroutine of `POST /v1/consolidate` without one; both start `ReadPending` (`StartReading`) |
| `ReadFile` | one turn of `ReadPending`'s loop |
| `GiveUp`, `Ask`, `SubmitReturns` | `Run` without a job; the job is submitted; `Submit` returns, which unlocks |
| `JobEnds` | external: the engine's job is over |
| `ClearBegin`, `ClearFile` | `clear_working`: `MarkProcessed` reads the marks, then sets one file's mark at a time |
| `OpenTmp`, `FillTmp`, `RenameTmp` | `writeMarks`: `os.WriteFile` opens (and empties) the temporary file, then writes it; `os.Rename` |
| `Crash` | a process dies with the dreams and calls it serves |

All calls share the temporary file's name, so `fd[j]` says what the file that a
call has open is by now: still the temporary file, the marks file (another call
renamed it), or neither. An empty or unreadable file reads as no marks, as in
`readMarks`. A job may go on marking after `Submit` gave up or the memory service
died. The model may name any daily files in `clear_working`. `given`, `late` and
`clash` are history variables. Left out: the text, other scopes (a job may
be about them, so it may be asked although nothing is pending here), the role
check of `handleWrite`, and an append that fails.

### ConsolidatedStore and the code

One scope: `files["active"]` and `files["archive"]` are the entries of the two
trees, `dirs` the topic directories, `litter` the temporary files that a call has
open, `index` the entries `INDEX.md` lists. A call `c` stands before the file
operation `pc[c]`.

| Action | Code (`consolidated.go`, `atomic.go`) |
|---|---|
| `Begin` | `CreateEntry`, `UpdateEntry`, `ArchiveEntry`, `RestoreEntry` up to their check that the file is or is not there |
| `BeginSweep`, `SweepTopic`, `SweepEntry`, `TopicDone`, `SweepEnds`, `Remove` | `PurgeArchive` and `ArchiveStale`, topic by topic and entry by entry |
| `Read`, `MkDir`, `WriteTmp`, `Rename`, `Unlink`, `RmDir` | `readText`, `MkdirAll`, `AtomicWrite`'s temporary file and rename, `os.Remove` of the old copy and of an empty topic |
| `ListTopics`, `ScanTopic`, `WriteIndex` | `rebuildIndex` |
| `Fails` | a file operation fails: a write returns the error, a read yields the empty text, a failing removal and a failing rebuild are ignored |
| `Crash` | the process dies with its calls |

Two `MkdirAll` of a move are one step, and so is the check for an empty directory
with its removal: a directory the kernel finds non-empty stays. Whether an entry
is old enough for a sweep is the caller's cutoff, hence any choice. Left out:
`LOG.md`, the readers, frontmatter.

`MemoryEntries` promises nothing of entries in `loose`, a history variable:
entries whose move overlapped with another call about them, or whose text could
not be read. `readText` ignores errors, so two overlapping archives of an entry
may leave it archived with an empty text, and a failing read during a move loses
the text; `store_test.go` says that archived entries "survive in .archive". A
restore overwrites a newer active entry, an archive an older archived one; both
are part of the promise. `blurred` says that the last rebuild of the index
overlapped with another or did not finish.

### Indexer and the code

Repository `r` has a branch (`commits[r]`), a mirror, saved domain documents, a
collection with the points of paths and of documents, and, in the memory of the
process, its recorded commit and paths (`stCommit`, `stPaths`), its lock's name
(`held`) and its progress. A thread `t` stands before step `pc[t]` of a pass or a
removal. `Push` is external.

| Action | Code |
|---|---|
| `Reindex`, `NextRound`, `NextInRound` with `Lookup` | `POST /reindex` and `/v1/index/{repo}`, `Scheduler._loop`; `index_repo` finds the repository in the registry (`service.py:88`) |
| `Begin`, `AlreadyRunning` | it takes the lock, or does not get it (`service.py:92-98`); a removal may have come between |
| `Ensure` | `Mirror.ensure`: clone or fetch, also over what a removal or a death has left of a mirror (`debris`), which may fail |
| `Docs`, `ClearDocs`, `StoreDocs`, `DocsFail` | `_refresh_docs`, `embed_docs`; a failure is logged and the pass goes on |
| `EnsureCollection`, `Plan`, `Take`, `Clear`, `Upsert`, `Record`, `SetCommit` | `Pipeline.reconcile`: tip, tree and records are read once, then path by path |
| `Fails` | a call raises, having taken effect or not; the pass ends |
| `ClearProgress`, `Return` | the `finally` of `index_repo`, the release of the lock |
| `Register`, `Deregister`, `Drop`, `RmMirror`, `RmDocs`, `ForgetState`, `DropRegistration` | `POST` and `DELETE /v1/repos`, `purge_repo`; `rmtree(ignore_errors=True)` may leave a mirror whole or in parts, and documents, without a word (`RmtreeLeaves`) |
| `Crash` | the process dies; `build_context` overlays `repos.yaml` with `repos.json` |

History: `lost` are the paths whose record and points came apart (a call failed
between delete and record, the process died with its records, the collection
could not be dropped), `docsLost` the same for documents, `undropped` the
repositories whose collection could not be dropped, `unremoved` what could not be
deleted of their mirror and documents, `raced` those that a removal and a pass
touched at once: a pass was inside when the removal began, or began during it, or
began after it for a repository it had looked up before.
The properties say that nothing comes apart except there. Four of those
exceptions are weaknesses of the code that the properties name rather than hide:
what a removal leaves under a pass that goes on, which `NothingOrphaned` shows
(see Findings);
after a restart, paths deleted meanwhile stay in the collection, against
"exactly" in `indexer.py:128`; a failed upsert leaves the old record, and a
branch that returns to that blob is skipped; documents whose embedding failed are
not embedded again before the next commit. Left out: pinned branches (an
unpinned mirror is taken to keep its default branch), partial clones, the
skeleton file, `repos.json` torn by a crash while it is written. Domain documents
are taken to be enabled.

### EngineJob, StreamPump and the code

`task`, `active`, `queue` and `stream` are the job's task, `_active_jobs`, its
queue and its response body; `openBlocks`, `buffers` and `step` the variables of
`process_sdk_messages`. `block`, `index`, `calls`, `tools` and `left` describe
the SDK, which is external: any well-formed sequence of messages, which may end,
raise or begin a message again at any time.

| Action | Code |
|---|---|
| `Refuse`, `Submit` | `submit_job`; the task's first step and the submission are one step, since the loop runs ready callbacks in order |
| `BlockStart`, `BlockDelta`, `BlockStop` | `content_block_*` events |
| `ToolResult`, `SubAgentMessage`, `ResultMessage`, `MessageStartsOver` | the other messages |
| `SdkEnds`, `SdkRaises`, `CancelLands` | the end of the task with its sentinel, with or without an error event |
| `Deliver`, `ClientLeaves` | the generator of the body: one event; the client is gone |
| `Cancel`, `Shutdown` | `POST /v1/jobs/{run_id}/cancel`, `_lifespan` |

A client that leaves cancels the job only while the generator waits in
`queue.get` (`app.py:146`). No API key and a set-up that raises both give an
error event and the sentinel, like `SdkRaises`. Worth knowing: `CancelledError`
passes `except Exception` (`app.py:119`), so a cancelled body ends without the
terminal event that `engine/PROTOCOL.md` promises; `ResultMessage.is_error` is
ignored; deltas of a kind of block the mapping does not know get an id that was
never started; fragments of a tool's input are not cleared when a message starts
over (`sdk_mapping.py:144`). `odd` marks the runs in which
either of the last two happens.

`StreamPump` hands a closed body's events to `Handle`, one after the other
(`Pump`, a recursive function). It is checked on all of
the events, on every suffix (a browser that comes back) and with every single
event missing (a frame that does not parse). A browser that comes back in the
middle of a tool call sees input for a call it never saw begin, and a part open
at the end of the stream stays open; the UI asks for a run from its beginning,
so the property claims whole calls only for that. Left out: tool names,
conversation and error frames, the parsing of frames.

### EngineSetup, IndexSearch, AgentTools and the code

`EngineSetup` translates what `claude_engine/runtime.py`, `interactive.py`,
`sdk_adapters.py` and `workspace.py` compute from a job, `IndexSearch` what
`chunker.py`, `_batching.py`, `qdrant.py`, `tools.py` and `formatting.py`
compute from files and queries; similarity is a given order of the files.
`AgentTools` has the steps: `call[c]` is a call of the run in the engine,
`request[c]` a request at the indexer (also for a web request `w`), `catalog`
what the router knows, `cache` GitHub's verdicts with the life they have left,
`grants` what GitHub would say now, `granted` and `denied` how long ago it last
would have granted or last denied.

| Action | Code |
|---|---|
| `Submit` | a job's set-up, with whether the attachments it sends and its servers can be reached |
| `ListServers`, `SearchTools`, `FromCatalog`, `Connect`, `Connected`, `ListTools`, `Found` | `mcp_router.py`'s list and search |
| `CallTool`, `Dialed`, `CallNative`, `Answered` | a tool of a deferred or of an attached server |
| `Timeout`, `Fails` | `wait_for`; a server that refuses or breaks |
| `UseWorkspace` | `Read`, `Glob`, `Grep` of `workspace.py` |
| `Arrive`, `WebAsks`, `Cached`, `AskGitHub`, `GitHubAnswers`, `StoreVerdict`, `Gate` | the indexer's server and REST search, `AccessGate`, `has_access` |
| `ListRepo`, `Search`, `RunTool` | the tools, with the gate's decision |
| `Tick`, `ChangeAccess` | time passes; somebody's access to a repository changes |

Times are relative to now, up to `TTL`, from which on all ages are the same.
`out` is what the last call was told. Whether each answer is whole is computed
once in constant tables (`SetUps`, `WorkspaceAnswers`, `SearchAnswers`,
`ToolAnswers`) from what the code returns for every content, query, number of
commits and length of text, since it does not depend on the state. Of an answer
they say whether it leaves nothing out, without telling, of what was looked
through (`ofSearched`) and of all that was asked for (`ofAsked`), and whether an
error that nobody is told of lies between the two (`swallowed`): `git grep` fails
and the list is empty (`repo.py:105-107`), or one repository raises in a search of
all of them and is skipped (`tools.py:167-173`). `AnswersAreComplete` claims
`ofSearched` of every answer and `ofAsked` of those without such an error. A page
of a file (`Read`, `read_range`, `get_chunk`) is full or shows the file to its end;
`git_log` tells when the token budget cuts it and not when its limit does.

A job's servers are told apart by their places in its list, not by their names
(`Reached`): of native servers with one name the first is attached, of deferred
ones the last, and a native one that bears the name of a server of the engine's is
skipped; each of the others is reached itself. Attachments are those of the last
message, since no other is sent. `Parsed` says what is taken of
tree-sitter: the symbols of a file lie in it and in order, and one may begin on the
line where the one before it ends, so that both chunks have that line. A query asks
for at least one row, since `args.get("limit") or ...` replaces a zero. An explicit
list of several repositories (`repos`), which may name one of them twice and is not
checked one by one by `dispatch`, is left out, and so are the filters by language,
`symbol_kind`, `content_type` and `min_score` (0 unless asked for), and generated
documents, which `code_only` never drops (`tools.py:174-182`).

Worth knowing, and outside the properties: an error of GitHub is cached as a
denial for 300 s; two searches that fetch one server's tools at once may leave
the older list in the catalog; connecting lies outside `wait_for`
(`mcp_router.py:84-97`), so the model has to assume that it ends; `git_log` is
limited in git (`repo.py:124`), so at its limit it reports `truncated` false
whatever follows, although `formatting.py:6-8` says that lists "always carry" the
marker; `Read` says nothing of the lines after its page, and `Grep` passes over
files it cannot read (`workspace.py:190`); a search
counts only the hits it fetched, at most 200, and a path prefix is applied after
that limit (`qdrant.py:90`); lines outside top-level symbols are not chunked
(`chunker.py:88-90`); only the last message is sent, with or without a session to
resume, so attachments of earlier messages reach the engine only in a session that
has seen them, although `PROTOCOL.md:50-61` shows them, `PROTOCOL.md:85` restricts
this to jobs with a `sessionId`, and `context_assembler.go:11-13` promises that a
file of turn 1 "stays referenceable by the engine on every later turn";
`RepoNotFoundError` is a `KeyError` and is reported as a missing argument
(`tools.py:490`). Left out: how documents are written, HTTP retries of the
embedding providers, symbolic links, generation settings.

## 3. Runs

| Run | Checks | Result |
|---|---|---|
| `run_buffer` | types, `NoLostWakeup`, `ImplementsFeed`, `EveryViewerIsServed`, `NoLeak` | pass, about 140 000 states |
| `run_buffer_skip` | `NothingSkipped` | violated: see Findings |
| `chat_turns` | types, `NewestRunReachable`, `SupersededRunsCancelled`, `HistoryMatchesStream`, `RunningHasOwner`, `ResumedSessionIsSettled`, `SettledForGood`, `SessionsAdvance`, `EveryTurnEnds` | pass, about 2.3 million states |
| `chat_turns_stop` | `StopMarksPartial` | violated: see Findings |
| `working_memory` | types, `MarksWithinFiles`, `LostOnlyLate`, `LockIsTheTick`, `MarksAdvance`, `LockIsReleased` | pass, about 920 000 states |
| `working_memory_late` | `MarkedWasRead` | violated: see Findings |
| `consolidated_store` | types, `IndexIsCurrent`, `ImplementsEntries` | pass, about 3.4 million states |
| `indexer` | types, `OnePassAtATime`, `RecordsMatchPoints`, `PassMatchesTree`, `DocPointsMatchDocs`, `RemovalLeavesNothing`, `CommitNeverGoesBack`, `ScheduledReposFollow` | pass, about 910 000 states |
| `indexer_schedule` | `RegisteredReposFollow` | violated: see Findings |
| `indexer_removal` | `NothingOrphaned` | violated: see Findings |
| `engine_job` | types, `EveryoneCanFollow`, `NobodyWaitsForNothing`, `BodyCloses` | pass, about 820 000 states |
| `agent_tools` | types, `SetupServesJob`, `AnswersAreComplete`, `GateIsFresh`, `CallsAreAnswered` | pass, about 380 000 states |

Bounds. `run_buffer`: one viewer, four events, two distinct, `out` of one slot,
three lost connections. Viewers share nothing but the broadcast and none of them
blocks the run, so one viewer already has every interleaving with the run's
goroutine; a one-slot channel makes the sender block as soon as it is one event
ahead, four events with three reconnects let a resume start from no id, from the
conversation frame's and from an event's, and lose frames at each stage. The
proofs cover any number of viewers and any bound. `chat_turns`: one
conversation, two turns, one delta each, one-slot channel, one crash. Two turns
are what replacing, overlapping, resuming and evicting need; different
conversations share nothing but the map. Three turns are beyond TLC here (the
state space grows about a thousandfold); the proofs cover any number of turns
and conversations. `MaxTurns`, `MaxDeltas`, `MaxCrashes`, `MaxEvents` and
`MaxDrops` are bounds of the models; `OutCap` and `ChanCap` are 32 in the code.
`RunBuffer` says when it may stop (`Settled`) and is checked for deadlock. In
all other modules bounded work comes to an end, so they are checked without
deadlock detection.

`working_memory` has two ticks and a manual dream, two days with one observation
each and one crash. Its constraint `TwoDreams` lets two of the dreams start: both
ticks, of which the second may begin while the first one's job still marks files,
or the first tick and the manual one, which takes no lock, and then without a
crash. Two dreams are what clashing calls need, two files what reading and marking
file by file needs, and each dream may call as often as it likes; the file of the
second day appears after a dream has looked. All three dreams at once are beyond
TLC here; the proofs cover any number of dreams, days, observations and crashes.
`MaxDays`, `MaxObs` and `MaxCrashes` are bounds of the model.

`consolidated_store`: one topic with two entries and two texts, two calls at a
time and four in all, one failing operation or death. Two entries of a topic are
what an emptying directory and a half-seen rebuild need, two overlapping calls
every pairwise interleaving, four calls a sweep over what others wrote. Calls
and texts are interchangeable and only safety is checked, so symmetry is sound.
The proofs cover the rest. `indexer`: one repository, which is declared or comes
and goes by registration, two paths, one content that has chunks and one that
has none, two commits, one mishap, one removal, one request thread beside the
scheduler. Two paths let a pass stop between them and two commits let the branch
change what a record says; repositories share only the registry and the round.
A mishap is a call or a deletion that fails, or the death of the process. The
constraint `RaceOrMishap` leaves out behaviours with both a mishap and a removal
that a pass overlaps with: the properties claim little of a raced repository, so
each of the two is explored in full for itself, and the liveness property looks at
what follows either. `indexer_schedule` declares nothing, so that a repository has
to be registered; `indexer_removal` needs no mishap, one path and one commit.
The safety properties are proved for all bounds. `engine_job`: one job (jobs
share nothing but the set of active ones), up to seven messages of the SDK's
stream and up to two blocks in a model message, enough for a tool call with its
result beside a text, or for a message that begins again in the middle of one.
`agent_tools`: one call of the run with the request it leaves behind, one web
request, one GitHub and one local repository, two deferred servers and an
attached one; a decision lives for two time units and a check may take one, so
that it expires before, during and after one. Windows, batches and over-fetching
are scaled down to three lines, two chunks and five hits, with contents just
below, at and above each. `MaxCommits`, `MaxMishaps`, `MaxRemovals`, `MaxCalls`,
`MaxMessages` and `MaxBlocks` are bounds of the models.

Fairness. `RunBuffer`: the goroutine that has unlocked goes on to close the
channel, and subscriber and handler goroutines keep running (Go schedules them).
Nothing is assumed of the run, which may stay silent for ever, nor of clients,
which need neither return nor hang up. `ChatTurns`: goroutines are scheduled, the
idle timer and the deadline fire. Nothing is assumed of the engine, of users, or
of whoever restarts a dead process. The
drain loop's three arms are one select, so they share one fairness condition: it
never promises that the loop reads the channel rather than the timer. A run that
sends events for ever is excluded by the bound on deltas; in the code the
deadline cuts its body. `WorkingMemory`: goroutines in `Run` are scheduled, and
the HTTP client's timeout of 30 minutes ends a `Submit`; nothing is assumed of
the engine, of its jobs or of their calls. `Indexer`: worker threads run, the
scheduler's interval passes, and the clients of the store, of the embedding
service and of the language model give up in the end, which is the default of
their libraries (the code sets no limit of its own). Nothing is assumed of users,
of pushes, or of git: `mirror.py:55` and `repo.py:51`, `:61` run it without a time
limit, so a thread in `CallsGit` may stay there for ever. It then holds its
repository's lock, and the scheduler, which visits one repository after the other
(`cron.py:30-36`), never comes to the next. `ScheduledReposFollow` and
`RegisteredReposFollow` are therefore implications: if every git call returns
(`GitReturns`), repositories are followed.
`EngineJob`: the event loop runs what is ready, and the SDK yields until it ends,
because the engine has no deadline of its own; nothing is assumed of clients.
`AgentTools`: engine and indexer go on with what they have, timers fire, a
connection attempt ends and an attached server answers, because neither has a
timeout in the engine; a deferred server or GitHub need not answer. The indexer
takes one request at a time, in turn: strong fairness of `Arrive`.
`ConsolidatedStore` states only safety and assumes no fairness.

Every property also comes with a mutated definition, named `MUTANT` in the
comments, that it catches: a broadcast that is forgotten, a resume at the last
id rather than after it, an unbounded channel, a wait that ignores the client's
leaving, a run replaced without being cancelled, an eviction timer that removes
whatever it finds, a sweep that is left out or sweeps too much, a session saved
before its message or after its run, a deadline that does not cover the opening
of the stream, a dream that reads only the newest file, marks drafted without
the old ones, a mark past the end, a `TryLock` whose result is ignored, a
`Submit` without timeout; a failing write after which a move goes on to remove
the original, an index that is not rebuilt after a move, an emptiness check that
overlooks temporary files; a fetch one commit ahead, a lock that is not looked
at or not released, a file without chunks that keeps its record, deleted paths
that are not looked for, old document points that stay, records that survive a
removal; a sentinel that a cancelled task does not send, a delta without its
default for a block that is not open, a stray end passed on to the UI; a failed
server that is never asked again, a server that takes a reserved name, a query
that fetches exactly its limit, a cache life that starts when GitHub has
answered, a wait without timeout.

## 4. Findings

- `NothingSkipped` (code bug). The conversation frame and the run's first event
  both carry id 0, so a client that received only the former resumes after the
  latter (`chat_handler.go:127`, `:153-156`, `:184`). The refinement therefore
  holds against a promise that lets a reading start one event late (`RunFeed`'s
  `Aim`); from its first event on nothing is skipped.
- `StopMarksPartial` (documentation and code disagree).
  `web/src/app/api/chat/stop/route.ts:11` says the stopped message is marked
  partial; once the engine streams, a stop ends the body without a result and
  `chat_service.go:445-448` marks it as an error.
- `MarkedWasRead` (code bug). `memory/internal/mcp/tools.go:29` promises to "mark
  processed working observations as consolidated"; `working.go:195` marks each
  file up to its present length, so what was appended while the model was
  thinking is marked without any dream having seen it. `LostOnlyLate` says that
  nothing else is lost.
- `RegisteredReposFollow` (code bug). `scheduler/cron.py:4-5` says that the
  scheduler reconciles each registered repository; it keeps the registry it was
  built with (`app.py:144`), which a registration replaces rather than changes
  (`app.py:322-323`), so a repository registered at run time is not visited before
  the next restart. `ScheduledReposFollow` says that those it knows are
  followed as long as git returns.
- `NothingOrphaned` (code bug). `app.py:327-328` says that a repository is purged
  before its registration is dropped "so nothing is left orphaned on the volume".
  `purge_repo` takes no lock (`service.py:66`), and until the registration is
  dropped `index_repo` finds the repository: a pass that begins in between clones
  the mirror and saves documents again, which then stay. `RemovalLeavesNothing`
  says what a removal leaves where no pass overlaps with it.

## 5. Proofs

`RunBufferProofs` proves for every set of viewers, every channel capacity and
every bound:

- `Invariance`: `IInv == TypeOK /\ SnapshotIsPrefix /\ OutHoldsNext /\ ResumePoint`.
  `NoLostWakeup` alone is not inductive: that a waiting subscriber's channel is
  stale needs to know that the newest channel was only ever seen together with
  the newest events (`SnapshotIsPrefix`). That a closed subscription has
  delivered everything needs the cursor, the channel's contents and the client's
  reading tied together (`OutHoldsNext`), and across reconnects the client's last
  id (`ResumePoint`).
- `TypeCorrect`, `WakeupsArrive`, `NextIsOnItsWay` follow from it.
- `Refinement`: `Spec => Feed!Spec`. Appending is `Publish`, marking done is
  `Finish`, a frame that arrives is `Deliver`, `[DONE]` is `Tell`, a first
  connection may be `Aim`; everything else stutters.

`ChatTurnsProofs` proves for every number of turns, conversations, deltas and
crashes:

- `CoreInvariance`: types, `Ledger` (which phases have which rows), the manager's
  entries (`Managed`) and the three properties that need them. From it
  `TypeCorrect`, `StopFindsNewest`, `ReplacedRunsCancelled`,
  `RunningMessagesOwned` and `MessagesSettleOnce`.
- `ChainInvariance`: sessions belong to turns that have answered, and where turns
  do not overlap the one in flight is the newest (`Chained`). From it
  `SessionsComeSettled` and `SessionsGoForward`.
- `DrainInvariance`: verdict and text sum up what was emitted, and the row is
  what they said when it was written (`Drained`). From it `HistoryIsFaithful`.

`WorkingMemoryProofs` proves for any dreams, days, observations and crashes, one
induction each:

- `BoundedInvariance`: marks file, temporary file and drafts stay within the
  files' lengths; from it `MarksStayWithinFiles`.
- `Locked`: with it `TicksExclusive`; that a dream which has not begun is in
  nobody's `Run` is what makes the lock's owner unique.
- `Accounted`: for a dream that reads, every observation is known, read, or still
  ahead of it; once it has asked, everything in the files is known. From it
  `NothingElseIsLost`.
- `Orderly`: a call that is alone has the temporary file to itself and writes no
  less than the present marks. From it `MarksNeverGoBack`.

`ConsolidatedStoreProofs` proves for any topics, entries, texts, calls and
mishaps:

- `TypeCorrect`. Types include that every file lies in a directory that exists,
  which holds because a temporary file keeps its directory from being removed.
- `IndexStaysCurrent`. `Tracked` says what a rebuild that nothing overlapped with
  has seen so far, and that the index is what is active when nobody has yet to
  begin one.
- `Refinement`: `Spec => Promise!Spec`. The rename is the moment of `Write`,
  `Archive` and `Restore`, the removal of an archived file that of `Purge`; a move
  that does not come to its end is `Linger`, taking an entry in hand may be
  `Disturb`; everything else stutters. `Moved` says that a move that is alone with
  its entry holds the text of the file it moves.

`IndexerProofs` proves for any repositories, paths, contents, threads, commits,
mishaps and removals all safety properties that the run checks, by one induction
for each invariant that may use those before it. What the actions with several
outcomes leave alone is stated once (`DocsMoves`, `DocsFailMoves`, `TakeMoves`,
`FailsMoves`), since most invariants need no more of them.

- `TypeOK` and `Aimed` (a pass aims at a commit that exists): `TypeCorrect`.
- `Locked`, `Shown` and `Counted`: `OneWriter`. A held name has exactly one pass
  inside, a phase is shown exactly for a pass at work, and what was processed and
  what is ahead add up to the total.
- `Forward`: no recorded commit is beyond the mirror, and nobody fetches while a
  pass reconciles: `CommitsGoForward`.
- `Cleared`: what each step of a removal has left behind so far, artifact by
  artifact: the collection if the store could drop it, the mirror and the documents
  if the volume let go of them, and the records always: `RemovalIsClean`. It says
  nothing of a repository marked `raced`, where a pass and the removal overlapped.
- `Matched`: record and points of a path agree unless it is in hand, and before it
  is recorded its points are those of the wanted blob: `RecordsAreTrue`.
- `Renewed`: the same for documents: `DocsAreTheSaved`.
- `Visited`: the records of the paths ahead of a pass are those it copied when it
  planned, and the points of all other paths but the one in hand are those of its
  tree: `PassesMatch`. A skipped path needs `Matched`, and that nobody else writes
  to the repository needs `Locked` and `Cleared`.

`EngineJobProofs` proves for any runs, messages and blocks:

- `TypeCorrect`, with `Budget`: ids and steps stay in range because messages
  yielded and messages left are at most `MaxMessages`.
- `NobodyIsLeft`, with `Attended`: the sentinel is in the queue only as its last
  element and only of an ended task, an ended task whose body is open has one, and
  a job with a verdict has its terminal event in the queue or delivered.
- `EventsMakeSense`, with `Followed`. `ClientCanFollow`, about the events a client
  has received, is not inductive: what a delta may follow depends on events still
  queued, and what the mapping emits next depends on its variables. `Told` says
  that everything a run has emitted, sent or queued, can be followed; `Mapped` that
  the open blocks, the buffered fragments and the counters of the mapping are what
  those events say of them: a block is open exactly when its start was told and its
  end was not, a buffer holds the fragments told since the call began, a call that
  waits for a result has had its input told. In an `odd` run only the part that
  does not depend on fragments and begun blocks is claimed. `ClientsFollow` follows,
  because what was sent is a prefix.
- `EveryoneFollows`. The pump's theorem is about any sequence of events, not about
  a step of the system: `PumpIs` says that the recursive function exists and obeys
  its equation, `PumpWhole` that after any number of any events a part is open
  exactly when it was shown to begin and not to end, `PumpShows` that of a stream
  that can be followed each call has the fragments told so far. All three are by
  least counterexample. The browser that comes back sees a suffix, a frame that
  does not parse is an event less: both are sequences of events, for which
  `PumpWhole` is enough.

`AgentToolsProofs` proves for any jobs, servers, repositories, times, calls and
requests:

- `TypeCorrect`: a call that lists has a server left to ask, a request that asks
  GitHub a repository left to check.
- `EveryJobIsServed`: for every job that is accepted, `SetupServesJob`: the
  attachments of its last message, the only one that is sent, and each of its
  servers, told apart by their places in the job's list and not by their names.
  The places of a registry are enumerated in order (`PlacesAre`, by
  `AscendingEnumerates`: taking the members of a finite set by rank goes through it
  once); of the servers with one name there is a first and a latest (`FirstIs`,
  `LatestIs`); the registry of deferred servers has for each name the latest, at the
  place of the first (`RegistryIs`). So a deferred server is reached unless a later
  one has its name, another server unless an earlier one or the engine itself has
  it (`ServersAreReached`, `SetUpsServe`): which servers are not reached is part of
  the statement.
- `VerdictsExpire`, with `Verdicts` and `Checks`: GitHub's last word on a
  repository and what is left of its cached verdict are together at most `TTL`; a
  verdict that waits to be stored is no older than its check, which started the
  clock; no repository is checked twice in a decision. `GateDecidesFresh` follows:
  with a life that started at the answer it would fail.
- `SearchesFindTheBest`, with `Gathering`: what a search has found is what the part
  of the servers it has asked so far offer, less those that failed. It needs that
  no server is in a registry twice: one could fail and then answer. What the first
  `n` servers offer is a recursive function; that it obeys its equation and depends
  only on which of them failed is by least counterexample (`OfferedIs`,
  `OfferedAgree`).
- `AnswersAreWhole`: an answer is kept as it was computed, so each step keeps
  `AnswersAreComplete` if the answer it gives is whole (`AllAreWhole`). A search of
  tools is by `Gathering` (`ToolIsRight`), lists and pages of the workspace are by
  their caps (`WorkspaceIsWhole`), a search of repositories by `NothingMissed`
  (`SearchIsRight`), and what else the indexer answers by `ListingsTell`,
  `CountsTell`, `PagesShow` and `TextsTell`. Where the code loses something in
  silence the statement says so rather than passing over it: a search is whole of
  the repositories that answered, and of those asked for if no error was swallowed;
  a list of commits that is as long as its limit is not claimed to be whole.

`IndexSearchProofs` proves of the operators from files to rows, for any files,
repositories, queries, windows, caps and budgets:

- `WindowsCover`: the windows that files and long symbols are cut in have every
  line and no other, each starting and ending after the one before, for every
  length, window and overlap, an overlap that exceeds the window included.
- `BatchesCarry`: requests are not empty, none exceeds the caps, and the vectors of
  all of them are those of the chunks, in order. After `n` chunks the batches so far
  have just those `n` (`PackedIs`).
- `LinesFound`: with both, `LinesAreFound` of whatever files were parsed. Windows of
  one symbol after those of another keep their order because a list of lists that are
  chained, each to the next, is chained as a whole (`FlattenChained`). A piece of a
  file is a point once and its rank is its place (`PiecesAre`, `PointsAre`).
- `NothingMissed`: `NothingIsMissed` of the rows of `semantic_search` and of
  `search_json`, by the steps of the code: what a store returns is a beginning of its
  points filtered by the prefix (`StoreSearchIs`), the hits are all of those that pass
  the language filter, best first (`BestSorts`, `HitsAre`), and the rows are a
  beginning of the hits which goes on until the limit or the budget is reached
  (`FitIs`). A match that is not shown was either behind the fetched ones of its
  repository or cut with the hits behind the last row.
- `ListingsTell`, `TextsTell`: what `fit_rows` and `_cap` leave out is told.
  `CountsTell`, `PagesShow`: so are commits that the budget leaves out, and a page of
  a file is just the lines asked for.

A proof by least counterexample stands in for induction over numbers, whose
theorem takes an operator as a parameter: `LeastNumber` (every set of natural
numbers has a least one) follows from the library's well-foundedness of `<`.
`Counting` puts it as an induction over a set that stands for what is to be shown,
and `Recursion` says that a list can be computed step by step, each step given as a
function; sums, flattened lists and batches are such lists. `FlattenIs` reduces the
community module's `FlattenSeq` to that.

The assumptions are `BufferAssumption`, `TurnsAssumption`, `MemoryAssumption`,
`StoreAssumption`, `IndexerAssumption`, `EngineJobAssumption`,
`IndexSearchAssumption` and `AgentToolsAssumption`: bounds are natural numbers, sets
that something is chosen from are not empty, and values that stand for different
things are different. `IndexSearchAssumption` has in addition that one input fits in
a request, which `prepare_batches` asks of its callers (`_batching.py:32-34`).
`AgentToolsAssumption` says also that every deferred server of a job is one whose
offer is given, that registered repositories have different names
(`_ensure_unique_ids`, `indexer/config/registry.py:43`), that the symbols of files
are parsed ones (`Parsed`), and that a check of GitHub takes less than the life of a
verdict (a timeout of 8 s, `github.py:50`, against 300 s). TLC evaluates them in the runs.

Only model-checked:

- `EveryViewerIsServed`, `NoLeak`, `EveryTurnEnds`, `LockIsReleased`,
  `ScheduledReposFollow`, `BodyCloses` and `CallsAreAnswered`: liveness under
  fairness is out of the prover's reach.
- That the five findings are reachable.

## 6. Plan

Next, in this order:

1. A composition of `RunBuffer` and `ChatTurns`: a client that outlives several
   runs (ids of an older run, a stop that arrives before registration).
2. `SignIn`, `SlackThreads` and `Attachments`: small modules of concurrent,
   non-transactional handlers; the cursor of the conversation list.

Not modelled, for good: tree-sitter grammars, the embedding providers' retries,
how documents, prompts and digests are worded, OAuth and encryption, React
components, configuration, logging. They are layout, settings or calls to outside
services.
