----------------------------- MODULE ChatTurns -----------------------------
(***************************************************************************)
(* The chat turns of the backend, from the POST that starts one to the     *)
(* persisted assistant message (backend/internal/service/chat_service.go,  *)
(* agent/run_manager.go, agent/runner_http.go, the message and             *)
(* conversation repositories, and the start-up sweep of                    *)
(* infrastructure/database/postgres.go).                                   *)
(*                                                                         *)
(* A turn is one call of ChatService.Start together with the run it        *)
(* registers: the HTTP handler's goroutine takes it to "register", the     *)
(* run's goroutine from there on.  Turns are numbered in the order in      *)
(* which they begin.  An assistant message has its turn's number, and so   *)
(* has the engine session that the turn's result names.                    *)
(*                                                                         *)
(* The engine is seen through the response body that HTTPRunner scans into *)
(* the events channel: it may send any events, at most one terminal event  *)
(* and nothing after it, and the body may end at any moment.  Every        *)
(* non-terminal event is a "delta"; "ok" and "failed" are result events,   *)
(* "error" an error event.                                                 *)
(***************************************************************************)
EXTENDS Naturals, Sequences, FiniteSets

CONSTANTS
  Convs,      (* the conversations                                        *)
  MaxTurns,   (* bound: turns that begin                                  *)
  MaxDeltas,  (* bound: non-terminal events of one run                    *)
  ChanCap,    (* capacity of the events channel (32 in the code)          *)
  MaxCrashes  (* bound: crashes of the backend                            *)

ASSUME TurnsAssumption ==
  /\ MaxTurns \in Nat /\ MaxDeltas \in Nat /\ MaxCrashes \in Nat
  /\ ChanCap \in Nat \ {0}

VARIABLES
  up,         (* the backend process runs                                 *)
  crashes,    (* history: how often it crashed                            *)
  begun,      (* turns that have begun: 1..begun                          *)
  conv,       (* conv[t]: the conversation turn t is sent to (an input)   *)
  phase,      (* phase[t]: where the turn stands                          *)
  row,        (* row[t]: the assistant message of t in the database       *)
  session,    (* session[c]: conversations.session_id                     *)
  resumes,    (* resumes[t]: the session t's Job names (SessionID)        *)
  runs,       (* runs[c]: RunManager.runs                                 *)
  cancelled,  (* turns whose run context is cancelled                     *)
  evictions,  (* turns with a pending eviction timer                      *)
  wire,       (* wire[t]: sent by the engine, not yet read by drain       *)
  open,       (* turns whose events channel is not closed                 *)
  emitted,    (* emitted[t]: Run.events                                   *)
  text,       (* text[t]: drain's reply so far (sb)                       *)
  verdict,    (* verdict[t]: drain's finalStatus                          *)
  sawResult,  (* turns whose drain has sawResult                          *)
  newSession, (* newSession[t]: drain's newSessionID                      *)
  latest,     (* history: last turn registered for c in this process      *)
  unsaved,    (* history: turns whose final UpdateMessage failed          *)
  stopped,    (* history: turns stopped by the user while they had none   *)
              (* of their terminal events                                 *)
  overlapped  (* history: conversations in which a turn began while       *)
              (* another one was in flight                                *)

handlerVars == <<begun, conv, resumes>>
dbVars      == <<row, session>>
managerVars == <<runs, cancelled, evictions>>
engineVars  == <<wire, open>>
drainVars   == <<emitted, text, verdict, sawResult, newSession>>
procVars    == <<up, crashes>>
history     == <<latest, unsaved, stopped, overlapped>>
vars == <<procVars, handlerVars, phase, dbVars, managerVars, engineVars,
          drainVars, history>>

Turns    == 1..MaxTurns
NoTurn   == 0
Terminal == {"ok", "failed", "error"}
Kinds    == Terminal \cup {"delta"}
Statuses == {"running", "complete", "partial", "error"}

(* The handler's phases, those of the run's goroutine, and the ends.       *)
(* "dead": the process crashed under the turn.  "aborted": Start returned  *)
(* an error and its transaction was rolled back.                           *)
InHandler == {"txn", "register"}
InRun     == {"starting", "streaming", "persist", "session", "return"}
Phases    == {"new", "aborted", "done", "dead"} \cup InHandler \cup InRun

InFlight(t) == phase[t] \in InHandler \cup InRun
Live(t)     == phase[t] \in InRun          (* a registered run, not done *)
TurnsOf(c)  == {t \in 1..begun : conv[t] = c}
NoRow       == [status |-> "none", text |-> 0]

Init ==
  /\ up = TRUE /\ crashes = 0 /\ begun = 0
  /\ conv \in [Turns -> Convs]
  /\ phase = [t \in Turns |-> "new"]
  /\ row = [t \in Turns |-> NoRow]
  /\ session = [c \in Convs |-> NoTurn]
  /\ resumes = [t \in Turns |-> NoTurn]
  /\ runs = [c \in Convs |-> NoTurn]
  /\ cancelled = {} /\ evictions = {}
  /\ wire = [t \in Turns |-> << >>]
  /\ open = {}
  /\ emitted = [t \in Turns |-> << >>]
  /\ text = [t \in Turns |-> 0]
  /\ verdict = [t \in Turns |-> "partial"]
  /\ sawResult = {}
  /\ newSession = [t \in Turns |-> NoTurn]
  /\ latest = [c \in Convs |-> NoTurn]
  /\ unsaved = {} /\ stopped = {} /\ overlapped = {}

Goto(t, there) == phase' = [phase EXCEPT ![t] = there]
Emit(t, kind)  == emitted' = [emitted EXCEPT ![t] = Append(@, kind)]
Conclude(t, status) == verdict' = [verdict EXCEPT ![t] = status]

-----------------------------------------------------------------------------
(* ChatService.Start, in the handler's goroutine. *)

(* The transaction opens: a new conversation is created, or an existing    *)
(* one is read, its session id with it.  A client can only continue a      *)
(* conversation that some turn has committed.                              *)
Begin(t) ==
  LET c == conv[t] IN
  /\ up
  /\ t = begun + 1
  /\ TurnsOf(c) = {} \/ \E u \in TurnsOf(c) : row[u] # NoRow
  /\ begun' = t
  /\ resumes' = [resumes EXCEPT ![t] = session[c]]
  /\ Goto(t, "txn")
  /\ overlapped' = IF \E u \in TurnsOf(c) : InFlight(u)
                   THEN overlapped \cup {c} ELSE overlapped
  /\ UNCHANGED <<procVars, conv, dbVars, managerVars, engineVars, drainVars,
                 latest, unsaved, stopped>>

(* The transaction commits: the user message and the running placeholder   *)
(* of the assistant's answer are in the database.                          *)
Commit(t) ==
  /\ up
  /\ phase[t] = "txn"
  /\ row' = [row EXCEPT ![t] = [status |-> "running", text |-> 0]]
  /\ Goto(t, "register")
  /\ UNCHANGED <<procVars, handlerVars, session, managerVars, engineVars,
                 drainVars, history>>

(* The transaction fails, for one because two turns took the same seq.     *)
Abort(t) ==
  /\ up
  /\ phase[t] = "txn"
  /\ Goto(t, "aborted")
  /\ UNCHANGED <<procVars, handlerVars, dbVars, managerVars, engineVars,
                 drainVars, history>>

(* MUTANT: the unfinished run is replaced but not cancelled. *)
RegisterOverLiveRun(t) ==
  LET c == conv[t] IN
  /\ up
  /\ phase[t] = "register"
  /\ runs' = [runs EXCEPT ![c] = t]
  /\ latest' = [latest EXCEPT ![c] = t]
  /\ Goto(t, "starting")
  /\ UNCHANGED <<procVars, handlerVars, dbVars, cancelled, evictions, engineVars,
                 drainVars, unsaved, stopped, overlapped>>

(* RunManager.Start: an unfinished run of the conversation is cancelled    *)
(* and replaced.                                                           *)
Register(t) ==
  LET c == conv[t] IN
  /\ up
  /\ phase[t] = "register"
  /\ cancelled' = IF runs[c] # NoTurn /\ Live(runs[c])
                  THEN cancelled \cup {runs[c]} ELSE cancelled
  /\ runs' = [runs EXCEPT ![c] = t]
  /\ latest' = [latest EXCEPT ![c] = t]
  /\ Goto(t, "starting")
  /\ UNCHANGED <<procVars, handlerVars, dbVars, evictions, engineVars,
                 drainVars, unsaved, stopped, overlapped>>

-----------------------------------------------------------------------------
(* The engine, behind HTTPRunner's events channel. *)

HasEnded(t) ==
  \E k \in Terminal : \/ \E i \in 1..Len(wire[t]) : wire[t][i] = k
                      \/ \E i \in 1..Len(emitted[t]) : emitted[t][i] = k

Deltas(s) == Cardinality({i \in DOMAIN s : s[i] = "delta"})

(* MUTANT: an unbounded events channel. *)
EngineSendsUnbounded(t, kind) ==
  /\ t \in open
  /\ phase[t] = "streaming"
  /\ ~HasEnded(t)
  /\ kind = "delta" => Deltas(wire[t]) + text[t] < MaxDeltas
  /\ wire' = [wire EXCEPT ![t] = Append(@, kind)]
  /\ UNCHANGED <<procVars, handlerVars, phase, dbVars, managerVars, open,
                 drainVars, history>>

EngineSends(t, kind) ==
  /\ t \in open
  /\ phase[t] = "streaming"
  /\ ~HasEnded(t)
  /\ Len(wire[t]) < ChanCap
  /\ kind = "delta" => Deltas(wire[t]) + text[t] < MaxDeltas
  /\ wire' = [wire EXCEPT ![t] = Append(@, kind)]
  /\ UNCHANGED <<procVars, handlerVars, phase, dbVars, managerVars, open,
                 drainVars, history>>

(* The body ends: the engine is finished or has crashed, the connection    *)
(* broke, or the cancelled context aborted the request.                    *)
BodyEnds(t) ==
  /\ t \in open
  /\ open' = open \ {t}
  /\ UNCHANGED <<procVars, handlerVars, phase, dbVars, managerVars, wire,
                 drainVars, history>>

-----------------------------------------------------------------------------
(* drain, in the run's goroutine. *)

EngineStarts(t) ==
  /\ phase[t] = "starting"
  /\ open' = open \cup {t}
  /\ Goto(t, "streaming")
  /\ UNCHANGED <<procVars, handlerVars, dbVars, managerVars, wire,
                 drainVars, history>>

(* rt.Start fails under a cancelled context: partial, and nothing emitted. *)
StartCancelled(t) ==
  /\ phase[t] = "starting"
  /\ t \in cancelled
  /\ Conclude(t, "partial")
  /\ Goto(t, "persist")
  /\ UNCHANGED <<procVars, handlerVars, dbVars, managerVars, engineVars,
                 emitted, text, sawResult, newSession, history>>

StartRefused(t) ==
  /\ phase[t] = "starting"
  /\ t \notin cancelled
  /\ Emit(t, "error")
  /\ Conclude(t, "error")
  /\ Goto(t, "persist")
  /\ UNCHANGED <<procVars, handlerVars, dbVars, managerVars, engineVars,
                 text, sawResult, newSession, history>>

(* One event of the loop's select: it is emitted, then looked at.  The     *)
(* session id of a result may be empty.                                    *)
DrainEvent(t) ==
  LET kind == Head(wire[t]) IN
  /\ phase[t] = "streaming"
  /\ wire[t] # << >>
  /\ wire' = [wire EXCEPT ![t] = Tail(@)]
  /\ Emit(t, kind)
  /\ text' = IF kind = "delta" THEN [text EXCEPT ![t] = @ + 1] ELSE text
  /\ \/ /\ kind \in {"ok", "failed"}
        /\ sawResult' = sawResult \cup {t}
        /\ Conclude(t, IF kind = "ok" THEN "complete" ELSE "error")
        /\ \E s \in {NoTurn, t} : newSession' = [newSession EXCEPT ![t] = s]
     \/ /\ kind = "error"
        /\ Conclude(t, "error")
        /\ UNCHANGED <<sawResult, newSession>>
     \/ /\ kind = "delta"
        /\ UNCHANGED <<verdict, sawResult, newSession>>
  /\ UNCHANGED <<procVars, handlerVars, phase, dbVars, managerVars, open,
                 history>>

(* MUTANT: a stream without a result is not reported. *)
DrainClosedQuietly(t) ==
  /\ phase[t] = "streaming"
  /\ t \notin open
  /\ wire[t] = << >>
  /\ Goto(t, "persist")
  /\ UNCHANGED <<procVars, handlerVars, dbVars, managerVars, engineVars,
                 drainVars, history>>

(* The channel is closed and empty.  A stream that ended without a result  *)
(* or an error is reported as an error.                                    *)
DrainClosed(t) ==
  /\ phase[t] = "streaming"
  /\ t \notin open
  /\ wire[t] = << >>
  /\ IF t \notin sawResult /\ verdict[t] = "partial"
     THEN Emit(t, "error") /\ Conclude(t, "error")
     ELSE UNCHANGED <<emitted, verdict>>
  /\ Goto(t, "persist")
  /\ UNCHANGED <<procVars, handlerVars, dbVars, managerVars, engineVars,
                 text, sawResult, newSession, history>>

(* The idle timer: the engine's context is cancelled, what it still sends  *)
(* is thrown away, and the run fails, whatever was seen before.            *)
IdleTimeout(t) ==
  /\ phase[t] = "streaming"
  /\ Emit(t, "error")
  /\ Conclude(t, "error")
  /\ sawResult' = sawResult \cup {t}
  /\ wire' = [wire EXCEPT ![t] = << >>]
  /\ open' = open \ {t}
  /\ Goto(t, "persist")
  /\ UNCHANGED <<procVars, handlerVars, dbVars, managerVars, text,
                 newSession, history>>

(* persistAssistant: an error is logged and the drain goes on.             *)
Persist(t) ==
  /\ phase[t] = "persist"
  /\ \/ /\ row' = [row EXCEPT ![t] = [status |-> verdict[t], text |-> text[t]]]
        /\ UNCHANGED unsaved
     \/ /\ unsaved' = unsaved \cup {t}
        /\ UNCHANGED row
  /\ Goto(t, IF newSession[t] # NoTurn THEN "session" ELSE "return")
  /\ UNCHANGED <<procVars, handlerVars, session, managerVars, engineVars,
                 drainVars, latest, stopped, overlapped>>

(* MUTANT: the session id is saved as soon as the result names it. *)
SaveSessionEarly(t) ==
  /\ phase[t] \in {"streaming", "persist", "session"}
  /\ newSession[t] # NoTurn
  /\ session' = [session EXCEPT ![conv[t]] = newSession[t]]
  /\ Goto(t, IF phase[t] = "session" THEN "return" ELSE phase[t])
  /\ UNCHANGED <<procVars, handlerVars, row, managerVars, engineVars,
                 drainVars, history>>

(* MUTANT: the session id is saved by a goroutine nobody waits for. *)
SaveSessionLate(t) ==
  /\ phase[t] \in {"session", "return", "done"}
  /\ newSession[t] # NoTurn
  /\ session' = [session EXCEPT ![conv[t]] = newSession[t]]
  /\ Goto(t, IF phase[t] = "session" THEN "return" ELSE phase[t])
  /\ UNCHANGED <<procVars, handlerVars, row, managerVars, engineVars,
                 drainVars, history>>

(* UpdateSessionID: unconditional; an error is logged.                     *)
SaveSession(t) ==
  /\ phase[t] = "session"
  /\ \/ session' = [session EXCEPT ![conv[t]] = newSession[t]]
     \/ UNCHANGED session
  /\ Goto(t, "return")
  /\ UNCHANGED <<procVars, handlerVars, row, managerVars, engineVars,
                 drainVars, history>>

(* The deferred end of the run's goroutine.                                *)
Return(t) ==
  /\ phase[t] = "return"
  /\ cancelled' = cancelled \cup {t}
  /\ evictions' = evictions \cup {t}
  /\ Goto(t, "done")
  /\ UNCHANGED <<procVars, handlerVars, dbVars, runs, engineVars, drainVars,
                 history>>

-----------------------------------------------------------------------------
(* Timers, the user's stop, and the process itself. *)

(* MUTANT: the deadline covers the stream, not the call that opens it. *)
DeadlineOfStream(t) ==
  /\ phase[t] = "streaming"
  /\ t \notin cancelled
  /\ cancelled' = cancelled \cup {t}
  /\ UNCHANGED <<procVars, handlerVars, phase, dbVars, runs, evictions,
                 engineVars, drainVars, history>>

(* MaxRunDuration cancels the run's context.                               *)
Deadline(t) ==
  /\ Live(t)
  /\ t \notin cancelled
  /\ cancelled' = cancelled \cup {t}
  /\ UNCHANGED <<procVars, handlerVars, phase, dbVars, runs, evictions,
                 engineVars, drainVars, history>>

(* MUTANT: the timer removes whatever run the conversation has by then. *)
EvictAnyRun(t) ==
  /\ t \in evictions
  /\ evictions' = evictions \ {t}
  /\ runs' = [runs EXCEPT ![conv[t]] = NoTurn]
  /\ UNCHANGED <<procVars, handlerVars, phase, dbVars, cancelled, engineVars,
                 drainVars, history>>

(* RunEvictionTTL after the end of the run: only this run is removed.      *)
Evict(t) ==
  /\ t \in evictions
  /\ evictions' = evictions \ {t}
  /\ runs' = IF runs[conv[t]] = t THEN [runs EXCEPT ![conv[t]] = NoTurn] ELSE runs
  /\ UNCHANGED <<procVars, handlerVars, phase, dbVars, cancelled, engineVars,
                 drainVars, history>>

(* RunManager.Stop cancels the run it finds in the map.                    *)
Stop(c) ==
  LET t == runs[c] IN
  /\ t # NoTurn
  /\ cancelled' = cancelled \cup {t}
  /\ stopped' = IF HasEnded(t) \/ ~Live(t) THEN stopped ELSE stopped \cup {t}
  /\ UNCHANGED <<procVars, handlerVars, phase, dbVars, runs, evictions,
                 engineVars, drainVars, latest, unsaved, overlapped>>

(* The process dies: goroutines, runs, timers and open transactions are    *)
(* gone, the database stays.                                               *)
Crash ==
  /\ up
  /\ crashes < MaxCrashes
  /\ up' = FALSE
  /\ crashes' = crashes + 1
  /\ phase' = [t \in Turns |-> IF InFlight(t) THEN "dead" ELSE phase[t]]
  /\ runs' = [c \in Convs |-> NoTurn]
  /\ latest' = [c \in Convs |-> NoTurn]
  /\ cancelled' = {} /\ evictions' = {}
  /\ open' = {}
  /\ wire' = [t \in Turns |-> << >>]
  /\ UNCHANGED <<handlerVars, dbVars, drainVars, unsaved, stopped, overlapped>>

(* MUTANT: no sweep at start-up. *)
RestartWithoutSweep ==
  /\ ~up
  /\ up' = TRUE
  /\ UNCHANGED <<crashes, handlerVars, phase, dbVars, managerVars,
                 engineVars, drainVars, history>>

(* MUTANT: the sweep spares no message. *)
RestartSweepingAll ==
  /\ ~up
  /\ up' = TRUE
  /\ row' = [t \in Turns |->
               IF row[t] # NoRow THEN [row[t] EXCEPT !.status = "partial"] ELSE row[t]]
  /\ UNCHANGED <<crashes, handlerVars, phase, session, managerVars,
                 engineVars, drainVars, history>>

(* MigrateDB at start-up marks what was left running as partial.           *)
Restart ==
  /\ ~up
  /\ up' = TRUE
  /\ row' = [t \in Turns |->
               IF row[t].status = "running"
               THEN [row[t] EXCEPT !.status = "partial"] ELSE row[t]]
  /\ UNCHANGED <<crashes, handlerVars, phase, session, managerVars,
                 engineVars, drainVars, history>>

-----------------------------------------------------------------------------
HandlerStep(t) == Commit(t) \/ Abort(t) \/ Register(t)

(* The select of the drain loop: an event, the end, or the idle timer.     *)
Select(t) == DrainEvent(t) \/ DrainClosed(t) \/ IdleTimeout(t)

Finish(t) == Persist(t) \/ SaveSession(t) \/ Return(t)

Environment(t) ==
  \/ EngineStarts(t) \/ StartRefused(t) \/ BodyEnds(t)
  \/ \E kind \in Kinds : EngineSends(t, kind)

Next ==
  \/ \E t \in Turns :
       \/ Begin(t) \/ HandlerStep(t) \/ StartCancelled(t) \/ Select(t) \/ Finish(t)
       \/ Environment(t) \/ Deadline(t) \/ Evict(t)
  \/ \E c \in Convs : Stop(c)
  \/ Crash
  \/ Restart

(* Goroutines are scheduled and timers fire.  Nothing is asked of the      *)
(* engine, of the users, or of whoever restarts a dead process.            *)
Fairness ==
  \A t \in Turns :
    /\ WF_vars(HandlerStep(t))
    /\ WF_vars(StartCancelled(t))
    /\ WF_vars(Select(t))
    /\ WF_vars(Finish(t))
    /\ WF_vars(Deadline(t))

Spec == Init /\ [][Next]_vars /\ Fairness

-----------------------------------------------------------------------------
(* Properties. *)

(* TypeOK: every variable has its type; the events channel keeps within    *)
(* its capacity.                                                           *)
TypeOK ==
  /\ up \in BOOLEAN /\ crashes \in Nat /\ begun \in 0..MaxTurns
  /\ conv \in [Turns -> Convs]
  /\ phase \in [Turns -> Phases]
  /\ row \in [Turns -> [status : Statuses \cup {"none"}, text : Nat]]
  /\ session \in [Convs -> Turns \cup {NoTurn}]
  /\ resumes \in [Turns -> Turns \cup {NoTurn}]
  /\ runs \in [Convs -> Turns \cup {NoTurn}]
  /\ cancelled \subseteq Turns /\ evictions \subseteq Turns
  /\ wire \in [Turns -> Seq(Kinds)]
  /\ \A t \in Turns : Len(wire[t]) <= ChanCap
  /\ open \subseteq Turns
  /\ emitted \in [Turns -> Seq(Kinds)]
  /\ text \in [Turns -> Nat]
  /\ verdict \in [Turns -> Statuses \ {"running"}]
  /\ sawResult \subseteq Turns
  /\ newSession \in [Turns -> Turns \cup {NoTurn}]
  /\ latest \in [Convs -> Turns \cup {NoTurn}]
  /\ unsaved \subseteq Turns /\ stopped \subseteq Turns
  /\ overlapped \subseteq Convs

(* NewestRunReachable: the run that Stop and Resume find for a             *)
(* conversation is the one registered last, and it is found as long as it  *)
(* is live: no older run and no eviction timer takes its place in          *)
(* RunManager.runs.                                                        *)
NewestRunReachable ==
  \A c \in Convs :
    /\ runs[c] \in {NoTurn, latest[c]}
    /\ latest[c] # NoTurn /\ Live(latest[c]) => runs[c] = latest[c]

(* SupersededRunsCancelled: a live run that RunManager.runs no longer      *)
(* holds, which nobody can stop any more, has a cancelled context.         *)
SupersededRunsCancelled ==
  \A t \in Turns : Live(t) /\ runs[conv[t]] # t => t \in cancelled

(* The end that a viewer of the events saw: the last terminal one.         *)
EndsIn(seen, kind) ==
  \E i \in 1..Len(seen) :
    /\ seen[i] = kind
    /\ \A j \in (i + 1)..Len(seen) : seen[j] = "delta"

(* HistoryMatchesStream: what drain persisted is what the viewers saw: a   *)
(* complete message iff the stream's end was a successful result, an error *)
(* iff it was a failed result or an error, partial only where the stream   *)
(* stayed empty or the process crashed; and its text is all of the text.   *)
HistoryMatchesStream ==
  \A t \in Turns :
    /\ row[t].status = "complete" => EndsIn(emitted[t], "ok")
    /\ row[t].status = "error" =>
         EndsIn(emitted[t], "failed") \/ EndsIn(emitted[t], "error")
    /\ row[t].status = "partial" => emitted[t] = << >> \/ phase[t] = "dead" \/ t \in unsaved
    /\ row[t].status \in {"complete", "error"} => row[t].text = Deltas(emitted[t])

(* RunningHasOwner: while the process is up, a message that the database   *)
(* shows as running belongs to a turn whose goroutine will settle it,      *)
(* unless the write that settles it failed.                                *)
RunningHasOwner ==
  up => \A t \in Turns :
          row[t].status = "running" =>
            phase[t] \in {"register", "starting", "streaming", "persist"}
            \/ t \in unsaved

(* ResumedSessionIsSettled: a turn that resumes the engine session of an   *)
(* earlier turn finds that turn's answer settled in the history it sends   *)
(* (drain persists the message before the session id), or lost for good.   *)
ResumedSessionIsSettled ==
  \A t \in 1..begun :
    resumes[t] # NoTurn =>
      /\ resumes[t] < t
      /\ conv[resumes[t]] = conv[t]
      /\ row[resumes[t]].status # "running" \/ resumes[t] \in unsaved

(* Four more invariants, on which the proofs rest.                         *)

(* Ledger: a turn's message exists from its commit on, and is running      *)
(* until its drain has settled it.                                         *)
Ledger ==
  /\ ~up => \A t \in Turns : ~InFlight(t)
  /\ \A t \in Turns :
       /\ t > begun <=> phase[t] = "new"
       /\ phase[t] \in {"new", "txn", "aborted"} => row[t] = NoRow
       /\ phase[t] \in {"register", "starting", "streaming", "persist"} =>
            row[t].status = "running"
       /\ row[t].status = "running" =>
            phase[t] \in {"register", "starting", "streaming", "persist", "dead"}
            \/ t \in unsaved

(* Managed: only finished runs have eviction timers, and a conversation's  *)
(* entry in the manager is one of its own runs.                            *)
Managed ==
  /\ \A t \in evictions : phase[t] = "done"
  /\ \A c \in Convs : latest[c] # NoTurn => conv[latest[c]] = c

(* TurnDrained: drain's verdict and text sum up what it has emitted, and   *)
(* the persisted message is what they said when it was written.            *)
TurnDrained(t) ==
  /\ text[t] = Deltas(emitted[t])
  /\ phase[t] \in {"new", "txn", "aborted", "register", "starting"} =>
       emitted[t] = << >> /\ verdict[t] = "partial"
  /\ verdict[t] = "complete" => EndsIn(emitted[t], "ok")
  /\ verdict[t] = "error" => EndsIn(emitted[t], "failed") \/ EndsIn(emitted[t], "error")
  /\ verdict[t] = "partial" => t \notin sawResult
  /\ phase[t] \in {"persist", "session", "return", "done"} /\ verdict[t] = "partial" =>
       emitted[t] = << >>
  /\ row[t].status \in {"complete", "error"} =>
       /\ phase[t] \in {"session", "return", "done", "dead"}
       /\ row[t].status = verdict[t] /\ row[t].text = text[t]
  /\ row[t].status = "partial" =>
       \/ phase[t] = "dead" \/ t \in unsaved
       \/ phase[t] \in {"session", "return", "done"} /\ emitted[t] = << >>

Drained == \A t \in Turns : TurnDrained(t)

(* Answered: the turn's drain has written its message, or tried to, or     *)
(* will never do so.                                                       *)
Answered(t) ==
  /\ phase[t] \in {"return", "done", "dead"}
  /\ row[t].status # "running" \/ t \in unsaved

(* Chained: sessions are those of answered turns of the conversation, and  *)
(* where turns did not overlap the one in flight is the newest.            *)
Chained ==
  /\ \A t \in Turns :
       /\ newSession[t] \in {NoTurn, t}
       /\ phase[t] = "session" =>
            newSession[t] = t /\ (row[t].status # "running" \/ t \in unsaved)
       /\ resumes[t] # NoTurn =>
            Answered(resumes[t]) /\ conv[resumes[t]] = conv[t] /\ resumes[t] < t
  /\ \A c \in Convs : session[c] # NoTurn =>
       Answered(session[c]) /\ conv[session[c]] = c
  /\ \A c \in Convs \ overlapped : \A t, u \in TurnsOf(c) : InFlight(t) => u <= t

(* SettledForGood: a settled message never changes again: not by a         *)
(* superseded run, not by the sweep of a restart.                          *)
SettledForGood ==
  [][\A t \in Turns : row[t].status \in Statuses \ {"running"} => row'[t] = row[t]]_vars

(* SessionsAdvance: in a conversation whose turns never overlapped, the    *)
(* session id moves forward only: no late UpdateSessionID puts an older    *)
(* session back.                                                           *)
SessionsAdvance ==
  [][\A c \in Convs \ overlapped :
       session'[c] # session[c] => session'[c] > session[c]]_vars

(* EveryTurnEnds: every turn that begins ends, and so does its run, though *)
(* the engine may never answer, may stall, or may never end its stream: no *)
(* turn is in flight for ever.                                             *)
EveryTurnEnds == \A t \in Turns : []<>~InFlight(t)

(* StopMarksPartial: a message whose run the user stopped before the       *)
(* engine had ended it is not marked as an error                           *)
(* (web/src/app/api/chat/stop/route.ts: "The persisted assistant message   *)
(* is marked partial").                                                    *)
StopMarksPartial == \A t \in stopped : row[t].status # "error"
=============================================================================
