----------------------------- MODULE RunBuffer -----------------------------
(***************************************************************************)
(* One run's event buffer and the viewers that stream it                   *)
(* (backend/internal/agent/run_manager.go: Run; backend/internal/handler/  *)
(* chat_handler.go: handleStart, handleResume, streamRun).                 *)
(*                                                                         *)
(* The run's goroutine appends events and finally marks the run done; each *)
(* time it replaces the `ready` channel under the lock and closes the old  *)
(* one AFTER unlocking.  Ready channels are numbered in the order they are *)
(* installed: `gen` is the one installed now, those below `woken` are      *)
(* closed.  The goroutine's pc needs no variable of its own: it stands     *)
(* between the unlock and the close exactly when woken < gen.              *)
(*                                                                         *)
(* A viewer is a client with at most one open connection.  Its Subscribe   *)
(* goroutine snapshots (events, done, ready) under the lock and works from *)
(* the snapshot; `out` is the bounded channel between that goroutine and   *)
(* the handler's write loop.  A client that lost its connection comes back *)
(* with the id of the last frame it received (Last-Event-ID).              *)
(***************************************************************************)
EXTENDS Integers, Sequences

CONSTANTS
  Event,      (* the events a run can emit                                *)
  Viewers,    (* the clients                                              *)
  OutCap,     (* capacity of `out` (32 in the code)                       *)
  MaxEvents,  (* bound: events emitted                                    *)
  MaxDrops    (* bound: connections lost, over all viewers                *)

ASSUME BufferAssumption ==
  /\ OutCap \in Nat \ {0}
  /\ MaxEvents \in Nat
  /\ MaxDrops \in Nat

VARIABLES
  events,     (* Run.events                                               *)
  done,       (* Run.done                                                 *)
  gen,        (* number of the channel in Run.ready                       *)
  woken,      (* the channels numbered below this are closed              *)
  pc,         (* pc[v]: where v's connection stands                       *)
  cursor,     (* cursor[v]: next index Subscribe sends                    *)
  snap,       (* snap[v]: the snapshot Subscribe works from               *)
  out,        (* out[v]: sent by Subscribe, not yet written to the client *)
  hung,       (* hung[v]: the request context is cancelled                *)
  lastId,     (* lastId[v]: id of the last frame the client received      *)
  seen,       (* seen[v]: events the client received, in order            *)
  start,      (* history: index at which the client's reading began       *)
  drops       (* history: connections lost so far                         *)

runVars  == <<events, done, gen, woken>>
subVars  == <<pc, cursor, snap, out, hung>>
userVars == <<lastId, seen, start>>
vars     == <<runVars, subVars, userVars, drops>>

NoId == -1    (* no frame with an id was received *)

Snapshot == [len : Nat, done : BOOLEAN, ready : Nat]

(* Subscribed: the goroutine of Subscribe is alive.                        *)
Subscribed == {"snap", "send", "recheck", "wait"}
Connected  == Subscribed \cup {"hello", "closed"}
PC         == Connected \cup {"off", "ended", "history"}

(* At most one client posted the turn; a turn that Slack started has no    *)
(* poster.  The others join a conversation that they see running.          *)
Poster == {{}} \cup {{v} : v \in Viewers}

Init ==
  /\ events = << >> /\ done = FALSE /\ gen = 0 /\ woken = 0
  /\ \E poster \in Poster :
       pc = [v \in Viewers |-> IF v \in poster THEN "hello" ELSE "off"]
  /\ cursor = [v \in Viewers |-> 0]
  /\ snap = [v \in Viewers |-> [len |-> 0, done |-> FALSE, ready |-> 0]]
  /\ out = [v \in Viewers |-> << >>]
  /\ hung = [v \in Viewers |-> FALSE]
  /\ lastId = [v \in Viewers |-> NoId]
  /\ seen = [v \in Viewers |-> << >>]
  /\ start = [v \in Viewers |-> 0]
  /\ drops = 0

Goto(v, there) == pc' = [pc EXCEPT ![v] = there]

-----------------------------------------------------------------------------
(* The run's goroutine. *)

(* MUTANT: the new event wakes nobody. *)
AppendSilently ==
  /\ woken = gen
  /\ ~done
  /\ Len(events) < MaxEvents
  /\ \E e \in Event : events' = Append(events, e)
  /\ UNCHANGED <<done, gen, woken, subVars, userVars, drops>>

AppendAndBroadcast ==
  /\ woken = gen
  /\ ~done
  /\ Len(events) < MaxEvents
  /\ \E e \in Event : events' = Append(events, e)
  /\ gen' = gen + 1
  /\ UNCHANGED <<done, woken, subVars, userVars, drops>>

(* MUTANT: the end of the run wakes nobody. *)
MarkDoneSilently ==
  /\ woken = gen
  /\ ~done
  /\ done' = TRUE
  /\ UNCHANGED <<events, gen, woken, subVars, userVars, drops>>

MarkDoneAndBroadcast ==
  /\ woken = gen
  /\ ~done
  /\ done' = TRUE
  /\ gen' = gen + 1
  /\ UNCHANGED <<events, woken, subVars, userVars, drops>>

CloseReady ==
  /\ woken < gen
  /\ woken' = woken + 1
  /\ UNCHANGED <<events, done, gen, subVars, userVars, drops>>

-----------------------------------------------------------------------------
(* The goroutine of Subscribe. *)

TakeSnapshot(v) ==
  /\ pc[v] = "snap"
  /\ snap' = [snap EXCEPT ![v] = [len |-> Len(events), done |-> done, ready |-> gen]]
  /\ Goto(v, "send")
  /\ UNCHANGED <<runVars, cursor, out, hung, userVars, drops>>

(* MUTANT: an unbounded channel. *)
SendUnbounded(v) ==
  /\ pc[v] = "send"
  /\ cursor[v] < snap[v].len
  /\ out' = [out EXCEPT ![v] = Append(@, events[cursor[v] + 1])]
  /\ cursor' = [cursor EXCEPT ![v] = @ + 1]
  /\ UNCHANGED <<runVars, pc, snap, hung, userVars, drops>>

Send(v) ==
  /\ pc[v] = "send"
  /\ cursor[v] < snap[v].len
  /\ Len(out[v]) < OutCap
  /\ out' = [out EXCEPT ![v] = Append(@, events[cursor[v] + 1])]
  /\ cursor' = [cursor EXCEPT ![v] = @ + 1]
  /\ UNCHANGED <<runVars, pc, snap, hung, userVars, drops>>

SentAll(v) ==
  /\ pc[v] = "send"
  /\ cursor[v] >= snap[v].len
  /\ Goto(v, IF snap[v].done THEN "recheck" ELSE "wait")
  /\ UNCHANGED <<runVars, cursor, snap, out, hung, userVars, drops>>

Recheck(v) ==
  /\ pc[v] = "recheck"
  /\ Goto(v, IF cursor[v] >= Len(events) THEN "closed" ELSE "snap")
  /\ UNCHANGED <<runVars, cursor, snap, out, hung, userVars, drops>>

WakeUp(v) ==
  /\ pc[v] = "wait"
  /\ snap[v].ready < woken
  /\ Goto(v, "snap")
  /\ UNCHANGED <<runVars, cursor, snap, out, hung, userVars, drops>>

(* MUTANT: Subscribe waits on `ready` alone. *)
UnsubscribeWhenSending(v) ==
  /\ hung[v]
  /\ pc[v] = "send" /\ cursor[v] < snap[v].len
  /\ Goto(v, "closed")
  /\ UNCHANGED <<runVars, cursor, snap, out, hung, userVars, drops>>

(* ctx.Done() in either select; the handler's loop ends with the channel.  *)
Unsubscribe(v) ==
  /\ hung[v]
  /\ \/ pc[v] = "send" /\ cursor[v] < snap[v].len
     \/ pc[v] = "wait"
  /\ Goto(v, "closed")
  /\ UNCHANGED <<runVars, cursor, snap, out, hung, userVars, drops>>

-----------------------------------------------------------------------------
(* The handler and the client behind it. *)

(* handleStart writes the conversation frame, with id 0, and subscribes.   *)
ConversationFrame(v) ==
  /\ pc[v] = "hello"
  /\ lastId' = IF hung[v] THEN lastId ELSE [lastId EXCEPT ![v] = 0]
  /\ Goto(v, "snap")
  /\ UNCHANGED <<runVars, cursor, snap, out, hung, seen, start, drops>>

(* One frame of streamRun: its id counts from the index subscribed at, so  *)
(* it is the index of the event.  A frame written to a lost connection     *)
(* reaches nobody.                                                         *)
WriteFrame(v) ==
  /\ out[v] # << >>
  /\ out' = [out EXCEPT ![v] = Tail(@)]
  /\ IF hung[v]
     THEN UNCHANGED <<seen, lastId>>
     ELSE /\ seen' = [seen EXCEPT ![v] = Append(@, Head(out[v]))]
          /\ lastId' = [lastId EXCEPT ![v] = cursor[v] - Len(out[v])]
  /\ UNCHANGED <<runVars, pc, cursor, snap, hung, start, drops>>

(* The channel is closed and empty: [DONE], unless the client is gone.     *)
EndStream(v) ==
  /\ pc[v] = "closed"
  /\ out[v] = << >>
  /\ Goto(v, IF hung[v] THEN "off" ELSE "ended")
  /\ hung' = [hung EXCEPT ![v] = FALSE]
  /\ UNCHANGED <<runVars, cursor, snap, out, userVars, drops>>

LoseConnection(v) ==
  /\ pc[v] \in Connected
  /\ ~hung[v]
  /\ drops < MaxDrops
  /\ drops' = drops + 1
  /\ hung' = [hung EXCEPT ![v] = TRUE]
  /\ UNCHANGED <<runVars, pc, cursor, snap, out, userVars>>

(* MUTANT: resumes at the last id received, not after it. *)
ReconnectAtLastId(v) ==
  /\ pc[v] = "off"
  /\ ~done
  /\ Goto(v, "snap")
  /\ cursor' = [cursor EXCEPT ![v] = IF lastId[v] = NoId THEN 0 ELSE lastId[v]]
  /\ UNCHANGED <<runVars, snap, out, hung, userVars, drops>>

(* handleResume: a finished run is answered 204 (the client reads the      *)
(* persisted history), a live one is streamed from Last-Event-ID + 1, from *)
(* 0 when the client has no id.                                            *)
Connect(v) ==
  /\ pc[v] = "off"
  /\ IF done
     THEN /\ Goto(v, "history")
          /\ UNCHANGED <<cursor, start>>
     ELSE /\ Goto(v, "snap")
          /\ cursor' = [cursor EXCEPT ![v] = lastId[v] + 1]
          /\ start' = IF seen[v] = << >>
                      THEN [start EXCEPT ![v] = lastId[v] + 1] ELSE start
  /\ UNCHANGED <<runVars, snap, out, hung, lastId, seen, drops>>

-----------------------------------------------------------------------------
RunStep == AppendAndBroadcast \/ MarkDoneAndBroadcast \/ CloseReady

SubscribeStep(v) ==
  TakeSnapshot(v) \/ Send(v) \/ SentAll(v) \/ Recheck(v) \/ WakeUp(v) \/ Unsubscribe(v)

HandlerStep(v) == ConversationFrame(v) \/ WriteFrame(v) \/ EndStream(v)

(* A viewer that is told the run is over, or reads the history, is done.   *)
Settled ==
  /\ done /\ woken = gen
  /\ \A v \in Viewers : pc[v] \in {"ended", "history"}
  /\ UNCHANGED vars

Next ==
  \/ RunStep
  \/ \E v \in Viewers : SubscribeStep(v) \/ HandlerStep(v)
                        \/ LoseConnection(v) \/ Connect(v)
  \/ Settled

(* Goroutines are scheduled.  Nothing is asked of the run itself, which may *)
(* stay silent for ever, nor of a client, which neither has to come back   *)
(* nor to lose its connection.                                             *)
Fairness ==
  /\ WF_vars(CloseReady)
  /\ \A v \in Viewers : WF_vars(SubscribeStep(v)) /\ WF_vars(HandlerStep(v))

Spec == Init /\ [][Next]_vars /\ Fairness

-----------------------------------------------------------------------------
(* Properties. *)

(* TypeOK: every variable of run_manager.go's Run and of a subscription    *)
(* has its type, and `out` never exceeds its capacity.                     *)
TypeOK ==
  /\ events \in Seq(Event)
  /\ done \in BOOLEAN
  /\ gen \in Nat /\ woken \in Nat
  /\ pc \in [Viewers -> PC]
  /\ cursor \in [Viewers -> Nat]
  /\ snap \in [Viewers -> Snapshot]
  /\ out \in [Viewers -> Seq(Event)]
  /\ \A v \in Viewers : Len(out[v]) <= OutCap
  /\ hung \in [Viewers -> BOOLEAN]
  /\ lastId \in [Viewers -> Nat \cup {NoId}]
  /\ seen \in [Viewers -> Seq(Event)]
  /\ start \in [Viewers -> 0..1]
  /\ drops \in Nat

(* NoLostWakeup: a subscriber that waits while the run has events or an    *)
(* end it has not seen waits on a channel that is closed or that the run's *)
(* goroutine is about to close: appendAndBroadcast and the snapshot of     *)
(* Subscribe never miss each other.                                        *)
NoLostWakeup ==
  \A v \in Viewers :
    pc[v] = "wait" /\ (snap[v].len < Len(events) \/ snap[v].done # done)
      => snap[v].ready < gen

(* SnapshotIsPrefix: a snapshot is of the run's past, and the newest ready *)
(* channel is only ever seen with the newest events: the two are replaced  *)
(* under one lock.                                                         *)
SnapshotIsPrefix ==
  \A v \in Viewers :
    /\ snap[v].len <= Len(events)
    /\ snap[v].done => done
    /\ snap[v].ready <= gen
    /\ snap[v].ready = gen => snap[v].len = Len(events) /\ snap[v].done = done

(* Streaming: the connection has a subscription.                           *)
Streaming == Subscribed \cup {"closed"}

(* OutHoldsNext: what is in `out` is the stretch of the buffer that ends   *)
(* at the cursor, and for a client still there it is what the client sees  *)
(* next; a subscription closed under it has sent everything.               *)
OutHoldsNext ==
  \A v \in Viewers :
    /\ out[v] # << >> => pc[v] \in Streaming /\ cursor[v] <= Len(events)
    /\ Len(out[v]) <= cursor[v]
    /\ \A i \in 1..Len(out[v]) : out[v][i] = events[cursor[v] - Len(out[v]) + i]
    /\ pc[v] \in Streaming /\ ~hung[v] =>
         cursor[v] = start[v] + Len(seen[v]) + Len(out[v])
    /\ pc[v] = "recheck" => snap[v].done
    /\ pc[v] = "closed" /\ ~hung[v] => done /\ cursor[v] >= Len(events)

(* ResumePoint: the id a client comes back with is that of the last event  *)
(* it saw; before the first event it is absent, or the conversation        *)
(* frame's.                                                                *)
ResumePoint ==
  \A v \in Viewers :
    /\ seen[v] # << >> => lastId[v] = start[v] + Len(seen[v]) - 1
    /\ seen[v] = << >> => lastId[v] \in {NoId, 0}
    /\ pc[v] = "hello" => seen[v] = << >> /\ cursor[v] = 0 /\ start[v] = 0
    /\ pc[v] \notin Connected => ~hung[v]

(* Pipeline: where each event of the run is on its way to each viewer.     *)
Pipeline == SnapshotIsPrefix /\ OutHoldsNext /\ ResumePoint

(* Feed: the buffer, its subscribers and the reconnecting handler keep the *)
(* promise of RunFeed: no event twice, none out of order, none left out    *)
(* after the first one seen, and [DONE] only after the last one.           *)
Feed == INSTANCE RunFeed WITH
  log <- events, over <- done, got <- seen,
  told <- [v \in Viewers |-> pc[v] = "ended"]
ImplementsFeed == Feed!Spec

(* EveryViewerIsServed: a client connected to a run that is over is told   *)
(* the end or loses its connection; Subscribe never waits for a broadcast  *)
(* that was already made.                                                  *)
EveryViewerIsServed ==
  \A v \in Viewers :
    done /\ pc[v] \in Connected ~> pc[v] \in {"ended", "off"}

(* NoLeak: after a client hangs up, its Subscribe goroutine and its        *)
(* handler end, whether or not the run ever emits again or ends.           *)
NoLeak == \A v \in Viewers : hung[v] ~> ~hung[v]

(* NothingSkipped: a client that resumes with Last-Event-ID sees the run   *)
(* from its first event (handleResume resumes after the last id seen).     *)
NothingSkipped == \A v \in Viewers : seen[v] # << >> => start[v] = 0
=============================================================================
