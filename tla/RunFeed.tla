------------------------------ MODULE RunFeed ------------------------------
(***************************************************************************)
(* What a chat run promises to the people watching it                      *)
(* (backend/internal/agent/run_manager.go, handler/chat_handler.go).       *)
(*                                                                         *)
(* A run publishes events and finishes once.  A viewer starts reading at   *)
(* some index of the log and from there on sees every event, once, in      *)
(* order, however often its connection is lost and opened again; it is     *)
(* told that the run is over only when it has seen all of it.              *)
(***************************************************************************)
EXTENDS Naturals, Sequences

CONSTANTS
  Event,      (* the events a run can publish *)
  Viewers     (* the clients watching it      *)

VARIABLES
  log,        (* the events published so far                          *)
  over,       (* TRUE once the run has finished                       *)
  start,      (* start[v]: how many events v's reading leaves out     *)
  got,        (* got[v]: what v has seen, over all its connections    *)
  told        (* told[v]: v was told that the run is over             *)

feedVars == <<log, over, start, got, told>>

Init ==
  /\ log = << >>
  /\ over = FALSE
  /\ start = [v \in Viewers |-> 0]
  /\ got = [v \in Viewers |-> << >>]
  /\ told = [v \in Viewers |-> FALSE]

Position(v) == start[v] + Len(got[v])

Publish ==
  /\ ~over
  /\ \E e \in Event : log' = Append(log, e)
  /\ UNCHANGED <<over, start, got, told>>

Finish ==
  /\ ~over
  /\ over' = TRUE
  /\ UNCHANGED <<log, start, got, told>>

(* A viewer that has seen nothing yet may be made to start one event late: *)
(* the conversation frame carries the same id 0 as the first event, and a  *)
(* client that received only that frame resumes after event 0.             *)
Aim(v) ==
  /\ got[v] = << >>
  /\ ~told[v]
  /\ \E k \in 0..1 : start' = [start EXCEPT ![v] = k]
  /\ UNCHANGED <<log, over, got, told>>

Deliver(v) ==
  /\ ~told[v]
  /\ Position(v) < Len(log)
  /\ got' = [got EXCEPT ![v] = Append(@, log[Position(v) + 1])]
  /\ UNCHANGED <<log, over, start, told>>

Tell(v) ==
  /\ over
  /\ ~told[v]
  /\ Position(v) >= Len(log)
  /\ told' = [told EXCEPT ![v] = TRUE]
  /\ UNCHANGED <<log, over, start, got>>

Next ==
  \/ Publish
  \/ Finish
  \/ \E v \in Viewers : Aim(v) \/ Deliver(v) \/ Tell(v)

Spec == Init /\ [][Next]_feedVars
=============================================================================
