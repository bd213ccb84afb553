-------------------------- MODULE ChatTurnsProofs --------------------------
(***************************************************************************)
(* What the runs of ChatTurns check for two turns of one conversation,     *)
(* proved for every number of turns, conversations, deltas and crashes.    *)
(***************************************************************************)
EXTENDS ChatTurns, FiniteSetTheorems, TLAPS

-----------------------------------------------------------------------------
(* Types. *)

LEMMA InitTypes == Init => TypeOK
<1> SUFFICES ASSUME Init PROVE TypeOK
  OBVIOUS
<1> USE TurnsAssumption DEF Init, NoTurn
<1>1. up \in BOOLEAN
  BY Zenon
<1>2. phase \in [Turns -> Phases] /\ verdict \in [Turns -> Statuses \ {"running"}]
  BY DEF Phases, Statuses
<1>3. row \in [Turns -> [status : Statuses \cup {"none"}, text : Nat]]
  BY DEF NoRow
<1>4. \A t \in Turns : Len(wire[t]) <= ChanCap
  BY DEF Turns
<1>5. /\ crashes \in Nat /\ begun \in 0..MaxTurns
      /\ conv \in [Turns -> Convs]
      /\ session \in [Convs -> Turns \cup {NoTurn}]
      /\ resumes \in [Turns -> Turns \cup {NoTurn}]
      /\ newSession \in [Turns -> Turns \cup {NoTurn}]
      /\ runs \in [Convs -> Turns \cup {NoTurn}]
      /\ latest \in [Convs -> Turns \cup {NoTurn}]
  OBVIOUS
<1>6. /\ wire \in [Turns -> Seq(Kinds)]
      /\ emitted \in [Turns -> Seq(Kinds)]
      /\ text \in [Turns -> Nat]
  OBVIOUS
<1>7. /\ cancelled \subseteq Turns /\ evictions \subseteq Turns /\ open \subseteq Turns
      /\ sawResult \subseteq Turns /\ unsaved \subseteq Turns /\ stopped \subseteq Turns
      /\ overlapped \subseteq Convs
  OBVIOUS
<1> QED
  BY <1>1, <1>2, <1>3, <1>4, <1>5, <1>6, <1>7 DEF TypeOK

LEMMA StepTypes == TypeOK /\ [Next]_vars => TypeOK'
<1> SUFFICES ASSUME TypeOK, [Next]_vars PROVE TypeOK'
  OBVIOUS
<1> USE TurnsAssumption DEF procVars, handlerVars, dbVars, managerVars, engineVars,
      drainVars, history, Goto, Emit, Conclude, NoTurn
<1>1. ASSUME NEW t \in Turns, Begin(t) PROVE TypeOK'
  <2>1. /\ conv[t] \in Convs /\ session[conv[t]] \in Turns \cup {NoTurn}
        /\ begun' \in 0..MaxTurns
    BY <1>1 DEF Begin, TypeOK, Turns
  <2>2. resumes' \in [Turns -> Turns \cup {NoTurn}] /\ phase' \in [Turns -> Phases]
    BY <1>1, <2>1 DEF Begin, TypeOK, Phases, InHandler
  <2>3. overlapped' \subseteq Convs
    BY <1>1, <2>1 DEF Begin, TypeOK
  <2> QED
    BY <1>1, <2>1, <2>2, <2>3 DEF Begin, TypeOK
<1>2. ASSUME NEW t \in Turns, Commit(t) PROVE TypeOK'
  BY <1>2 DEF Commit, TypeOK, Phases, InHandler, Statuses
<1>3. ASSUME NEW t \in Turns, Abort(t) PROVE TypeOK'
  BY <1>3 DEF Abort, TypeOK, Phases
<1>4. ASSUME NEW t \in Turns, Register(t) PROVE TypeOK'
  BY <1>4 DEF Register, TypeOK, Phases, InRun, Live
<1>5. ASSUME NEW t \in Turns, NEW kind \in Kinds, EngineSends(t, kind) PROVE TypeOK'
  BY <1>5 DEF EngineSends, TypeOK
<1>6. ASSUME NEW t \in Turns, BodyEnds(t) PROVE TypeOK'
  BY <1>6 DEF BodyEnds, TypeOK
<1>7. ASSUME NEW t \in Turns, EngineStarts(t) PROVE TypeOK'
  BY <1>7 DEF EngineStarts, TypeOK, Phases, InRun
<1>8. ASSUME NEW t \in Turns, StartCancelled(t) PROVE TypeOK'
  BY <1>8 DEF StartCancelled, TypeOK, Phases, InRun, Statuses
<1>9. ASSUME NEW t \in Turns, StartRefused(t) PROVE TypeOK'
  BY <1>9 DEF StartRefused, TypeOK, Phases, InRun, Statuses, Kinds, Terminal
<1>10. ASSUME NEW t \in Turns, DrainEvent(t) PROVE TypeOK'
  <2>1. /\ wire[t] \in Seq(Kinds) /\ Head(wire[t]) \in Kinds /\ Tail(wire[t]) \in Seq(Kinds)
        /\ Len(Tail(wire[t])) <= Len(wire[t])
    BY <1>10 DEF DrainEvent, TypeOK
  <2>2. /\ wire' \in [Turns -> Seq(Kinds)] /\ emitted' \in [Turns -> Seq(Kinds)]
        /\ \A u \in Turns : Len(wire'[u]) <= ChanCap
    BY <1>10, <2>1 DEF DrainEvent, TypeOK
  <2>3. text' \in [Turns -> Nat]
    BY <1>10 DEF DrainEvent, TypeOK
  <2>4. /\ verdict' \in [Turns -> Statuses \ {"running"}] /\ sawResult' \subseteq Turns
        /\ newSession' \in [Turns -> Turns \cup {NoTurn}]
    <3>1. \/ \E v \in {"complete", "error"} : verdict' = [verdict EXCEPT ![t] = v]
          \/ verdict' = verdict
      BY <1>10 DEF DrainEvent
    <3>2. sawResult' \in {sawResult, sawResult \cup {t}}
      BY <1>10 DEF DrainEvent
    <3>3. newSession' = newSession \/ \E u \in {NoTurn, t} : newSession' = [newSession EXCEPT ![t] = u]
      BY <1>10 DEF DrainEvent
    <3>4. verdict' \in [Turns -> Statuses \ {"running"}]
      BY <3>1 DEF TypeOK, Statuses
    <3>5. sawResult' \subseteq Turns
      BY <3>2 DEF TypeOK
    <3>6. newSession' \in [Turns -> Turns \cup {NoTurn}]
      <4>1. newSession \in [Turns -> Turns \cup {NoTurn}]
        BY DEF TypeOK
      <4> QED
        BY <3>3, <4>1
    <3> QED
      BY <3>4, <3>5, <3>6
  <2> QED
    BY <1>10, <2>2, <2>3, <2>4 DEF DrainEvent, TypeOK
<1>11. ASSUME NEW t \in Turns, DrainClosed(t) PROVE TypeOK'
  <2>1. phase' \in [Turns -> Phases]
    BY <1>11 DEF DrainClosed, TypeOK, Phases, InRun
  <2>2. emitted' \in [Turns -> Seq(Kinds)] /\ verdict' \in [Turns -> Statuses \ {"running"}]
    <3>1. \/ UNCHANGED <<emitted, verdict>>
          \/ /\ emitted' = [emitted EXCEPT ![t] = Append(@, "error")]
             /\ verdict' = [verdict EXCEPT ![t] = "error"]
      BY <1>11 DEF DrainClosed
    <3>2. "error" \in Kinds /\ "error" \in Statuses \ {"running"}
      BY DEF Statuses, Kinds, Terminal
    <3>3. emitted' \in [Turns -> Seq(Kinds)]
      <4>1. emitted \in [Turns -> Seq(Kinds)]
        BY DEF TypeOK
      <4>2. Append(emitted[t], "error") \in Seq(Kinds)
        BY <3>2, <4>1
      <4> QED
        BY <3>1, <4>1, <4>2
    <3>4. verdict' \in [Turns -> Statuses \ {"running"}]
      <4>1. verdict \in [Turns -> Statuses \ {"running"}]
        BY DEF TypeOK
      <4> QED
        BY <3>1, <3>2, <4>1
    <3> QED
      BY <3>3, <3>4
  <2> QED
    BY <1>11, <2>1, <2>2 DEF DrainClosed, TypeOK
<1>12. ASSUME NEW t \in Turns, IdleTimeout(t) PROVE TypeOK'
  BY <1>12 DEF IdleTimeout, TypeOK, Phases, InRun, Statuses, Kinds, Terminal
<1>13. ASSUME NEW t \in Turns, Persist(t) PROVE TypeOK'
  BY <1>13 DEF Persist, TypeOK, Phases, InRun, Statuses
<1>14. ASSUME NEW t \in Turns, SaveSession(t) PROVE TypeOK'
  BY <1>14 DEF SaveSession, TypeOK, Phases, InRun
<1>15. ASSUME NEW t \in Turns, Return(t) PROVE TypeOK'
  BY <1>15 DEF Return, TypeOK, Phases
<1>16. ASSUME NEW t \in Turns, Deadline(t) PROVE TypeOK'
  BY <1>16 DEF Deadline, TypeOK
<1>17. ASSUME NEW t \in Turns, Evict(t) PROVE TypeOK'
  BY <1>17 DEF Evict, TypeOK
<1>18. ASSUME NEW c \in Convs, Stop(c) PROVE TypeOK'
  BY <1>18 DEF Stop, TypeOK
<1>19. CASE Crash
  <2>1. /\ phase' \in [Turns -> Phases]
        /\ wire' \in [Turns -> Seq(Kinds)] /\ \A u \in Turns : Len(wire'[u]) <= ChanCap
        /\ runs' \in [Convs -> Turns \cup {NoTurn}] /\ latest' \in [Convs -> Turns \cup {NoTurn}]
    BY <1>19 DEF Crash, TypeOK, Phases
  <2>2. up' \in BOOLEAN
    BY <1>19, Zenon DEF Crash
  <2> QED
    BY <1>19, <2>1, <2>2 DEF Crash, TypeOK
<1>20. CASE Restart
  BY <1>20 DEF Restart, TypeOK, Statuses
<1>21. CASE UNCHANGED vars
  BY <1>21 DEF vars, TypeOK
<1> QED
  BY <1>1, <1>2, <1>3, <1>4, <1>5, <1>6, <1>7, <1>8, <1>9, <1>10, <1>11, <1>12,
     <1>13, <1>14, <1>15, <1>16, <1>17, <1>18, <1>19, <1>20, <1>21
     DEF Next, HandlerStep, Select, Finish, Environment

-----------------------------------------------------------------------------
(* The course of a turn. *)

(* The steps of a turn that leave its message alone.                       *)
Moves == { <<"txn", "aborted">>, <<"register", "starting">>,
           <<"starting", "streaming">>, <<"starting", "persist">>,
           <<"streaming", "persist">>, <<"session", "return">>, <<"return", "done">> }

Moved(t) ==
  /\ \E m \in Moves : phase[t] = m[1] /\ phase' = [phase EXCEPT ![t] = m[2]]
  /\ UNCHANGED <<up, begun, row, unsaved>>

(* Every step is one of these, as far as turns and messages are concerned. *)
LEMMA Course ==
  ASSUME [Next]_vars
  PROVE  \/ UNCHANGED <<up, begun, phase, row, unsaved>>
         \/ \E t \in Turns : Begin(t) \/ Commit(t) \/ Persist(t) \/ Moved(t)
         \/ Crash \/ Restart
<1> USE DEF procVars, handlerVars, dbVars, managerVars, engineVars, drainVars,
      history, Goto, Moved, Moves
<1>1. ASSUME NEW t \in Turns, Abort(t) PROVE Moved(t)
  BY <1>1 DEF Abort
<1>2. ASSUME NEW t \in Turns, Register(t) PROVE Moved(t)
  BY <1>2 DEF Register
<1>3. ASSUME NEW t \in Turns, EngineStarts(t) PROVE Moved(t)
  BY <1>3 DEF EngineStarts
<1>4. ASSUME NEW t \in Turns, StartCancelled(t) \/ StartRefused(t) PROVE Moved(t)
  BY <1>4 DEF StartCancelled, StartRefused
<1>5. ASSUME NEW t \in Turns, DrainClosed(t) \/ IdleTimeout(t) PROVE Moved(t)
  BY <1>5 DEF DrainClosed, IdleTimeout
<1>6. ASSUME NEW t \in Turns, SaveSession(t) PROVE Moved(t)
  BY <1>6 DEF SaveSession
<1>7. ASSUME NEW t \in Turns, Return(t) PROVE Moved(t)
  BY <1>7 DEF Return
<1>8. ASSUME NEW t \in Turns,
             \/ DrainEvent(t) \/ BodyEnds(t) \/ Deadline(t) \/ Evict(t)
             \/ \E kind \in Kinds : EngineSends(t, kind)
      PROVE  UNCHANGED <<up, begun, phase, row, unsaved>>
  BY <1>8 DEF DrainEvent, BodyEnds, Deadline, Evict, EngineSends
<1>9. ASSUME NEW c \in Convs, Stop(c) PROVE UNCHANGED <<up, begun, phase, row, unsaved>>
  BY <1>9 DEF Stop
<1>10. CASE UNCHANGED vars
  BY <1>10 DEF vars
<1> HIDE DEF Moved
<1> QED
  BY <1>1, <1>2, <1>3, <1>4, <1>5, <1>6, <1>7, <1>8, <1>9, <1>10
     DEF Next, HandlerStep, Select, Finish, Environment

(* Ledger and RunningHasOwner: what the database shows of each turn.       *)
LEMMA LedgerStep ==
  ASSUME TypeOK, Ledger, RunningHasOwner, [Next]_vars
  PROVE  Ledger' /\ RunningHasOwner'
<1> USE DEF procVars, handlerVars, dbVars, Goto
<1>1. CASE UNCHANGED <<up, begun, phase, row, unsaved>>
  BY <1>1 DEF Ledger, RunningHasOwner, InFlight
<1>2. ASSUME NEW t \in Turns, Begin(t)
      PROVE  Ledger' /\ RunningHasOwner'
  BY <1>2 DEF Begin, Ledger, RunningHasOwner, InFlight, TypeOK, history, NoRow, Turns
<1>3. ASSUME NEW t \in Turns, Commit(t)
      PROVE  Ledger' /\ RunningHasOwner'
  BY <1>3 DEF Commit, Ledger, RunningHasOwner, TypeOK, history, NoRow
<1>4. ASSUME NEW t \in Turns, Persist(t)
      PROVE  Ledger' /\ RunningHasOwner'
  BY <1>4 DEF Persist, Ledger, RunningHasOwner, TypeOK, InFlight, InRun
<1>5. ASSUME NEW t \in Turns, Moved(t)
      PROVE  Ledger' /\ RunningHasOwner'
  BY <1>5 DEF Moved, Moves, Ledger, RunningHasOwner, TypeOK, InFlight, InRun, InHandler
<1>6. CASE Crash
  BY <1>6 DEF Crash, Ledger, RunningHasOwner, TypeOK, InFlight, InRun, InHandler
<1>7. CASE Restart
  <2>1. up' /\ UNCHANGED <<begun, phase, unsaved>>
    BY <1>7 DEF Restart, history
  <2>2. ASSUME NEW t \in Turns
        PROVE  /\ row'[t].status # "running"
               /\ row[t] = NoRow => row'[t] = NoRow
               /\ phase[t] \notin {"register", "starting", "streaming", "persist"}
    <3>1. row[t] \in [status : Statuses \cup {"none"}, text : Nat]
      BY DEF TypeOK
    <3>2. row'[t] = IF row[t].status = "running"
                    THEN [row[t] EXCEPT !.status = "partial"] ELSE row[t]
      BY <1>7 DEF Restart
    <3>3. ~InFlight(t)
      BY <1>7 DEF Restart, Ledger
    <3> QED
      BY <3>1, <3>2, <3>3 DEF NoRow, InFlight, InRun, InHandler
  <2> QED
    BY <2>1, <2>2 DEF Ledger, RunningHasOwner
<1> QED
  BY <1>1, <1>2, <1>3, <1>4, <1>5, <1>6, <1>7, Course

-----------------------------------------------------------------------------
(* The run manager. *)


ManagerInv == Managed /\ NewestRunReachable /\ SupersededRunsCancelled

(* The part of the manager's state its invariants speak of stays as it is, *)
(* no turn becomes a live run, and none leaves "done".                     *)
ManagerIdle ==
  /\ UNCHANGED <<runs, evictions, latest, conv>>
  /\ cancelled \subseteq cancelled'
  /\ \A t \in Turns : (Live(t)' => Live(t)) /\ (phase[t] = "done" => phase'[t] = "done")

LEMMA IdlePreserves ==
  ASSUME TypeOK, ManagerInv, ManagerIdle
  PROVE  ManagerInv'
<1>1. Managed'
  BY DEF ManagerInv, ManagerIdle, Managed, TypeOK
<1>2. NewestRunReachable'
  <2> SUFFICES ASSUME NEW c \in Convs, latest[c] # NoTurn, Live(latest[c])'
               PROVE  runs[c] = latest[c]
    BY DEF NewestRunReachable, ManagerInv, ManagerIdle
  <2>1. latest[c] \in Turns
    BY DEF TypeOK
  <2>2. Live(latest[c])
    BY <2>1 DEF ManagerIdle, Live
  <2> QED
    BY <2>2 DEF ManagerInv, NewestRunReachable
<1>3. SupersededRunsCancelled'
  BY DEF ManagerInv, ManagerIdle, SupersededRunsCancelled
<1> QED
  BY <1>1, <1>2, <1>3 DEF ManagerInv

LEMMA ManagerStep ==
  ASSUME TypeOK, Ledger, ManagerInv, [Next]_vars
  PROVE  ManagerInv'
<1> USE DEF procVars, handlerVars, dbVars, managerVars, engineVars, drainVars,
      history, Goto
<1>1. ASSUME NEW t \in Turns,
             \/ Begin(t) \/ Commit(t) \/ Abort(t) \/ EngineStarts(t) \/ StartCancelled(t)
             \/ StartRefused(t) \/ DrainClosed(t) \/ IdleTimeout(t) \/ Persist(t)
             \/ SaveSession(t)
      PROVE  ManagerIdle
  <2>1. UNCHANGED <<runs, evictions, cancelled, latest, conv>>
    BY <1>1 DEF Begin, Commit, Abort, EngineStarts, StartCancelled, StartRefused,
       DrainClosed, IdleTimeout, Persist, SaveSession
  <2>2. /\ \E p \in Phases : phase' = [phase EXCEPT ![t] = p]
        /\ phase[t] # "done"
        /\ phase'[t] \in InRun => phase[t] \in InRun
    <3>1. CASE Begin(t)
      BY <3>1 DEF Begin, Ledger, TypeOK, Phases, InHandler, InRun, Turns
    <3>2. CASE Commit(t) \/ Abort(t)
      BY <3>2 DEF Commit, Abort, TypeOK, Phases, InHandler, InRun
    <3>3. CASE EngineStarts(t) \/ StartCancelled(t) \/ StartRefused(t)
      BY <3>3 DEF EngineStarts, StartCancelled, StartRefused, TypeOK, Phases, InRun
    <3>4. CASE DrainClosed(t) \/ IdleTimeout(t)
      BY <3>4 DEF DrainClosed, IdleTimeout, TypeOK, Phases, InRun
    <3>5. CASE Persist(t) \/ SaveSession(t)
      BY <3>5 DEF Persist, SaveSession, TypeOK, Phases, InRun
    <3> QED
      BY <1>1, <3>1, <3>2, <3>3, <3>4, <3>5
  <2>3. \A u \in Turns \ {t} : phase'[u] = phase[u]
    BY <2>2 DEF TypeOK
  <2> QED
    BY <2>1, <2>2, <2>3 DEF ManagerIdle, Live
<1>2. ASSUME NEW t \in Turns,
             \/ DrainEvent(t) \/ BodyEnds(t) \/ Deadline(t)
             \/ \E kind \in Kinds : EngineSends(t, kind)
      PROVE  ManagerIdle
  BY <1>2 DEF DrainEvent, BodyEnds, Deadline, EngineSends, ManagerIdle, Live
<1>3. ASSUME NEW c \in Convs, Stop(c) PROVE ManagerIdle
  BY <1>3 DEF Stop, ManagerIdle, Live
<1>4. CASE Restart \/ UNCHANGED vars
  <2>1. UNCHANGED <<phase, runs, evictions, latest, conv, cancelled>>
    BY <1>4 DEF Restart, vars
  <2> QED
    BY <2>1, IdlePreserves DEF ManagerIdle, Live
<1>5. ASSUME NEW t \in Turns, Register(t) PROVE ManagerInv'
  <2> DEFINE c == conv[t]
  <2>1. /\ c \in Convs /\ t # NoTurn /\ phase[t] = "register"
        /\ runs' = [runs EXCEPT ![c] = t] /\ latest' = [latest EXCEPT ![c] = t]
        /\ cancelled' = IF runs[c] # NoTurn /\ Live(runs[c])
                        THEN cancelled \cup {runs[c]} ELSE cancelled
        /\ UNCHANGED <<evictions, conv>>
    BY <1>5 DEF Register, TypeOK, Turns, NoTurn
  <2>2. \A u \in Turns : phase'[u] = IF u = t THEN "starting" ELSE phase[u]
    BY <1>5 DEF Register, TypeOK
  <2>3. \A d \in Convs : /\ runs'[d] = (IF d = c THEN t ELSE runs[d])
                          /\ latest'[d] = (IF d = c THEN t ELSE latest[d])
    BY <2>1 DEF TypeOK
  <2>4. Managed'
    BY <2>1, <2>2, <2>3 DEF ManagerInv, Managed, TypeOK
  <2>5. NewestRunReachable'
    <3> SUFFICES ASSUME NEW d \in Convs
                 PROVE  /\ runs'[d] \in {NoTurn, latest'[d]}
                        /\ latest'[d] # NoTurn /\ Live(latest[d])' => runs'[d] = latest'[d]
      BY DEF NewestRunReachable
    <3>1. CASE d = c
      BY <2>3, <3>1
    <3>2. CASE d # c
      <4>1. latest[d] # t /\ latest[d] \in Turns \cup {NoTurn}
        BY <2>1, <3>2 DEF ManagerInv, Managed, TypeOK
      <4>2. latest[d] # NoTurn => (Live(latest[d])' <=> Live(latest[d]))
        BY <2>2, <2>3, <3>2, <4>1 DEF Live
      <4> QED
        BY <2>3, <3>2, <4>2 DEF ManagerInv, NewestRunReachable
    <3> QED
      BY <3>1, <3>2
  <2>6. SupersededRunsCancelled'
    <3> SUFFICES ASSUME NEW u \in Turns, Live(u)', runs'[conv[u]] # u
                 PROVE  u \in cancelled'
      BY <2>1 DEF SupersededRunsCancelled
    <3>1. conv[u] \in Convs
      BY DEF TypeOK
    <3>2. u # t /\ Live(u)
      BY <2>2, <2>3, <3>1 DEF Live
    <3>3. CASE runs[conv[u]] = u
      BY <2>1, <2>3, <3>1, <3>2, <3>3 DEF Turns, NoTurn
    <3>4. CASE runs[conv[u]] # u
      BY <2>1, <3>2, <3>4 DEF ManagerInv, SupersededRunsCancelled
    <3> QED
      BY <3>3, <3>4
  <2> QED
    BY <2>4, <2>5, <2>6 DEF ManagerInv
<1>6. ASSUME NEW t \in Turns, Return(t) PROVE ManagerInv'
  <2>1. /\ UNCHANGED <<runs, latest, conv>>
        /\ cancelled' = cancelled \cup {t} /\ evictions' = evictions \cup {t}
        /\ \A u \in Turns : phase'[u] = IF u = t THEN "done" ELSE phase[u]
    BY <1>6 DEF Return, TypeOK
  <2>2. \A u \in Turns : Live(u)' => Live(u)
    BY <2>1 DEF Live, InRun
  <2>3. Managed'
    BY <2>1 DEF ManagerInv, Managed, TypeOK
  <2>4. NewestRunReachable'
    BY <2>1, <2>2 DEF ManagerInv, NewestRunReachable, TypeOK, Live
  <2>5. SupersededRunsCancelled'
    BY <2>1, <2>2 DEF ManagerInv, SupersededRunsCancelled
  <2> QED
    BY <2>3, <2>4, <2>5 DEF ManagerInv
<1>7. ASSUME NEW t \in Turns, Evict(t) PROVE ManagerInv'
  <2>1. /\ UNCHANGED <<phase, latest, conv, cancelled>>
        /\ evictions' = evictions \ {t} /\ phase[t] = "done" /\ conv[t] \in Convs
        /\ runs' = IF runs[conv[t]] = t THEN [runs EXCEPT ![conv[t]] = NoTurn] ELSE runs
    BY <1>7 DEF Evict, ManagerInv, Managed, TypeOK
  <2>2. \A u \in Turns : Live(u)' = Live(u)
    BY <2>1 DEF Live
  <2>3. ~Live(t)
    BY <2>1 DEF Live, InRun
  <2>4. \A d \in Convs : runs'[d] = runs[d] \/ (runs[d] = t /\ runs'[d] = NoTurn)
    BY <2>1 DEF TypeOK
  <2>5. Managed'
    BY <2>1 DEF ManagerInv, Managed
  <2>6. NewestRunReachable'
    BY <2>1, <2>3, <2>4 DEF ManagerInv, NewestRunReachable, Live
  <2>7. SupersededRunsCancelled'
    BY <2>1, <2>2, <2>3, <2>4 DEF ManagerInv, SupersededRunsCancelled, TypeOK
  <2> QED
    BY <2>5, <2>6, <2>7 DEF ManagerInv
<1>8. CASE Crash
  <2>1. /\ \A u \in Turns : phase'[u] = IF InFlight(u) THEN "dead" ELSE phase[u]
        /\ \A d \in Convs : runs'[d] = NoTurn /\ latest'[d] = NoTurn
        /\ evictions' = {} /\ conv' = conv
    BY <1>8 DEF Crash
  <2>2. \A u \in Turns : ~Live(u)'
    BY <2>1 DEF Live, InFlight, InRun
  <2> QED
    BY <2>1, <2>2 DEF ManagerInv, Managed, NewestRunReachable, SupersededRunsCancelled
<1> HIDE DEF ManagerInv, ManagerIdle
<1> QED
  BY <1>1, <1>2, <1>3, <1>4, <1>5, <1>6, <1>7, <1>8, IdlePreserves
     DEF Next, HandlerStep, Select, Finish, Environment

-----------------------------------------------------------------------------
(* The inductive invariant of the first group of theorems: types, the      *)
(* turns' course, and the manager.                                         *)
CoreInv == TypeOK /\ Ledger /\ RunningHasOwner /\ ManagerInv

LEMMA CoreInit == Init => CoreInv
<1> SUFFICES ASSUME Init PROVE CoreInv
  OBVIOUS
<1> USE DEF Init
<1>1. TypeOK
  BY InitTypes
<1>2. Ledger /\ RunningHasOwner
  BY DEF Ledger, RunningHasOwner, NoRow, Turns, InFlight, InHandler, InRun
<1>3. ManagerInv
  BY DEF ManagerInv, Managed, NewestRunReachable, SupersededRunsCancelled, Live, InRun, NoTurn
<1> QED
  BY <1>1, <1>2, <1>3 DEF CoreInv

(* Every reachable state satisfies the first inductive invariant.          *)
THEOREM CoreInvariance == Spec => []CoreInv
<1>1. CoreInv /\ [Next]_vars => CoreInv'
  BY StepTypes, LedgerStep, ManagerStep DEF CoreInv
<1> QED
  BY <1>1, CoreInit, PTL DEF Spec

(* Every variable of the chat service, its runs and its database keeps its *)
(* type, and no events channel exceeds its capacity.                       *)
THEOREM TypeCorrect == Spec => []TypeOK
<1>1. CoreInv => TypeOK
  BY DEF CoreInv
<1> QED
  BY <1>1, CoreInvariance, PTL

(* The run that Stop and Resume find is the newest, for as long as it is   *)
(* live: neither an older run's end nor its eviction timer removes it.     *)
THEOREM StopFindsNewest == Spec => []NewestRunReachable
<1>1. CoreInv => NewestRunReachable
  BY DEF CoreInv, ManagerInv
<1> QED
  BY <1>1, CoreInvariance, PTL

(* A live run that was replaced in the manager has a cancelled context, so *)
(* that it ends though nobody can stop it any more.                        *)
THEOREM ReplacedRunsCancelled == Spec => []SupersededRunsCancelled
<1>1. CoreInv => SupersededRunsCancelled
  BY DEF CoreInv, ManagerInv
<1> QED
  BY <1>1, CoreInvariance, PTL

(* While the process is up, a message shown as running has a turn that     *)
(* will settle it, or whose write failed, however often the process has    *)
(* crashed before.                                                         *)
THEOREM RunningMessagesOwned == Spec => []RunningHasOwner
<1>1. CoreInv => RunningHasOwner
  BY DEF CoreInv
<1> QED
  BY <1>1, CoreInvariance, PTL

(* A settled message never changes: a turn writes its own message once,    *)
(* and the sweep of a restart leaves settled ones alone.                   *)
THEOREM MessagesSettleOnce == Spec => SettledForGood
<1>1. ASSUME CoreInv, [Next]_vars
      PROVE  \A t \in Turns : row[t].status \in Statuses \ {"running"} => row'[t] = row[t]
  <2> SUFFICES ASSUME NEW t \in Turns, row[t].status \in Statuses \ {"running"}
               PROVE  row'[t] = row[t]
    OBVIOUS
  <2>1. row[t].status # "running" /\ row[t] # NoRow
    BY DEF NoRow, Statuses
  <2>2. ASSUME NEW u \in Turns, Begin(u) \/ Moved(u) PROVE row' = row
    BY <2>2 DEF Begin, Moved, dbVars
  <2>3. ASSUME NEW u \in Turns, Commit(u) PROVE row'[t] = row[t]
    <3>1. u # t
      BY <1>1, <2>1, <2>3 DEF Commit, CoreInv, Ledger
    <3> QED
      BY <1>1, <2>3, <3>1 DEF Commit, CoreInv, TypeOK
  <2>4. ASSUME NEW u \in Turns, Persist(u) PROVE row'[t] = row[t]
    <3>1. u # t
      BY <1>1, <2>1, <2>4 DEF Persist, CoreInv, Ledger
    <3> QED
      BY <1>1, <2>4, <3>1 DEF Persist, CoreInv, TypeOK
  <2>5. CASE Crash
    BY <2>5 DEF Crash, dbVars
  <2>6. CASE Restart
    BY <2>1, <2>6 DEF Restart
  <2>7. CASE UNCHANGED <<up, begun, phase, row, unsaved>>
    BY <2>7
  <2> QED
    BY <1>1, <2>2, <2>3, <2>4, <2>5, <2>6, <2>7, Course
<1> QED
  BY <1>1, CoreInvariance, PTL DEF Spec, SettledForGood

-----------------------------------------------------------------------------
(* Sessions. *)

(* Which steps touch what the chain of sessions is made of.                *)
LEMMA SessionCourse ==
  ASSUME [Next]_vars
  PROVE  /\ conv' = conv
         /\ newSession' = newSession \/ \E t \in Turns : DrainEvent(t)
         /\ session' = session \/ \E t \in Turns : SaveSession(t)
         /\ UNCHANGED <<resumes, begun, overlapped>> \/ \E t \in Turns : Begin(t)
<1> USE DEF handlerVars, dbVars, drainVars, history
<1>1. ASSUME NEW t \in Turns, Begin(t)
      PROVE  UNCHANGED <<conv, newSession, session>>
  BY <1>1 DEF Begin
<1>2. ASSUME NEW t \in Turns, DrainEvent(t)
      PROVE  UNCHANGED <<conv, session, resumes, begun, overlapped>>
  BY <1>2 DEF DrainEvent
<1>3. ASSUME NEW t \in Turns, SaveSession(t)
      PROVE  UNCHANGED <<conv, newSession, resumes, begun, overlapped>>
  BY <1>3 DEF SaveSession
<1>4. ASSUME NEW t \in Turns,
             \/ Commit(t) \/ Abort(t) \/ Register(t) \/ EngineStarts(t) \/ StartCancelled(t)
             \/ StartRefused(t) \/ BodyEnds(t) \/ DrainClosed(t) \/ IdleTimeout(t)
             \/ Persist(t) \/ Return(t) \/ Deadline(t) \/ Evict(t)
             \/ \E kind \in Kinds : EngineSends(t, kind)
      PROVE  UNCHANGED <<conv, newSession, session, resumes, begun, overlapped>>
  BY <1>4 DEF Commit, Abort, Register, EngineStarts, StartCancelled, StartRefused,
     BodyEnds, DrainClosed, IdleTimeout, Persist, Return, Deadline, Evict, EngineSends
<1>5. ASSUME NEW c \in Convs, Stop(c)
      PROVE  UNCHANGED <<conv, newSession, session, resumes, begun, overlapped>>
  BY <1>5 DEF Stop
<1>6. CASE Crash \/ Restart \/ UNCHANGED vars
  BY <1>6 DEF Crash, Restart, vars
<1> QED
  BY <1>1, <1>2, <1>3, <1>4, <1>5, <1>6
     DEF Next, HandlerStep, Select, Finish, Environment

(* A turn that is answered stays so.                                       *)
LEMMA AnsweredStays ==
  ASSUME CoreInv, [Next]_vars, NEW u \in Turns, Answered(u)
  PROVE  Answered(u)'
<1> USE DEF dbVars, Goto, CoreInv
<1>0. /\ phase \in [Turns -> Phases]
      /\ row \in [Turns -> [status : Statuses \cup {"none"}, text : Nat]]
  BY DEF TypeOK
<1>1. CASE UNCHANGED <<up, begun, phase, row, unsaved>>
  BY <1>1 DEF Answered
<1>2. ASSUME NEW t \in Turns, Begin(t) PROVE Answered(u)'
  <2>1. u # t
    BY <1>2 DEF Begin, Ledger, Answered, Turns, TypeOK
  <2> QED
    BY <1>0, <1>2, <2>1 DEF Begin, Answered
<1>3. ASSUME NEW t \in Turns, Commit(t) PROVE Answered(u)'
  BY <1>0, <1>3 DEF Commit, Answered, history
<1>4. ASSUME NEW t \in Turns, Persist(t) PROVE Answered(u)'
  BY <1>0, <1>4 DEF Persist, Answered
<1>5. ASSUME NEW t \in Turns, Moved(t) PROVE Answered(u)'
  BY <1>0, <1>5 DEF Moved, Moves, Answered
<1>6. CASE Crash
  BY <1>6 DEF Crash, Answered
<1>7. CASE Restart
  <2>1. row'[u].status # "running" /\ phase'[u] = phase[u]
    BY <1>0, <1>7 DEF Restart
  <2> QED
    BY <2>1 DEF Answered
<1> QED
  BY <1>1, <1>2, <1>3, <1>4, <1>5, <1>6, <1>7, Course

LEMMA ChainStep ==
  ASSUME CoreInv, Chained, [Next]_vars
  PROVE  Chained'
<1> USE DEF Goto
<1>0. /\ phase \in [Turns -> Phases]
      /\ row \in [Turns -> [status : Statuses \cup {"none"}, text : Nat]]
      /\ newSession \in [Turns -> Turns \cup {NoTurn}]
      /\ resumes \in [Turns -> Turns \cup {NoTurn}]
      /\ session \in [Convs -> Turns \cup {NoTurn}]
      /\ conv \in [Turns -> Convs] /\ conv' = conv
      /\ begun \in Nat
  BY SessionCourse DEF CoreInv, TypeOK
<1>1. ASSUME NEW t \in Turns
      PROVE  newSession'[t] \in {NoTurn, t}
  <2>1. CASE newSession' = newSession
    BY <2>1 DEF Chained
  <2>2. ASSUME NEW u \in Turns, DrainEvent(u) PROVE newSession'[t] \in {NoTurn, t}
    <3>1. newSession' = newSession \/ \E n \in {NoTurn, u} : newSession' = [newSession EXCEPT ![u] = n]
      BY <2>2 DEF DrainEvent
    <3> QED
      BY <1>0, <3>1 DEF Chained
  <2> QED
    BY <2>1, <2>2, SessionCourse
<1>2. ASSUME NEW t \in Turns, phase'[t] = "session"
      PROVE  newSession'[t] = t /\ (row'[t].status # "running" \/ t \in unsaved')
  <2> DEFINE Waits == newSession[t] = t /\ (row[t].status # "running" \/ t \in unsaved)
  <2>1. ASSUME NEW u \in Turns, Persist(u), u = t
        PROVE  newSession'[t] = t /\ (row'[t].status # "running" \/ t \in unsaved')
    <3>1. newSession[t] # NoTurn /\ newSession' = newSession
      BY <1>0, <1>2, <2>1 DEF Persist, drainVars
    <3>2. newSession'[t] = t
      BY <3>1 DEF Chained
    <3>3. row'[t].status # "running" \/ t \in unsaved'
      BY <1>0, <2>1 DEF Persist, CoreInv, TypeOK
    <3> QED
      BY <3>2, <3>3
  <2>2. ASSUME ~Persist(t) PROVE phase[t] = "session" /\ newSession'[t] = newSession[t]
    <3>1. phase[t] = "session"
      <4>1. ASSUME NEW u \in Turns, Begin(u) \/ Commit(u) \/ Moved(u) PROVE phase[t] = "session"
        BY <1>0, <1>2, <4>1 DEF Begin, Commit, Moved, Moves
      <4>2. ASSUME NEW u \in Turns, Persist(u) PROVE phase[t] = "session"
        BY <1>0, <1>2, <2>2, <4>2 DEF Persist
      <4>3. CASE Crash
        BY <1>2, <4>3 DEF Crash
      <4>4. CASE Restart \/ UNCHANGED <<up, begun, phase, row, unsaved>>
        BY <1>2, <4>4 DEF Restart
      <4> QED
        BY <4>1, <4>2, <4>3, <4>4, Course
    <3>2. ASSUME NEW u \in Turns, DrainEvent(u) PROVE newSession'[t] = newSession[t]
      BY <1>0, <3>1, <3>2 DEF DrainEvent
    <3> QED
      BY <3>1, <3>2, SessionCourse
  <2>3. ASSUME ~Persist(t) PROVE row'[t].status # "running" \/ t \in unsaved'
    <3>0. row[t].status # "running" \/ t \in unsaved
      BY <2>2, <2>3 DEF Chained
    <3>1. ASSUME NEW u \in Turns, Begin(u) \/ Moved(u) PROVE UNCHANGED <<row, unsaved>>
      BY <3>1 DEF Begin, Moved, dbVars
    <3>2. ASSUME NEW u \in Turns, Commit(u) \/ Persist(u)
          PROVE  row'[t] = row[t] /\ (t \in unsaved => t \in unsaved')
      BY <1>0, <2>2, <2>3, <3>2 DEF Commit, Persist, history
    <3>3. CASE Crash
      BY <3>0, <3>3 DEF Crash, dbVars
    <3>4. CASE Restart
      BY <1>0, <3>4 DEF Restart, history
    <3> QED
      BY <3>0, <3>1, <3>2, <3>3, <3>4, Course
  <2> QED
    BY <2>1, <2>2, <2>3 DEF Chained
<1>3. ASSUME NEW c \in Convs, session'[c] # NoTurn
      PROVE  Answered(session[c])' /\ conv'[session'[c]] = c
  <2>1. CASE session'[c] = session[c]
    <3>1. session[c] \in Turns /\ Answered(session[c]) /\ conv[session[c]] = c
      BY <1>0, <1>3, <2>1 DEF Chained
    <3>2. \A u \in Turns : Answered(u) => Answered(u)'
      BY AnsweredStays
    <3> QED
      BY <1>0, <2>1, <3>1, <3>2 DEF Answered
  <2>2. ASSUME NEW t \in Turns, SaveSession(t), session'[c] # session[c]
        PROVE  Answered(session[c])' /\ conv'[session'[c]] = c
    <3>1. /\ phase[t] = "session" /\ newSession[t] = t
          /\ row[t].status # "running" \/ t \in unsaved
      BY <2>2 DEF SaveSession, Chained
    <3>2. session'[c] = t /\ c = conv[t]
      BY <1>0, <2>2, <3>1 DEF SaveSession
    <3>3. phase'[t] = "return" /\ UNCHANGED <<row, unsaved>>
      BY <1>0, <2>2 DEF SaveSession, history
    <3> QED
      BY <1>0, <3>1, <3>2, <3>3 DEF Answered
  <2> QED
    BY <2>1, <2>2, SessionCourse
<1>4. ASSUME NEW t \in Turns, resumes'[t] # NoTurn
      PROVE  Answered(resumes[t])' /\ conv'[resumes'[t]] = conv'[t] /\ resumes'[t] < t
  <2>0. \A u \in Turns : Answered(u) => Answered(u)'
    BY AnsweredStays
  <2>1. CASE resumes'[t] = resumes[t]
    <3>1. resumes[t] \in Turns /\ Answered(resumes[t])
          /\ conv[resumes[t]] = conv[t] /\ resumes[t] < t
      BY <1>0, <1>4, <2>1 DEF Chained
    <3> QED
      BY <1>0, <2>0, <2>1, <3>1 DEF Answered
  <2>2. ASSUME NEW u \in Turns, Begin(u), resumes'[t] # resumes[t]
        PROVE  Answered(resumes[t])' /\ conv'[resumes'[t]] = conv'[t] /\ resumes'[t] < t
    <3>1. t = u /\ t = begun + 1 /\ resumes'[t] = session[conv[t]]
      BY <1>0, <2>2 DEF Begin
    <3>2. /\ session[conv[t]] \in Turns /\ Answered(session[conv[t]])
          /\ conv[session[conv[t]]] = conv[t]
      BY <1>0, <1>4, <3>1 DEF Chained
    <3>3. session[conv[t]] <= begun
      BY <1>0, <3>2 DEF CoreInv, Ledger, Answered, Turns
    <3> QED
      BY <1>0, <2>0, <3>1, <3>2, <3>3 DEF Answered, Turns
  <2> QED
    BY <2>1, <2>2, SessionCourse
<1>5. ASSUME NEW c \in Convs \ overlapped', NEW t \in TurnsOf(c)', NEW u \in TurnsOf(c)',
             InFlight(t)'
      PROVE  u <= t
  <2>0. t \in Nat /\ u \in Nat
    BY DEF TurnsOf
  <2>1. ASSUME NEW b \in Turns, Begin(b) PROVE u <= t
    <3>1. /\ b = begun + 1 /\ begun' = b /\ b \in Nat
          /\ \A x \in Turns \ {b} : phase'[x] = phase[x]
          /\ overlapped \subseteq overlapped'
          /\ (\E x \in TurnsOf(conv[b]) : InFlight(x)) => conv[b] \in overlapped'
      BY <1>0, <2>1 DEF Begin, Turns
    <3>2. t \in 1..b /\ u \in 1..b /\ conv[t] = c /\ conv[u] = c
      BY <1>0, <3>1 DEF TurnsOf
    <3>3. b <= MaxTurns /\ MaxTurns \in Nat
      BY TurnsAssumption DEF Turns
    <3>4. t \in Turns /\ u \in Turns
      BY <3>1, <3>2, <3>3 DEF Turns
    <3>5. CASE t = b
      BY <3>1, <3>2, <3>5
    <3>6. CASE t # b
      <4>1. t \in TurnsOf(c) /\ InFlight(t)
        BY <1>0, <1>5, <3>1, <3>2, <3>4, <3>6 DEF TurnsOf, InFlight
      <4>2. conv[b] # c
        BY <3>1, <4>1
      <4>3. u \in TurnsOf(c)
        BY <1>0, <3>1, <3>2, <4>2 DEF TurnsOf
      <4> QED
        BY <3>1, <4>1, <4>3 DEF Chained
    <3> QED
      BY <3>5, <3>6
  <2>2. CASE UNCHANGED <<resumes, begun, overlapped>>
    <3>1. t \in TurnsOf(c) /\ u \in TurnsOf(c) /\ c \in Convs \ overlapped
      BY <1>0, <2>2 DEF TurnsOf
    <3>2. t \in Turns /\ t <= begun
      BY <1>0, <3>1, TurnsAssumption DEF TurnsOf, CoreInv, TypeOK, Turns
    <3>3. phase[t] # "new"
      BY <1>0, <2>0, <3>2 DEF CoreInv, Ledger
    <3>4. InFlight(t)
      <4>1. ASSUME NEW x \in Turns, Begin(x) PROVE InFlight(t)
        BY <1>0, <2>2, <4>1 DEF Begin
      <4>2. ASSUME NEW x \in Turns, Commit(x) \/ Persist(x) \/ Moved(x) PROVE InFlight(t)
        BY <1>0, <1>5, <3>2, <4>2 DEF Commit, Persist, Moved, Moves, InFlight, InHandler, InRun
      <4>3. CASE Crash
        BY <1>5, <3>2, <4>3 DEF Crash, InFlight, InHandler, InRun
      <4>4. CASE Restart \/ UNCHANGED <<up, begun, phase, row, unsaved>>
        BY <1>5, <4>4 DEF Restart, InFlight
      <4> QED
        BY <4>1, <4>2, <4>3, <4>4, Course
    <3> QED
      BY <3>1, <3>4 DEF Chained
  <2> QED
    BY <2>1, <2>2, SessionCourse
<1> QED
  BY <1>1, <1>2, <1>3, <1>4, <1>5 DEF Chained

LEMMA ChainInit == Init => Chained
<1> SUFFICES ASSUME Init PROVE Chained
  OBVIOUS
<1>1. \A c \in Convs : TurnsOf(c) = {}
  BY DEF Init, TurnsOf
<1> QED
  BY <1>1 DEF Init, Chained, NoTurn

(* Sessions are those of answered turns; where turns do not overlap the    *)
(* one in flight is the newest.                                            *)
THEOREM ChainInvariance == Spec => [](CoreInv /\ Chained)
<1>1. CoreInv /\ Chained /\ [Next]_vars => Chained'
  BY ChainStep
<1> QED
  BY <1>1, ChainInit, CoreInvariance, PTL DEF Spec

(* A turn that resumes an engine session sends a history in which the      *)
(* session's own turn is settled, because drain persists the message       *)
(* before the session id.                                                  *)
THEOREM SessionsComeSettled == Spec => []ResumedSessionIsSettled
<1>1. CoreInv /\ Chained => ResumedSessionIsSettled
  <2> SUFFICES ASSUME CoreInv, Chained, NEW t \in 1..begun, resumes[t] # NoTurn
               PROVE  /\ resumes[t] < t
                      /\ conv[resumes[t]] = conv[t]
                      /\ row[resumes[t]].status # "running" \/ resumes[t] \in unsaved
    BY DEF ResumedSessionIsSettled
  <2>1. t \in Turns
    BY TurnsAssumption DEF CoreInv, TypeOK, Turns
  <2> QED
    BY <2>1 DEF Chained, Answered
<1> QED
  BY <1>1, ChainInvariance, PTL

(* Where turns do not overlap, an older session never replaces a newer.    *)
THEOREM SessionsGoForward == Spec => SessionsAdvance
<1>1. ASSUME CoreInv, Chained, [Next]_vars
      PROVE  \A c \in Convs \ overlapped :
               session'[c] # session[c] => session'[c] > session[c]
  <2> SUFFICES ASSUME NEW c \in Convs \ overlapped, session'[c] # session[c]
               PROVE  session'[c] > session[c]
    OBVIOUS
  <2>0. /\ session \in [Convs -> Turns \cup {NoTurn}]
        /\ newSession \in [Turns -> Turns \cup {NoTurn}]
        /\ conv \in [Turns -> Convs] /\ begun \in Nat
    BY <1>1 DEF CoreInv, TypeOK
  <2>1. PICK t \in Turns : SaveSession(t)
    BY <1>1, SessionCourse
  <2>2. phase[t] = "session" /\ newSession[t] = t
    BY <1>1, <2>1 DEF SaveSession, Chained
  <2>3. session'[c] = t /\ conv[t] = c
    BY <2>0, <2>1, <2>2 DEF SaveSession
  <2>4. CASE session[c] = NoTurn
    BY <2>3, <2>4 DEF Turns, NoTurn
  <2>5. CASE session[c] # NoTurn
    <3> DEFINE u == session[c]
    <3>1. u \in Turns /\ Answered(u) /\ conv[u] = c
      BY <1>1, <2>0, <2>5 DEF Chained
    <3>2. t <= begun /\ u <= begun
      BY <1>1, <2>0, <2>2, <3>1 DEF CoreInv, Ledger, Answered, Turns
    <3>3. t \in TurnsOf(c) /\ u \in TurnsOf(c)
      BY <2>0, <2>3, <3>1, <3>2 DEF TurnsOf, Turns
    <3>4. u <= t
      <4>1. InFlight(t)
        BY <2>2 DEF InFlight, InRun
      <4> QED
        BY <1>1, <3>3, <4>1 DEF Chained
    <3>5. u # t
      BY <2>2, <3>1 DEF Answered
    <3> QED
      BY <2>3, <3>1, <3>4, <3>5 DEF Turns
  <2> QED
    BY <2>4, <2>5
<1> QED
  BY <1>1, ChainInvariance, PTL DEF Spec, SessionsAdvance

-----------------------------------------------------------------------------
(* What drain emits and what it persists. *)

(* One more event: one more delta, or a new end.                           *)
LEMMA OneMoreEvent ==
  ASSUME NEW s \in Seq(Kinds), NEW k \in Kinds
  PROVE  /\ Deltas(Append(s, k)) = IF k = "delta" THEN Deltas(s) + 1 ELSE Deltas(s)
         /\ k # "delta" => EndsIn(Append(s, k), k)
         /\ k = "delta" => \A e \in Kinds : EndsIn(s, e) => EndsIn(Append(s, k), e)
<1> DEFINE n == Len(s)
           a == Append(s, k)
           D == {i \in DOMAIN s : s[i] = "delta"}
<1>1. /\ n \in Nat /\ Len(a) = n + 1 /\ DOMAIN s = 1..n /\ DOMAIN a = 1..(n + 1)
      /\ a[n + 1] = k /\ \A i \in 1..n : a[i] = s[i]
  OBVIOUS
<1> HIDE DEF n, a
<1>2. {i \in DOMAIN a : a[i] = "delta"} = IF k = "delta" THEN D \cup {n + 1} ELSE D
  BY <1>1
<1>3. IsFiniteSet(D) /\ n + 1 \notin D
  <2>1. IsFiniteSet(1..n)
    BY <1>1, FS_Interval
  <2>2. D \in SUBSET (1..n)
    BY <1>1
  <2> QED
    BY <1>1, <2>1, <2>2, FS_Subset
<1>4. Cardinality(D \cup {n + 1}) = Cardinality(D) + 1
  BY <1>3, FS_AddElement
<1>5. Deltas(a) = IF k = "delta" THEN Deltas(s) + 1 ELSE Deltas(s)
  BY <1>2, <1>4 DEF Deltas
<1>6. k # "delta" => EndsIn(a, k)
  <2>1. n + 1 \in 1..Len(a) /\ \A j \in (n + 2)..Len(a) : FALSE
    BY <1>1
  <2> QED
    BY <1>1, <2>1 DEF EndsIn
<1>7. ASSUME k = "delta", NEW e \in Kinds, EndsIn(s, e) PROVE EndsIn(a, e)
  <2>1. PICK i \in 1..n : s[i] = e /\ \A j \in (i + 1)..n : s[j] = "delta"
    BY <1>7 DEF EndsIn, n
  <2>2. i \in 1..Len(a) /\ a[i] = e
    BY <1>1, <2>1
  <2>3. ASSUME NEW j \in (i + 1)..Len(a) PROVE a[j] = "delta"
    BY <1>1, <1>7, <2>1
  <2> QED
    BY <2>2, <2>3 DEF EndsIn
<1> QED
  BY <1>5, <1>6, <1>7 DEF a

(* Where drain's own variables stand still, so does what they say.         *)
LEMMA DrainedStays ==
  ASSUME CoreInv, Drained, [Next]_vars, NEW t \in Turns,
         emitted'[t] = emitted[t], text'[t] = text[t], verdict'[t] = verdict[t],
         t \in sawResult' => t \in sawResult,
         phase[t] = "streaming" /\ phase'[t] = "persist" => verdict[t] # "partial"
  PROVE  TurnDrained(t)'
<1> USE DEF Goto
<1>0. /\ phase \in [Turns -> Phases]
      /\ row \in [Turns -> [status : Statuses \cup {"none"}, text : Nat]]
      /\ verdict[t] \in Statuses \ {"running"}
      /\ TurnDrained(t)
  BY DEF CoreInv, TypeOK, Drained
<1>1. CASE UNCHANGED <<up, begun, phase, row, unsaved>>
  BY <1>0, <1>1 DEF TurnDrained
<1>2. ASSUME NEW u \in Turns, Begin(u) PROVE TurnDrained(t)'
  <2>1. UNCHANGED <<row, unsaved>> /\ phase' = [phase EXCEPT ![u] = "txn"] /\ phase[u] = "new"
    BY <1>2 DEF Begin, dbVars, CoreInv, Ledger, TypeOK, Turns
  <2> QED
    BY <1>0, <2>1 DEF TurnDrained
<1>3. ASSUME NEW u \in Turns, Commit(u) PROVE TurnDrained(t)'
  BY <1>0, <1>3 DEF Commit, history, TurnDrained
<1>4. ASSUME NEW u \in Turns, Persist(u) PROVE TurnDrained(t)'
  <2>1. CASE u # t
    <3>1. phase'[t] = phase[t] /\ row'[t] = row[t] /\ (t \in unsaved => t \in unsaved')
      BY <1>0, <1>4, <2>1 DEF Persist
    <3> QED
      BY <1>0, <3>1 DEF TurnDrained
  <2>2. CASE u = t
    <3>1. phase[t] = "persist" /\ phase'[t] \in {"session", "return"}
      BY <1>0, <1>4, <2>2 DEF Persist
    <3>2. \/ row'[t] = [status |-> verdict[t], text |-> text[t]]
          \/ row'[t] = row[t] /\ t \in unsaved'
      BY <1>0, <1>4, <2>2 DEF Persist
    <3>3. row[t].status = "running"
      BY <3>1 DEF CoreInv, Ledger
    <3> QED
      BY <1>0, <3>1, <3>2, <3>3 DEF TurnDrained, Statuses
  <2> QED
    BY <2>1, <2>2
<1>5. ASSUME NEW u \in Turns, Moved(u) PROVE TurnDrained(t)'
  <2>1. UNCHANGED <<row, unsaved>> /\ (u # t => phase'[t] = phase[t])
    BY <1>0, <1>5 DEF Moved
  <2>2. u = t => <<phase[t], phase'[t]>> \in Moves
    BY <1>0, <1>5 DEF Moved, Moves
  <2> QED
    BY <1>0, <2>1, <2>2 DEF TurnDrained, Moves
<1>6. CASE Crash
  <2>1. UNCHANGED <<row, unsaved>> /\ phase'[t] \in {phase[t], "dead"}
    BY <1>6 DEF Crash, dbVars
  <2> QED
    BY <1>0, <2>1 DEF TurnDrained
<1>7. CASE Restart
  <2>1. UNCHANGED <<phase, unsaved>>
    BY <1>7 DEF Restart, history
  <2>2. CASE row[t].status = "running"
    <3>1. row'[t].status = "partial"
      BY <1>0, <1>7, <2>2 DEF Restart
    <3>2. phase[t] = "dead" \/ t \in unsaved
      BY <1>7, <2>2 DEF Restart, CoreInv, Ledger, InFlight, InHandler, InRun
    <3> QED
      BY <1>0, <2>1, <3>1, <3>2 DEF TurnDrained
  <2>3. CASE row[t].status # "running"
    <3>1. row'[t] = row[t]
      BY <1>0, <1>7, <2>3 DEF Restart
    <3> QED
      BY <1>0, <2>1, <3>1 DEF TurnDrained
  <2> QED
    BY <2>2, <2>3
<1> QED
  BY <1>1, <1>2, <1>3, <1>4, <1>5, <1>6, <1>7, Course

LEMMA DrainStep ==
  ASSUME CoreInv, Drained, [Next]_vars
  PROVE  Drained'
<1> USE DEF Goto, Emit, Conclude
<1> SUFFICES ASSUME NEW t \in Turns PROVE TurnDrained(t)'
  BY DEF Drained
<1>0. /\ emitted \in [Turns -> Seq(Kinds)] /\ verdict \in [Turns -> Statuses \ {"running"}]
      /\ phase \in [Turns -> Phases] /\ text \in [Turns -> Nat]
      /\ row[t].status \in Statuses \cup {"none"}
      /\ TurnDrained(t)
  BY DEF CoreInv, TypeOK, Drained
<1>1. ASSUME NEW u \in Turns,
             \/ StartCancelled(u) \/ StartRefused(u) \/ DrainEvent(u)
             \/ DrainClosed(u) \/ IdleTimeout(u),
             u # t
      PROVE  TurnDrained(t)'
  <2>1. /\ emitted'[t] = emitted[t] /\ text'[t] = text[t] /\ verdict'[t] = verdict[t]
        /\ t \in sawResult' => t \in sawResult
        /\ phase'[t] = phase[t]
    BY <1>0, <1>1 DEF StartCancelled, StartRefused, DrainEvent, DrainClosed, IdleTimeout
  <2> QED
    BY <2>1, DrainedStays
<1>2. CASE StartCancelled(t)
  <2>1. /\ emitted'[t] = emitted[t] /\ text'[t] = text[t] /\ verdict'[t] = verdict[t]
        /\ sawResult' = sawResult /\ phase[t] = "starting"
    BY <1>0, <1>2 DEF StartCancelled, TurnDrained
  <2> QED
    BY <2>1, DrainedStays
<1>3. ASSUME StartRefused(t) \/ IdleTimeout(t) \/ (DrainClosed(t) /\ emitted' # emitted)
      PROVE  TurnDrained(t)'
  <2>1. /\ emitted'[t] = Append(emitted[t], "error") /\ verdict'[t] = "error"
        /\ text' = text /\ UNCHANGED <<row, unsaved>> /\ phase'[t] = "persist"
        /\ phase[t] \in {"starting", "streaming"}
    BY <1>0, <1>3 DEF StartRefused, IdleTimeout, DrainClosed, dbVars, history
  <2>2. "error" \in Kinds
    BY DEF Kinds, Terminal
  <2>3. Deltas(emitted'[t]) = Deltas(emitted[t]) /\ EndsIn(emitted'[t], "error")
    BY <1>0, <2>1, <2>2, OneMoreEvent
  <2>4. row[t].status = "running"
    BY <2>1 DEF CoreInv, Ledger
  <2> QED
    BY <1>0, <2>1, <2>3, <2>4 DEF TurnDrained
<1>4. CASE DrainClosed(t) /\ emitted' = emitted
  <2>1. emitted[t] # Append(emitted[t], "error")
    <3>1. emitted[t] \in Seq(Kinds) /\ Len(Append(emitted[t], "error")) = Len(emitted[t]) + 1
      BY <1>0
    <3> QED
      BY <3>1
  <2>2. ~(t \notin sawResult /\ verdict[t] = "partial") /\ verdict' = verdict
    BY <1>0, <1>4, <2>1 DEF DrainClosed
  <2>3. verdict[t] # "partial"
    BY <1>0, <2>2 DEF TurnDrained
  <2> QED
    BY <1>4, <2>2, <2>3, DrainedStays DEF DrainClosed
<1>5. CASE DrainEvent(t)
  <2> DEFINE k == Head(wire[t])
  <2>1. /\ k \in Kinds
        /\ emitted'[t] = Append(emitted[t], k)
        /\ UNCHANGED <<phase, row, unsaved>> /\ phase[t] = "streaming"
    BY <1>0, <1>5 DEF DrainEvent, CoreInv, TypeOK, dbVars, history
  <2>2. row[t].status = "running"
    BY <2>1 DEF CoreInv, Ledger
  <2>3. CASE k = "delta"
    <3>1. /\ text'[t] = text[t] + 1 /\ UNCHANGED <<verdict, sawResult>>
      BY <1>0, <1>5, <2>3 DEF DrainEvent
    <3>2. /\ Deltas(emitted'[t]) = Deltas(emitted[t]) + 1
          /\ \A e \in Kinds : EndsIn(emitted[t], e) => EndsIn(emitted'[t], e)
      BY <1>0, <2>1, <2>3, OneMoreEvent
    <3>3. {"ok", "failed", "error"} \subseteq Kinds
      BY DEF Kinds, Terminal
    <3> QED
      BY <1>0, <2>1, <2>2, <3>1, <3>2, <3>3 DEF TurnDrained
  <2>4. CASE k # "delta"
    <3>1. /\ text' = text
          /\ \/ k = "ok" /\ verdict'[t] = "complete"
             \/ k = "failed" /\ verdict'[t] = "error"
             \/ k = "error" /\ verdict'[t] = "error"
      BY <1>0, <1>5, <2>1, <2>4 DEF DrainEvent, Kinds, Terminal
    <3>2. Deltas(emitted'[t]) = Deltas(emitted[t]) /\ EndsIn(emitted'[t], k)
      BY <1>0, <2>1, <2>4, OneMoreEvent
    <3> HIDE DEF k
    <3> QED
      BY <1>0, <2>1, <2>2, <3>1, <3>2 DEF TurnDrained
  <2> QED
    BY <2>3, <2>4
<1>6. ASSUME NEW u \in Turns,
             \/ Begin(u) \/ Commit(u) \/ Abort(u) \/ Register(u) \/ EngineStarts(u)
             \/ BodyEnds(u) \/ Persist(u) \/ SaveSession(u) \/ Return(u) \/ Deadline(u)
             \/ Evict(u) \/ \E kind \in Kinds : EngineSends(u, kind)
      PROVE  UNCHANGED <<emitted, text, verdict, sawResult>>
             /\ ~(phase[t] = "streaming" /\ phase'[t] = "persist")
  <2>1. UNCHANGED <<emitted, text, verdict, sawResult>>
    BY <1>6 DEF Begin, Commit, Abort, Register, EngineStarts, BodyEnds, Persist,
       SaveSession, Return, Deadline, Evict, EngineSends, drainVars
  <2>2. ~(phase[t] = "streaming" /\ phase'[t] = "persist")
    BY <1>0, <1>6 DEF Begin, Commit, Abort, Register, EngineStarts, BodyEnds, Persist,
       SaveSession, Return, Deadline, Evict, EngineSends
  <2> QED
    BY <2>1, <2>2
<1>7. CASE Crash \/ Restart \/ UNCHANGED vars \/ \E c \in Convs : Stop(c)
  <2>1. UNCHANGED <<emitted, text, verdict, sawResult>>
    BY <1>7 DEF Crash, Restart, vars, Stop, drainVars
  <2>2. ~(phase[t] = "streaming" /\ phase'[t] = "persist")
    BY <1>0, <1>7 DEF Crash, Restart, vars, Stop
  <2> QED
    BY <2>1, <2>2, DrainedStays
<1> HIDE DEF Goto, Emit, Conclude
<1>8. CASE UNCHANGED <<emitted, text, verdict, sawResult>>
           /\ ~(phase[t] = "streaming" /\ phase'[t] = "persist")
  BY <1>8, DrainedStays
<1> QED
  BY <1>1, <1>2, <1>3, <1>4, <1>5, <1>6, <1>7, <1>8
     DEF Next, HandlerStep, Select, Finish, Environment

(* Drain's verdict and text sum up what was emitted, in every state.       *)
THEOREM DrainInvariance == Spec => [](CoreInv /\ Drained)
<1>1. Init => Drained
  <2> SUFFICES ASSUME Init, NEW t \in Turns PROVE TurnDrained(t)
    BY DEF Drained
  <2>1. Deltas(<< >>) = 0
    <3>1. {i \in DOMAIN << >> : << >>[i] = "delta"} = {}
      OBVIOUS
    <3> QED
      BY <3>1, FS_EmptySet DEF Deltas
  <2> QED
    BY <2>1 DEF Init, TurnDrained, NoRow
<1>2. CoreInv /\ Drained /\ [Next]_vars => Drained'
  BY DrainStep
<1> QED
  BY <1>1, <1>2, CoreInvariance, PTL DEF Spec

(* A persisted message says what its stream said: complete where the       *)
(* stream ended in a successful result, an error where it ended in a       *)
(* failure, with all of the text, partial only where nothing was streamed  *)
(* or the process died.                                                    *)
THEOREM HistoryIsFaithful == Spec => []HistoryMatchesStream
<1>1. CoreInv /\ Drained => HistoryMatchesStream
  BY DEF Drained, TurnDrained, HistoryMatchesStream
<1> QED
  BY <1>1, DrainInvariance, PTL
=============================================================================
