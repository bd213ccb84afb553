-------------------------- MODULE RunBufferProofs --------------------------
(***************************************************************************)
(* What RunBuffer's runs check on a small instance, proved for every set   *)
(* of events and viewers, every channel capacity and all bounds.           *)
(***************************************************************************)
EXTENDS RunBuffer, TLAPS

(* The inductive invariant: the types, and where each event of the run is  *)
(* on its way to each viewer.                                              *)
IInv == TypeOK /\ SnapshotIsPrefix /\ OutHoldsNext /\ ResumePoint

LEMMA InitEstablishes == Init => IInv
<1> SUFFICES ASSUME Init PROVE IInv
  OBVIOUS
<1> USE BufferAssumption
<1>1. PICK poster \in Poster : pc = [v \in Viewers |-> IF v \in poster THEN "hello" ELSE "off"]
  BY DEF Init
<1>2. TypeOK
  <2>1. pc \in [Viewers -> PC]
    BY <1>1 DEF PC, Connected
  <2>2. snap \in [Viewers -> Snapshot]
    BY DEF Init, Snapshot
  <2>3. lastId \in [Viewers -> Nat \cup {NoId}]
    BY DEF Init
  <2>4. \A v \in Viewers : Len(out[v]) <= OutCap
    BY DEF Init
  <2>5. /\ events \in Seq(Event) /\ gen \in Nat /\ woken \in Nat
    BY DEF Init
  <2>8. done \in BOOLEAN
    BY Zenon DEF Init
  <2>6. /\ cursor \in [Viewers -> Nat]
        /\ hung \in [Viewers -> BOOLEAN]
        /\ start \in [Viewers -> 0..1]
        /\ drops \in Nat
    BY DEF Init
  <2>7. /\ out \in [Viewers -> Seq(Event)]
        /\ seen \in [Viewers -> Seq(Event)]
    BY DEF Init
  <2> QED
    BY <2>1, <2>2, <2>3, <2>4, <2>5, <2>6, <2>7, <2>8 DEF TypeOK
<1>3. SnapshotIsPrefix
  <2>1. ASSUME NEW v \in Viewers
        PROVE  snap[v].len = 0 /\ snap[v].ready = 0
    BY DEF Init
  <2>2. ASSUME NEW v \in Viewers
        PROVE  snap[v].done = FALSE
    BY Zenon DEF Init
  <2>3. Len(events) = 0 /\ gen = 0
    BY DEF Init
  <2>4. done = FALSE
    BY Zenon DEF Init
  <2>5. ASSUME NEW v \in Viewers
        PROVE  (snap[v].done => done) /\ (snap[v].done = done)
    BY Zenon, <2>2, <2>4
  <2> QED
    BY <2>1, <2>3, <2>5 DEF SnapshotIsPrefix
<1>4. OutHoldsNext
  BY <1>1 DEF Init, OutHoldsNext, Streaming, Subscribed
<1>5. ResumePoint
  BY <1>1 DEF Init, ResumePoint, Connected, Subscribed, NoId
<1> QED
  BY <1>2, <1>3, <1>4, <1>5 DEF IInv

(* The run's goroutine: the buffer only grows, and the channel that wakes  *)
(* the viewers is new.                                                     *)
LEMMA RunPreserves == IInv /\ RunStep => IInv'
<1> SUFFICES ASSUME IInv, RunStep PROVE IInv'
  OBVIOUS
<1> USE BufferAssumption
<1>1. CASE AppendAndBroadcast
  <2> USE <1>1 DEF AppendAndBroadcast, subVars, userVars
  <2>1. PICK e \in Event : events' = Append(events, e)
    OBVIOUS
  <2>2. /\ Len(events') = Len(events) + 1
        /\ \A i \in 1..Len(events) : events'[i] = events[i]
    BY <2>1 DEF IInv, TypeOK
  <2>3. TypeOK'
    BY <2>1 DEF IInv, TypeOK
  <2>4. SnapshotIsPrefix'
    BY <2>2 DEF IInv, TypeOK, SnapshotIsPrefix, Snapshot
  <2>5. OutHoldsNext'
    BY <2>2 DEF IInv, TypeOK, OutHoldsNext, Streaming, Subscribed
  <2>6. ResumePoint'
    BY DEF IInv, ResumePoint
  <2> QED
    BY <2>3, <2>4, <2>5, <2>6 DEF IInv
<1>2. CASE MarkDoneAndBroadcast
  <2> USE <1>2 DEF MarkDoneAndBroadcast, subVars, userVars
  <2>1. TypeOK'
    BY DEF IInv, TypeOK
  <2>2. SnapshotIsPrefix'
    <3>1. ASSUME NEW v \in Viewers
          PROVE  snap[v].ready \in Nat /\ snap[v].ready # gen'
      BY DEF IInv, TypeOK, SnapshotIsPrefix, Snapshot
    <3>2. done' = TRUE /\ events' = events /\ snap' = snap /\ gen' = gen + 1
      OBVIOUS
    <3>3. ASSUME NEW v \in Viewers
          PROVE  snap[v].len <= Len(events) /\ snap[v].ready <= gen + 1
      BY <3>1 DEF IInv, TypeOK, SnapshotIsPrefix
    <3> QED
      BY <3>1, <3>2, <3>3 DEF SnapshotIsPrefix
  <2>3. OutHoldsNext'
    BY DEF IInv, OutHoldsNext
  <2>4. ResumePoint'
    BY DEF IInv, ResumePoint
  <2> QED
    BY <2>1, <2>2, <2>3, <2>4 DEF IInv
<1>3. CASE CloseReady
  BY <1>3 DEF CloseReady, subVars, userVars, IInv, TypeOK, SnapshotIsPrefix,
     OutHoldsNext, ResumePoint
<1> QED
  BY <1>1, <1>2, <1>3 DEF RunStep

(* Subscribe's goroutine: what it takes from the buffer is what comes next *)
(* after what is in `out`.                                                 *)
LEMMA SubscribePreserves ==
  ASSUME NEW w \in Viewers, IInv, SubscribeStep(w)
  PROVE  IInv'
<1> USE BufferAssumption DEF Goto, runVars, userVars
<1>0. /\ events \in Seq(Event) /\ gen \in Nat
      /\ \A v \in Viewers : /\ cursor[v] \in Nat /\ out[v] \in Seq(Event)
                            /\ seen[v] \in Seq(Event) /\ start[v] \in 0..1
                            /\ snap[v].len \in Nat /\ snap[v].ready \in Nat
                            /\ pc[v] \in PC
  BY DEF IInv, TypeOK, Snapshot
<1>n. /\ Len(events) \in Nat /\ Len(out[w]) \in Nat /\ Len(seen[w]) \in Nat
      /\ cursor[w] \in Nat /\ start[w] \in Nat /\ OutCap \in Nat
  BY <1>0
<1>1. CASE TakeSnapshot(w)
  <2> USE <1>1 DEF TakeSnapshot
  <2>1. TypeOK'
    <3>1. [len |-> Len(events), done |-> done, ready |-> gen] \in Snapshot
      BY <1>0 DEF IInv, TypeOK, Snapshot
    <3>2. pc' \in [Viewers -> PC]
      BY DEF IInv, TypeOK, PC, Connected, Subscribed
    <3> QED
      BY <3>1, <3>2 DEF IInv, TypeOK
  <2>2. SnapshotIsPrefix'
    <3>1. ASSUME NEW v \in Viewers
          PROVE  snap'[v] = IF v = w THEN [len |-> Len(events), done |-> done, ready |-> gen]
                                     ELSE snap[v]
      BY DEF IInv, TypeOK
    <3> QED
      BY <1>0, <3>1 DEF IInv, SnapshotIsPrefix
  <2>3. OutHoldsNext'
    BY <1>0 DEF IInv, TypeOK, OutHoldsNext, Streaming, Subscribed
  <2>4. ResumePoint'
    BY <1>0 DEF IInv, TypeOK, ResumePoint, Connected, Subscribed
  <2> QED
    BY <2>1, <2>2, <2>3, <2>4 DEF IInv
<1>2. CASE Send(w)
  <2> DEFINE e == events[cursor[w] + 1]
  <2>1. /\ pc[w] = "send" /\ cursor[w] + 1 <= Len(events) /\ Len(out[w]) < OutCap
        /\ e \in Event
    BY <1>0, <1>2 DEF Send, IInv, SnapshotIsPrefix
  <2>2. /\ out' = [out EXCEPT ![w] = Append(out[w], e)]
        /\ cursor' = [cursor EXCEPT ![w] = cursor[w] + 1]
        /\ UNCHANGED <<events, done, gen, woken, pc, snap, hung, lastId, seen, start, drops>>
    BY <1>2 DEF Send
  <2>3. /\ out'[w] = Append(out[w], e)
        /\ cursor'[w] = cursor[w] + 1
        /\ \A v \in Viewers \ {w} : out'[v] = out[v] /\ cursor'[v] = cursor[v]
    BY <2>2 DEF IInv, TypeOK
  <2>4. /\ out'[w] \in Seq(Event)
        /\ Len(out'[w]) = Len(out[w]) + 1
        /\ \A i \in 1..Len(out[w]) : out'[w][i] = out[w][i]
        /\ out'[w][Len(out[w]) + 1] = e
    BY <1>0, <2>1, <2>3
  <2>5. TypeOK'
    <3>1. out' \in [Viewers -> Seq(Event)] /\ cursor' \in [Viewers -> Nat]
      BY <1>0, <2>2, <2>3, <2>4 DEF IInv, TypeOK
    <3>2. ASSUME NEW v \in Viewers PROVE Len(out'[v]) <= OutCap
      <4>1. CASE v = w
        BY <1>n, <2>1, <2>4, <4>1
      <4>2. CASE v # w
        BY <2>3, <4>2 DEF IInv, TypeOK
      <4> QED
        BY <4>1, <4>2
    <3> QED
      BY <2>2, <3>1, <3>2 DEF IInv, TypeOK
  <2>6. SnapshotIsPrefix'
    BY <2>2 DEF IInv, SnapshotIsPrefix
  <2>7. OutHoldsNext'
    <3>1. \A i \in 1..Len(out'[w]) : out'[w][i] = events[cursor'[w] - Len(out'[w]) + i]
      <4>1. cursor'[w] - Len(out'[w]) = cursor[w] - Len(out[w])
        BY <1>n, <2>3, <2>4
      <4>2. \A i \in 1..Len(out[w]) : out[w][i] = events[cursor[w] - Len(out[w]) + i]
        BY DEF IInv, OutHoldsNext
      <4>3. cursor[w] - Len(out[w]) + (Len(out[w]) + 1) = cursor[w] + 1
        BY <1>n
      <4>4. ASSUME NEW i \in 1..Len(out'[w])
            PROVE  i \in 1..Len(out[w]) \/ i = Len(out[w]) + 1
        BY <1>n, <2>4
      <4> QED
        BY <2>4, <4>1, <4>2, <4>3, <4>4
    <3>2. cursor'[w] <= Len(events) /\ Len(out'[w]) <= cursor'[w] /\ pc[w] \in Streaming
      BY <1>0, <2>1, <2>3, <2>4 DEF IInv, OutHoldsNext, Streaming, Subscribed
    <3>3. ~hung[w] => cursor'[w] = start[w] + Len(seen[w]) + Len(out'[w])
      <4> SUFFICES ASSUME ~hung[w]
                   PROVE  cursor'[w] = start[w] + Len(seen[w]) + Len(out'[w])
        OBVIOUS
      <4>1. cursor[w] = start[w] + Len(seen[w]) + Len(out[w])
        BY <3>2 DEF IInv, OutHoldsNext
      <4>2. cursor'[w] = cursor[w] + 1 /\ Len(out'[w]) = Len(out[w]) + 1
        BY <2>3, <2>4
      <4> QED
        BY <1>n, <4>1, <4>2
    <3> QED
      BY <2>1, <2>2, <2>3, <3>1, <3>2, <3>3 DEF IInv, OutHoldsNext
  <2>8. ResumePoint'
    BY <2>1, <2>2, <2>3 DEF IInv, ResumePoint
  <2> QED
    BY <2>5, <2>6, <2>7, <2>8 DEF IInv
<1>3. ASSUME SentAll(w) \/ Recheck(w) \/ WakeUp(w) \/ Unsubscribe(w)
      PROVE  IInv'
  <2>1. /\ pc[w] \in Subscribed
        /\ pc' = [pc EXCEPT ![w] = pc'[w]]
        /\ pc'[w] \in {"recheck", "wait", "snap", "closed"}
        /\ UNCHANGED <<runVars, cursor, snap, out, hung, userVars, drops>>
    BY <1>3 DEF SentAll, Recheck, WakeUp, Unsubscribe, Subscribed, IInv, TypeOK
  <2>2. TypeOK'
    BY <2>1 DEF IInv, TypeOK, PC, Connected, Subscribed
  <2>3. SnapshotIsPrefix'
    BY <2>1 DEF IInv, SnapshotIsPrefix
  <2>4. OutHoldsNext'
    <3>0. w \in DOMAIN pc
      BY DEF IInv, TypeOK
    <3>1. pc'[w] = "recheck" => snap[w].done
      BY <1>3, <3>0, Zenon DEF SentAll, Recheck, WakeUp, Unsubscribe
    <3>2. pc'[w] = "closed" /\ ~hung[w] => done /\ cursor[w] >= Len(events)
      <4>1. CASE Recheck(w)
        BY <4>1 DEF Recheck, IInv, OutHoldsNext, SnapshotIsPrefix
      <4>2. CASE ~Recheck(w)
        BY <1>3, <3>0, <4>2, Zenon DEF SentAll, WakeUp, Unsubscribe
      <4> QED
        BY <4>1, <4>2
    <3>3. pc[w] \in Streaming /\ pc'[w] \in Streaming
      BY <2>1 DEF Streaming, Subscribed
    <3>4. \A v \in Viewers \ {w} : pc'[v] = pc[v]
      BY <2>1 DEF IInv, TypeOK
    <3> QED
      BY <2>1, <3>1, <3>2, <3>3, <3>4 DEF IInv, OutHoldsNext
  <2>5. ResumePoint'
    BY <2>1 DEF IInv, TypeOK, ResumePoint, Connected, Subscribed
  <2> QED
    BY <2>2, <2>3, <2>4, <2>5 DEF IInv
<1> QED
  BY <1>1, <1>2, <1>3 DEF SubscribeStep

(* The handler and the client: what is taken out of `out` is seen next,    *)
(* and a connection that ends leaves the client where it can resume.       *)
LEMMA HandlerPreserves ==
  ASSUME NEW w \in Viewers, IInv, HandlerStep(w)
  PROVE  IInv'
<1> USE BufferAssumption DEF Goto, runVars
<1>0. /\ events \in Seq(Event)
      /\ \A v \in Viewers : /\ cursor[v] \in Nat /\ out[v] \in Seq(Event)
                            /\ seen[v] \in Seq(Event) /\ start[v] \in 0..1
                            /\ pc[v] \in PC
  BY DEF IInv, TypeOK
<1>n. /\ Len(events) \in Nat /\ Len(out[w]) \in Nat /\ Len(seen[w]) \in Nat
      /\ cursor[w] \in Nat /\ start[w] \in Nat /\ OutCap \in Nat
  BY <1>0
<1>1. CASE ConversationFrame(w)
  <2> USE <1>1 DEF ConversationFrame
  <2>1. /\ pc'[w] = "snap"
        /\ \A v \in Viewers \ {w} : pc'[v] = pc[v] /\ lastId'[v] = lastId[v]
        /\ lastId'[w] \in {lastId[w], 0}
    BY DEF IInv, TypeOK
  <2>2. TypeOK'
    <3>1. pc' \in [Viewers -> PC] /\ lastId' \in [Viewers -> Nat \cup {NoId}]
      BY DEF IInv, TypeOK, PC, Connected, Subscribed
    <3> QED
      BY <3>1 DEF IInv, TypeOK
  <2>3. SnapshotIsPrefix'
    BY DEF IInv, SnapshotIsPrefix
  <2>4. seen[w] = << >> /\ cursor[w] = 0 /\ start[w] = 0 /\ out[w] = << >>
    BY DEF IInv, ResumePoint, OutHoldsNext, Streaming, Subscribed
  <2>5. OutHoldsNext'
    BY <2>1, <2>4 DEF IInv, OutHoldsNext
  <2>6. ResumePoint'
    BY <2>1, <2>4 DEF IInv, ResumePoint, Connected, Subscribed
  <2> QED
    BY <2>2, <2>3, <2>5, <2>6 DEF IInv
<1>2. CASE WriteFrame(w)
  <2>1. /\ out[w] # << >> /\ pc[w] \in Streaming
        /\ cursor[w] <= Len(events) /\ Len(out[w]) <= cursor[w]
        /\ Len(out[w]) > 0 /\ Head(out[w]) = out[w][1] /\ Head(out[w]) \in Event
    BY <1>0, <1>2 DEF WriteFrame, IInv, OutHoldsNext
  <2>2. /\ out' = [out EXCEPT ![w] = Tail(out[w])]
        /\ UNCHANGED <<events, done, gen, woken, pc, cursor, snap, hung, start, drops>>
    BY <1>2 DEF WriteFrame
  <2>3. /\ out'[w] = Tail(out[w])
        /\ \A v \in Viewers \ {w} : out'[v] = out[v]
    BY <2>2 DEF IInv, TypeOK
  <2>4. /\ out'[w] \in Seq(Event)
        /\ Len(out'[w]) = Len(out[w]) - 1
        /\ \A i \in 1..Len(out'[w]) : out'[w][i] = out[w][i + 1]
    BY <1>0, <2>1, <2>3
  <2>5. out' \in [Viewers -> Seq(Event)] /\ \A v \in Viewers : Len(out'[v]) <= OutCap
    <3>1. ASSUME NEW v \in Viewers
          PROVE  out'[v] \in Seq(Event) /\ Len(out'[v]) <= OutCap
      <4>1. Len(out[v]) <= OutCap
        BY DEF IInv, TypeOK
      <4>2. CASE v = w
        BY <1>n, <2>4, <4>1, <4>2
      <4>3. CASE v # w
        BY <1>0, <2>3, <4>1, <4>3
      <4> QED
        BY <4>2, <4>3
    <3> QED
      BY <2>2, <3>1 DEF IInv, TypeOK
  <2>6. \A i \in 1..Len(out'[w]) : out'[w][i] = events[cursor[w] - Len(out'[w]) + i]
    <3> DEFINE n == Len(out[w])
               c == cursor[w]
    <3>1. n \in Nat /\ c \in Nat
      BY <1>n
    <3>2. Len(out'[w]) = n - 1 /\ \A i \in 1..(n - 1) : out'[w][i] = out[w][i + 1]
      BY <2>4
    <3>3. \A i \in 1..n : out[w][i] = events[c - n + i]
      BY DEF IInv, OutHoldsNext
    <3> HIDE DEF n
    <3>4. \A i \in 1..(n - 1) : i + 1 \in 1..n /\ c - n + (i + 1) = c - (n - 1) + i
      BY <3>1
    <3> QED
      BY <3>2, <3>3, <3>4
  <2>7. SnapshotIsPrefix'
    BY <2>2 DEF IInv, SnapshotIsPrefix
  <2>8. CASE hung[w]
    <3>0. UNCHANGED <<seen, lastId>>
      BY <1>2, <2>8 DEF WriteFrame
    <3>1. TypeOK'
      BY <2>2, <2>5, <3>0 DEF IInv, TypeOK
    <3>2. OutHoldsNext'
      BY <1>0, <2>1, <2>2, <2>3, <2>4, <2>6, <2>8, <3>0 DEF IInv, OutHoldsNext
    <3>3. ResumePoint'
      BY <2>2, <3>0 DEF IInv, ResumePoint
    <3> QED
      BY <2>7, <3>1, <3>2, <3>3 DEF IInv
  <2>9. CASE ~hung[w]
    <3>0. /\ seen' = [seen EXCEPT ![w] = Append(seen[w], Head(out[w]))]
          /\ lastId' = [lastId EXCEPT ![w] = cursor[w] - Len(out[w])]
      BY <1>2, <2>9 DEF WriteFrame
    <3>1. /\ seen'[w] = Append(seen[w], Head(out[w]))
          /\ lastId'[w] = cursor[w] - Len(out[w])
          /\ \A v \in Viewers \ {w} : seen'[v] = seen[v] /\ lastId'[v] = lastId[v]
      BY <3>0 DEF IInv, TypeOK
    <3>2. /\ seen'[w] \in Seq(Event) /\ seen'[w] # << >>
          /\ Len(seen'[w]) = Len(seen[w]) + 1
          /\ lastId'[w] \in Nat
      <4>1. lastId'[w] \in Nat
        BY <1>n, <2>1, <3>1
      <4>2. seen[w] \in Seq(Event) /\ Head(out[w]) \in Event
        BY <1>0, <2>1
      <4> QED
        BY <3>1, <4>1, <4>2
    <3>3. cursor[w] = start[w] + Len(seen[w]) + Len(out[w])
      BY <2>1, <2>9 DEF IInv, OutHoldsNext
    <3>4. TypeOK'
      <4>1. seen' \in [Viewers -> Seq(Event)] /\ lastId' \in [Viewers -> Nat \cup {NoId}]
        BY <3>0, <3>1, <3>2 DEF IInv, TypeOK
      <4> QED
        BY <2>2, <2>5, <4>1 DEF IInv, TypeOK
    <3>5. OutHoldsNext'
      <4>1. cursor[w] = start[w] + Len(seen'[w]) + Len(out'[w])
        <5> DEFINE m == Len(out[w])
                   n == Len(seen[w])
        <5>1. Len(out'[w]) = m - 1 /\ Len(seen'[w]) = n + 1
          BY <2>4, <3>2
        <5>2. /\ m \in Nat /\ n \in Nat /\ start[w] \in Nat
              /\ cursor[w] = start[w] + n + m
          BY <1>n, <3>3
        <5> HIDE DEF m, n
        <5>3. start[w] + n + m = start[w] + (n + 1) + (m - 1)
          BY <5>2
        <5> QED
          BY <5>1, <5>2, <5>3
      <4>2. Len(out'[w]) <= cursor[w]
        BY <1>n, <2>1, <2>4
      <4>3. out'[w] # << >> => pc[w] \in Streaming /\ cursor[w] <= Len(events)
        BY <2>1
      <4>4. ASSUME NEW v \in Viewers \ {w}
            PROVE  out'[v] = out[v] /\ seen'[v] = seen[v]
        BY <2>3, <3>1
      <4>5. pc[w] = "closed" /\ ~hung[w] => done /\ cursor[w] >= Len(events)
        BY DEF IInv, OutHoldsNext
      <4>6. pc[w] = "recheck" => snap[w].done
        BY DEF IInv, OutHoldsNext
      <4> HIDE <1>2
      <4> QED
        BY <2>2, <2>6, <4>1, <4>2, <4>3, <4>4, <4>5, <4>6 DEF IInv, OutHoldsNext
    <3>6. ResumePoint'
      <4>1. lastId'[w] = start[w] + Len(seen'[w]) - 1
        BY <1>n, <3>1, <3>2, <3>3
      <4>2. pc[w] # "hello" /\ pc[w] \in Connected
        BY <2>1 DEF Streaming, Connected, Subscribed
      <4> QED
        BY <2>2, <3>1, <3>2, <4>1, <4>2 DEF IInv, ResumePoint
    <3> QED
      BY <2>7, <3>4, <3>5, <3>6 DEF IInv
  <2> QED
    BY <2>8, <2>9
<1>3. CASE EndStream(w)
  <2> USE <1>3 DEF EndStream, userVars
  <2>1. /\ pc'[w] \in {"off", "ended"} /\ hung'[w] = FALSE
        /\ \A v \in Viewers \ {w} : pc'[v] = pc[v] /\ hung'[v] = hung[v]
    BY DEF IInv, TypeOK
  <2>2. TypeOK'
    BY DEF IInv, TypeOK, PC
  <2>3. SnapshotIsPrefix'
    BY DEF IInv, SnapshotIsPrefix
  <2>4. OutHoldsNext'
    BY <2>1 DEF IInv, OutHoldsNext, Streaming, Subscribed
  <2>5. ResumePoint'
    BY <2>1 DEF IInv, ResumePoint
  <2> QED
    BY <2>2, <2>3, <2>4, <2>5 DEF IInv
<1> QED
  BY <1>1, <1>2, <1>3 DEF HandlerStep

(* A lost connection changes nothing but what the client still receives;   *)
(* a new one starts right after what the client has seen.                  *)
LEMMA ClientPreserves ==
  ASSUME NEW w \in Viewers, IInv, LoseConnection(w) \/ Connect(w)
  PROVE  IInv'
<1> USE BufferAssumption DEF Goto, runVars
<1>0. /\ events \in Seq(Event)
      /\ \A v \in Viewers : /\ cursor[v] \in Nat /\ out[v] \in Seq(Event)
                            /\ seen[v] \in Seq(Event) /\ start[v] \in 0..1
                            /\ lastId[v] \in Nat \cup {NoId} /\ pc[v] \in PC
  BY DEF IInv, TypeOK
<1>1. CASE LoseConnection(w)
  <2> USE <1>1 DEF LoseConnection, userVars
  <2>1. hung'[w] = TRUE /\ \A v \in Viewers \ {w} : hung'[v] = hung[v]
    BY DEF IInv, TypeOK
  <2>2. TypeOK'
    BY DEF IInv, TypeOK
  <2>3. SnapshotIsPrefix'
    BY DEF IInv, SnapshotIsPrefix
  <2>4. OutHoldsNext'
    BY <2>1 DEF IInv, OutHoldsNext
  <2>5. ResumePoint'
    BY <2>1 DEF IInv, ResumePoint
  <2> QED
    BY <2>2, <2>3, <2>4, <2>5 DEF IInv
<1>2. CASE Connect(w)
  <2> USE <1>2 DEF Connect
  <2>1. SnapshotIsPrefix'
    BY DEF IInv, SnapshotIsPrefix
  <2>2. out[w] = << >> /\ ~hung[w]
    BY DEF IInv, OutHoldsNext, ResumePoint, Streaming, Connected, Subscribed
  <2>3. CASE done
    <3>1. pc'[w] = "history" /\ \A v \in Viewers \ {w} : pc'[v] = pc[v]
      BY <2>3 DEF IInv, TypeOK
    <3>2. TypeOK'
      BY <2>3 DEF IInv, TypeOK, PC
    <3>3. OutHoldsNext'
      BY <2>2, <2>3, <3>1 DEF IInv, OutHoldsNext, Streaming, Subscribed
    <3>4. ResumePoint'
      BY <2>2, <2>3, <3>1 DEF IInv, ResumePoint
    <3> QED
      BY <2>1, <3>2, <3>3, <3>4 DEF IInv
  <2>4. CASE ~done
    <3>1. /\ pc'[w] = "snap" /\ \A v \in Viewers \ {w} : pc'[v] = pc[v]
          /\ cursor'[w] = lastId[w] + 1
          /\ \A v \in Viewers \ {w} : cursor'[v] = cursor[v] /\ start'[v] = start[v]
          /\ start'[w] = IF seen[w] = << >> THEN lastId[w] + 1 ELSE start[w]
      BY <2>4 DEF IInv, TypeOK
    <3>2. /\ lastId[w] + 1 \in Nat
          /\ seen[w] = << >> => lastId[w] + 1 \in 0..1
          /\ seen[w] # << >> => lastId[w] + 1 = start[w] + Len(seen[w])
      BY <1>0 DEF IInv, ResumePoint, NoId
    <3>3. TypeOK'
      <4>1. pc' \in [Viewers -> PC]
        BY <2>4 DEF IInv, TypeOK, PC, Connected, Subscribed
      <4>2. cursor' \in [Viewers -> Nat] /\ start' \in [Viewers -> 0..1]
        BY <2>4, <3>2 DEF IInv, TypeOK
      <4> QED
        BY <4>1, <4>2 DEF IInv, TypeOK
    <3>4. OutHoldsNext'
      <4>1. UNCHANGED <<events, done, snap, out, hung, seen>>
        OBVIOUS
      <4>2. Len(out[w]) = 0 /\ cursor'[w] = start'[w] + Len(seen[w]) + Len(out[w])
        BY <1>0, <2>2, <3>1, <3>2
      <4>3. pc'[w] \notin {"recheck", "closed"} /\ cursor'[w] \in Nat
        BY <3>1, <3>2
      <4> HIDE <1>2
      <4>4. ASSUME NEW v \in Viewers \ {w}
            PROVE  UNCHANGED <<pc[v], cursor[v], start[v], out[v], hung[v], seen[v]>>
        BY <3>1, <4>1, <2>4
      <4> QED
        BY <2>2, <3>1, <4>1, <4>2, <4>3, <4>4 DEF IInv, OutHoldsNext
    <3>5. ResumePoint'
      BY <1>0, <2>2, <3>1, <3>2 DEF IInv, ResumePoint, Connected, Subscribed
    <3> QED
      BY <2>1, <3>3, <3>4, <3>5 DEF IInv
  <2> QED
    BY <2>3, <2>4
<1> QED
  BY <1>1, <1>2

LEMMA Preserved == IInv /\ [Next]_vars => IInv'
<1> SUFFICES ASSUME IInv, [Next]_vars PROVE IInv'
  OBVIOUS
<1>1. CASE RunStep
  BY <1>1, RunPreserves
<1>2. CASE \E v \in Viewers : SubscribeStep(v) \/ HandlerStep(v)
                             \/ LoseConnection(v) \/ Connect(v)
  BY <1>2, SubscribePreserves, HandlerPreserves, ClientPreserves
<1>3. CASE Settled \/ UNCHANGED vars
  BY <1>3 DEF Settled, vars, runVars, subVars, userVars, IInv, TypeOK,
     SnapshotIsPrefix, OutHoldsNext, ResumePoint
<1> QED
  BY <1>1, <1>2, <1>3 DEF Next

(* Every state of every run keeps the inductive invariant: types, prefix,  *)
(* what is in `out`, and the point a client resumes at.                    *)
THEOREM Invariance == Spec => []IInv
<1> QED
  BY InitEstablishes, Preserved, PTL DEF Spec

-----------------------------------------------------------------------------
(* Theorems. *)

(* The variables of the run, its subscriptions and its clients keep their  *)
(* types, and no `out` channel exceeds its capacity.                       *)
THEOREM TypeCorrect == Spec => []TypeOK
<1>1. IInv => TypeOK
  BY DEF IInv
<1> QED
  BY <1>1, Invariance, PTL

(* However appendAndBroadcast and Subscribe interleave, a subscriber never *)
(* waits for news that were already announced: the snapshot it took is     *)
(* older than the ready channel that the news installed.                   *)
THEOREM WakeupsArrive == Spec => []NoLostWakeup
<1>1. IInv => NoLostWakeup
  <2> SUFFICES ASSUME IInv, NEW v \in Viewers,
                      snap[v].len < Len(events) \/ snap[v].done # done
               PROVE  snap[v].ready < gen
    BY DEF NoLostWakeup
  <2>1. /\ snap[v].ready <= gen
        /\ snap[v].ready = gen => snap[v].len = Len(events) /\ snap[v].done = done
    BY DEF IInv, SnapshotIsPrefix
  <2>2. /\ snap[v].ready \in Nat /\ snap[v].len \in Nat
        /\ gen \in Nat /\ Len(events) \in Nat
    BY DEF IInv, TypeOK, Snapshot
  <2>3. snap[v].ready # gen
    BY <2>1, <2>2
  <2> QED
    BY <2>1, <2>2, <2>3
<1> QED
  BY <1>1, Invariance, PTL

(* What is on its way to a client is the stretch of the run's buffer that  *)
(* follows what the client has seen.                                       *)
THEOREM NextIsOnItsWay == Spec => []Pipeline
<1>1. IInv => Pipeline
  BY DEF IInv, Pipeline
<1> QED
  BY <1>1, Invariance, PTL

-----------------------------------------------------------------------------
(* The refinement of RunFeed. *)

LEMMA InitRefines == Init => Feed!Init
<1> SUFFICES ASSUME Init PROVE Feed!Init
  OBVIOUS
<1>1. PICK poster \in Poster : pc = [v \in Viewers |-> IF v \in poster THEN "hello" ELSE "off"]
  BY DEF Init
<1>2. [v \in Viewers |-> pc[v] = "ended"] = [v \in Viewers |-> FALSE]
  <2>1. ASSUME NEW v \in Viewers PROVE (pc[v] = "ended") = FALSE
    BY <1>1
  <2> QED
    BY <2>1, Zenon
<1>3. events = << >> /\ done = FALSE
  BY Zenon DEF Init
<1>4. start = [v \in Viewers |-> 0] /\ seen = [v \in Viewers |-> << >>]
  BY DEF Init
<1> QED
  BY <1>2, <1>3, <1>4, Zenon DEF Feed!Init

(* Steps that neither tell a viewer the end nor change what it has seen    *)
(* are invisible to the feed.                                              *)
LEMMA Hidden ==
  ASSUME UNCHANGED <<events, done, start, seen>>,
         \A v \in Viewers : (pc'[v] = "ended") = (pc[v] = "ended")
  PROVE  UNCHANGED Feed!feedVars
<1>1. [v \in Viewers |-> pc'[v] = "ended"] = [v \in Viewers |-> pc[v] = "ended"]
  BY Zenon
<1> QED
  BY <1>1, Zenon DEF Feed!feedVars

LEMMA StepRefines ==
  ASSUME IInv, [Next]_vars
  PROVE  [Feed!Next]_Feed!feedVars
<1> USE DEF Goto, runVars
<1>0. ASSUME NEW v \in Viewers
      PROVE  /\ v \in DOMAIN pc
             /\ seen[v] \in Seq(Event) /\ start[v] \in 0..1 /\ out[v] \in Seq(Event)
             /\ cursor[v] \in Nat
  BY DEF IInv, TypeOK
<1>1. CASE AppendAndBroadcast
  <2>1. Feed!Publish
    BY <1>1 DEF AppendAndBroadcast, subVars, userVars, Feed!Publish
  <2> QED
    BY <2>1 DEF Feed!Next
<1>2. CASE MarkDoneAndBroadcast
  <2>1. Feed!Finish
    BY <1>2 DEF MarkDoneAndBroadcast, subVars, userVars, Feed!Finish
  <2> QED
    BY <2>1 DEF Feed!Next
<1>3. CASE CloseReady \/ Settled \/ UNCHANGED vars
  <2>1. UNCHANGED <<events, done, start, seen, pc>>
    BY <1>3 DEF CloseReady, Settled, vars, subVars, userVars
  <2> QED
    BY <2>1, Hidden
<1>4. ASSUME NEW w \in Viewers, SubscribeStep(w) \/ LoseConnection(w) \/ ConversationFrame(w)
      PROVE  UNCHANGED Feed!feedVars
  <2>1. UNCHANGED <<events, done, start, seen>>
    BY <1>4 DEF SubscribeStep, TakeSnapshot, Send, SentAll, Recheck, WakeUp,
       Unsubscribe, LoseConnection, ConversationFrame, userVars
  <2>2. \/ pc' = pc
        \/ pc[w] # "ended" /\ \E there \in PC \ {"ended"} : pc' = [pc EXCEPT ![w] = there]
    BY <1>4 DEF SubscribeStep, TakeSnapshot, Send, SentAll, Recheck, WakeUp,
       Unsubscribe, LoseConnection, ConversationFrame, userVars, PC, Connected, Subscribed
  <2>3. ASSUME NEW v \in Viewers
        PROVE  (pc'[v] = "ended") = (pc[v] = "ended")
    BY <1>0, <2>2
  <2> QED
    BY <2>1, <2>3, Hidden
<1>5. ASSUME NEW w \in Viewers, WriteFrame(w)
      PROVE  [Feed!Next]_Feed!feedVars
  <2>1. UNCHANGED <<events, done, start, pc>>
    BY <1>5 DEF WriteFrame
  <2>2. CASE hung[w]
    <3>1. seen' = seen
      BY <1>5, <2>2 DEF WriteFrame
    <3> QED
      BY <2>1, <3>1, Hidden
  <2>3. CASE ~hung[w]
    <3>1. /\ pc[w] \in Streaming /\ out[w] # << >> /\ cursor[w] <= Len(events)
          /\ cursor[w] = start[w] + Len(seen[w]) + Len(out[w])
      BY <1>5, <2>3 DEF WriteFrame, IInv, OutHoldsNext
    <3>2. /\ Len(out[w]) \in Nat /\ Len(out[w]) > 0 /\ Len(seen[w]) \in Nat
          /\ start[w] \in Nat /\ Len(events) \in Nat /\ Head(out[w]) = out[w][1]
      BY <1>0, <3>1 DEF IInv, TypeOK
    <3>3. /\ cursor[w] - Len(out[w]) = start[w] + Len(seen[w])
          /\ start[w] + Len(seen[w]) < Len(events)
          /\ 1 \in 1..Len(out[w])
      BY <3>1, <3>2
    <3>4. Head(out[w]) = events[start[w] + Len(seen[w]) + 1]
      BY <3>2, <3>3 DEF IInv, OutHoldsNext
    <3>5. seen' = [seen EXCEPT ![w] = Append(seen[w], events[start[w] + Len(seen[w]) + 1])]
      BY <1>5, <2>3, <3>4 DEF WriteFrame
    <3>6. pc[w] # "ended"
      BY <3>1 DEF Streaming, Subscribed
    <3>7. Feed!Deliver(w)
      BY <2>1, <3>3, <3>5, <3>6 DEF Feed!Deliver, Feed!Position
    <3> QED
      BY <3>7 DEF Feed!Next
  <2> QED
    BY <2>2, <2>3
<1>6. ASSUME NEW w \in Viewers, EndStream(w)
      PROVE  [Feed!Next]_Feed!feedVars
  <2>1. UNCHANGED <<events, done, start, seen>> /\ pc[w] = "closed" /\ out[w] = << >>
    BY <1>6 DEF EndStream, userVars
  <2>2. CASE hung[w]
    <3>1. ASSUME NEW v \in Viewers PROVE (pc'[v] = "ended") = (pc[v] = "ended")
      BY <1>0, <1>6, <2>2 DEF EndStream
    <3> QED
      BY <2>1, <3>1, Hidden
  <2>3. CASE ~hung[w]
    <3>1. pc' = [pc EXCEPT ![w] = "ended"]
      BY <1>6, <2>3 DEF EndStream
    <3>2. done /\ cursor[w] >= Len(events) /\ cursor[w] = start[w] + Len(seen[w]) + Len(out[w])
      BY <2>1, <2>3 DEF IInv, OutHoldsNext, Streaming
    <3>3. start[w] + Len(seen[w]) >= Len(events)
      <4>1. Len(out[w]) = 0 /\ start[w] \in Nat /\ Len(seen[w]) \in Nat
        BY <1>0, <2>1
      <4> QED
        BY <3>2, <4>1
    <3>4. [v \in Viewers |-> pc'[v] = "ended"]
            = [[v \in Viewers |-> pc[v] = "ended"] EXCEPT ![w] = TRUE]
      <4>1. ASSUME NEW v \in Viewers
            PROVE  (pc'[v] = "ended") = IF v = w THEN TRUE ELSE pc[v] = "ended"
        BY <1>0, <3>1
      <4> QED
        BY <4>1, Zenon
    <3>5. Feed!Tell(w)
      BY <2>1, <3>2, <3>3, <3>4 DEF Feed!Tell, Feed!Position
    <3> QED
      BY <3>5 DEF Feed!Next
  <2> QED
    BY <2>2, <2>3
<1>7. ASSUME NEW w \in Viewers, Connect(w)
      PROVE  [Feed!Next]_Feed!feedVars
  <2>1. UNCHANGED <<events, done, seen>> /\ pc[w] = "off"
    BY <1>7 DEF Connect
  <2>2. ASSUME NEW v \in Viewers PROVE (pc'[v] = "ended") = (pc[v] = "ended")
    BY <1>0, <1>7 DEF Connect
  <2>3. CASE start' = start
    BY <2>1, <2>2, <2>3, Hidden
  <2>4. CASE start' # start
    <3>1. seen[w] = << >> /\ start' = [start EXCEPT ![w] = lastId[w] + 1]
      BY <1>7, <2>4 DEF Connect
    <3>2. lastId[w] + 1 \in 0..1
      BY <3>1 DEF IInv, ResumePoint, NoId
    <3>3. [v \in Viewers |-> pc'[v] = "ended"] = [v \in Viewers |-> pc[v] = "ended"]
      BY <2>2, Zenon
    <3>4. Feed!Aim(w)
      BY <2>1, <3>1, <3>2, <3>3 DEF Feed!Aim
    <3> QED
      BY <3>4 DEF Feed!Next
  <2> QED
    BY <2>3, <2>4
<1> QED
  BY <1>1, <1>2, <1>3, <1>4, <1>5, <1>6, <1>7 DEF Next, RunStep, HandlerStep

(* Every behaviour of the buffer, its subscribers and the reconnecting     *)
(* clients is a behaviour of the promised feed: each viewer sees the       *)
(* events once, in order and without a gap, whatever connections it loses, *)
(* and hears that the run is over only after the last one.                 *)
THEOREM Refinement == Spec => ImplementsFeed
<1>1. Init => Feed!Init
  BY InitRefines
<1>2. IInv /\ [Next]_vars => [Feed!Next]_Feed!feedVars
  BY StepRefines
<1> QED
  BY <1>1, <1>2, Invariance, PTL DEF Spec, ImplementsFeed, Feed!Spec
=============================================================================
