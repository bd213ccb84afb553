-------------------------- MODULE EngineJobProofs --------------------------
(***************************************************************************)
(* Proofs about EngineJob, for any runs, messages and blocks.  The         *)
(* invariants, each with an induction that may use those above it:         *)
(*   TypeOK, Budget  types, and the room they need: messages yielded and   *)
(*                   messages left are at most MaxMessages;                *)
(*   Attended        who is registered, cancelled and served, and what the *)
(*                   queue of a client that waits holds;                   *)
(*   Followed        that the events told so far, sent or queued, make     *)
(*                   sense, and that the mapping's state is what they say: *)
(*                   Told is about the events, Mapped about the state.     *)
(* What the pump makes of any such events is proved without a step of the  *)
(* system, by least counterexample.                                        *)
(***************************************************************************)
EXTENDS StreamPump, FiniteSetTheorems, SequenceTheorems, WellFoundedInduction, TLAPS

(* What a queue holds.                                                     *)
Items == Events \cup {Sentinel}

(* Tool calls and steps are counted once for a message at most, and a      *)
(* block that is being streamed has an index.                              *)
Room(j) ==
  /\ tools[j] + left[j] <= MaxMessages /\ step[j] + left[j] <= MaxMessages
  /\ block[j] # NoBlock => index[j] < MaxBlocks
  /\ block[j].type = "tool_use" => tools[j] > 0

Budget == \A j \in Runs : Room(j)

(* Until it ends, a task is active and has no sentinel in its queue; then  *)
(* the sentinel is last, until the body closes.  A stream with a verdict   *)
(* has the event that says so in the queue, or the body is closed.         *)
Waits(j) ==
  /\ j \in active <=> task[j] = "running"
  /\ cancelling[j] => task[j] = "running"
  /\ stream[j] # "none" <=> task[j] \in {"running", "ended"}
  /\ task[j] = "none" => queue[j] = <<>> /\ outcome[j] = "none"
  /\ task[j] = "ended" => outcome[j] # "none"
  /\ \A n \in DOMAIN queue[j] :
       queue[j][n] = Sentinel => n = Len(queue[j]) /\ task[j] = "ended"
  /\ task[j] = "ended" /\ stream[j] = "open" => queue[j] # <<>>
  /\ task[j] = "ended" /\ stream[j] = "open" => queue[j][Len(queue[j])] = Sentinel
  /\ outcome[j] \in {"complete", "raised"} /\ stream[j] = "open" =>
       \E n \in DOMAIN queue[j] : IsTerminal(queue[j][n])
  /\ stream[j] = "closed" => Ended(out[j]) \/ outcome[j] \in {"short", "cancelled"}

Attended == \A j \in Runs : Waits(j)

-----------------------------------------------------------------------------
(* Types.                                                                  *)

(* What the mapping emits is an event.                                     *)
LEMMA EventsAreEvents ==
  /\ Error \in Events /\ Result \in Events
  /\ \A type \in BlockEvents, id \in Ids : Event(type, id) \in Events
  /\ \A id \in Ids, raw \in Seq(Ids) : InputDone(id, raw) \in Events
  /\ \A n \in 1..MaxMessages : AgentStep(n) \in Events
BY DEF Events, Event, InputDone, AgentStep

(* Events are no sentinels.                                                *)
LEMMA SentinelIsNoEvent == \A e \in Events : e # Sentinel /\ (IsTerminal(e) <=> e \in {Error, Result})
BY DEF Events, Sentinel, Error, Result, IsTerminal, BlockEvents

(* Sequences of up to two events.                                          *)
LEMMA ShortSequences ==
  /\ <<>> \in Seq(Events) /\ <<Error>> \in Seq(Events) /\ <<Result>> \in Seq(Events)
  /\ \A e \in Events : <<e>> \in Seq(Events)
  /\ \A e, f \in Events : <<e, f>> \in Seq(Events)
BY EventsAreEvents

LEMMA InitTypes == Init => TypeOK /\ Budget
BY EngineJobAssumption DEF Init, TypeOK, Budget, Room, OpenBlock, SdkBlock, NoBlock

(* An id for each call and each index.                                     *)
LEMMA IdsAreIds ==
  /\ \A n \in 1..MaxMessages : ToolId(n) \in Ids
  /\ \A i \in Indexes : BlockId(i) \in Ids
BY DEF Ids

(* A queue that gets events stays a queue.                                 *)
LEMMA EmitTypes ==
  ASSUME TypeOK, NEW j \in Runs, NEW events \in Seq(Events), Emit(j, events)
  PROVE  queue' \in [Runs -> Seq(Items)]
<1>1. queue[j] \in Seq(Items) /\ events \in Seq(Items)
  BY SeqMonotonic DEF TypeOK, Items
<1>2. queue[j] \o events \in Seq(Items)
  BY <1>1
<1> QED
  BY <1>2 DEF TypeOK, Items, Emit

LEMMA FinishTypes ==
  ASSUME TypeOK, NEW j \in Runs, NEW events \in Seq(Events), Finish(j, events)
  PROVE  /\ queue' \in [Runs -> Seq(Items)]
         /\ task' \in [Runs -> {"none", "refused", "running", "ended"}]
         /\ active' \subseteq Runs
<1>1. queue[j] \in Seq(Items) /\ events \in Seq(Items) /\ <<Sentinel>> \in Seq(Items)
  BY SeqMonotonic DEF TypeOK, Items
<1>2. queue[j] \o events \o <<Sentinel>> \in Seq(Items)
  BY <1>1
<1> QED
  BY <1>2 DEF TypeOK, Items, Finish

(* The parameters of a delta or a stop.                                    *)
LEMMA OpenTypes ==
  ASSUME TypeOK, NEW j \in Runs, NEW i \in Indexes
  PROVE  OpenAt(j, i).id \in Ids
BY IdsAreIds DEF TypeOK, OpenAt, OpenBlock

(* What a message of the SDK takes, and what it leaves alone.              *)
LEMMA YieldTypes ==
  ASSUME TypeOK, Budget, NEW j \in Runs, Yields(j)
  PROVE  /\ left[j] \in 1..MaxMessages /\ left' = [left EXCEPT ![j] = @ - 1]
         /\ left' \in [Runs -> 0..MaxMessages]
         /\ tools[j] + 1 \in 1..MaxMessages /\ step[j] + 1 \in 1..MaxMessages
         /\ up' \in BOOLEAN /\ active' \subseteq Runs
         /\ task' \in [Runs -> {"none", "refused", "running", "ended"}]
         /\ cancelling' \in [Runs -> BOOLEAN] /\ out' \in [Runs -> Seq(Events)]
         /\ stream' \in [Runs -> {"none", "open", "closed", "left"}]
<1>1. left[j] \in 0..MaxMessages /\ tools[j] \in 0..MaxMessages /\ step[j] \in 0..MaxMessages
  BY DEF TypeOK
<1>2. left[j] > 0 /\ left' = [left EXCEPT ![j] = @ - 1]
      /\ UNCHANGED <<up, active, task, cancelling, stream, out>>
  BY DEF Yields, server
<1>3. tools[j] + left[j] <= MaxMessages /\ step[j] + left[j] <= MaxMessages
  BY DEF Budget, Room
<1>4. /\ left[j] \in 1..MaxMessages /\ left[j] - 1 \in 0..MaxMessages
      /\ tools[j] + 1 \in 1..MaxMessages /\ step[j] + 1 \in 1..MaxMessages
  BY ONLY <1>1, <1>2, <1>3, EngineJobAssumption
<1>5. left' \in [Runs -> 0..MaxMessages]
  BY <1>2, <1>4 DEF TypeOK
<1>6. /\ up' \in BOOLEAN /\ active' \subseteq Runs
      /\ task' \in [Runs -> {"none", "refused", "running", "ended"}]
      /\ cancelling' \in [Runs -> BOOLEAN] /\ out' \in [Runs -> Seq(Events)]
      /\ stream' \in [Runs -> {"none", "open", "closed", "left"}]
  BY <1>2 DEF TypeOK
<1> QED
  BY ONLY <1>2, <1>4, <1>5, <1>6

(* The block being streamed.                                               *)
LEMMA BlockTypes ==
  ASSUME TypeOK, Budget, NEW j \in Runs
  PROVE  /\ block[j] # NoBlock => index[j] \in Indexes /\ index[j] + 1 \in 0..MaxBlocks
                                 /\ block[j] \in [type : Kinds, fed : BOOLEAN]
         /\ block[j].type = "tool_use" => ToolId(tools[j]) \in Ids
         /\ NoBlock.type # "tool_use"
<1>1. index[j] \in 0..MaxBlocks /\ block[j] \in SdkBlock /\ tools[j] \in 0..MaxMessages
  BY DEF TypeOK
<1>2. block[j] # NoBlock => index[j] < MaxBlocks
  BY DEF Budget, Room
<1>3. block[j].type = "tool_use" => tools[j] \in 1..MaxMessages
  BY <1>1, EngineJobAssumption DEF Budget, Room
<1>4. block[j] # NoBlock => index[j] \in Indexes /\ index[j] + 1 \in 0..MaxBlocks
  BY <1>1, <1>2, EngineJobAssumption DEF Indexes
<1>5. block[j] # NoBlock => block[j] \in [type : Kinds, fed : BOOLEAN]
  BY <1>1 DEF SdkBlock
<1>6. block[j].type = "tool_use" => ToolId(tools[j]) \in Ids
  BY <1>3, IdsAreIds
<1>7. NoBlock.type # "tool_use"
  BY DEF NoBlock
<1> QED
  BY <1>4, <1>5, <1>6, <1>7

(* The room that is left after a message.                                  *)
LEMMA RoomAfter ==
  ASSUME TypeOK, Budget, NEW j \in Runs, Yields(j), TypeOK',
         tools'[j] \in tools[j]..(tools[j] + 1), step'[j] \in step[j]..(step[j] + 1),
         block'[j] # NoBlock => index'[j] < MaxBlocks,
         block'[j].type = "tool_use" => tools'[j] > 0
  PROVE  Room(j)'
<1>1. left[j] \in 1..MaxMessages /\ left'[j] = left[j] - 1
  <2>1. left[j] \in 1..MaxMessages /\ left' = [left EXCEPT ![j] = @ - 1]
    BY YieldTypes
  <2> QED
    BY <2>1 DEF TypeOK
<1>2. MaxMessages \in Nat /\ tools[j] \in Nat /\ step[j] \in Nat /\ tools'[j] \in Nat /\ step'[j] \in Nat
  BY EngineJobAssumption DEF TypeOK
<1>3. tools[j] + left[j] <= MaxMessages /\ step[j] + left[j] <= MaxMessages
  BY DEF Budget, Room
<1>4. tools'[j] + left'[j] <= MaxMessages /\ step'[j] + left'[j] <= MaxMessages
  BY <1>1, <1>2, <1>3
<1> QED
  BY <1>4 DEF Room

(* It is enough to look at the run that moves.                             *)
LEMMA RoomElsewhere ==
  ASSUME Budget, TypeOK, NEW j \in Runs, Room(j)',
         \A k \in Runs \ {j} : /\ tools'[k] = tools[k] /\ left'[k] = left[k]
                               /\ step'[k] = step[k] /\ block'[k] = block[k]
                               /\ index'[k] = index[k]
  PROVE  Budget'
BY DEF Budget, Room

(* The events that a message of the SDK becomes.                           *)
LEMMA MessagesEmit ==
  ASSUME TypeOK, Budget, NEW j \in Runs, Yields(j), Sdk(j)
  PROVE  \E events \in Seq(Events) :
           /\ Emit(j, events)
           /\ \/ outcome' = outcome
              \/ outcome' = [outcome EXCEPT ![j] = "complete"] /\ events = <<Result>>
<1>1. queue' = queue => Emit(j, <<>>)
  BY ConcatEmptySeq DEF Emit, TypeOK
<1>2. step[j] + 1 \in 1..MaxMessages /\ tools[j] + 1 \in 1..MaxMessages
  BY YieldTypes
<1>3. ASSUME NEW kind \in Kinds, BlockStart(j, kind)
      PROVE  \E events \in Seq(Events) : Emit(j, events) /\ outcome' = outcome
  <2> DEFINE id == IF kind = "tool_use" THEN ToolId(tools[j] + 1) ELSE BlockId(index[j])
  <2>1. CASE kind = "other"
    BY <1>1, <1>3, <2>1, ShortSequences DEF BlockStart
  <2>2. CASE kind # "other"
    <3>1. index[j] \in Indexes
      BY <1>3, EngineJobAssumption DEF BlockStart, Indexes, TypeOK
    <3>2. id \in Ids
      BY <1>2, <3>1, IdsAreIds
    <3>3. StartOf[kind] \in BlockEvents
      BY <2>2 DEF Kinds, StartOf, BlockEvents
    <3>4. Emit(j, <<Event(StartOf[kind], id)>>) /\ outcome' = outcome
      BY <1>3, <2>2 DEF BlockStart
    <3>5. <<Event(StartOf[kind], id)>> \in Seq(Events)
      BY <3>2, <3>3, EventsAreEvents, ShortSequences
    <3> QED
      BY <3>4, <3>5
  <2> QED
    BY <2>1, <2>2
<1>4. ASSUME BlockDelta(j)
      PROVE  \E events \in Seq(Events) : Emit(j, events) /\ outcome' = outcome
  <2> DEFINE b == OpenAt(j, index[j])
             type == IF block[j].type = "text" THEN "text.delta" ELSE "thinking.delta"
  <2>1. b.id \in Ids
    BY <1>4, OpenTypes, BlockTypes DEF BlockDelta
  <2>2. Emit(j, <<Event("tool.input_delta", b.id)>>) \/ Emit(j, <<Event(type, b.id)>>)
    BY <1>4 DEF BlockDelta
  <2>3. PICK e \in BlockEvents : Emit(j, <<Event(e, b.id)>>)
    BY <2>2 DEF BlockEvents
  <2>4. <<Event(e, b.id)>> \in Seq(Events)
    BY <2>1, EventsAreEvents, ShortSequences
  <2> QED
    BY <1>4, <2>3, <2>4 DEF BlockDelta
<1>5. ASSUME BlockStop(j)
      PROVE  \E events \in Seq(Events) : Emit(j, events) /\ outcome' = outcome
  <2> DEFINE b == OpenAt(j, index[j])
             raw == buffers[j][index[j]]
             type == IF b.type = "text" THEN "text.stop" ELSE "thinking.stop"
  <2>1. index[j] \in Indexes /\ b.id \in Ids /\ raw \in Seq(Ids)
    <3>1. index[j] \in Indexes
      BY <1>5, BlockTypes DEF BlockStop
    <3> QED
      BY <3>1, OpenTypes DEF TypeOK
  <2>2. CASE b.type = "tool_use"
    <3>1. Emit(j, <<InputDone(b.id, Parsed(raw)), AgentStep(step[j] + 1)>>)
      BY <1>5, <2>2 DEF BlockStop, StopTool
    <3>2. Parsed(raw) \in Seq(Ids)
      BY <2>1 DEF Parsed
    <3>3. InputDone(b.id, Parsed(raw)) \in Events /\ AgentStep(step[j] + 1) \in Events
      BY <1>2, <2>1, <3>2, EventsAreEvents
    <3>4. <<InputDone(b.id, Parsed(raw)), AgentStep(step[j] + 1)>> \in Seq(Events)
      BY <3>3, ShortSequences
    <3> QED
      BY <1>5, <3>1, <3>4 DEF BlockStop
  <2>3. CASE b.type # "tool_use"
    <3>1. Emit(j, <<Event(type, b.id)>>)
      BY <1>5, <2>3 DEF BlockStop
    <3>2. <<Event(type, b.id)>> \in Seq(Events)
      BY <2>1, EventsAreEvents, ShortSequences DEF BlockEvents
    <3> QED
      BY <1>5, <3>1, <3>2 DEF BlockStop
  <2> QED
    BY <2>2, <2>3
<1>6. ASSUME ToolResult(j)
      PROVE  \E events \in Seq(Events) : Emit(j, events) /\ outcome' = outcome
  <2>1. PICK id \in calls[j] : Emit(j, <<Event("tool.result", id)>>)
    BY <1>6 DEF ToolResult
  <2>2. id \in Ids
    BY <2>1 DEF TypeOK
  <2>3. <<Event("tool.result", id)>> \in Seq(Events)
    BY <2>2, EventsAreEvents, ShortSequences DEF BlockEvents
  <2> QED
    BY <1>6, <2>1, <2>3 DEF ToolResult
<1>7. ASSUME SubAgentMessage(j) \/ MessageStartsOver(j)
      PROVE  Emit(j, <<>>) /\ outcome' = outcome
  BY <1>1, <1>7 DEF SubAgentMessage, MessageStartsOver
<1>8. ASSUME ResultMessage(j)
      PROVE  Emit(j, <<Result>>) /\ outcome' = [outcome EXCEPT ![j] = "complete"]
  BY <1>8 DEF ResultMessage
<1>9. ~SdkEnds(j) /\ ~SdkRaises(j)
  BY DEF SdkEnds, SdkRaises, Yields, Finish, TypeOK
<1> QED
  BY <1>3, <1>4, <1>5, <1>6, <1>7, <1>8, <1>9, ShortSequences DEF Sdk

(* A step keeps the types, and the room they need.                         *)
LEMMA StepTypes == TypeOK /\ Budget /\ [Next]_vars => TypeOK' /\ Budget'
<1> SUFFICES ASSUME TypeOK, Budget, [Next]_vars PROVE TypeOK' /\ Budget'
  OBVIOUS
<1> USE EngineJobAssumption
<1>1. ASSUME NEW j \in Runs, Refuse(j) PROVE TypeOK' /\ Budget'
  BY <1>1 DEF Refuse, TypeOK, Budget, Room, server, mapping, sdk
<1>2. ASSUME NEW j \in Runs, Submit(j) PROVE TypeOK' /\ Budget'
  <2>1. Finish(j, <<Error>>) => queue' \in [Runs -> Seq(Items)]
    BY FinishTypes, ShortSequences
  <2> QED
    BY <1>2, <2>1 DEF Submit, Finish, TypeOK, Budget, Room, mapping, sdk, Items
<1>3. ASSUME NEW j \in Runs, SdkEnds(j) \/ SdkRaises(j) \/ CancelLands(j) PROVE TypeOK' /\ Budget'
  <2>1. PICK events \in {<<>>, <<Error>>} : Finish(j, events)
    <3>1. CASE SdkEnds(j)
      BY <3>1 DEF SdkEnds
    <3>2. CASE SdkRaises(j)
      BY <3>2 DEF SdkRaises
    <3>3. CASE CancelLands(j)
      BY <3>3 DEF CancelLands
    <3> QED
      BY <1>3, <3>1, <3>2, <3>3
  <2>2. events \in Seq(Events)
    BY <2>1, ShortSequences
  <2> QED
    BY <1>3, <2>1, <2>2, FinishTypes
    DEF SdkEnds, SdkRaises, CancelLands, TypeOK, Budget, Room, mapping, sdk, Items
<1>4. ASSUME NEW j \in Runs, Sdk(j), Yields(j) PROVE TypeOK' /\ Budget'
  <2>0. /\ left[j] \in 1..MaxMessages /\ left' = [left EXCEPT ![j] = @ - 1]
        /\ left' \in [Runs -> 0..MaxMessages]
        /\ tools[j] + 1 \in 1..MaxMessages /\ step[j] + 1 \in 1..MaxMessages
        /\ up' \in BOOLEAN /\ active' \subseteq Runs
        /\ task' \in [Runs -> {"none", "refused", "running", "ended"}]
        /\ cancelling' \in [Runs -> BOOLEAN] /\ out' \in [Runs -> Seq(Events)]
        /\ stream' \in [Runs -> {"none", "open", "closed", "left"}]
    BY <1>4, YieldTypes
  <2>1. queue' \in [Runs -> Seq(Items)]
    BY <1>4, MessagesEmit, EmitTypes
  <2>9. /\ tools[j] \in Nat /\ step[j] \in Nat /\ left[j] \in Nat /\ left'[j] = left[j] - 1
        /\ \A k \in Runs \ {j} : left'[k] = left[k]
    BY <2>0 DEF TypeOK
  <2>10. Room(j) /\ MaxMessages \in Nat
    BY EngineJobAssumption DEF Budget
  <2>2. ASSUME NEW kind \in Kinds, BlockStart(j, kind) PROVE TypeOK' /\ Budget'
    <3> DEFINE id == IF kind = "tool_use" THEN ToolId(tools[j] + 1) ELSE BlockId(index[j])
    <3>1. index[j] \in Indexes /\ tools[j] + 1 \in 1..MaxMessages
      BY <2>0, <2>2 DEF BlockStart, TypeOK, Indexes
    <3>2. id \in Ids
      BY <3>1, IdsAreIds
    <3>4. openBlocks' \in [Runs -> [Indexes -> OpenBlock]]
      <4>1. CASE kind = "other"
        BY <2>2, <4>1 DEF BlockStart, TypeOK
      <4>2. CASE kind # "other"
        <5>1. openBlocks' = [openBlocks EXCEPT ![j][index[j]] = [id |-> id, type |-> kind]]
          BY <2>2, <4>2 DEF BlockStart
        <5>2. [id |-> id, type |-> kind] \in OpenBlock
          BY <3>2, <4>2 DEF Kinds, OpenBlock
        <5> HIDE DEF id
        <5> QED
          BY <3>1, <5>1, <5>2 DEF TypeOK
      <4> QED
        BY <4>1, <4>2
    <3>5. block' = [block EXCEPT ![j] = [type |-> kind, fed |-> FALSE]]
          /\ tools' = [tools EXCEPT ![j] = IF kind = "tool_use" THEN @ + 1 ELSE @]
          /\ odd' = [odd EXCEPT ![j] = @ \/ kind = "other"]
          /\ UNCHANGED <<buffers, step, index, calls, outcome>>
      BY <2>2 DEF BlockStart
    <3>6. block' \in [Runs -> SdkBlock] /\ tools' \in [Runs -> 0..MaxMessages]
      <4>1. [type |-> kind, fed |-> FALSE] \in SdkBlock /\ tools[j] + 1 \in 0..MaxMessages
        BY <2>0 DEF SdkBlock
      <4>2. block \in [Runs -> SdkBlock] /\ tools \in [Runs -> 0..MaxMessages]
        BY DEF TypeOK
      <4> QED
        BY ONLY <3>5, <4>1, <4>2
    <3>7. TypeOK'
      BY <2>0, <2>1, <3>4, <3>5, <3>6 DEF TypeOK, Items
    <3>8. Room(j)'
      <4>1. /\ block'[j] = [type |-> kind, fed |-> FALSE] /\ index'[j] = index[j]
            /\ step'[j] = step[j]
            /\ tools'[j] = IF kind = "tool_use" THEN tools[j] + 1 ELSE tools[j]
        BY <3>5 DEF TypeOK
      <4>2. tools[j] \in Nat /\ step[j] \in Nat /\ index[j] < MaxBlocks
        BY <3>1 DEF TypeOK, Indexes
      <4> QED
        BY <1>4, <3>7, <4>1, <4>2, RoomAfter
    <3>9. Budget'
      BY <2>0, <3>5, <3>8, RoomElsewhere DEF TypeOK
    <3> QED
      BY <3>7, <3>9
  <2>3. CASE BlockDelta(j)
    <3> DEFINE i == index[j]
               fragment == IF block[j].type = "tool_use" THEN ToolId(tools[j]) ELSE BlockId(i)
               toTool == block[j].type \in {"tool_use", "other"}
    <3>1. i \in Indexes
      BY <2>3, BlockTypes DEF BlockDelta
    <3>3. buffers' \in [Runs -> [Indexes -> Seq(Ids)]]
      <4>1. CASE toTool
        <5>1. buffers' = [buffers EXCEPT ![j][i] = Append(@, fragment)]
          BY <2>3, <4>1 DEF BlockDelta
        <5>2. buffers[j] \in [Indexes -> Seq(Ids)]
          BY DEF TypeOK
        <5>3. Append(buffers[j][i], fragment) \in Seq(Ids)
          <6>1. fragment \in Ids
            BY <3>1, BlockTypes, IdsAreIds
          <6> QED
            BY <3>1, <5>2, <6>1
        <5> QED
          BY <3>1, <5>1, <5>2, <5>3 DEF TypeOK
      <4>2. CASE ~toTool
        BY <2>3, <4>2 DEF BlockDelta, TypeOK
      <4> QED
        BY <4>1, <4>2
    <3>4. block' = [block EXCEPT ![j].fed = TRUE] /\ block[j] # NoBlock
          /\ UNCHANGED <<openBlocks, step, index, calls, tools, outcome, odd>>
      BY <2>3 DEF BlockDelta
    <3>5. [block[j] EXCEPT !.fed = TRUE] \in SdkBlock
          /\ [block[j] EXCEPT !.fed = TRUE].type = block[j].type
      BY <3>4, BlockTypes DEF SdkBlock
    <3>6. TypeOK'
      BY <2>0, <2>1, <3>3, <3>4, <3>5 DEF TypeOK, Items
    <3>7. block'[j].type = block[j].type /\ \A k \in Runs \ {j} : block'[k] = block[k]
      BY <3>4, <3>5 DEF TypeOK
    <3>8. Room(j)'
      <4>1. block'[j] # NoBlock => block[j] # NoBlock
        BY <2>3 DEF BlockDelta
      <4> QED
        BY ONLY <2>9, <2>10, <3>4, <3>7, <4>1 DEF Room
    <3>9. Budget'
      BY <2>0, <3>4, <3>7, <3>8, RoomElsewhere DEF TypeOK
    <3> QED
      BY <3>6, <3>9
  <2>4. CASE BlockStop(j)
    <3> DEFINE i == index[j]
               b == OpenAt(j, i)
    <3>1. i \in Indexes /\ i + 1 \in 0..MaxBlocks
      BY <2>4, BlockTypes DEF BlockStop
    <3>2. /\ buffers' \in [Runs -> [Indexes -> Seq(Ids)]]
          /\ step' \in [Runs -> 0..MaxMessages]
          /\ step' = step \/ step' = [step EXCEPT ![j] = @ + 1]
      <4>1. CASE b.type = "tool_use"
        <5>1. buffers' = [buffers EXCEPT ![j][i] = <<>>]
              /\ step' = [step EXCEPT ![j] = @ + 1]
          BY <2>4, <4>1 DEF BlockStop, StopTool
        <5>2. buffers[j] \in [Indexes -> Seq(Ids)] /\ <<>> \in Seq(Ids)
          BY DEF TypeOK
        <5>3. buffers' \in [Runs -> [Indexes -> Seq(Ids)]]
          BY <3>1, <5>1, <5>2 DEF TypeOK
        <5>4. step' \in [Runs -> 0..MaxMessages]
          <6>1. step[j] + 1 \in 0..MaxMessages /\ step \in [Runs -> 0..MaxMessages]
            BY <2>0 DEF TypeOK
          <6> QED
            BY ONLY <5>1, <6>1
        <5> QED
          BY <5>1, <5>3, <5>4
      <4>2. CASE b.type # "tool_use"
        BY <2>4, <4>2 DEF BlockStop, TypeOK
      <4> QED
        BY <4>1, <4>2
    <3>3. /\ openBlocks' = [openBlocks EXCEPT ![j][i] = Closed]
          /\ block' = [block EXCEPT ![j] = NoBlock]
          /\ index' = [index EXCEPT ![j] = @ + 1]
          /\ calls' = [calls EXCEPT ![j] = IF block[j].type = "tool_use"
                                             THEN @ \cup {ToolId(tools[j])} ELSE @]
          /\ UNCHANGED <<tools, outcome, odd>>
      BY <2>4 DEF BlockStop
    <3>4. calls' \in [Runs -> SUBSET Ids]
      <4>1. calls \in [Runs -> SUBSET Ids]
        BY DEF TypeOK
      <4>2. block[j].type = "tool_use" => ToolId(tools[j]) \in Ids
        BY BlockTypes
      <4> QED
        BY ONLY <3>3, <4>1, <4>2
    <3>5. openBlocks' \in [Runs -> [Indexes -> OpenBlock]]
      <4>1. openBlocks \in [Runs -> [Indexes -> OpenBlock]]
        BY DEF TypeOK
      <4>2. openBlocks' = [openBlocks EXCEPT ![j][i] = Closed] /\ Closed \in OpenBlock
        BY <3>3 DEF OpenBlock
      <4> HIDE DEF i
      <4> QED
        BY ONLY <4>1, <4>2
    <3>6. block' \in [Runs -> SdkBlock] /\ index' \in [Runs -> 0..MaxBlocks]
      BY <3>1, <3>3 DEF TypeOK, SdkBlock
    <3>7. TypeOK'
      BY <2>0, <2>1, <3>2, <3>3, <3>4, <3>5, <3>6 DEF TypeOK, Items
    <3>8. Room(j)'
      <4>1. block'[j] = NoBlock /\ tools'[j] = tools[j]
            /\ (step'[j] = step[j] \/ step'[j] = step[j] + 1)
        BY <3>2, <3>3 DEF TypeOK
      <4>2. tools[j] \in Nat /\ step[j] \in Nat
        BY DEF TypeOK
      <4> QED
        BY <1>4, <3>7, <4>1, <4>2, BlockTypes, RoomAfter
    <3>9. Budget'
      BY <2>0, <3>2, <3>3, <3>8, RoomElsewhere DEF TypeOK
    <3> QED
      BY <3>7, <3>9
  <2>5. CASE ToolResult(j)
    <3>1. PICK id \in calls[j] : calls' = [calls EXCEPT ![j] = @ \ {id}]
      BY <2>5 DEF ToolResult
    <3>5. /\ index' = [index EXCEPT ![j] = 0]
          /\ UNCHANGED <<openBlocks, buffers, step, block, tools, outcome, odd>>
          /\ block[j] = NoBlock
      BY <2>5 DEF ToolResult, mapping
    <3>6. calls' \in [Runs -> SUBSET Ids] /\ index' \in [Runs -> 0..MaxBlocks]
      BY <3>1, <3>5, EngineJobAssumption DEF TypeOK
    <3>7. TypeOK'
      BY <2>0, <2>1, <3>5, <3>6 DEF TypeOK, Items
    <3>8. Room(j)'
      <4>1. index'[j] = 0 /\ MaxBlocks > 0
        BY <3>5, EngineJobAssumption DEF TypeOK
      <4> QED
        BY ONLY <2>9, <2>10, <3>5, <4>1 DEF Room
    <3>9. Budget'
      BY <2>0, <3>5, <3>8, RoomElsewhere DEF TypeOK
    <3> QED
      BY <3>7, <3>9
  <2>6. CASE SubAgentMessage(j)
    <3>1. UNCHANGED <<queue, openBlocks, buffers, step, block, index, calls, tools, outcome, odd>>
      BY <2>6 DEF SubAgentMessage, mapping
    <3>2. TypeOK'
      BY <2>0, <3>1 DEF TypeOK
    <3>3. Room(j)'
      BY ONLY <2>9, <2>10, <3>1 DEF Room
    <3>4. Budget'
      BY <2>0, <3>1, <3>3, RoomElsewhere DEF TypeOK
    <3> QED
      BY <3>2, <3>4
  <2>7. CASE ResultMessage(j)
    <3>3. /\ outcome' = [outcome EXCEPT ![j] = "complete"]
          /\ UNCHANGED <<openBlocks, buffers, step, block, index, calls, tools, odd>>
      BY <2>7 DEF ResultMessage, mapping
    <3>4. TypeOK'
      BY <2>0, <2>1, <3>3 DEF TypeOK, Items
    <3>5. Room(j)'
      BY ONLY <2>9, <2>10, <3>3 DEF Room
    <3>6. Budget'
      BY <2>0, <3>3, <3>5, RoomElsewhere DEF TypeOK
    <3> QED
      BY <3>4, <3>6
  <2>8. CASE MessageStartsOver(j)
    <3>1. /\ block' = [block EXCEPT ![j] = NoBlock]
          /\ index' = [index EXCEPT ![j] = 0] /\ calls' = [calls EXCEPT ![j] = {}]
          /\ odd' = [odd EXCEPT ![j] = TRUE]
          /\ UNCHANGED <<queue, openBlocks, buffers, step, tools, outcome>>
      BY <2>8 DEF MessageStartsOver, mapping
    <3>2. TypeOK'
      <4>1. block' \in [Runs -> SdkBlock] /\ index' \in [Runs -> 0..MaxBlocks]
            /\ calls' \in [Runs -> SUBSET Ids]
        BY <3>1, EngineJobAssumption DEF TypeOK, SdkBlock
      <4> QED
        BY <2>0, <3>1, <4>1 DEF TypeOK
    <3>3. Room(j)'
      <4>1. block'[j] = NoBlock /\ tools'[j] = tools[j] /\ step'[j] = step[j]
        BY <3>1 DEF TypeOK
      <4>2. tools[j] \in Nat /\ step[j] \in Nat
        BY DEF TypeOK
      <4> QED
        BY <1>4, <3>2, <4>1, <4>2, BlockTypes, RoomAfter
    <3>4. Budget'
      BY <2>0, <3>1, <3>3, RoomElsewhere DEF TypeOK
    <3> QED
      BY <3>2, <3>4
  <2> QED
    BY <1>3, <1>4, <2>2, <2>3, <2>4, <2>5, <2>6, <2>7, <2>8 DEF Sdk
<1>5. ASSUME NEW j \in Runs, Deliver(j) PROVE TypeOK' /\ Budget'
  <2> DEFINE e == Head(queue[j])
  <2>1. queue[j] \in Seq(Items) /\ queue[j] # <<>>
    BY <1>5 DEF Deliver, TypeOK, Items
  <2>2. e \in Items /\ Tail(queue[j]) \in Seq(Items)
    BY <2>1
  <2>3. queue' = [queue EXCEPT ![j] = Tail(@)]
        /\ out' = [out EXCEPT ![j] = IF e = Sentinel THEN @ ELSE Append(@, e)]
        /\ stream' = [stream EXCEPT ![j] = IF Closes(e) THEN "closed" ELSE @]
        /\ UNCHANGED <<server, task, cancelling, mapping, sdk, outcome, odd>>
    BY <1>5 DEF Deliver
  <2>4. out[j] \in Seq(Events) /\ (e # Sentinel => Append(out[j], e) \in Seq(Events))
    BY <2>2 DEF TypeOK, Items
  <2>5. out' \in [Runs -> Seq(Events)]
    BY <2>3, <2>4 DEF TypeOK
  <2>6. queue' \in [Runs -> Seq(Items)]
    BY <2>2, <2>3 DEF TypeOK, Items
  <2>7. stream' \in [Runs -> {"none", "open", "closed", "left"}]
    BY <2>3 DEF TypeOK
  <2>8. UNCHANGED <<up, active, task, cancelling, openBlocks, buffers, step, block, index,
                    calls, tools, left, outcome, odd>>
    BY <2>3 DEF server, mapping, sdk
  <2> HIDE DEF e
  <2>9. TypeOK'
    BY <2>5, <2>6, <2>7, <2>8 DEF TypeOK, Items
  <2>10. Budget'
    BY <2>8 DEF Budget, Room
  <2> QED
    BY <2>9, <2>10
<1>6. ASSUME NEW j \in Runs, ClientLeaves(j) \/ Cancel(j) PROVE TypeOK' /\ Budget'
  <2>1. /\ cancelling' \in [Runs -> BOOLEAN]
        /\ stream' \in [Runs -> {"none", "open", "closed", "left"}]
        /\ UNCHANGED <<up, active, task, queue, out, openBlocks, buffers, step, block, index,
                       calls, tools, left, outcome, odd>>
    <3>1. CASE ClientLeaves(j)
      BY <3>1 DEF ClientLeaves, CancelTasks, TypeOK, server, mapping, sdk
    <3>2. CASE Cancel(j)
      BY <3>2 DEF Cancel, CancelTasks, TypeOK, server, mapping, sdk
    <3> QED
      BY <1>6, <3>1, <3>2
  <2>2. TypeOK'
    BY <2>1 DEF TypeOK
  <2>3. Budget'
    BY <2>1 DEF Budget, Room
  <2> QED
    BY <2>2, <2>3
<1>7. CASE Shutdown
  BY <1>7 DEF Shutdown, CancelTasks, TypeOK, Budget, Room, mapping, sdk
<1>8. CASE UNCHANGED vars
  BY <1>8 DEF vars, server, mapping, sdk, TypeOK, Budget, Room
<1>9. ASSUME NEW j \in Runs, Sdk(j) PROVE Yields(j) \/ SdkEnds(j) \/ SdkRaises(j)
  BY <1>9 DEF Sdk, BlockStart, BlockDelta, BlockStop, ToolResult, SubAgentMessage, ResultMessage,
             MessageStartsOver
<1> QED
  BY <1>1, <1>2, <1>3, <1>4, <1>5, <1>6, <1>7, <1>8, <1>9 DEF Next

(* Types are correct in every behaviour.                                   *)
THEOREM TypeCorrect == Spec => []TypeOK
<1>1. Init => TypeOK /\ Budget
  BY InitTypes
<1>2. (TypeOK /\ Budget) /\ [Next]_vars => (TypeOK /\ Budget)'
  BY StepTypes
<1> QED
  BY <1>1, <1>2, PTL DEF Spec

-----------------------------------------------------------------------------
(* Nobody waits for nothing.                                               *)

LEMMA InitAttended == Init => Attended
BY DEF Init, Attended, Waits

(* A queue that is not empty, seen from its ends.                          *)
LEMMA TailOfQueue ==
  ASSUME NEW q \in Seq(Items), q # <<>>
  PROVE  /\ Tail(q) \in Seq(Items) /\ Len(Tail(q)) = Len(q) - 1 /\ Len(q) \in Nat \ {0}
         /\ DOMAIN q = 1..Len(q) /\ DOMAIN Tail(q) = 1..(Len(q) - 1)
         /\ Head(q) = q[1] /\ Head(q) \in Items
         /\ \A n \in 1..(Len(q) - 1) : Tail(q)[n] = q[n + 1]
BY HeadTailProperties

(* It is enough to look at the run that moves.                             *)
LEMMA WaitsElsewhere ==
  ASSUME Attended, NEW j \in Runs, Waits(j)',
         \A k \in Runs \ {j} : /\ (k \in active' <=> k \in active) /\ task'[k] = task[k]
                               /\ cancelling'[k] = cancelling[k] /\ stream'[k] = stream[k]
                               /\ outcome'[k] = outcome[k] /\ queue'[k] = queue[k]
                               /\ out'[k] = out[k]
  PROVE  Attended'
BY DEF Attended, Waits

(* What a task that runs puts into its queue leaves its client attended.   *)
LEMMA MoreWaits ==
  ASSUME NEW q \in Seq(Items), NEW events \in Seq(Events),
         \A n \in DOMAIN q : q[n] # Sentinel
  PROVE  /\ \A n \in DOMAIN (q \o events) : (q \o events)[n] # Sentinel
         /\ (\E n \in DOMAIN q : IsTerminal(q[n]))
              => \E n \in DOMAIN (q \o events) : IsTerminal((q \o events)[n])
         /\ (\E n \in DOMAIN events : IsTerminal(events[n]))
              => \E n \in DOMAIN (q \o events) : IsTerminal((q \o events)[n])
<1>1. /\ DOMAIN q = 1..Len(q) /\ DOMAIN events = 1..Len(events)
      /\ DOMAIN (q \o events) = 1..(Len(q) + Len(events))
      /\ Len(q) \in Nat /\ Len(events) \in Nat
  OBVIOUS
<1>2. \A n \in 1..(Len(q) + Len(events)) :
        (q \o events)[n] = IF n <= Len(q) THEN q[n] ELSE events[n - Len(q)]
  OBVIOUS
<1>3. \A n \in DOMAIN events : events[n] # Sentinel
  BY SentinelIsNoEvent
<1>4. \A n \in DOMAIN (q \o events) : (q \o events)[n] # Sentinel
  BY <1>1, <1>2, <1>3
<1>5. \A n \in DOMAIN q : n \in DOMAIN (q \o events) /\ (q \o events)[n] = q[n]
  BY <1>1, <1>2
<1>6. \A n \in DOMAIN events : Len(q) + n \in DOMAIN (q \o events)
                              /\ (q \o events)[Len(q) + n] = events[n]
  BY <1>1, <1>2
<1> QED
  BY <1>4, <1>5, <1>6

(* The run whose task puts more into its queue.                            *)
LEMMA EmitWaits ==
  ASSUME TypeOK, NEW j \in Runs, Waits(j), task[j] = "running",
         NEW events \in Seq(Events), Emit(j, events),
         UNCHANGED <<active, task, cancelling, stream, out>>,
         outcome'[j] = outcome[j]
           \/ (outcome[j] = "none" /\ outcome'[j] = "complete" /\ events = <<Result>>)
  PROVE  Waits(j)'
<1>1. queue[j] \in Seq(Items) /\ queue'[j] = queue[j] \o events
  BY DEF TypeOK, Items, Emit
<1>2. \A n \in DOMAIN queue[j] : queue[j][n] # Sentinel
  BY DEF Waits
<1>3. /\ \A n \in DOMAIN queue'[j] : queue'[j][n] # Sentinel
      /\ (\E n \in DOMAIN queue[j] : IsTerminal(queue[j][n]))
           => \E n \in DOMAIN queue'[j] : IsTerminal(queue'[j][n])
      /\ (\E n \in DOMAIN events : IsTerminal(events[n]))
           => \E n \in DOMAIN queue'[j] : IsTerminal(queue'[j][n])
  BY <1>1, <1>2, MoreWaits
<1>4. events = <<Result>> => \E n \in DOMAIN events : IsTerminal(events[n])
  BY DEF Result, IsTerminal
<1>5. outcome'[j] \in {"complete", "raised"} /\ stream'[j] = "open" =>
        \E n \in DOMAIN queue'[j] : IsTerminal(queue'[j][n])
  BY <1>3, <1>4 DEF Waits
<1>6. stream'[j] = "closed" => Ended(out'[j]) \/ outcome'[j] \in {"short", "cancelled"}
  BY DEF Waits, Ended
<1> QED
  BY <1>3, <1>5, <1>6 DEF Waits

(* The run whose task ends.                                                *)
LEMMA FinishWaits ==
  ASSUME TypeOK, NEW j \in Runs, Waits(j), task[j] \in {"none", "running"},
         NEW events \in Seq(Events), Finish(j, events),
         ~cancelling'[j], stream'[j] # "none", out'[j] = out[j], outcome'[j] # "none",
         stream'[j] = "closed" => stream[j] = "closed",
         stream'[j] = "open" /\ task[j] = "running" => stream[j] = "open",
         outcome[j] # "none" => outcome'[j] = outcome[j],
         outcome[j] = "none" /\ outcome'[j] \in {"complete", "raised"} => events = <<Error>>
  PROVE  Waits(j)'
<1>1. queue[j] \in Seq(Items) /\ queue'[j] = queue[j] \o events \o <<Sentinel>>
      /\ j \notin active' /\ task'[j] = "ended"
  BY DEF TypeOK, Items, Finish
<1>2. \A n \in DOMAIN queue[j] : queue[j][n] # Sentinel
  BY DEF Waits
<1> DEFINE told == queue[j] \o events
<1>3. /\ \A n \in DOMAIN told : told[n] # Sentinel
      /\ (\E n \in DOMAIN queue[j] : IsTerminal(queue[j][n]))
           => \E n \in DOMAIN told : IsTerminal(told[n])
      /\ (\E n \in DOMAIN events : IsTerminal(events[n]))
           => \E n \in DOMAIN told : IsTerminal(told[n])
  BY <1>1, <1>2, MoreWaits
<1>4. told \in Seq(Items)
  <2>1. events \in Seq(Items)
    BY SeqMonotonic DEF Items
  <2> QED
    BY <1>1, <2>1
<1>5. queue'[j] = told \o <<Sentinel>>
  BY <1>1
<1> HIDE DEF told
<1>6. /\ Len(told) \in Nat /\ DOMAIN told = 1..Len(told)
      /\ Len(queue'[j]) = Len(told) + 1 /\ DOMAIN queue'[j] = 1..(Len(told) + 1)
      /\ queue'[j][Len(told) + 1] = Sentinel
      /\ \A n \in 1..Len(told) : queue'[j][n] = told[n]
  BY <1>4, <1>5
<1>7. /\ queue'[j] # <<>> /\ queue'[j][Len(queue'[j])] = Sentinel
      /\ \A n \in DOMAIN queue'[j] : queue'[j][n] = Sentinel => n = Len(queue'[j])
      /\ (\E n \in DOMAIN told : IsTerminal(told[n]))
           => \E n \in DOMAIN queue'[j] : IsTerminal(queue'[j][n])
  BY <1>3, <1>6
<1>8. events = <<Error>> => \E n \in DOMAIN events : IsTerminal(events[n])
  BY DEF Error, IsTerminal
<1>9. outcome'[j] \in {"complete", "raised"} /\ stream'[j] = "open" =>
        \E n \in DOMAIN queue'[j] : IsTerminal(queue'[j][n])
  BY <1>3, <1>7, <1>8 DEF Waits
<1>10. stream'[j] = "closed" => Ended(out'[j]) \/ outcome'[j] \in {"short", "cancelled"}
  BY DEF Waits, Ended
<1> QED
  BY <1>1, <1>7, <1>9, <1>10 DEF Waits

(* Every step keeps everybody attended.                                    *)
LEMMA StepAttended == TypeOK /\ Budget /\ Attended /\ [Next]_vars => Attended'
<1> SUFFICES ASSUME TypeOK, Budget, Attended, [Next]_vars PROVE Attended'
  OBVIOUS
<1>0. \A k \in Runs : Waits(k)
  BY DEF Attended
<1>1. ASSUME NEW j \in Runs, Refuse(j) PROVE Attended'
  BY <1>1 DEF Refuse, Attended, Waits, server, TypeOK
<1>2. ASSUME NEW j \in Runs, Submit(j) PROVE Attended'
  <2>1. /\ task[j] = "none" /\ stream' = [stream EXCEPT ![j] = "open"]
        /\ UNCHANGED <<cancelling, out>>
    BY <1>2 DEF Submit
  <2>2. queue[j] = <<>> /\ outcome[j] = "none" /\ ~cancelling[j]
    BY <1>0, <2>1 DEF Waits
  <2>3. CASE /\ task' = [task EXCEPT ![j] = "running"] /\ active' = active \cup {j}
             /\ UNCHANGED <<queue, outcome>>
    <3>1. Waits(j)'
      BY <2>1, <2>2, <2>3 DEF Waits, TypeOK
    <3> QED
      BY <2>1, <2>3, <3>1, WaitsElsewhere DEF TypeOK
  <2>4. CASE Finish(j, <<Error>>) /\ outcome' = [outcome EXCEPT ![j] = "raised"]
    <3>1. /\ ~cancelling'[j] /\ stream'[j] = "open" /\ out'[j] = out[j]
          /\ outcome'[j] = "raised"
      BY <2>1, <2>2, <2>4 DEF TypeOK
    <3>2. Waits(j)'
      BY <1>0, <2>1, <2>2, <2>4, <3>1, FinishWaits, ShortSequences
    <3>3. \A k \in Runs \ {j} : /\ (k \in active' <=> k \in active) /\ task'[k] = task[k]
                                /\ queue'[k] = queue[k] /\ outcome'[k] = outcome[k]
      BY <2>4 DEF Finish, TypeOK
    <3> QED
      BY <2>1, <3>2, <3>3, WaitsElsewhere DEF TypeOK
  <2> QED
    BY <1>2, <2>3, <2>4 DEF Submit
<1>3. ASSUME NEW j \in Runs, SdkEnds(j) \/ SdkRaises(j) \/ CancelLands(j) PROVE Attended'
  <2>1. /\ task[j] = "running" /\ UNCHANGED <<stream, out>>
        /\ ~cancelling'[j]
        /\ \A k \in Runs \ {j} : cancelling'[k] = cancelling[k] /\ outcome'[k] = outcome[k]
        /\ outcome'[j] # "none" /\ (outcome[j] # "none" => outcome'[j] = outcome[j])
    BY <1>3 DEF SdkEnds, SdkRaises, CancelLands, TypeOK
  <2>2. PICK events \in {<<>>, <<Error>>} :
          /\ Finish(j, events)
          /\ outcome[j] = "none" /\ outcome'[j] \in {"complete", "raised"} => events = <<Error>>
    <3>1. CASE SdkEnds(j)
      BY <3>1 DEF SdkEnds, TypeOK
    <3>2. CASE SdkRaises(j)
      BY <3>2 DEF SdkRaises, TypeOK
    <3>3. CASE CancelLands(j)
      BY <3>3 DEF CancelLands, TypeOK
    <3> QED
      BY <1>3, <3>1, <3>2, <3>3
  <2>3. events \in Seq(Events)
    BY <2>2, ShortSequences
  <2>4. stream[j] # "none"
    BY <1>0, <2>1 DEF Waits
  <2>5. Waits(j)'
    BY <1>0, <2>1, <2>2, <2>3, <2>4, FinishWaits
  <2>6. \A k \in Runs \ {j} : /\ (k \in active' <=> k \in active) /\ task'[k] = task[k]
                              /\ queue'[k] = queue[k]
    BY <2>2 DEF Finish, TypeOK
  <2> QED
    BY <2>1, <2>5, <2>6, WaitsElsewhere
<1>4. ASSUME NEW j \in Runs, Sdk(j), Yields(j) PROVE Attended'
  <2>1. task[j] = "running" /\ outcome[j] = "none"
        /\ UNCHANGED <<active, task, cancelling, stream, out>>
    BY <1>4 DEF Yields, server
  <2>2. PICK events \in Seq(Events) :
          /\ Emit(j, events)
          /\ \/ outcome' = outcome
             \/ outcome' = [outcome EXCEPT ![j] = "complete"] /\ events = <<Result>>
    BY <1>4, MessagesEmit
  <2>3. /\ outcome'[j] = outcome[j] \/ (outcome'[j] = "complete" /\ events = <<Result>>)
        /\ \A k \in Runs \ {j} : outcome'[k] = outcome[k]
    BY <2>2 DEF TypeOK
  <2>4. Waits(j)'
    BY <1>0, <2>1, <2>2, <2>3, EmitWaits
  <2>5. \A k \in Runs \ {j} : queue'[k] = queue[k]
    BY <2>2 DEF Emit, TypeOK
  <2> QED
    BY <2>1, <2>3, <2>4, <2>5, WaitsElsewhere
<1>5. ASSUME NEW j \in Runs, Deliver(j) PROVE Attended'
  <2> DEFINE q == queue[j]
             e == Head(q)
  <2>1. /\ stream[j] = "open" /\ q # <<>> /\ q \in Seq(Items)
        /\ queue' = [queue EXCEPT ![j] = Tail(@)]
        /\ out' = [out EXCEPT ![j] = IF e = Sentinel THEN @ ELSE Append(@, e)]
        /\ stream' = [stream EXCEPT ![j] = IF Closes(e) THEN "closed" ELSE @]
        /\ UNCHANGED <<active, task, cancelling, outcome>>
    BY <1>5 DEF Deliver, TypeOK, Items, server
  <2>2. /\ queue'[j] = Tail(q)
        /\ out'[j] = IF e = Sentinel THEN out[j] ELSE Append(out[j], e)
        /\ stream'[j] = IF Closes(e) THEN "closed" ELSE "open"
        /\ \A k \in Runs \ {j} : /\ queue'[k] = queue[k] /\ out'[k] = out[k]
                                 /\ stream'[k] = stream[k]
    BY <2>1 DEF TypeOK
  <2>3. /\ Len(q) \in Nat \ {0} /\ DOMAIN q = 1..Len(q) /\ Len(Tail(q)) = Len(q) - 1
        /\ Tail(q) \in Seq(Items) /\ DOMAIN Tail(q) = 1..(Len(q) - 1)
        /\ e = q[1] /\ e \in Items
        /\ \A n \in 1..(Len(q) - 1) : Tail(q)[n] = q[n + 1]
    BY <2>1, TailOfQueue
  <2>4. /\ \A n \in 1..Len(q) : q[n] = Sentinel => n = Len(q) /\ task[j] = "ended"
        /\ task[j] = "ended" => q[Len(q)] = Sentinel /\ outcome[j] # "none"
        /\ outcome[j] \in {"complete", "raised"} => \E n \in 1..Len(q) : IsTerminal(q[n])
        /\ task[j] \in {"running", "ended"}
    BY <1>0, <2>1, <2>3 DEF Waits
  <2>5. ~IsTerminal(Sentinel)
    BY DEF Sentinel, IsTerminal
  <2> HIDE DEF q, e
  <2>12. queue'[j] = Tail(q) /\ Len(q) \in Nat /\ Len(q) # 0
    BY ONLY <2>2, <2>3
  <2>9. /\ DOMAIN queue'[j] = 1..(Len(q) - 1) /\ Len(queue'[j]) = Len(q) - 1
        /\ \A n \in 1..(Len(q) - 1) : queue'[j][n] = q[n + 1]
        /\ UNCHANGED <<active, task, cancelling, outcome>>
    <3>1. /\ DOMAIN Tail(q) = 1..(Len(q) - 1) /\ Len(Tail(q)) = Len(q) - 1
          /\ \A n \in 1..(Len(q) - 1) : Tail(q)[n] = q[n + 1]
      BY ONLY <2>3
    <3>2. UNCHANGED <<active, task, cancelling, outcome>>
      BY ONLY <2>1
    <3> QED
      BY ONLY <2>12, <3>1, <3>2, Zenon
  <2>10. ASSUME NEW n \in DOMAIN queue'[j], queue'[j][n] = Sentinel
         PROVE  n = Len(queue'[j]) /\ task'[j] = "ended"
    <3>1. n \in 1..(Len(q) - 1) /\ q[n + 1] = Sentinel
      BY <2>9, <2>10
    <3>2. n \in Nat /\ n + 1 \in 1..Len(q)
      BY ONLY <2>12, <3>1
    <3>3. n + 1 = Len(q) /\ task[j] = "ended"
      BY ONLY <2>4, <3>1, <3>2
    <3>4. Len(queue'[j]) = Len(q) - 1 /\ task' = task
      BY <2>9
    <3> QED
      BY ONLY <3>2, <3>3, <3>4
  <2>11. Waits(j)
    BY <1>0
  <2>6. CASE e = Sentinel
    <3>1. Len(q) = 1 /\ task[j] = "ended" /\ stream'[j] = "closed" /\ out'[j] = out[j]
      <4>1. 1 \in 1..Len(q) /\ q[1] = Sentinel
        BY <2>3, <2>6
      <4>2. Len(q) = 1 /\ task[j] = "ended"
        BY <2>4, <4>1
      <4> QED
        BY <2>2, <2>6, <4>2 DEF Closes
    <3>2. outcome[j] \notin {"complete", "raised", "none"}
      BY <2>3, <2>4, <2>5, <2>6, <3>1
    <3>3. outcome[j] \in {"short", "cancelled"}
      BY <3>2 DEF TypeOK
    <3>4. DOMAIN queue'[j] = {}
      BY <2>2, <2>3, <3>1
    <3> QED
      BY <1>0, <2>1, <2>2, <3>1, <3>3, <3>4, WaitsElsewhere DEF Waits
  <2>7. CASE e # Sentinel /\ IsTerminal(e)
    <3>1. stream'[j] = "closed" /\ out'[j] = Append(out[j], e) /\ out[j] \in Seq(Events)
          /\ e \in Events
      BY <2>2, <2>3, <2>7 DEF Closes, Items, TypeOK
    <3>2. Ended(out'[j])
      BY <2>7, <3>1 DEF Ended, Last
    <3>4. Waits(j)'
      BY ONLY <2>1, <2>4, <2>9, <2>10, <3>1, <3>2, <2>11 DEF Waits
    <3> QED
      BY <2>1, <2>2, <3>4, WaitsElsewhere
  <2>8. CASE e # Sentinel /\ ~IsTerminal(e)
    <3>1. stream'[j] = "open"
      BY <2>2, <2>8 DEF Closes
    <3>3. task'[j] = "ended" => queue'[j] # <<>> /\ queue'[j][Len(queue'[j])] = Sentinel
      <4>1. CASE task[j] = "ended"
        <5>1. Len(q) # 1
          BY <2>3, <2>4, <2>8, <4>1
        <5>2. Len(q) - 1 \in 1..(Len(q) - 1) /\ Len(queue'[j]) = Len(q) - 1
          <6>1. Len(q) \in Nat /\ Len(q) # 0 /\ Len(queue'[j]) = Len(q) - 1
            BY <2>9, <2>12
          <6>2. \A L \in Nat : L # 0 /\ L # 1 => L - 1 \in 1..(L - 1)
            OBVIOUS
          <6> QED
            BY ONLY <5>1, <6>1, <6>2, Zenon
        <5>3. queue'[j][Len(queue'[j])] = q[Len(q)]
          <6>1. queue'[j][Len(q) - 1] = q[Len(q) - 1 + 1]
            BY <2>9, <5>2
          <6>2. \A L \in Nat : L - 1 + 1 = L
            OBVIOUS
          <6>3. Len(q) - 1 + 1 = Len(q)
            BY ONLY <2>12, <6>2, Zenon
          <6> QED
            BY ONLY <5>2, <6>1, <6>3, Zenon
        <5>4. queue'[j] # <<>>
          <6>1. DOMAIN queue'[j] = 1..(Len(q) - 1)
            BY <2>9
          <6>2. Len(q) - 1 \in DOMAIN queue'[j]
            BY ONLY <5>2, <6>1, Zenon
          <6> QED
            BY ONLY <6>2
        <5>5. q[Len(q)] = Sentinel
          BY ONLY <2>4, <4>1
        <5> QED
          BY ONLY <5>3, <5>4, <5>5
      <4> QED
        BY ONLY <2>9, <4>1
    <3>4. outcome'[j] \in {"complete", "raised"} =>
            \E n \in DOMAIN queue'[j] : IsTerminal(queue'[j][n])
      <4> SUFFICES ASSUME outcome[j] \in {"complete", "raised"}
                   PROVE  \E n \in DOMAIN queue'[j] : IsTerminal(queue'[j][n])
        BY <2>1
      <4>1. PICK n \in 1..Len(q) : IsTerminal(q[n])
        BY <2>4
      <4>2. n # 1
        BY <2>3, <2>8, <4>1
      <4>3. n - 1 \in DOMAIN queue'[j] /\ queue'[j][n - 1] = q[n]
        BY <2>2, <2>3, <4>1, <4>2
      <4> QED
        BY <4>1, <4>3
    <3>5. Waits(j)'
      BY ONLY <2>1, <2>4, <2>9, <2>10, <3>1, <3>3, <3>4, <2>11 DEF Waits
    <3> QED
      BY <2>1, <2>2, <3>5, WaitsElsewhere
  <2> QED
    BY <2>6, <2>7, <2>8
<1>6. ASSUME NEW j \in Runs, ClientLeaves(j) \/ Cancel(j) PROVE Attended'
  <2>1. /\ UNCHANGED <<active, task, queue, out, outcome>>
        /\ \A k \in Runs : cancelling'[k] => cancelling[k] \/ task[k] = "running"
        /\ \A k \in Runs : stream'[k] = stream[k] \/ (stream[k] = "open" /\ stream'[k] = "left")
    BY <1>6 DEF ClientLeaves, Cancel, CancelTasks, server, TypeOK
  <2> QED
    BY <2>1 DEF Attended, Waits, Ended
<1>7. CASE Shutdown
  <2>1. /\ UNCHANGED <<active, task, queue, stream, out, outcome>>
        /\ \A k \in Runs : cancelling'[k] => cancelling[k] \/ task[k] = "running"
    BY <1>7 DEF Shutdown, CancelTasks
  <2> QED
    BY <2>1 DEF Attended, Waits, Ended
<1>8. CASE UNCHANGED vars
  BY <1>8 DEF vars, server, Attended, Waits, Ended
<1>9. ASSUME NEW j \in Runs, Sdk(j) PROVE Yields(j) \/ SdkEnds(j) \/ SdkRaises(j)
  BY <1>9 DEF Sdk, BlockStart, BlockDelta, BlockStop, ToolResult, SubAgentMessage, ResultMessage,
             MessageStartsOver
<1> QED
  BY <1>1, <1>2, <1>3, <1>4, <1>5, <1>6, <1>7, <1>8, <1>9 DEF Next

(* The active runs are those whose task runs, a client whose body is open  *)
(* has an event coming, and a body closes with a verdict, in every         *)
(* behaviour.                                                              *)
THEOREM NobodyIsLeft == Spec => []NobodyWaitsForNothing
<1>1. Init => TypeOK /\ Budget /\ Attended
  BY InitTypes, InitAttended
<1>2. (TypeOK /\ Budget /\ Attended) /\ [Next]_vars => (TypeOK /\ Budget /\ Attended)'
  BY StepTypes, StepAttended
<1>3. Attended => NobodyWaitsForNothing
  BY DEF Attended, Waits, NobodyWaitsForNothing
<1> QED
  BY <1>1, <1>2, <1>3, PTL DEF Spec

-----------------------------------------------------------------------------
(* What has been told.                                                     *)

(* What was said of id last among the first n events.                      *)
LastOf(s, n, id) ==
  LET about == {m \in 1..n : "id" \in DOMAIN s[m] /\ s[m].id = id} IN
  IF about = {} THEN "none" ELSE s[CHOOSE m \in about : \A k \in about : k <= m].type

(* How many tool blocks are over with the first n events.                  *)
Dones(s, n) == Cardinality({m \in 1..n : s[m].type = "tool.input_done"})

(* What ClientCanFollow says of the n-th event, and a little more.         *)
Tells(s, n) ==
  /\ s[n].type = "tool.result" => LastOf(s, n - 1, s[n].id) = "tool.input_done"
  /\ s[n].type = "agent.step" =>
       /\ n > 1 /\ s[n - 1].type = "tool.input_done"
       /\ s[n].step = Dones(s, n)

Follows(s, n) ==
  /\ "id" \in DOMAIN s[n] => LastOf(s, n - 1, s[n].id) \in MayFollow[s[n].type]
  /\ s[n].type = "tool.input_delta" => LastOf(s, n - 1, s[n].id) = "tool.start"
  /\ s[n].type = "tool.input_done" =>
       s[n].input = IF \E m \in 1..n : s[m] = Event("tool.input_delta", s[n].id)
                      THEN <<s[n].id>> ELSE <<>>

(* All that a run has told so far, sent or not.                            *)
Log(j) == out[j] \o queue[j]

TellsAll(s, o) == \A n \in DOMAIN s : Tells(s, n) /\ (~o => Follows(s, n))

Told(j) ==
  /\ TellsAll(Log(j), odd[j])
  /\ \A n \in DOMAIN out[j] : IsTerminal(out[j][n]) => n = Len(out[j]) /\ stream[j] # "open"
  /\ stream[j] = "none" => out[j] = <<>>

(* What was said of id last, whether e was told, and how many tool blocks  *)
(* are over.                                                               *)
Lately(j, id) == LastOf(Log(j), Len(Log(j)), id)
Said(j, e) == \E m \in DOMAIN Log(j) : Log(j)[m] = e
Over(j) == Dones(Log(j), Len(Log(j)))
Idle == {"none", "text.stop", "thinking.stop"}

(* What is open, which calls wait for a result, and how far the steps are, *)
(* is what has been told.                                                  *)
OpenIs(j, i) ==
  \/ openBlocks[j][i] = Closed
  \/ openBlocks[j][i].id = BlockId(i) /\ openBlocks[j][i].type \in {"text", "thinking"}
  \/ /\ openBlocks[j][i].type = "tool_use"
     /\ \E n \in 1..tools[j] : openBlocks[j][i].id = ToolId(n)

Maps(j) ==
  /\ step[j] = Over(j)
  /\ \A i \in Indexes : OpenIs(j, i)
  /\ \A i, k \in Indexes : openBlocks[j][i] # Closed /\ openBlocks[j][i].id = openBlocks[j][k].id => i = k
  /\ \A n \in 1..MaxMessages : n > tools[j] => Lately(j, ToolId(n)) = "none"
  /\ \A id \in calls[j] : /\ \E n \in 1..tools[j] : id = ToolId(n)
                          /\ Lately(j, id) = "tool.input_done"
                          /\ \A i \in Indexes : openBlocks[j][i].id # id
  /\ block[j].type \in {"text", "thinking", "tool_use"} =>
       openBlocks[j][index[j]] =
         [id |-> IF block[j].type = "tool_use" THEN ToolId(tools[j]) ELSE BlockId(index[j]),
          type |-> block[j].type]

(* While the SDK is well-behaved, only its block is open and buffered.     *)
Fed(j, start, delta) == IF block[j].fed THEN delta ELSE start

MapsWell(j) ==
  /\ block[j].type # "other"
  /\ \A i \in Indexes :
       block[j] = NoBlock \/ i # index[j] => openBlocks[j][i] = Closed /\ buffers[j][i] = <<>>
  /\ \A i \in Indexes : openBlocks[j][i].id # BlockId(i) => Lately(j, BlockId(i)) \in Idle
  /\ block[j].type = "text" =>
       /\ Lately(j, BlockId(index[j])) = Fed(j, "text.start", "text.delta")
       /\ buffers[j][index[j]] = <<>>
  /\ block[j].type = "thinking" =>
       /\ Lately(j, BlockId(index[j])) = Fed(j, "thinking.start", "thinking.delta")
       /\ buffers[j][index[j]] = <<>>
  /\ block[j].type = "tool_use" =>
       /\ Lately(j, ToolId(tools[j])) = Fed(j, "tool.start", "tool.input_delta")
       /\ buffers[j][index[j]] = Fed(j, <<>>, <<ToolId(tools[j])>>)
       /\ Said(j, Event("tool.input_delta", ToolId(tools[j]))) <=> block[j].fed

Mapped(j) == task[j] \in {"none", "running"} => Maps(j) /\ (~odd[j] => MapsWell(j))

Followed == \A j \in Runs : Told(j) /\ Mapped(j)

-----------------------------------------------------------------------------
(* Logs.                                                                   *)

(* A set of natural numbers has a least one, and one that is bounded has a *)
(* greatest.                                                               *)
LEMMA LeastNumber ==
  ASSUME NEW S \in SUBSET Nat, S # {}
  PROVE  \E i \in S : \A k \in S : i <= k
<1> DEFINE less == {pair \in Nat \X Nat : pair[1] < pair[2]}
<1>1. IsWellFoundedOn(less, Nat)
  BY NatLessThanWellFounded DEF OpToRel
<1> HIDE DEF less
<1>2. PICK i \in S : \A k \in S : <<k, i>> \notin less
  BY <1>1, WFMin
<1>3. \A k \in S : ~ (k < i)
  BY <1>2 DEF less
<1> QED
  BY <1>3

LEMMA GreatestNumber ==
  ASSUME NEW n \in Nat, NEW S \in SUBSET (1..n), S # {}
  PROVE  \E i \in S : \A k \in S : k <= i
<1> DEFINE T == {n - k : k \in S}
<1>1. T \in SUBSET Nat /\ T # {}
  <2>1. \A k \in S : n - k \in Nat
    OBVIOUS
  <2> QED
    BY <2>1
<1>2. PICK d \in T : \A e \in T : d <= e
  <2> HIDE DEF T
  <2> QED
    BY <1>1, LeastNumber
<1>3. PICK i \in S : d = n - i
  OBVIOUS
<1>4. \A k \in S : n - i <= n - k
  BY <1>2, <1>3
<1> QED
  BY <1>4

(* The last event about id, if there is one.                               *)
LEMMA LastIsLast ==
  ASSUME NEW s, NEW n \in Nat, NEW id
  PROVE  \/ /\ LastOf(s, n, id) = "none"
            /\ \A m \in 1..n : ~("id" \in DOMAIN s[m] /\ s[m].id = id)
         \/ \E m \in 1..n : /\ "id" \in DOMAIN s[m] /\ s[m].id = id /\ LastOf(s, n, id) = s[m].type
                            /\ \A k \in 1..n : "id" \in DOMAIN s[k] /\ s[k].id = id => k <= m
<1> DEFINE about == {m \in 1..n : "id" \in DOMAIN s[m] /\ s[m].id = id}
<1>1. CASE about = {}
  BY <1>1 DEF LastOf
<1>2. CASE about # {}
  <2>1. \E m \in about : \A k \in about : k <= m
    <3>1. about \in SUBSET (1..n)
      OBVIOUS
    <3> HIDE DEF about
    <3> QED
      BY <1>2, <3>1, GreatestNumber
  <2> DEFINE m == CHOOSE m \in about : \A k \in about : k <= m
  <2>2. m \in about /\ \A k \in about : k <= m
    <3> HIDE DEF about
    <3> QED
      BY <2>1
  <2>3. LastOf(s, n, id) = s[m].type
    BY <1>2 DEF LastOf
  <2> HIDE DEF m
  <2> QED
    BY <2>2, <2>3
<1> QED
  BY <1>1, <1>2

(* It depends on those n events only, and each event changes it or not.    *)
LEMMA LastAgrees ==
  ASSUME NEW s, NEW t, NEW n \in Nat, NEW id, \A m \in 1..n : t[m] = s[m]
  PROVE  LastOf(t, n, id) = LastOf(s, n, id)
<1> DEFINE about(x) == {m \in 1..n : "id" \in DOMAIN x[m] /\ x[m].id = id}
<1>1. about(t) = about(s)
  OBVIOUS
<1>2. (CHOOSE m \in about(t) : \A k \in about(t) : k <= m)
        = CHOOSE m \in about(s) : \A k \in about(s) : k <= m
  <2> HIDE DEF about
  <2> QED
    BY <1>1
<1>3. about(s) # {} => (CHOOSE m \in about(s) : \A k \in about(s) : k <= m) \in 1..n
  <2>1. about(s) \in SUBSET (1..n)
    OBVIOUS
  <2> HIDE DEF about
  <2> QED
    BY <2>1, GreatestNumber
<1> DEFINE last(x) == CHOOSE m \in about(x) : \A k \in about(x) : k <= m
<1>4. \A x : LastOf(x, n, id) = IF about(x) = {} THEN "none" ELSE x[last(x)].type
  BY DEF LastOf
<1> HIDE DEF about
<1>5. about(s) # {} => last(s) \in 1..n /\ last(t) = last(s)
  BY <1>2, <1>3
<1> HIDE DEF last
<1> QED
  BY <1>1, <1>4, <1>5

LEMMA LastSteps ==
  ASSUME NEW s, NEW n \in Nat, NEW id
  PROVE  LastOf(s, n + 1, id) = IF "id" \in DOMAIN s[n + 1] /\ s[n + 1].id = id
                                  THEN s[n + 1].type ELSE LastOf(s, n, id)
<1>1. n + 1 \in Nat /\ n + 1 \in 1..(n + 1) /\ 1..n \subseteq 1..(n + 1)
      /\ \A m \in 1..(n + 1) : m = n + 1 \/ m \in 1..n
  OBVIOUS
<1>2. CASE "id" \in DOMAIN s[n + 1] /\ s[n + 1].id = id
  <2>1. PICK m \in 1..(n + 1) :
          /\ LastOf(s, n + 1, id) = s[m].type
          /\ \A k \in 1..(n + 1) : "id" \in DOMAIN s[k] /\ s[k].id = id => k <= m
    BY <1>1, <1>2, LastIsLast
  <2>2. m = n + 1
    BY <1>1, <1>2, <2>1
  <2> QED
    BY <1>2, <2>1, <2>2
<1>3. CASE ~("id" \in DOMAIN s[n + 1] /\ s[n + 1].id = id)
  <2> DEFINE about(k) == {m \in 1..k : "id" \in DOMAIN s[m] /\ s[m].id = id}
  <2>1. about(n + 1) = about(n)
    BY <1>1, <1>3
  <2> DEFINE last(k) == CHOOSE m \in about(k) : \A i \in about(k) : i <= m
  <2>2. \A k : LastOf(s, k, id) = IF about(k) = {} THEN "none" ELSE s[last(k)].type
    BY DEF LastOf
  <2>3. last(n + 1) = last(n)
    <3> HIDE DEF about
    <3> QED
      BY <2>1
  <2> HIDE DEF about, last
  <2> QED
    BY <1>3, <2>1, <2>2, <2>3
<1> QED
  BY <1>2, <1>3

LEMMA DonesAgree ==
  ASSUME NEW s, NEW t, NEW n \in Nat, \A m \in 1..n : t[m] = s[m]
  PROVE  Dones(t, n) = Dones(s, n)
<1>1. {m \in 1..n : t[m].type = "tool.input_done"} = {m \in 1..n : s[m].type = "tool.input_done"}
  OBVIOUS
<1> QED
  BY <1>1 DEF Dones

LEMMA DonesStep ==
  ASSUME NEW s, NEW n \in Nat
  PROVE  /\ Dones(s, n) \in Nat
         /\ Dones(s, n + 1) = Dones(s, n) + (IF s[n + 1].type = "tool.input_done" THEN 1 ELSE 0)
<1> DEFINE done(k) == {m \in 1..k : s[m].type = "tool.input_done"}
<1>1. IsFiniteSet(done(n)) /\ Cardinality(done(n)) \in Nat /\ n + 1 \notin done(n)
  <2>1. IsFiniteSet(1..n)
    BY FS_Interval
  <2>2. IsFiniteSet(done(n))
    BY <2>1, FS_Subset
  <2> QED
    BY <2>2, FS_CardinalityType
<1>0. \A k : Dones(s, k) = Cardinality(done(k))
  BY DEF Dones
<1>2. CASE s[n + 1].type = "tool.input_done"
  <2>1. done(n + 1) = done(n) \cup {n + 1}
    BY <1>2
  <2>2. Cardinality(done(n) \cup {n + 1}) = Cardinality(done(n)) + 1
    <3> HIDE DEF done
    <3> QED
      BY <1>1, FS_AddElement
  <2> HIDE DEF done
  <2> QED
    BY <1>0, <1>1, <1>2, <2>1, <2>2
<1>3. CASE s[n + 1].type # "tool.input_done"
  <2>1. done(n + 1) = done(n)
    BY <1>3
  <2> HIDE DEF done
  <2> QED
    BY <1>0, <1>1, <1>3, <2>1
<1> QED
  BY <1>2, <1>3

(* What is said of an event depends on those up to it only.                *)
LEMMA TellsAgree ==
  ASSUME NEW s, NEW t, NEW n \in Nat \ {0}, \A m \in 1..n : t[m] = s[m]
  PROVE  (Tells(t, n) <=> Tells(s, n)) /\ (Follows(t, n) <=> Follows(s, n))
<1>1. n - 1 \in Nat /\ n \in 1..n /\ \A m \in 1..(n - 1) : t[m] = s[m]
  OBVIOUS
<1>2. \A id : LastOf(t, n - 1, id) = LastOf(s, n - 1, id)
  BY <1>1, LastAgrees
<1>3. Dones(t, n) = Dones(s, n)
  BY DonesAgree
<1>4. t[n] = s[n] /\ (n > 1 => t[n - 1] = s[n - 1])
  BY <1>1
<1>5. \A e : (\E m \in 1..n : t[m] = e) <=> (\E m \in 1..n : s[m] = e)
  OBVIOUS
<1>6. Tells(t, n) <=> Tells(s, n)
  BY <1>2, <1>3, <1>4 DEF Tells
<1>7. Follows(t, n) <=> Follows(s, n)
  BY <1>2, <1>4, <1>5 DEF Follows
<1> QED
  BY <1>6, <1>7

(* A log with one more event.                                              *)
More(s, t, e) == /\ Len(s) \in Nat
                 /\ Len(t) = Len(s) + 1 /\ t[Len(s) + 1] = e
                 /\ \A m \in 1..Len(s) : t[m] = s[m]

LEMMA OneMore ==
  ASSUME NEW s \in Seq(Items), NEW e \in Items
  PROVE  More(s, s \o <<e>>, e) /\ s \o <<e>> \in Seq(Items)
BY DEF More

LEMMA MoreShape ==
  ASSUME NEW s \in Seq(Items), NEW t \in Seq(Items), NEW e, More(s, t, e)
  PROVE  /\ Len(s) \in Nat /\ DOMAIN s = 1..Len(s) /\ DOMAIN t = 1..Len(t)
         /\ Len(t) = Len(s) + 1 /\ Len(t) - 1 = Len(s) /\ Len(t) \in Nat \ {0}
         /\ t[Len(t)] = e /\ \A m \in 1..Len(s) : t[m] = s[m]
BY DEF More

LEMMA MoreAgrees ==
  ASSUME NEW s \in Seq(Items), NEW t \in Seq(Items), NEW e, More(s, t, e), NEW n \in DOMAIN s
  PROVE  (Tells(t, n) <=> Tells(s, n)) /\ (Follows(t, n) <=> Follows(s, n))
<1>1. n \in Nat \ {0} /\ \A m \in 1..n : t[m] = s[m]
  BY MoreShape
<1> QED
  BY <1>1, TellsAgree

LEMMA MoreLast ==
  ASSUME NEW s, NEW t, NEW e, More(s, t, e), NEW id
  PROVE  /\ LastOf(t, Len(s), id) = LastOf(s, Len(s), id)
         /\ LastOf(t, Len(t), id) = IF "id" \in DOMAIN e /\ e.id = id
                                      THEN e.type ELSE LastOf(s, Len(s), id)
<1>1. Len(s) \in Nat /\ \A m \in 1..Len(s) : t[m] = s[m]
  BY DEF More
<1>2. LastOf(t, Len(s), id) = LastOf(s, Len(s), id)
  BY <1>1, LastAgrees
<1>3. LastOf(t, Len(s) + 1, id) = IF "id" \in DOMAIN t[Len(s) + 1] /\ t[Len(s) + 1].id = id
                                    THEN t[Len(s) + 1].type ELSE LastOf(t, Len(s), id)
  BY <1>1, LastSteps
<1>4. Len(t) = Len(s) + 1 /\ t[Len(s) + 1] = e
  BY DEF More
<1> QED
  BY <1>2, <1>3, <1>4

LEMMA MoreDones ==
  ASSUME NEW s \in Seq(Items), NEW t \in Seq(Items), NEW e, More(s, t, e)
  PROVE  Dones(t, Len(t)) = Dones(s, Len(s)) + (IF e.type = "tool.input_done" THEN 1 ELSE 0)
<1>1. Dones(t, Len(s)) = Dones(s, Len(s))
  BY MoreShape, DonesAgree
<1>2. Dones(t, Len(s) + 1) = Dones(t, Len(s)) + (IF t[Len(s) + 1].type = "tool.input_done" THEN 1 ELSE 0)
  BY MoreShape, DonesStep
<1> QED
  BY <1>1, <1>2, MoreShape

LEMMA MoreTold ==
  ASSUME NEW s \in Seq(Items), NEW t \in Seq(Items), NEW e, More(s, t, e),
         NEW o \in BOOLEAN, NEW p \in BOOLEAN, o => p, TellsAll(s, o),
         Tells(t, Len(t)), ~p => Follows(t, Len(t))
  PROVE  TellsAll(t, p)
<1> SUFFICES ASSUME NEW n \in DOMAIN t PROVE Tells(t, n) /\ (~p => Follows(t, n))
  BY DEF TellsAll
<1>1. CASE n = Len(t)
  BY <1>1
<1>2. CASE n \in DOMAIN s
  <2>1. Tells(s, n) /\ (~o => Follows(s, n))
    BY <1>2 DEF TellsAll
  <2>2. (Tells(t, n) <=> Tells(s, n)) /\ (Follows(t, n) <=> Follows(s, n))
    BY <1>2, MoreAgrees
  <2> QED
    BY <2>1, <2>2
<1>3. n = Len(t) \/ n \in DOMAIN s
  BY DEF More
<1> QED
  BY <1>1, <1>2, <1>3

-----------------------------------------------------------------------------
(* What a run has told.                                                    *)

LEMMA LogTypes ==
  ASSUME TypeOK, NEW j \in Runs
  PROVE  Log(j) \in Seq(Items)
<1>1. out[j] \in Seq(Items) /\ queue[j] \in Seq(Items)
  BY SeqMonotonic DEF TypeOK, Items
<1> QED
  BY <1>1 DEF Log

LEMMA ItemsAssociate ==
  ASSUME NEW a \in Seq(Items), NEW b \in Seq(Items), NEW c \in Seq(Items)
  PROVE  a \o (b \o c) = (a \o b) \o c
<1>1. (a \o b) \o c = a \o (b \o c)
  BY ConcatAssociative
<1> QED
  BY <1>1

LEMMA EmitLog ==
  ASSUME TypeOK, NEW j \in Runs, NEW events \in Seq(Items),
         queue' = [queue EXCEPT ![j] = @ \o events], out' = out
  PROVE  Log(j)' = Log(j) \o events
<1>1. out[j] \in Seq(Items) /\ queue[j] \in Seq(Items)
  BY SeqMonotonic DEF TypeOK, Items
<1>2. queue'[j] = queue[j] \o events /\ out'[j] = out[j]
  BY DEF TypeOK
<1>3. out[j] \o (queue[j] \o events) = (out[j] \o queue[j]) \o events
  BY <1>1, ItemsAssociate, Zenon
<1>4. out'[j] \o queue'[j] = (out[j] \o queue[j]) \o events
  BY <1>2, <1>3
<1> QED
  BY <1>4 DEF Log

LEMMA EmitNothing ==
  ASSUME NEW j \in Runs, UNCHANGED <<queue, out>>
  PROVE  Log(j)' = Log(j)
BY DEF Log

(* It is enough to look at the run that moves.                             *)
LEMMA FollowedElsewhere ==
  ASSUME Followed, NEW j \in Runs, Told(j)', Mapped(j)',
         \A k \in Runs \ {j} :
           /\ out'[k] = out[k] /\ queue'[k] = queue[k] /\ odd'[k] = odd[k]
           /\ stream'[k] = stream[k] /\ task'[k] = task[k] /\ step'[k] = step[k]
           /\ openBlocks'[k] = openBlocks[k] /\ buffers'[k] = buffers[k]
           /\ tools'[k] = tools[k] /\ calls'[k] = calls[k] /\ block'[k] = block[k]
           /\ index'[k] = index[k]
  PROVE  Followed'
<1> SUFFICES ASSUME NEW k \in Runs \ {j} PROVE Told(k)' /\ Mapped(k)'
  BY DEF Followed
<1>1. Told(k) /\ Mapped(k) /\ Log(k)' = Log(k)
  BY DEF Followed, Log
<1>2. Told(k)'
  BY <1>1 DEF Told
<1>3. \A i : OpenIs(k, i)' <=> OpenIs(k, i)
  BY DEF OpenIs
<1>4. /\ \A id : Lately(k, id)' = Lately(k, id)
      /\ \A e : Said(k, e)' <=> Said(k, e)
      /\ Over(k)' = Over(k)
  BY <1>1 DEF Lately, Said, Over
<1>5. Maps(k)' <=> Maps(k)
  BY <1>1, <1>3, <1>4 DEF Maps
<1>6. MapsWell(k)' <=> MapsWell(k)
  BY <1>1, <1>4 DEF MapsWell, Fed
<1> QED
  BY <1>1, <1>2, <1>5, <1>6 DEF Mapped

(* Ids are told apart.                                                     *)
LEMMA IdsDiffer ==
  /\ \A n, m : ToolId(n) = ToolId(m) => n = m
  /\ \A i, k \in Nat : BlockId(i) = BlockId(k) => i = k
  /\ \A n, i : ToolId(n) # BlockId(i)
  /\ \A n : Closed.id # ToolId(n) /\ Closed.id # BlockId(n)
BY DEF ToolId, BlockId, Closed

(* What may come before what.                                              *)
LEMMA MayFollowIs ==
  /\ MayFollow["text.start"] = Idle /\ MayFollow["thinking.start"] = Idle
  /\ MayFollow["text.delta"] = {"text.start", "text.delta"}
  /\ MayFollow["text.stop"] = {"text.start", "text.delta"}
  /\ MayFollow["thinking.delta"] = {"thinking.start", "thinking.delta"}
  /\ MayFollow["thinking.stop"] = {"thinking.start", "thinking.delta"}
  /\ MayFollow["tool.start"] = {"none"}
  /\ MayFollow["tool.input_delta"] = {"tool.start", "tool.input_delta"}
  /\ MayFollow["tool.input_done"] = {"tool.start", "tool.input_delta"}
  /\ MayFollow["tool.result"] = {"tool.input_done"}
BY DEF MayFollow, BlockEvents, Idle

(* One more event is told rightly.                                         *)
LEMMA EventTold ==
  ASSUME NEW s \in Seq(Items), NEW e \in Items, NEW o \in BOOLEAN, NEW p \in BOOLEAN, o => p,
         TellsAll(s, o),
         e.type = "tool.result" => LastOf(s, Len(s), e.id) = "tool.input_done",
         e.type = "agent.step" =>
           Len(s) > 0 /\ s[Len(s)].type = "tool.input_done" /\ e.step = Dones(s, Len(s)),
         ~p /\ "id" \in DOMAIN e => LastOf(s, Len(s), e.id) \in MayFollow[e.type],
         ~p /\ e.type = "tool.input_delta" => LastOf(s, Len(s), e.id) = "tool.start",
         ~p /\ e.type = "tool.input_done" =>
           e.input = IF \E m \in DOMAIN s : s[m] = Event("tool.input_delta", e.id)
                       THEN <<e.id>> ELSE <<>>
  PROVE  TellsAll(s \o <<e>>, p)
<1> DEFINE t == s \o <<e>>
<1>1. t \in Seq(Items) /\ More(s, t, e)
  BY OneMore
<1> HIDE DEF t
<1>2. /\ Len(s) \in Nat /\ Len(t) = Len(s) + 1 /\ Len(t) - 1 = Len(s) /\ t[Len(t)] = e
      /\ DOMAIN t = 1..Len(t)
      /\ Len(s) > 0 => t[Len(s)] = s[Len(s)]
  BY <1>1 DEF More
<1>3. /\ \A id : LastOf(t, Len(t) - 1, id) = LastOf(s, Len(s), id)
      /\ Dones(t, Len(t)) = Dones(s, Len(s)) + (IF e.type = "tool.input_done" THEN 1 ELSE 0)
      /\ \A f : (\E m \in DOMAIN t : t[m] = f) <=> f = e \/ \E m \in DOMAIN s : s[m] = f
  <2>1. \A id : LastOf(t, Len(s), id) = LastOf(s, Len(s), id)
    BY <1>1, MoreLast
  <2>2. Dones(t, Len(t)) = Dones(s, Len(s)) + (IF e.type = "tool.input_done" THEN 1 ELSE 0)
    BY <1>1, MoreDones
  <2>3. \A f : (\E m \in DOMAIN t : t[m] = f) <=> f = e \/ \E m \in DOMAIN s : s[m] = f
    <3>1. DOMAIN t = DOMAIN s \cup {Len(s) + 1}
      BY <1>1 DEF More
    <3>2. t[Len(s) + 1] = e /\ \A m \in DOMAIN s : t[m] = s[m]
      BY <1>1 DEF More
    <3> QED
      BY <3>1, <3>2
  <2> QED
    BY <1>2, <2>1, <2>2, <2>3
<1>4. Dones(s, Len(s)) \in Nat
  BY <1>2, DonesStep
<1>5. Tells(t, Len(t))
  BY <1>2, <1>3, <1>4 DEF Tells
<1>6. ASSUME ~p PROVE Follows(t, Len(t))
  <2>1. e.type = "tool.input_done" => e # Event("tool.input_delta", e.id)
    BY DEF Event
  <2>2. e.type = "tool.input_done" =>
          ((\E m \in 1..Len(t) : t[m] = Event("tool.input_delta", e.id))
             <=> \E m \in DOMAIN s : s[m] = Event("tool.input_delta", e.id))
    BY <1>2, <1>3, <2>1
  <2> QED
    BY <1>2, <1>3, <1>6, <2>2 DEF Follows
<1> QED
  <2>1. TellsAll(t, p)
    BY <1>1, <1>5, <1>6, MoreTold
  <2> QED
    BY <2>1 DEF t

(* Of an id that nothing was said of, no event was told.                   *)
LEMMA NothingSaid ==
  ASSUME NEW s \in Seq(Items), NEW id, LastOf(s, Len(s), id) = "none"
  PROVE  \A k \in DOMAIN s : ~("id" \in DOMAIN s[k] /\ s[k].id = id)
<1>1. Len(s) \in Nat /\ DOMAIN s = 1..Len(s)
  OBVIOUS
<1>2. \A m \in 1..Len(s) : s[m].type # "none"
  <2>1. \A e \in Items : e.type # "none"
    BY DEF Items, Events, Sentinel, Error, Result, BlockEvents
  <2> QED
    BY <2>1
<1>3. SUFFICES ASSUME NEW k \in 1..Len(s), "id" \in DOMAIN s[k], s[k].id = id PROVE FALSE
  BY <1>1
<1>4. PICK m \in 1..Len(s) : LastOf(s, Len(s), id) = s[m].type
  BY <1>1, <1>3, LastIsLast
<1> QED
  BY <1>2, <1>4

LEMMA NeverSaid ==
  ASSUME TypeOK, NEW j \in Runs, NEW id, Lately(j, id) = "none", NEW type
  PROVE  ~Said(j, Event(type, id))
<1> DEFINE s == Log(j)
<1>1. s \in Seq(Items)
  BY LogTypes
<1>2. LastOf(s, Len(s), id) = "none"
  BY DEF Lately
<1> HIDE DEF s
<1>3. \A k \in DOMAIN s : ~("id" \in DOMAIN s[k] /\ s[k].id = id)
  BY <1>1, <1>2, NothingSaid
<1>4. \A k \in DOMAIN s : s[k] # Event(type, id)
  BY <1>3 DEF Event
<1> QED
  BY <1>4 DEF Said, s

LEMMA EmitLately ==
  ASSUME TypeOK, NEW j \in Runs, NEW e \in Events, Emit(j, <<e>>), out' = out
  PROVE  /\ \A id : Lately(j, id)' = IF "id" \in DOMAIN e /\ e.id = id THEN e.type ELSE Lately(j, id)
         /\ Over(j)' = Over(j) + (IF e.type = "tool.input_done" THEN 1 ELSE 0)
         /\ \A f : Said(j, f)' <=> f = e \/ Said(j, f)
<1> DEFINE s == Log(j)  t == s \o <<e>>
<1>1. s \in Seq(Items) /\ e \in Items /\ <<e>> \in Seq(Items)
  BY LogTypes DEF Items
<1>2. Log(j)' = t
  BY <1>1, EmitLog DEF Emit
<1> HIDE DEF s
<1>3. t \in Seq(Items) /\ More(s, t, e)
  BY <1>1, OneMore
<1> HIDE DEF t
<1>4. \A id : LastOf(t, Len(t), id) = IF "id" \in DOMAIN e /\ e.id = id THEN e.type ELSE LastOf(s, Len(s), id)
  BY <1>1, <1>3, MoreLast
<1>5. Dones(t, Len(t)) = Dones(s, Len(s)) + (IF e.type = "tool.input_done" THEN 1 ELSE 0)
  BY <1>1, <1>3, MoreDones
<1>6. \A f : (\E m \in DOMAIN t : t[m] = f) <=> f = e \/ \E m \in DOMAIN s : s[m] = f
  <2>1. DOMAIN t = DOMAIN s \cup {Len(s) + 1}
    BY <1>1, <1>3 DEF More
  <2>2. t[Len(s) + 1] = e /\ \A m \in DOMAIN s : t[m] = s[m]
    BY <1>1, <1>3 DEF More
  <2> QED
    BY <2>1, <2>2
<1>7. s = Log(j)
  BY DEF s
<1>8. \A id : Lately(j, id)' = LastOf(t, Len(t), id) /\ Lately(j, id) = LastOf(s, Len(s), id)
  BY <1>2, <1>7 DEF Lately
<1>9. Over(j)' = Dones(t, Len(t)) /\ Over(j) = Dones(s, Len(s))
  BY <1>2, <1>7 DEF Over
<1>10. \A f : (Said(j, f)' <=> \E m \in DOMAIN t : t[m] = f) /\ (Said(j, f) <=> \E m \in DOMAIN s : s[m] = f)
  BY <1>2, <1>7 DEF Said
<1>11. \A f : Said(j, f)' <=> f = e \/ Said(j, f)
  BY <1>6, <1>10
<1> QED
  BY <1>4, <1>5, <1>8, <1>9, <1>11

(* Told, if the event that is put into the queue may come now.             *)
LEMMA EmitTold ==
  ASSUME TypeOK, NEW j \in Runs, Told(j), NEW e \in Events, Emit(j, <<e>>),
         UNCHANGED <<out, stream>>, odd' \in [Runs -> BOOLEAN], odd[j] => odd'[j],
         e.type # "agent.step",
         e.type = "tool.result" => Lately(j, e.id) = "tool.input_done",
         ~odd'[j] /\ "id" \in DOMAIN e => Lately(j, e.id) \in MayFollow[e.type],
         ~odd'[j] /\ e.type = "tool.input_delta" => Lately(j, e.id) = "tool.start",
         e.type # "tool.input_done"
  PROVE  Told(j)'
<1> DEFINE s == Log(j)
<1>1. s \in Seq(Items) /\ e \in Items /\ <<e>> \in Seq(Items)
  BY LogTypes DEF Items
<1>2. Log(j)' = s \o <<e>>
  BY <1>1, EmitLog DEF Emit
<1>3. odd[j] \in BOOLEAN /\ odd'[j] \in BOOLEAN
  BY DEF TypeOK
<1>4. TellsAll(s, odd[j])
  BY DEF Told
<1>5. \A id : LastOf(s, Len(s), id) = Lately(j, id)
  BY DEF Lately
<1> HIDE DEF s
<1>6. TellsAll(s \o <<e>>, odd'[j])
  BY <1>1, <1>3, <1>4, <1>5, EventTold
<1>7. TellsAll(Log(j)', odd'[j])
  BY <1>2, <1>6
<1> QED
  BY <1>7 DEF Told

(* The SDK's messages.                                                     *)

(* What is known of a run whose SDK yields a message.                      *)
LEMMA YieldKnows ==
  ASSUME TypeOK, Budget, Followed, NEW j \in Runs, Yields(j)
  PROVE  /\ Told(j) /\ Maps(j) /\ (~odd[j] => MapsWell(j))
         /\ odd[j] \in BOOLEAN /\ index[j] \in 0..MaxBlocks /\ tools[j] \in Nat
         /\ tools[j] + 1 \in 1..MaxMessages
         /\ block[j] # NoBlock => index[j] \in Indexes
         /\ block[j] \in SdkBlock /\ openBlocks[j] \in [Indexes -> OpenBlock]
         /\ buffers[j] \in [Indexes -> Seq(Ids)]
         /\ UNCHANGED <<out, stream, task>>
<1>1. Told(j) /\ Maps(j) /\ (~odd[j] => MapsWell(j))
  BY DEF Followed, Mapped, Yields
<1>2. /\ odd[j] \in BOOLEAN /\ index[j] \in 0..MaxBlocks /\ tools[j] \in Nat
      /\ block[j] \in SdkBlock /\ openBlocks[j] \in [Indexes -> OpenBlock]
      /\ buffers[j] \in [Indexes -> Seq(Ids)]
  BY EngineJobAssumption DEF TypeOK
<1>3. block[j] # NoBlock => index[j] < MaxBlocks
  BY DEF Budget, Room
<1>4. block[j] # NoBlock => index[j] \in Indexes
  BY <1>2, <1>3, EngineJobAssumption DEF Indexes
<1> QED
  BY <1>1, <1>2, <1>4, YieldTypes DEF Yields

LEMMA BlockStartFollowed ==
  ASSUME TypeOK, Budget, Followed, NEW j \in Runs, NEW kind \in Kinds, BlockStart(j, kind)
  PROVE  Told(j)' /\ Mapped(j)'
<1> DEFINE i  == index[j]
           id == IF kind = "tool_use" THEN ToolId(tools[j] + 1) ELSE BlockId(i)
           e  == Event(StartOf[kind], id)
<1>1. Yields(j)
  BY DEF BlockStart
<1>2. /\ Told(j) /\ Maps(j) /\ (~odd[j] => MapsWell(j))
      /\ odd[j] \in BOOLEAN /\ tools[j] \in Nat
      /\ tools[j] + 1 \in 1..MaxMessages
      /\ openBlocks[j] \in [Indexes -> OpenBlock]
      /\ UNCHANGED <<out, stream, task>>
  BY <1>1, YieldKnows
<1>3. i \in Indexes /\ i \in Nat /\ block[j] = NoBlock
  BY EngineJobAssumption DEF BlockStart, TypeOK, Indexes
<1>4. /\ odd'[j] = (odd[j] \/ kind = "other") /\ odd' \in [Runs -> BOOLEAN]
      /\ block'[j] = [type |-> kind, fed |-> FALSE]
      /\ tools'[j] = IF kind = "tool_use" THEN tools[j] + 1 ELSE tools[j]
      /\ buffers'[j] = buffers[j] /\ step'[j] = step[j] /\ index'[j] = i /\ calls'[j] = calls[j]
  BY <1>2 DEF BlockStart, TypeOK
<1>5. CASE kind = "other"
  <2>1. openBlocks' = openBlocks /\ queue' = queue /\ odd'[j] /\ tools'[j] = tools[j]
        /\ block'[j].type = "other"
    <3>1. openBlocks' = openBlocks /\ queue' = queue
      BY <1>5 DEF BlockStart
    <3>2. odd'[j]
      BY <1>4, <1>5
    <3>3. tools'[j] = tools[j] /\ block'[j].type = "other"
      BY <1>4, <1>5
    <3> QED
      BY <3>1, <3>2, <3>3
  <2>2. Log(j)' = Log(j)
    BY <1>2, <2>1, EmitNothing
  <2>3. Told(j)'
    <3> DEFINE s == Log(j)
    <3>1. TellsAll(s, odd[j])
      BY <1>2 DEF Told
    <3> HIDE DEF s
    <3>2. TellsAll(s, odd'[j])
      BY <2>1, <3>1 DEF TellsAll
    <3>3. TellsAll(Log(j)', odd'[j])
      BY <2>2, <3>2 DEF s
    <3> QED
      BY <1>2, <3>3 DEF Told
  <2>4. \A k : OpenIs(j, k)' <=> OpenIs(j, k)
    BY <2>1 DEF OpenIs
  <2>5. (\A x : Lately(j, x)' = Lately(j, x)) /\ Over(j)' = Over(j)
    BY <2>2 DEF Lately, Over
  <2>6. Maps(j)'
    BY <1>2, <1>4, <2>1, <2>4, <2>5 DEF Maps
  <2> QED
    BY <2>1, <2>3, <2>6 DEF Mapped
<1>6. CASE kind # "other"
  <2>1. /\ Emit(j, <<e>>) /\ openBlocks'[j] = [openBlocks[j] EXCEPT ![i] = [id |-> id, type |-> kind]]
    BY <1>6 DEF BlockStart, TypeOK
  <2>2. id \in Ids /\ StartOf[kind] \in {"text.start", "thinking.start", "tool.start"}
    BY <1>2, <1>3, <1>6, IdsAreIds DEF Kinds, StartOf
  <2>3. e \in Events
    BY <2>2, EventsAreEvents DEF BlockEvents
  <2>4. e.id = id /\ e.type = StartOf[kind] /\ "id" \in DOMAIN e
    BY DEF Event
  <2>5. /\ \A x : Lately(j, x)' = IF x = id THEN StartOf[kind] ELSE Lately(j, x)
        /\ Over(j)' = Over(j)
        /\ \A f : Said(j, f)' <=> f = e \/ Said(j, f)
    <3>1. Over(j) \in Nat
      BY LogTypes, DonesStep DEF Over
    <3> HIDE DEF e
    <3> QED
      BY <1>2, <2>1, <2>2, <2>3, <2>4, <3>1, EmitLately
  <2>6. ~odd'[j] => Lately(j, id) \in MayFollow[StartOf[kind]]
    <3>1. CASE kind = "tool_use"
      <4>1. Lately(j, ToolId(tools[j] + 1)) = "none"
        BY <1>2 DEF Maps
      <4> QED
        BY <3>1, <4>1, MayFollowIs DEF StartOf
    <3>2. CASE kind \in {"text", "thinking"}
      <4>1. ASSUME ~odd'[j] PROVE Lately(j, BlockId(i)) \in Idle
        <5>1. MapsWell(j)
          BY <1>2, <1>4, <4>1
        <5>2. openBlocks[j][i].id # BlockId(i)
          BY <1>3, <5>1, IdsDiffer DEF MapsWell
        <5> QED
          BY <1>3, <5>1, <5>2 DEF MapsWell
      <4> QED
        BY <3>2, <4>1, MayFollowIs DEF StartOf
    <3> QED
      BY <1>6, <3>1, <3>2 DEF Kinds
  <2>7. Told(j)'
    <3>1. odd[j] => odd'[j]
      BY <1>4
    <3> HIDE DEF e, id
    <3> QED
      BY <1>2, <1>4, <2>1, <2>2, <2>3, <2>4, <2>6, <3>1, EmitTold
  <2>8. Maps(j)'
    <3>1. step'[j] = Over(j)'
      BY <1>2, <1>4, <2>5 DEF Maps
    <3>2. ASSUME NEW k \in Indexes PROVE OpenIs(j, k)'
      <4>1. CASE k = i /\ kind = "tool_use"
        <5>1. openBlocks'[j][i] = [id |-> ToolId(tools'[j]), type |-> "tool_use"] /\ tools'[j] \in 1..tools'[j]
          BY <1>2, <1>3, <1>4, <2>1, <4>1
        <5> QED
          BY <4>1, <5>1 DEF OpenIs
      <4>2. CASE k = i /\ kind # "tool_use"
        BY <1>2, <1>3, <1>6, <2>1, <4>2 DEF OpenIs, Kinds
      <4>3. CASE k # i
        <5>1. OpenIs(j, k) /\ openBlocks'[j][k] = openBlocks[j][k] /\ 1..tools[j] \subseteq 1..tools'[j]
          BY <1>2, <1>4, <2>1, <4>3 DEF Maps
        <5> QED
          BY <5>1 DEF OpenIs
      <4> QED
        BY <4>1, <4>2, <4>3
    <3>3. ASSUME NEW k \in Indexes, k # i, openBlocks[j][k] # Closed PROVE openBlocks[j][k].id # id
      <4>1. OpenIs(j, k)
        BY <1>2 DEF Maps
      <4>2. CASE openBlocks[j][k].id = BlockId(k)
        BY <1>3, <3>3, <4>2, IdsDiffer DEF Indexes
      <4>3. CASE \E n \in 1..tools[j] : openBlocks[j][k].id = ToolId(n)
        <5>1. PICK n \in 1..tools[j] : openBlocks[j][k].id = ToolId(n)
          BY <4>3
        <5>2. n # tools[j] + 1
          BY <1>2
        <5> QED
          BY <5>1, <5>2, IdsDiffer
      <4> QED
        BY <3>3, <4>1, <4>2, <4>3 DEF OpenIs
    <3>4. Closed.id # id
      BY IdsDiffer
    <3>5. ASSUME NEW k \in Indexes, NEW m \in Indexes,
                 openBlocks'[j][k] # Closed, openBlocks'[j][k].id = openBlocks'[j][m].id
          PROVE  k = m
      <4>1. \A n \in Indexes : openBlocks'[j][n] = IF n = i THEN [id |-> id, type |-> kind] ELSE openBlocks[j][n]
        BY <1>2, <2>1
      <4>2. [id |-> id, type |-> kind].id = id
        OBVIOUS
      <4> HIDE DEF id
      <4>3. CASE k = i \/ m = i
        BY <3>3, <3>4, <3>5, <4>1, <4>2, <4>3
      <4>4. CASE k # i /\ m # i
        BY <1>2, <3>5, <4>1, <4>4 DEF Maps
      <4> QED
        BY <4>3, <4>4
    <3>6. ASSUME NEW n \in 1..MaxMessages, n > tools'[j] PROVE Lately(j, ToolId(n))' = "none"
      <4>1. n > tools[j] /\ ToolId(n) # id
        BY <1>2, <1>4, <3>6, IdsDiffer
      <4> QED
        BY <1>2, <2>5, <4>1 DEF Maps
    <3>7. ASSUME NEW x \in calls'[j]
          PROVE  /\ \E n \in 1..tools'[j] : x = ToolId(n)
                 /\ Lately(j, x)' = "tool.input_done"
                 /\ \A k \in Indexes : openBlocks'[j][k].id # x
      <4>1. /\ \E n \in 1..tools[j] : x = ToolId(n)
            /\ Lately(j, x) = "tool.input_done"
            /\ \A k \in Indexes : openBlocks[j][k].id # x
        BY <1>2, <1>4 DEF Maps
      <4>2. PICK n \in 1..tools[j] : x = ToolId(n)
        BY <4>1
      <4>3. n # tools[j] + 1 /\ n \in 1..tools'[j]
        BY <1>2, <1>4
      <4>4. x # id
        BY <4>2, <4>3, IdsDiffer
      <4>5. \A k \in Indexes : openBlocks'[j][k].id = IF k = i THEN id ELSE openBlocks[j][k].id
        BY <1>2, <2>1
      <4> HIDE DEF id
      <4> QED
        BY <2>5, <4>1, <4>2, <4>3, <4>4, <4>5
    <3>8. openBlocks'[j][i] = [id |-> IF kind = "tool_use" THEN ToolId(tools'[j]) ELSE BlockId(i), type |-> kind]
      BY <1>2, <1>3, <1>4, <2>1
    <3> HIDE DEF id, e
    <3> QED
      BY <1>4, <3>1, <3>2, <3>5, <3>6, <3>7, <3>8 DEF Maps
  <2>9. ASSUME ~odd'[j] PROVE MapsWell(j)'
    <3>1. MapsWell(j)
      BY <1>2, <1>4, <2>9
    <3>2. /\ block'[j].type = kind /\ block'[j].fed = FALSE /\ block'[j] # NoBlock
          /\ \A a, b : Fed(j, a, b)' = a
      BY <1>4, <1>6 DEF Fed, NoBlock, Kinds
    <3>3. \A k \in Indexes : openBlocks[j][k] = Closed /\ buffers[j][k] = <<>>
      BY <1>3, <3>1 DEF MapsWell
    <3>4. \A k \in Indexes : openBlocks'[j][k] = IF k = i THEN [id |-> id, type |-> kind] ELSE openBlocks[j][k]
      BY <1>2, <2>1
    <3>5. \A k \in Indexes : k # i => openBlocks'[j][k] = Closed /\ buffers'[j][k] = <<>>
      BY <1>4, <3>3, <3>4
    <3>6. ASSUME NEW k \in Indexes, openBlocks'[j][k].id # BlockId(k)
          PROVE  Lately(j, BlockId(k))' \in Idle
      <4>1. Lately(j, BlockId(k)) \in Idle
        BY <3>1, <3>3, IdsDiffer DEF MapsWell
      <4>2. BlockId(k) # id
        <5>1. CASE kind = "tool_use"
          BY <5>1, IdsDiffer
        <5>2. CASE kind # "tool_use" /\ k # i
          BY <1>3, <5>2, IdsDiffer DEF Indexes
        <5>3. CASE kind # "tool_use" /\ k = i
          BY <3>4, <3>6, <5>3
        <5> QED
          BY <5>1, <5>2, <5>3
      <4> QED
        BY <2>5, <4>1, <4>2
    <3>7. kind = "text" => Lately(j, BlockId(i))' = "text.start" /\ buffers'[j][i] = <<>>
      BY <1>3, <1>4, <2>5, <3>3 DEF StartOf
    <3>8. kind = "thinking" => Lately(j, BlockId(i))' = "thinking.start" /\ buffers'[j][i] = <<>>
      BY <1>3, <1>4, <2>5, <3>3 DEF StartOf
    <3>9. ASSUME kind = "tool_use", NEW x, x = ToolId(tools'[j])
          PROVE  /\ Lately(j, x)' = "tool.start" /\ buffers'[j][i] = <<>>
                 /\ ~ Said(j, Event("tool.input_delta", x))'
      <4>1. id = x /\ Lately(j, id) = "none"
        BY <1>2, <1>4, <3>9 DEF Maps
      <4>2. ~Said(j, Event("tool.input_delta", id))
        BY <4>1, NeverSaid
      <4>3. Event("tool.input_delta", id) # e
        BY <3>9 DEF Event, StartOf
      <4>4. buffers'[j][i] = <<>> /\ StartOf[kind] = "tool.start"
        BY <1>3, <1>4, <3>3, <3>9 DEF StartOf
      <4> HIDE DEF id, e
      <4>5. ~Said(j, Event("tool.input_delta", x)) /\ Event("tool.input_delta", x) # e
        BY <4>1, <4>2, <4>3
      <4>6. ~Said(j, Event("tool.input_delta", x))'
        BY <2>5, <4>5
      <4> QED
        BY <2>5, <4>1, <4>4, <4>6
    <3> HIDE DEF id, e
    <3> QED
      BY <1>4, <1>6, <3>2, <3>5, <3>6, <3>7, <3>8, <3>9 DEF MapsWell
  <2> QED
    BY <2>7, <2>8, <2>9 DEF Mapped
<1> QED
  BY <1>5, <1>6

(* The id of a delta or a stop.                                            *)
LEMMA OpenIds ==
  ASSUME NEW j \in Runs, Maps(j), tools[j] \in Nat, NEW i \in Indexes
  PROVE  /\ OpenAt(j, i).id = BlockId(i) \/ \E n \in 1..tools[j] : OpenAt(j, i).id = ToolId(n)
         /\ \A n \in 1..MaxMessages : n > tools[j] => OpenAt(j, i).id # ToolId(n)
         /\ \A x \in calls[j] : x # OpenAt(j, i).id
         /\ \A k \in Indexes : k # i => openBlocks[j][k] = Closed \/ openBlocks[j][k].id # OpenAt(j, i).id \/ OpenAt(j, i).id = BlockId(i)
         /\ OpenAt(j, i).type \in {"text", "thinking", "tool_use"}
         /\ OpenAt(j, i).type = "tool_use" => openBlocks[j][i] # Closed /\ openBlocks[j][i].id = OpenAt(j, i).id
<1>1. OpenIs(j, i)
  BY DEF Maps
<1>2. /\ OpenAt(j, i).id = BlockId(i) \/ \E n \in 1..tools[j] : OpenAt(j, i).id = ToolId(n)
      /\ OpenAt(j, i).type \in {"text", "thinking", "tool_use"}
      /\ OpenAt(j, i).type = "tool_use" => openBlocks[j][i] # Closed /\ openBlocks[j][i].id = OpenAt(j, i).id
  <2>1. CASE openBlocks[j][i] = Closed
    <3>1. OpenAt(j, i) = [id |-> BlockId(i), type |-> "text"]
      BY <2>1 DEF OpenAt
    <3> QED
      BY <3>1
  <2>2. CASE openBlocks[j][i] # Closed
    <3>1. OpenAt(j, i) = openBlocks[j][i]
      BY <2>2 DEF OpenAt
    <3> QED
      BY <1>1, <2>2, <3>1 DEF OpenIs
  <2> QED
    BY <2>1, <2>2
<1>3. ASSUME NEW n \in 1..MaxMessages, n > tools[j] PROVE OpenAt(j, i).id # ToolId(n)
  BY <1>2, <1>3, IdsDiffer
<1>4. ASSUME NEW x \in calls[j] PROVE x # OpenAt(j, i).id
  <2>1. (\E n \in 1..tools[j] : x = ToolId(n)) /\ openBlocks[j][i].id # x
    BY DEF Maps
  <2> QED
    BY <2>1, IdsDiffer DEF OpenAt
<1>5. \A k \in Indexes : k # i => openBlocks[j][k] = Closed \/ openBlocks[j][k].id # OpenAt(j, i).id \/ OpenAt(j, i).id = BlockId(i)
  BY DEF Maps, OpenAt
<1> QED
  BY <1>2, <1>3, <1>4, <1>5

LEMMA BlockDeltaFollowed ==
  ASSUME TypeOK, Budget, Followed, NEW j \in Runs, BlockDelta(j)
  PROVE  Told(j)' /\ Mapped(j)'
<1> DEFINE i == index[j]
           b == OpenAt(j, i)
           type == IF block[j].type \in {"tool_use", "other"} THEN "tool.input_delta"
                   ELSE IF block[j].type = "text" THEN "text.delta" ELSE "thinking.delta"
           e == Event(type, b.id)
<1>1. Yields(j)
  BY DEF BlockDelta
<1>2. /\ Told(j) /\ Maps(j) /\ (~odd[j] => MapsWell(j))
      /\ odd[j] \in BOOLEAN /\ tools[j] \in Nat
      /\ block[j] # NoBlock => index[j] \in Indexes
      /\ block[j] \in SdkBlock /\ openBlocks[j] \in [Indexes -> OpenBlock]
      /\ buffers[j] \in [Indexes -> Seq(Ids)]
      /\ UNCHANGED <<out, stream, task>>
  BY <1>1, YieldKnows
<1>3. i \in Indexes /\ block[j] # NoBlock /\ ~block[j].fed /\ block[j].type \in Kinds
  BY <1>2 DEF BlockDelta, SdkBlock
<1>4. /\ odd' = odd /\ block'[j] = [block[j] EXCEPT !.fed = TRUE]
      /\ tools' = tools /\ openBlocks' = openBlocks /\ step' = step /\ index' = index /\ calls' = calls
      /\ Emit(j, <<e>>)
  BY <1>3 DEF BlockDelta, TypeOK
<1>5. block'[j].type = block[j].type /\ block'[j].fed = TRUE /\ block'[j] # NoBlock
  BY <1>2, <1>3, <1>4 DEF SdkBlock, NoBlock
<1>6. b.id \in Ids /\ e \in Events /\ e.id = b.id /\ e.type = type /\ "id" \in DOMAIN e
      /\ type \in {"tool.input_delta", "text.delta", "thinking.delta"}
  BY <1>3, OpenTypes, EventsAreEvents DEF Event, BlockEvents
<1>7. /\ \A x : Lately(j, x)' = IF x = b.id THEN type ELSE Lately(j, x)
      /\ Over(j)' = Over(j)
      /\ \A f : Said(j, f)' <=> f = e \/ Said(j, f)
  <2>1. Over(j) \in Nat
    BY LogTypes, DonesStep DEF Over
  <2> HIDE DEF e, type, b
  <2> QED
    BY <1>2, <1>4, <1>6, <2>1, EmitLately
<1>8. ASSUME MapsWell(j)
      PROVE  /\ Lately(j, b.id) \in MayFollow[type]
             /\ type = "tool.input_delta" => Lately(j, b.id) = "tool.start" /\ b.id = ToolId(tools[j])
             /\ type # "tool.input_delta" => b.id = BlockId(i)
  <2>0. \A x, y : Fed(j, x, y) = x
    BY <1>3 DEF Fed
  <2>1. CASE block[j].type = "tool_use"
    <3>1. openBlocks[j][i] = [id |-> ToolId(tools[j]), type |-> "tool_use"]
      BY <1>2, <1>3, <2>1 DEF Maps
    <3>2. b.id = ToolId(tools[j])
      BY <3>1 DEF OpenAt, Closed
    <3>3. Lately(j, ToolId(tools[j])) = "tool.start"
      BY <1>8, <2>0, <2>1 DEF MapsWell
    <3> QED
      BY <2>1, <3>2, <3>3, MayFollowIs
  <2>2. CASE block[j].type = "text"
    <3>1. openBlocks[j][i] = [id |-> BlockId(i), type |-> "text"]
      BY <1>2, <1>3, <2>2 DEF Maps
    <3>2. b.id = BlockId(i)
      BY <3>1 DEF OpenAt
    <3>3. Lately(j, BlockId(i)) = "text.start"
      BY <1>8, <2>0, <2>2 DEF MapsWell
    <3> QED
      BY <2>2, <3>2, <3>3, MayFollowIs
  <2>3. CASE block[j].type = "thinking"
    <3>1. openBlocks[j][i] = [id |-> BlockId(i), type |-> "thinking"]
      BY <1>2, <1>3, <2>3 DEF Maps
    <3>2. b.id = BlockId(i)
      BY <3>1 DEF OpenAt
    <3>3. Lately(j, BlockId(i)) = "thinking.start"
      BY <1>8, <2>0, <2>3 DEF MapsWell
    <3> QED
      BY <2>3, <3>2, <3>3, MayFollowIs
  <2>4. block[j].type # "other"
    BY <1>8 DEF MapsWell
  <2> QED
    BY <1>3, <2>1, <2>2, <2>3, <2>4 DEF Kinds
<1>9. Told(j)'
  <2>1. odd' \in [Runs -> BOOLEAN] /\ (~odd'[j] => MapsWell(j)) /\ (odd[j] => odd'[j])
    BY <1>2, <1>4 DEF TypeOK
  <2> HIDE DEF e, type, b
  <2> QED
    BY <1>2, <1>4, <1>6, <1>8, <2>1, EmitTold
<1>10. Maps(j)'
  <2>0. /\ \A n \in 1..MaxMessages : n > tools[j] => b.id # ToolId(n)
        /\ \A x \in calls[j] : x # b.id
    BY <1>2, <1>3, OpenIds
  <2>1. step'[j] = Over(j)'
    BY <1>2, <1>4, <1>7 DEF Maps
  <2>2. ASSUME NEW k \in Indexes PROVE OpenIs(j, k)'
    BY <1>2, <1>4 DEF Maps, OpenIs
  <2>3. \A k, m \in Indexes : openBlocks'[j][k] # Closed /\ openBlocks'[j][k].id = openBlocks'[j][m].id => k = m
    BY <1>2, <1>4 DEF Maps
  <2> HIDE DEF b, type, e
  <2>4. ASSUME NEW n \in 1..MaxMessages, n > tools'[j] PROVE Lately(j, ToolId(n))' = "none"
    <3>1. Lately(j, ToolId(n)) = "none" /\ ToolId(n) # b.id
      BY <1>2, <1>4, <2>0, <2>4 DEF Maps
    <3> QED
      BY <1>7, <3>1
  <2>5. ASSUME NEW x \in calls'[j]
        PROVE  /\ \E n \in 1..tools'[j] : x = ToolId(n)
               /\ Lately(j, x)' = "tool.input_done"
               /\ \A k \in Indexes : openBlocks'[j][k].id # x
    <3>1. /\ \E n \in 1..tools[j] : x = ToolId(n)
          /\ Lately(j, x) = "tool.input_done"
          /\ \A k \in Indexes : openBlocks[j][k].id # x
          /\ x # b.id
      BY <1>2, <1>4, <2>0 DEF Maps
    <3> QED
      BY <1>4, <1>7, <3>1
  <2>6. block'[j].type \in {"text", "thinking", "tool_use"} =>
          openBlocks'[j][index'[j]] =
            [id |-> IF block'[j].type = "tool_use" THEN ToolId(tools'[j]) ELSE BlockId(index'[j]),
             type |-> block'[j].type]
    BY <1>2, <1>4, <1>5 DEF Maps
  <2> QED
    BY <2>1, <2>2, <2>3, <2>4, <2>5, <2>6 DEF Maps
<1>11. ASSUME ~odd'[j] PROVE MapsWell(j)'
  <2>1. MapsWell(j)
    BY <1>2, <1>4, <1>11
  <2>2. \A x, y : Fed(j, x, y)' = y /\ Fed(j, x, y) = x
    BY <1>3, <1>5 DEF Fed
  <2>3. \A k \in Indexes : k # i => openBlocks'[j][k] = Closed /\ buffers'[j][k] = <<>>
    <3>1. \A k \in Indexes : k # i => openBlocks[j][k] = Closed /\ buffers[j][k] = <<>>
      BY <2>1 DEF MapsWell
    <3>2. \A k \in Indexes : k # i => buffers'[j][k] = buffers[j][k]
      BY <1>2 DEF BlockDelta, TypeOK
    <3> QED
      BY <1>4, <3>1, <3>2
  <2>4. ASSUME NEW k \in Indexes, openBlocks'[j][k].id # BlockId(k)
        PROVE  Lately(j, BlockId(k))' \in Idle
    <3>1. Lately(j, BlockId(k)) \in Idle
      BY <1>4, <2>1, <2>4 DEF MapsWell
    <3>2. BlockId(k) # b.id
      <4>1. CASE b.id = BlockId(i)
        <5>1. openBlocks[j][i].id = BlockId(i)
          <6>1. openBlocks[j][i] # Closed
            BY <1>2, <1>3, <2>1 DEF Maps, MapsWell, Kinds, Closed
          <6> QED
            BY <4>1, <6>1 DEF OpenAt
        <5>2. k # i
          BY <1>4, <2>4, <5>1
        <5> QED
          BY <1>3, <4>1, <5>2, IdsDiffer DEF Indexes
      <4>2. CASE \E n \in 1..tools[j] : b.id = ToolId(n)
        BY <4>2, IdsDiffer
      <4> QED
        BY <1>2, <1>3, <4>1, <4>2, OpenIds
    <3> HIDE DEF b, type, e
    <3> QED
      BY <1>7, <3>1, <3>2
  <2>5. ASSUME block[j].type = "text", NEW x, x = BlockId(i)
        PROVE  Lately(j, x)' = "text.delta" /\ buffers'[j][i] = <<>>
    <3>1. b.id = x /\ type = "text.delta"
      BY <1>8, <2>1, <2>5
    <3>2. buffers'[j][i] = <<>>
      <4>1. buffers' = buffers
        BY <2>5 DEF BlockDelta
      <4>2. buffers[j][i] = <<>>
        BY <2>1, <2>5 DEF MapsWell
      <4> QED
        BY <4>1, <4>2
    <3> HIDE DEF b, type, e
    <3> QED
      BY <1>7, <3>1, <3>2
  <2>6. ASSUME block[j].type = "thinking", NEW x, x = BlockId(i)
        PROVE  Lately(j, x)' = "thinking.delta" /\ buffers'[j][i] = <<>>
    <3>1. b.id = x /\ type = "thinking.delta"
      BY <1>8, <2>1, <2>6
    <3>2. buffers'[j][i] = <<>>
      <4>1. buffers' = buffers
        BY <2>6 DEF BlockDelta
      <4>2. buffers[j][i] = <<>>
        BY <2>1, <2>6 DEF MapsWell
      <4> QED
        BY <4>1, <4>2
    <3> HIDE DEF b, type, e
    <3> QED
      BY <1>7, <3>1, <3>2
  <2>7. ASSUME block[j].type = "tool_use", NEW x, x = ToolId(tools[j])
        PROVE  Lately(j, x)' = "tool.input_delta" /\ buffers'[j][i] = <<x>>
               /\ Said(j, Event("tool.input_delta", x))'
    <3>1. b.id = x /\ type = "tool.input_delta"
      BY <1>8, <2>1, <2>7
    <3>2. buffers'[j][i] = <<x>>
      <4>1. buffers[j][i] = <<>>
        BY <1>3, <2>1, <2>2, <2>7 DEF MapsWell
      <4>2. buffers'[j][i] = Append(buffers[j][i], x)
        BY <1>2, <1>3, <2>7 DEF BlockDelta, TypeOK
      <4> QED
        BY <4>1, <4>2
    <3>3. e = Event("tool.input_delta", x)
      BY <3>1
    <3> HIDE DEF b, type, e
    <3> QED
      BY <1>7, <3>1, <3>2, <3>3
  <2> HIDE DEF b, type, e
  <2>8. block'[j].type # "other"
    BY <1>5, <2>1 DEF MapsWell
  <2> QED
    BY <1>4, <1>5, <2>2, <2>3, <2>4, <2>5, <2>6, <2>7, <2>8 DEF MapsWell
<1> QED
  BY <1>9, <1>10, <1>11 DEF Mapped

(* The two events of a tool block's end.                                   *)
LEMMA StopToolTold ==
  ASSUME TypeOK, NEW j \in Runs, Told(j), step[j] = Over(j), step[j] + 1 \in 1..MaxMessages,
         NEW id \in Ids, NEW raw \in Seq(Ids),
         Emit(j, <<InputDone(id, raw), AgentStep(step[j] + 1)>>),
         UNCHANGED <<out, stream, odd>>,
         ~odd[j] =>
           /\ Lately(j, id) \in MayFollow["tool.input_done"]
           /\ raw = IF Said(j, Event("tool.input_delta", id)) THEN <<id>> ELSE <<>>
  PROVE  /\ Told(j)'
         /\ \A x : Lately(j, x)' = IF x = id THEN "tool.input_done" ELSE Lately(j, x)
         /\ Over(j)' = Over(j) + 1
<1> DEFINE e == InputDone(id, raw)  f == AgentStep(step[j] + 1)
           s == Log(j)  t == s \o <<e>>  u == t \o <<f>>
<1>1. e \in Events /\ f \in Events
  BY EventsAreEvents
<1>2. /\ e.type = "tool.input_done" /\ "id" \in DOMAIN e /\ e.id = id /\ e.input = raw
      /\ f.type = "agent.step" /\ "id" \notin DOMAIN f /\ f.step = step[j] + 1
  BY DEF InputDone, AgentStep
<1>3. s \in Seq(Items) /\ e \in Items /\ f \in Items /\ odd[j] \in BOOLEAN
  BY <1>1, LogTypes DEF Items, TypeOK
<1>4. TellsAll(s, odd[j])
  BY DEF Told
<1>5. /\ \A x : LastOf(s, Len(s), x) = Lately(j, x)
      /\ Dones(s, Len(s)) = step[j]
      /\ \A g : Said(j, g) <=> \E m \in DOMAIN s : s[m] = g
  BY DEF Lately, Over, Said
<1>6. Log(j)' = u
  <2>1. <<e, f>> \in Seq(Items) /\ <<e>> \in Seq(Items) /\ <<f>> \in Seq(Items) /\ <<e, f>> = <<e>> \o <<f>>
    BY <1>3
  <2>2. Log(j)' = s \o <<e, f>>
    BY <2>1, EmitLog DEF Emit
  <2>3. s \o (<<e>> \o <<f>>) = (s \o <<e>>) \o <<f>>
    <3> HIDE DEF s, e, f
    <3> QED
      BY <1>3, <2>1, ItemsAssociate, Zenon
  <2> QED
    BY <2>1, <2>2, <2>3
<1> HIDE DEF s, e, f
<1>7. t \in Seq(Items) /\ More(s, t, e)
  BY <1>3, OneMore
<1>8. TellsAll(t, odd[j])
  <2>1. ASSUME ~odd[j]
        PROVE  /\ LastOf(s, Len(s), e.id) \in MayFollow[e.type]
               /\ e.input = IF \E m \in DOMAIN s : s[m] = Event("tool.input_delta", e.id)
                              THEN <<e.id>> ELSE <<>>
    BY <1>2, <1>5, <2>1
  <2> QED
    BY <1>2, <1>3, <1>4, <2>1, EventTold
<1> HIDE DEF t
<1>9. /\ \A x : LastOf(t, Len(t), x) = IF x = id THEN "tool.input_done" ELSE LastOf(s, Len(s), x)
      /\ Dones(t, Len(t)) = Dones(s, Len(s)) + 1
      /\ Len(t) > 0 /\ t[Len(t)] = e
  <2>0. \A x : LastOf(t, Len(t), x) = IF "id" \in DOMAIN e /\ e.id = x THEN e.type ELSE LastOf(s, Len(s), x)
    BY <1>3, <1>7, MoreLast
  <2>1. \A x : LastOf(t, Len(t), x) = IF x = id THEN "tool.input_done" ELSE LastOf(s, Len(s), x)
    BY <1>2, <2>0
  <2>2. Dones(t, Len(t)) = Dones(s, Len(s)) + 1
    BY <1>2, <1>3, <1>7, MoreDones
  <2>3. Len(s) \in Nat
    BY <1>3
  <2>4. Len(t) > 0 /\ t[Len(t)] = e
    BY <1>7, <2>3 DEF More
  <2> QED
    BY <2>1, <2>2, <2>4
<1>10. u \in Seq(Items) /\ More(t, u, f)
  BY <1>3, <1>7, OneMore
<1>11. TellsAll(u, odd[j])
  <2>1. f.step = Dones(t, Len(t))
    BY <1>2, <1>5, <1>9
  <2>2. t[Len(t)].type = "tool.input_done"
    BY <1>2, <1>9
  <2> QED
    BY <1>2, <1>3, <1>7, <1>8, <1>9, <2>1, <2>2, EventTold
<1> HIDE DEF u
<1>12. /\ \A x : LastOf(u, Len(u), x) = LastOf(t, Len(t), x)
       /\ Dones(u, Len(u)) = Dones(t, Len(t))
  <2>0. \A x : LastOf(u, Len(u), x) = IF "id" \in DOMAIN f /\ f.id = x THEN f.type ELSE LastOf(t, Len(t), x)
    BY <1>7, <1>10, MoreLast
  <2>1. \A x : LastOf(u, Len(u), x) = LastOf(t, Len(t), x)
    BY <1>2, <2>0
  <2>2. Dones(u, Len(u)) = Dones(t, Len(t)) + 0
    BY <1>2, <1>7, <1>10, MoreDones
  <2>3. Dones(t, Len(t)) \in Nat
    BY <1>7, DonesStep
  <2> QED
    BY <2>1, <2>2, <2>3
<1>13. Told(j)'
  <2>1. TellsAll(Log(j)', odd'[j])
    BY <1>6, <1>11
  <2> QED
    BY <2>1 DEF Told
<1>14. ASSUME NEW x PROVE Lately(j, x)' = IF x = id THEN "tool.input_done" ELSE Lately(j, x)
  <2>1. Lately(j, x)' = LastOf(u, Len(u), x)
    BY <1>6 DEF Lately
  <2> QED
    BY <1>5, <1>9, <1>12, <2>1
<1>15. Over(j)' = Over(j) + 1
  <2>1. Over(j)' = Dones(u, Len(u))
    BY <1>6 DEF Over
  <2> QED
    BY <1>5, <1>9, <1>12, <2>1
<1> QED
  BY <1>13, <1>14, <1>15

(* The fragments of one call are its input.                                *)
LEMMA ParsedIs ==
  /\ Parsed(<<>>) = <<>>
  /\ \A id : Parsed(<<id>>) = <<id>>
  /\ \A raw \in Seq(Ids) : Parsed(raw) \in Seq(Ids)
<1>1. ToSet(<<>>) = {} /\ \A id : ToSet(<<id>>) = {id}
  BY DEF ToSet
<1>2. Cardinality({}) = 0 /\ \A id : Cardinality({id}) = 1
  BY FS_EmptySet, FS_Singleton
<1>3. Parsed(<<>>) = <<>>
  BY <1>1, <1>2 DEF Parsed
<1>4. ASSUME NEW id PROVE Parsed(<<id>>) = <<id>>
  <2>0. Cardinality(ToSet(<<id>>)) = 1
    BY <1>1, <1>2, Zenon
  <2>1. ~(Cardinality(ToSet(<<id>>)) > 1)
    BY <2>0
  <2> QED
    BY <2>1 DEF Parsed
<1>5. \A raw \in Seq(Ids) : Parsed(raw) = <<>> \/ Parsed(raw) = raw
  BY DEF Parsed
<1>6. <<>> \in Seq(Ids)
  OBVIOUS
<1>7. \A raw \in Seq(Ids) : Parsed(raw) \in Seq(Ids)
  BY <1>5, <1>6
<1> QED
  BY <1>3, <1>4, <1>7

(* What is known while a block is being streamed by a well-behaved SDK.    *)
LEMMA OpenBlockIs ==
  ASSUME NEW j \in Runs, Maps(j), MapsWell(j), block[j] # NoBlock, block[j] \in SdkBlock,
         index[j] \in Indexes
  PROVE  /\ block[j].type \in {"text", "thinking", "tool_use"}
         /\ openBlocks[j][index[j]] # Closed
         /\ OpenAt(j, index[j]) = openBlocks[j][index[j]]
         /\ OpenAt(j, index[j]).type = block[j].type
         /\ OpenAt(j, index[j]).id = IF block[j].type = "tool_use" THEN ToolId(tools[j])
                                                                  ELSE BlockId(index[j])
<1>1. block[j].type \in {"text", "thinking", "tool_use"}
  BY DEF MapsWell, SdkBlock, Kinds
<1>2. openBlocks[j][index[j]] =
        [id |-> IF block[j].type = "tool_use" THEN ToolId(tools[j]) ELSE BlockId(index[j]),
         type |-> block[j].type]
  BY <1>1 DEF Maps
<1>3. openBlocks[j][index[j]] # Closed
  BY <1>1, <1>2 DEF Closed
<1>4. OpenAt(j, index[j]) = openBlocks[j][index[j]]
  BY <1>3 DEF OpenAt
<1> QED
  BY <1>1, <1>2, <1>3, <1>4

LEMMA BlockStopFollowed ==
  ASSUME TypeOK, Budget, Followed, NEW j \in Runs, BlockStop(j)
  PROVE  Told(j)' /\ Mapped(j)'
<1> DEFINE i == index[j]
           b == OpenAt(j, i)
           type == IF b.type = "tool_use" THEN "tool.input_done"
                   ELSE IF b.type = "text" THEN "text.stop" ELSE "thinking.stop"
           e == Event(type, b.id)
           raw == Parsed(buffers[j][i])
<1>1. Yields(j)
  BY DEF BlockStop
<1>2. /\ Told(j) /\ Maps(j) /\ (~odd[j] => MapsWell(j))
      /\ odd[j] \in BOOLEAN /\ tools[j] \in Nat
      /\ block[j] # NoBlock => index[j] \in Indexes
      /\ block[j] \in SdkBlock /\ openBlocks[j] \in [Indexes -> OpenBlock]
      /\ buffers[j] \in [Indexes -> Seq(Ids)]
      /\ UNCHANGED <<out, stream, task>>
  BY <1>1, YieldKnows
<1>3. i \in Indexes /\ i \in Nat /\ block[j] # NoBlock
  BY <1>2 DEF BlockStop, Indexes
<1>4. /\ odd' = odd /\ block'[j] = NoBlock /\ tools' = tools
      /\ openBlocks'[j] = [openBlocks[j] EXCEPT ![i] = Closed]
      /\ calls'[j] = IF block[j].type = "tool_use" THEN calls[j] \cup {ToolId(tools[j])} ELSE calls[j]
  BY DEF BlockStop, TypeOK
<1>5. /\ b.id \in Ids /\ b.type \in {"text", "thinking", "tool_use"}
      /\ b.type = "tool_use" => openBlocks[j][i] # Closed /\ openBlocks[j][i].id = b.id
      /\ \A n \in 1..MaxMessages : n > tools[j] => b.id # ToolId(n)
      /\ \A x \in calls[j] : x # b.id
  BY <1>2, <1>3, OpenTypes, OpenIds
<1>6. raw \in Seq(Ids)
  BY <1>2, <1>3, ParsedIs
<1>7. ASSUME ~odd[j]
      PROVE  /\ MapsWell(j) /\ b.type = block[j].type
             /\ Lately(j, b.id) \in MayFollow[type]
             /\ b.type # "tool_use" => b.id = BlockId(i) /\ buffers[j][i] = <<>>
             /\ b.type = "tool_use" =>
                  /\ b.id = ToolId(tools[j])
                  /\ raw = IF Said(j, Event("tool.input_delta", b.id)) THEN <<b.id>> ELSE <<>>
  <2>1. MapsWell(j)
    BY <1>2, <1>7
  <2>2. b.type = block[j].type /\ b.id = IF block[j].type = "tool_use" THEN ToolId(tools[j]) ELSE BlockId(i)
    BY <1>2, <1>3, <2>1, OpenBlockIs
  <2> HIDE DEF b
  <2>3. CASE b.type = "tool_use"
    <3>1. /\ Lately(j, b.id) = Fed(j, "tool.start", "tool.input_delta")
          /\ buffers[j][i] = Fed(j, <<>>, <<b.id>>)
          /\ Said(j, Event("tool.input_delta", b.id)) <=> block[j].fed
      BY <2>1, <2>2, <2>3 DEF MapsWell
    <3>2. CASE block[j].fed
      BY <2>1, <2>2, <2>3, <3>1, <3>2, ParsedIs, MayFollowIs DEF Fed
    <3>3. CASE ~block[j].fed
      BY <2>1, <2>2, <2>3, <3>1, <3>3, ParsedIs, MayFollowIs DEF Fed
    <3> QED
      BY <3>2, <3>3
  <2>4. CASE b.type = "text"
    <3>1. /\ Lately(j, b.id) = Fed(j, "text.start", "text.delta") /\ buffers[j][i] = <<>>
      BY <2>1, <2>2, <2>4 DEF MapsWell
    <3> QED
      BY <2>1, <2>2, <2>4, <3>1, MayFollowIs DEF Fed
  <2>5. CASE b.type = "thinking"
    <3>1. /\ Lately(j, b.id) = Fed(j, "thinking.start", "thinking.delta") /\ buffers[j][i] = <<>>
      BY <2>1, <2>2, <2>5 DEF MapsWell
    <3> QED
      BY <2>1, <2>2, <2>5, <3>1, MayFollowIs DEF Fed
  <2> QED
    BY <1>5, <2>3, <2>4, <2>5
<1>8. /\ Told(j)'
      /\ \A x : Lately(j, x)' = IF x = b.id THEN type ELSE Lately(j, x)
      /\ step'[j] = Over(j)'
      /\ ~odd[j] => buffers'[j][i] = <<>> /\ \A k \in Indexes : k # i => buffers'[j][k] = buffers[j][k]
  <2>0. step[j] = Over(j) /\ step[j] \in Nat /\ step[j] + 1 \in 1..MaxMessages
    <3>1. step[j] + 1 \in 1..MaxMessages
      BY <1>1, YieldTypes
    <3>2. step[j] \in 0..MaxMessages
      BY DEF TypeOK
    <3>3. step[j] = Over(j)
      BY <1>2 DEF Maps
    <3> QED
      BY <3>1, <3>2, <3>3
  <2>1. CASE b.type = "tool_use"
    <3>1. /\ Emit(j, <<InputDone(b.id, raw), AgentStep(step[j] + 1)>>)
          /\ step'[j] = step[j] + 1
          /\ buffers' = [buffers EXCEPT ![j][i] = <<>>]
      BY <2>1 DEF BlockStop, StopTool, TypeOK
    <3>2. buffers'[j][i] = <<>> /\ \A k \in Indexes : k # i => buffers'[j][k] = buffers[j][k]
      BY <1>2, <1>3, <3>1 DEF TypeOK
    <3>3. type = "tool.input_done" /\ UNCHANGED <<out, stream, odd>>
      BY <1>2, <1>4, <2>1
    <3>4. ~odd[j] => /\ Lately(j, b.id) \in MayFollow["tool.input_done"]
                     /\ raw = IF Said(j, Event("tool.input_delta", b.id)) THEN <<b.id>> ELSE <<>>
      BY <1>7, <2>1, <3>3
    <3> HIDE DEF b, raw, type
    <3>5. /\ Told(j)'
          /\ \A x : Lately(j, x)' = IF x = b.id THEN "tool.input_done" ELSE Lately(j, x)
          /\ Over(j)' = Over(j) + 1
      BY <1>2, <1>5, <1>6, <2>0, <3>1, <3>3, <3>4, StopToolTold
    <3> QED
      BY <2>0, <3>1, <3>2, <3>3, <3>5
  <2>2. CASE b.type # "tool_use"
    <3>1. Emit(j, <<e>>) /\ UNCHANGED <<buffers, step>>
      BY <2>2 DEF BlockStop
    <3>2. /\ e \in Events /\ e.id = b.id /\ e.type = type /\ "id" \in DOMAIN e
          /\ type \in {"text.stop", "thinking.stop"}
      BY <1>5, <2>2, EventsAreEvents DEF Event, BlockEvents
    <3>3. /\ odd' \in [Runs -> BOOLEAN] /\ (odd[j] => odd'[j])
          /\ ~odd'[j] /\ "id" \in DOMAIN e => Lately(j, e.id) \in MayFollow[e.type]
      BY <1>4, <1>7, <3>2 DEF TypeOK
    <3>4. ~odd[j] => buffers[j][i] = <<>>
      BY <1>7, <2>2
    <3> HIDE DEF b, raw, type, e
    <3>5. Told(j)'
      BY <1>2, <3>1, <3>2, <3>3, EmitTold
    <3>6. /\ \A x : Lately(j, x)' = IF x = b.id THEN type ELSE Lately(j, x)
          /\ Over(j)' = Over(j) + 0
      BY <1>2, <3>1, <3>2, EmitLately
    <3>7. step'[j] = Over(j)'
      BY <2>0, <3>1, <3>6
    <3> QED
      BY <3>1, <3>4, <3>5, <3>6, <3>7
  <2> QED
    BY <2>1, <2>2
<1>9. \A k \in Indexes : openBlocks'[j][k] = IF k = i THEN Closed ELSE openBlocks[j][k]
  BY <1>2, <1>4
<1>10. Maps(j)'
  <2>1. ASSUME NEW k \in Indexes PROVE OpenIs(j, k)'
    BY <1>2, <1>4, <1>9 DEF Maps, OpenIs
  <2>2. ASSUME NEW k \in Indexes, NEW m \in Indexes,
               openBlocks'[j][k] # Closed, openBlocks'[j][k].id = openBlocks'[j][m].id
        PROVE  k = m
    <3>1. k # i /\ openBlocks'[j][k] = openBlocks[j][k]
      BY <1>9, <2>2
    <3>2. m # i
      <4>1. OpenIs(j, k)
        BY <1>2 DEF Maps
      <4>2. openBlocks[j][k].id # Closed.id
        BY <2>2, <3>1, <4>1, IdsDiffer DEF OpenIs
      <4> QED
        BY <1>9, <2>2, <3>1, <4>2
    <3> QED
      BY <1>2, <1>9, <2>2, <3>1, <3>2 DEF Maps
  <2>3. ASSUME NEW n \in 1..MaxMessages, n > tools'[j] PROVE Lately(j, ToolId(n))' = "none"
    <3>1. Lately(j, ToolId(n)) = "none" /\ ToolId(n) # b.id
      BY <1>2, <1>4, <1>5, <2>3 DEF Maps
    <3> HIDE DEF b, type
    <3> QED
      BY <1>8, <3>1
  <2>4. ASSUME NEW x \in calls'[j]
        PROVE  /\ \E n \in 1..tools'[j] : x = ToolId(n)
               /\ Lately(j, x)' = "tool.input_done"
               /\ \A k \in Indexes : openBlocks'[j][k].id # x
    <3>1. CASE x \in calls[j]
      <4>1. /\ \E n \in 1..tools[j] : x = ToolId(n)
            /\ Lately(j, x) = "tool.input_done"
            /\ \A k \in Indexes : openBlocks[j][k].id # x
            /\ x # b.id
        BY <1>2, <1>5, <3>1 DEF Maps
      <4>2. Closed.id # x
        BY <4>1, IdsDiffer
      <4> HIDE DEF b, type
      <4> QED
        BY <1>4, <1>8, <1>9, <4>1, <4>2
    <3>2. CASE x = ToolId(tools[j]) /\ block[j].type = "tool_use"
      <4>1. openBlocks[j][i] = [id |-> x, type |-> "tool_use"]
        BY <1>2, <3>2 DEF Maps
      <4>2. b.id = x /\ type = "tool.input_done" /\ openBlocks[j][i] # Closed
        BY <4>1 DEF OpenAt, Closed
      <4>3. tools[j] \in 1..tools'[j]
        <5>1. tools[j] > 0
          BY <3>2 DEF Budget, Room
        <5> QED
          BY <1>2, <1>4, <5>1
      <4>4. \A k \in Indexes : k # i => openBlocks[j][k].id # x
        BY <1>2, <1>3, <4>1, <4>2 DEF Maps
      <4>5. Closed.id # x
        BY <3>2, IdsDiffer
      <4> HIDE DEF b, type
      <4> QED
        BY <1>8, <1>9, <3>2, <4>2, <4>3, <4>4, <4>5
    <3> QED
      BY <1>4, <2>4, <3>1, <3>2
  <2>5. block'[j].type \notin {"text", "thinking", "tool_use"}
    BY <1>4 DEF NoBlock
  <2>6. step'[j] = Over(j)'
    BY <1>8
  <2> QED
    BY <2>1, <2>2, <2>3, <2>4, <2>5, <2>6 DEF Maps
<1>11. ASSUME ~odd'[j] PROVE MapsWell(j)'
  <2>1. /\ MapsWell(j) /\ b.type = block[j].type
        /\ b.type # "tool_use" => b.id = BlockId(i)
        /\ b.type = "tool_use" => b.id = ToolId(tools[j])
    BY <1>4, <1>7, <1>11
  <2>2. ASSUME NEW k \in Indexes PROVE openBlocks'[j][k] = Closed /\ buffers'[j][k] = <<>>
    <3>1. CASE k = i
      BY <1>4, <1>8, <1>9, <1>11, <3>1
    <3>2. CASE k # i
      <4>1. openBlocks[j][k] = Closed /\ buffers[j][k] = <<>>
        BY <2>1, <3>2 DEF MapsWell
      <4> QED
        BY <1>4, <1>8, <1>9, <1>11, <3>2, <4>1
    <3> QED
      BY <3>1, <3>2
  <2>3. ASSUME NEW k \in Indexes PROVE Lately(j, BlockId(k))' \in Idle
    <3>1. CASE b.id = BlockId(k)
      <4>1. type \in {"text.stop", "thinking.stop"}
        BY <2>1, <3>1, <1>5, IdsDiffer
      <4> HIDE DEF b, type
      <4> QED
        BY <1>8, <3>1, <4>1 DEF Idle
    <3>2. CASE b.id # BlockId(k)
      <4>1. openBlocks[j][k].id # BlockId(k)
        <5>1. CASE k = i
          <6>1. b.type = "tool_use"
            BY <2>1, <3>2, <5>1
          <6> QED
            BY <1>5, <3>2, <5>1, <6>1
        <5>2. CASE k # i
          BY <2>1, <5>2, IdsDiffer DEF MapsWell
        <5> QED
          BY <5>1, <5>2
      <4>2. Lately(j, BlockId(k)) \in Idle
        BY <2>1, <4>1 DEF MapsWell
      <4> HIDE DEF b, type
      <4> QED
        BY <1>8, <3>2, <4>2
    <3> QED
      BY <3>1, <3>2
  <2> QED
    BY <1>4, <2>2, <2>3 DEF MapsWell, NoBlock
<1> QED
  BY <1>8, <1>10, <1>11 DEF Mapped

(* The log alone, while nothing that the mapping keeps changes.            *)
LEMMA MapsOn ==
  ASSUME NEW j \in Runs, Maps(j), tools' = tools, openBlocks' = openBlocks, step' = step,
         NEW D, \A x : x \notin D => Lately(j, x)' = Lately(j, x), Over(j)' = Over(j),
         \A n \in 1..MaxMessages : n > tools[j] => ToolId(n) \notin D,
         calls'[j] \subseteq calls[j], \A x \in calls'[j] : x \notin D,
         \/ block'[j] = block[j] /\ index'[j] = index[j]
         \/ block'[j] = NoBlock
  PROVE  Maps(j)'
<1>1. ASSUME NEW k \in Indexes PROVE OpenIs(j, k)'
  BY DEF Maps, OpenIs
<1>2. ASSUME NEW n \in 1..MaxMessages, n > tools'[j] PROVE Lately(j, ToolId(n))' = "none"
  <2>1. Lately(j, ToolId(n)) = "none" /\ ToolId(n) \notin D
    BY <1>2 DEF Maps
  <2> QED
    BY <2>1
<1>3. ASSUME NEW x \in calls'[j]
      PROVE  /\ \E n \in 1..tools'[j] : x = ToolId(n)
             /\ Lately(j, x)' = "tool.input_done"
             /\ \A k \in Indexes : openBlocks'[j][k].id # x
  <2>1. /\ \E n \in 1..tools[j] : x = ToolId(n)
        /\ Lately(j, x) = "tool.input_done"
        /\ \A k \in Indexes : openBlocks[j][k].id # x
    BY DEF Maps
  <2> QED
    BY <2>1
<1>4. \A k, m \in Indexes : openBlocks'[j][k] # Closed /\ openBlocks'[j][k].id = openBlocks'[j][m].id => k = m
  BY DEF Maps
<1>5. step'[j] = Over(j)'
  BY DEF Maps
<1>6. block'[j].type \in {"text", "thinking", "tool_use"} =>
        openBlocks'[j][index'[j]] =
          [id |-> IF block'[j].type = "tool_use" THEN ToolId(tools'[j]) ELSE BlockId(index'[j]),
           type |-> block'[j].type]
  BY DEF Maps, NoBlock
<1> QED
  BY <1>1, <1>2, <1>3, <1>4, <1>5, <1>6 DEF Maps

(* The log grows by nothing, or by an event without an id.                 *)
LEMMA MapsWellOn ==
  ASSUME NEW j \in Runs, MapsWell(j), tools' = tools, openBlocks' = openBlocks, buffers' = buffers,
         \A i \in Indexes : Lately(j, BlockId(i))' = Lately(j, BlockId(i)),
         block[j] = NoBlock, block'[j] = NoBlock
  PROVE  MapsWell(j)'
<1>1. \A i \in Indexes : openBlocks[j][i] = Closed /\ buffers[j][i] = <<>> /\ Lately(j, BlockId(i)) \in Idle
  BY IdsDiffer DEF MapsWell
<1>2. \A i \in Indexes : openBlocks'[j][i] = Closed /\ buffers'[j][i] = <<>> /\ Lately(j, BlockId(i))' \in Idle
  BY <1>1
<1> QED
  BY <1>2 DEF MapsWell, NoBlock

LEMMA ToolResultFollowed ==
  ASSUME TypeOK, Budget, Followed, NEW j \in Runs, ToolResult(j)
  PROVE  Told(j)' /\ Mapped(j)'
<1>1. Yields(j) /\ block[j] = NoBlock /\ block' = block /\ odd' = odd
      /\ tools' = tools /\ openBlocks' = openBlocks /\ step' = step /\ buffers' = buffers
  BY DEF ToolResult, mapping
<1>2. /\ Told(j) /\ Maps(j) /\ (~odd[j] => MapsWell(j))
      /\ odd[j] \in BOOLEAN /\ tools[j] \in Nat
      /\ UNCHANGED <<out, stream, task>>
  BY <1>1, YieldKnows
<1>3. PICK id \in calls[j] : calls' = [calls EXCEPT ![j] = @ \ {id}] /\ Emit(j, <<Event("tool.result", id)>>)
  BY DEF ToolResult
<1> DEFINE e == Event("tool.result", id)
<1>4. id \in Ids /\ Lately(j, id) = "tool.input_done" /\ \E n \in 1..tools[j] : id = ToolId(n)
  BY <1>2 DEF Maps, TypeOK
<1>5. e \in Events /\ e.id = id /\ e.type = "tool.result"
  BY <1>4, EventsAreEvents DEF Event, BlockEvents
<1>6. odd' \in [Runs -> BOOLEAN] /\ (odd[j] => odd'[j]) /\ calls'[j] = calls[j] \ {id}
  BY <1>1, <1>3 DEF TypeOK
<1> HIDE DEF e
<1>7. Emit(j, <<e>>)
  BY <1>3 DEF e
<1>8. /\ \A x : Lately(j, x)' = IF "id" \in DOMAIN e /\ e.id = x THEN e.type ELSE Lately(j, x)
      /\ Over(j)' = Over(j) + 0
  BY <1>2, <1>5, <1>7, EmitLately
<1>9. Over(j) \in Nat
  BY LogTypes, DonesStep DEF Over
<1>10. (\A x : x \notin {id} => Lately(j, x)' = Lately(j, x)) /\ Over(j)' = Over(j)
  BY <1>5, <1>8, <1>9
<1>11. Told(j)'
  BY <1>2, <1>4, <1>5, <1>6, <1>7, MayFollowIs, EmitTold
<1>12. \A n \in 1..MaxMessages : n > tools[j] => ToolId(n) \notin {id}
  BY <1>2, <1>4, IdsDiffer
<1>13. Maps(j)'
  BY <1>1, <1>2, <1>6, <1>10, <1>12, MapsOn
<1>14. ~odd'[j] => MapsWell(j)'
  <2>1. \A i \in Indexes : Lately(j, BlockId(i))' = Lately(j, BlockId(i))
    BY <1>4, <1>10, IdsDiffer
  <2> QED
    BY <1>1, <1>2, <2>1, MapsWellOn
<1> QED
  BY <1>11, <1>13, <1>14 DEF Mapped

(* The log does not change.                                                *)
LEMMA SameLog ==
  ASSUME NEW j \in Runs, Told(j), queue'[j] = queue[j], out'[j] = out[j],
         stream'[j] \in {stream[j], "left"} \/ (stream[j] = "none" /\ stream'[j] = "open"), odd[j] \in BOOLEAN, odd'[j] \in BOOLEAN, odd[j] => odd'[j]
  PROVE  /\ Told(j)'
         /\ \A x : Lately(j, x)' = Lately(j, x)
         /\ Over(j)' = Over(j)
         /\ \A f : Said(j, f)' <=> Said(j, f)
<1>1. Log(j)' = Log(j)
  BY DEF Log
<1>2. /\ \A x : Lately(j, x)' = Lately(j, x)
      /\ Over(j)' = Over(j)
      /\ \A f : Said(j, f)' <=> Said(j, f)
  BY <1>1 DEF Lately, Over, Said
<1>3. TellsAll(Log(j)', odd'[j])
  <2> DEFINE s == Log(j)
  <2>1. TellsAll(s, odd[j])
    BY DEF Told
  <2> HIDE DEF s
  <2>2. TellsAll(s, odd'[j])
    BY <2>1 DEF TellsAll
  <2> QED
    BY <1>1, <2>2 DEF s
<1>4. Told(j)'
  BY <1>3 DEF Told
<1> QED
  BY <1>2, <1>4

LEMMA SubAgentFollowed ==
  ASSUME TypeOK, Budget, Followed, NEW j \in Runs, SubAgentMessage(j)
  PROVE  Told(j)' /\ Mapped(j)'
<1>1. Yields(j) /\ block[j] = NoBlock /\ UNCHANGED <<queue, mapping, block, index, calls, tools, odd>>
  BY DEF SubAgentMessage
<1>2. /\ Told(j) /\ Maps(j) /\ (~odd[j] => MapsWell(j)) /\ odd[j] \in BOOLEAN
      /\ UNCHANGED <<out, stream, task>>
  BY <1>1, YieldKnows
<1>3. Told(j)' /\ (\A x : Lately(j, x)' = Lately(j, x)) /\ Over(j)' = Over(j)
  BY <1>1, <1>2, SameLog
<1> DEFINE D == {}
<1>4. /\ \A x : x \notin D => Lately(j, x)' = Lately(j, x)
      /\ \A n \in 1..MaxMessages : n > tools[j] => ToolId(n) \notin D
      /\ \A x \in calls'[j] : x \notin D
  BY <1>3
<1> HIDE DEF D
<1>5. Maps(j)'
  <2>1. /\ tools' = tools /\ openBlocks' = openBlocks /\ step' = step
        /\ calls'[j] \subseteq calls[j] /\ block'[j] = block[j] /\ index'[j] = index[j]
    BY <1>1 DEF mapping
  <2> QED
    BY <1>2, <1>3, <1>4, <2>1, MapsOn
<1>6. ~odd'[j] => MapsWell(j)'
  BY <1>1, <1>2, <1>3, MapsWellOn DEF mapping
<1> QED
  BY <1>3, <1>5, <1>6 DEF Mapped

LEMMA StartsOverFollowed ==
  ASSUME TypeOK, Budget, Followed, NEW j \in Runs, MessageStartsOver(j)
  PROVE  Told(j)' /\ Mapped(j)'
<1>1. Yields(j) /\ UNCHANGED <<queue, mapping, tools>>
  BY DEF MessageStartsOver
<1>2. /\ Told(j) /\ Maps(j) /\ odd[j] \in BOOLEAN
      /\ UNCHANGED <<out, stream, task>>
  BY <1>1, YieldKnows
<1>3. block'[j] = NoBlock /\ calls'[j] = {} /\ odd'[j] = TRUE
  BY DEF MessageStartsOver, TypeOK
<1>4. Told(j)' /\ (\A x : Lately(j, x)' = Lately(j, x)) /\ Over(j)' = Over(j)
  BY <1>1, <1>2, <1>3, SameLog
<1> DEFINE D == {}
<1>5. /\ \A x : x \notin D => Lately(j, x)' = Lately(j, x)
      /\ \A n \in 1..MaxMessages : n > tools[j] => ToolId(n) \notin D
      /\ \A x \in calls'[j] : x \notin D
  BY <1>4
<1> HIDE DEF D
<1>6. Maps(j)'
  BY <1>1, <1>2, <1>3, <1>4, <1>5, MapsOn DEF mapping
<1> QED
  BY <1>3, <1>4, <1>6 DEF Mapped

LEMMA ResultFollowed ==
  ASSUME TypeOK, Budget, Followed, NEW j \in Runs, ResultMessage(j)
  PROVE  Told(j)' /\ Mapped(j)'
<1>1. /\ Yields(j) /\ Emit(j, <<Result>>)
      /\ block' = block /\ odd' = odd /\ tools' = tools /\ index' = index /\ calls' = calls
      /\ openBlocks' = openBlocks /\ step' = step /\ buffers' = buffers
  BY DEF ResultMessage, mapping
<1>2. /\ Told(j) /\ Maps(j) /\ (~odd[j] => MapsWell(j)) /\ odd[j] \in BOOLEAN
      /\ UNCHANGED <<out, stream, task>>
  BY <1>1, YieldKnows
<1>3. Result \in Events /\ "id" \notin DOMAIN Result /\ Result.type = "result"
  BY EventsAreEvents DEF Result
<1>4. /\ \A x : Lately(j, x)' = Lately(j, x)
      /\ Over(j)' = Over(j) + 0
      /\ \A f : Said(j, f)' <=> f = Result \/ Said(j, f)
  BY <1>1, <1>2, <1>3, EmitLately
<1>5. Over(j)' = Over(j)
  <2>1. Over(j) \in Nat
    BY LogTypes, DonesStep DEF Over
  <2> QED
    BY <1>4, <2>1
<1>6. odd' \in [Runs -> BOOLEAN] /\ (odd[j] => odd'[j])
  BY <1>1 DEF TypeOK
<1>7. Told(j)'
  BY <1>1, <1>2, <1>3, <1>6, EmitTold
<1> DEFINE D == {}
<1>8. /\ \A x : x \notin D => Lately(j, x)' = Lately(j, x)
      /\ \A n \in 1..MaxMessages : n > tools[j] => ToolId(n) \notin D
      /\ calls'[j] \subseteq calls[j] /\ block'[j] = block[j] /\ index'[j] = index[j]
      /\ \A x \in calls'[j] : x \notin D
  BY <1>1, <1>4
<1> HIDE DEF D
<1>9. Maps(j)'
  BY <1>1, <1>2, <1>5, <1>8, MapsOn
<1>10. ASSUME ~odd'[j] PROVE MapsWell(j)'
  <2>1. MapsWell(j)
    BY <1>1, <1>2, <1>10
  <2>2. \A x : Event("tool.input_delta", x) # Result
    BY DEF Event, Result
  <2>3. \A f : f # Result => (Said(j, f)' <=> Said(j, f))
    BY <1>4
  <2>4. \A x : Said(j, Event("tool.input_delta", x))' <=> Said(j, Event("tool.input_delta", x))
    BY <2>2, <2>3
  <2> QED
    BY <1>1, <1>4, <2>1, <2>4 DEF MapsWell, Fed
<1> QED
  BY <1>7, <1>9, <1>10 DEF Mapped

(* The end of a task: an error or nothing, and the sentinel.               *)
LEMMA QuietTold ==
  ASSUME NEW s \in Seq(Items), NEW e \in Items, NEW o \in BOOLEAN, TellsAll(s, o),
         "id" \notin DOMAIN e, e.type \notin {"tool.result", "agent.step", "tool.input_delta", "tool.input_done"}
  PROVE  TellsAll(s \o <<e>>, o) /\ s \o <<e>> \in Seq(Items)
BY EventTold, OneMore

LEMMA FinishFollowed ==
  ASSUME TypeOK, Followed, NEW j \in Runs, NEW events \in {<<>>, <<Error>>}, Finish(j, events),
         out' = out, odd' = odd, stream'[j] = stream[j] \/ (stream[j] = "none" /\ stream'[j] = "open")
  PROVE  Told(j)' /\ Mapped(j)'
<1>1. task'[j] = "ended"
  BY DEF Finish, TypeOK
<1>2. Told(j)
  BY DEF Followed
<1> DEFINE s == Log(j)
<1>3. s \in Seq(Items) /\ odd[j] \in BOOLEAN /\ TellsAll(s, odd[j])
  BY <1>2, LogTypes DEF Told, TypeOK
<1>4. /\ Error \in Items /\ Sentinel \in Items /\ "id" \notin DOMAIN Error /\ "id" \notin DOMAIN Sentinel
      /\ Error.type = "error" /\ Sentinel.type = "None"
  BY EventsAreEvents DEF Items, Error, Sentinel
<1>5. queue' = [queue EXCEPT ![j] = @ \o events \o <<Sentinel>>]
  BY DEF Finish
<1>6. TellsAll(Log(j)', odd'[j])
  <2>1. CASE events = <<>>
    <3>1. queue' = [queue EXCEPT ![j] = @ \o <<Sentinel>>]
      <4>1. queue[j] \in Seq(Items) /\ <<Sentinel>> \in Seq(Items)
        BY <1>4 DEF TypeOK, Items
      <4>2. queue[j] \o <<>> = queue[j]
        BY <4>1
      <4> QED
        BY <1>5, <2>1, <4>2
    <3>2. Log(j)' = s \o <<Sentinel>>
      <4>1. <<Sentinel>> \in Seq(Items)
        BY <1>4
      <4> QED
        BY <3>1, <4>1, EmitLog
    <3> HIDE DEF s
    <3>3. TellsAll(s \o <<Sentinel>>, odd[j])
      BY <1>3, <1>4, QuietTold
    <3> QED
      BY <3>2, <3>3
  <2>2. CASE events = <<Error>>
    <3>1. queue' = [queue EXCEPT ![j] = @ \o <<Error, Sentinel>>] /\ <<Error, Sentinel>> = <<Error>> \o <<Sentinel>>
      <4>1. queue[j] \in Seq(Items) /\ <<Sentinel>> \in Seq(Items) /\ <<Error>> \in Seq(Items)
        BY <1>4 DEF TypeOK, Items
      <4>2. queue[j] \o (<<Error>> \o <<Sentinel>>) = (queue[j] \o <<Error>>) \o <<Sentinel>>
        BY <4>1, ItemsAssociate, Zenon
      <4>3. <<Error, Sentinel>> = <<Error>> \o <<Sentinel>>
        OBVIOUS
      <4> QED
        BY <1>5, <2>2, <4>2, <4>3
    <3>2. Log(j)' = s \o <<Error, Sentinel>>
      <4>1. <<Error, Sentinel>> \in Seq(Items)
        BY <1>4
      <4> QED
        BY <3>1, <4>1, EmitLog
    <3>3. s \o (<<Error>> \o <<Sentinel>>) = (s \o <<Error>>) \o <<Sentinel>>
      <4>1. <<Sentinel>> \in Seq(Items) /\ <<Error>> \in Seq(Items)
        BY <1>4
      <4> HIDE DEF s
      <4> QED
        BY <1>3, <4>1, ItemsAssociate, Zenon
    <3> HIDE DEF s
    <3>4. TellsAll(s \o <<Error>>, odd[j]) /\ s \o <<Error>> \in Seq(Items)
      BY <1>3, <1>4, QuietTold
    <3>5. TellsAll((s \o <<Error>>) \o <<Sentinel>>, odd[j])
      <4> DEFINE t == s \o <<Error>>
      <4>1. TellsAll(t, odd[j]) /\ t \in Seq(Items)
        BY <3>4
      <4> HIDE DEF t
      <4>2. TellsAll(t \o <<Sentinel>>, odd[j])
        BY <1>3, <1>4, <4>1, QuietTold
      <4> QED
        BY <4>2 DEF t
    <3> QED
      BY <3>1, <3>2, <3>3, <3>5
  <2> QED
    BY <2>1, <2>2
<1>7. Told(j)'
  BY <1>2, <1>6 DEF Told
<1> QED
  BY <1>1, <1>7 DEF Mapped

-----------------------------------------------------------------------------
(* The response body.                                                      *)

(* The next event is sent, or the sentinel ends the body.                  *)
LEMMA DeliverFollowed ==
  ASSUME TypeOK, Attended, Followed, NEW j \in Runs, Deliver(j)
  PROVE  Told(j)' /\ Mapped(j)'
<1> DEFINE q == queue[j]  e == Head(q)  s == Log(j)  o == out[j]
<1>1. /\ stream[j] = "open" /\ q # <<>>
      /\ queue'[j] = Tail(q) /\ odd' = odd /\ task' = task
      /\ out'[j] = IF e = Sentinel THEN o ELSE Append(o, e)
      /\ stream'[j] = IF Closes(e) THEN "closed" ELSE "open"
      /\ UNCHANGED <<mapping, sdk>>
  BY DEF Deliver, TypeOK
<1>2. q \in Seq(Items) /\ o \in Seq(Items) /\ out[j] \in Seq(Events) /\ odd[j] \in BOOLEAN
  BY SeqMonotonic DEF TypeOK, Items
<1>3. /\ Told(j) /\ TellsAll(s, odd[j])
      /\ \A n \in DOMAIN o : ~IsTerminal(o[n])
  BY <1>1 DEF Followed, Told
<1>4. CASE e # Sentinel
  <2>1. Log(j)' = s
    <3>1. o \o q = Append(o, e) \o Tail(q)
      <4> HIDE DEF o, q
      <4> QED
        BY <1>1, <1>2
    <3> QED
      BY <1>1, <1>4, <3>1 DEF Log
  <2>2. /\ \A x : Lately(j, x)' = Lately(j, x)
        /\ Over(j)' = Over(j)
        /\ \A f : Said(j, f)' <=> Said(j, f)
    BY <2>1 DEF Lately, Over, Said
  <2>3. ASSUME NEW n \in DOMAIN out'[j], IsTerminal(out'[j][n])
        PROVE  n = Len(out'[j]) /\ stream'[j] # "open"
    <3>1. out'[j] = Append(o, e)
      BY <1>1, <1>4
    <3> HIDE DEF o, e
    <3>2. n \in DOMAIN o \/ n = Len(o) + 1
      BY <1>2, <2>3, <3>1
    <3>3. n \in DOMAIN o => out'[j][n] = o[n]
      BY <1>2, <3>1
    <3>4. n = Len(o) + 1
      BY <1>3, <2>3, <3>2, <3>3
    <3>5. out'[j][n] = e /\ Len(out'[j]) = n
      BY <1>2, <3>1, <3>4
    <3> QED
      BY <1>1, <2>3, <3>5 DEF Closes
  <2>4. Told(j)'
    <3>1. TellsAll(Log(j)', odd'[j])
      BY <1>1, <1>3, <2>1
    <3>2. stream'[j] # "none"
      BY <1>1
    <3> QED
      BY <2>3, <3>1, <3>2 DEF Told
  <2>5. \A i : OpenIs(j, i)' <=> OpenIs(j, i)
    BY <1>1 DEF OpenIs, mapping, sdk
  <2>6. Mapped(j)' <=> Mapped(j)
    <3>1. Maps(j)' <=> Maps(j)
      BY <1>1, <2>2, <2>5 DEF Maps, mapping, sdk
    <3>2. MapsWell(j)' <=> MapsWell(j)
      BY <1>1, <2>2 DEF MapsWell, Fed, mapping, sdk
    <3> QED
      BY <1>1, <3>1, <3>2 DEF Mapped
  <2> QED
    BY <2>4, <2>6 DEF Followed
<1>5. CASE e = Sentinel
  <2>1. q[1] = Sentinel /\ 1 \in DOMAIN q
    BY <1>1, <1>2, <1>5
  <2>2. Len(q) = 1 /\ task[j] = "ended"
    BY <2>1 DEF Attended, Waits
  <2>3. queue'[j] = <<>> /\ out'[j] = o /\ stream'[j] = "closed"
    <3>1. out'[j] = o /\ stream'[j] = "closed"
      BY <1>1, <1>5 DEF Closes
    <3>2. queue'[j] = Tail(q)
      BY <1>1
    <3> HIDE DEF q
    <3>3. Tail(q) = <<>>
      <4>1. Tail(q) \in Seq(Items) /\ Len(Tail(q)) = Len(q) - 1
        BY <1>1, <1>2, HeadTailProperties
      <4>2. Len(Tail(q)) = 0
        BY <2>2, <4>1
      <4> QED
        BY <4>1, <4>2, EmptySeq
    <3> QED
      BY <3>1, <3>2, <3>3
  <2>4. Log(j)' = o
    <3> HIDE DEF o
    <3>1. o \o <<>> = o
      BY <1>2
    <3> QED
      BY <2>3, <3>1 DEF Log
  <2>5. TellsAll(o, odd[j])
    <3> SUFFICES ASSUME NEW n \in DOMAIN o PROVE Tells(o, n) /\ (~odd[j] => Follows(o, n))
      BY DEF TellsAll
    <3>1. s = o \o q
      BY DEF Log
    <3> HIDE DEF s, o, q
    <3>2. n \in Nat \ {0} /\ n \in DOMAIN s /\ \A m \in 1..n : s[m] = o[m]
      BY <1>2, <3>1
    <3>3. Tells(s, n) /\ (~odd[j] => Follows(s, n))
      BY <1>3, <3>2 DEF TellsAll
    <3>4. (Tells(s, n) <=> Tells(o, n)) /\ (Follows(s, n) <=> Follows(o, n))
      BY <3>2, TellsAgree
    <3> QED
      BY <3>3, <3>4
  <2>6. Told(j)'
    <3>1. TellsAll(Log(j)', odd'[j])
      BY <1>1, <2>4, <2>5
    <3> QED
      BY <1>3, <2>3, <3>1 DEF Told
  <2> QED
    BY <1>1, <2>2, <2>6 DEF Mapped
<1> QED
  BY <1>4, <1>5

(* A step that says nothing and leaves the mapping alone.                  *)
LEMMA QuietFollowed ==
  ASSUME TypeOK, Followed, NEW j \in Runs, queue' = queue, out' = out, odd' = odd,
         UNCHANGED <<mapping, sdk>>,
         stream'[j] \in {stream[j], "left"} \/ (stream[j] = "none" /\ stream'[j] = "open"),
         task'[j] = task[j] \/ task'[j] = "refused" \/ (task[j] = "none" /\ task'[j] = "running")
  PROVE  Told(j)' /\ Mapped(j)'
<1>1. odd[j] \in BOOLEAN /\ Told(j) /\ Mapped(j)
  BY DEF TypeOK, Followed
<1>2. /\ Told(j)'
      /\ \A x : Lately(j, x)' = Lately(j, x)
      /\ Over(j)' = Over(j)
      /\ \A f : Said(j, f)' <=> Said(j, f)
  BY <1>1, SameLog
<1>3. \A i : OpenIs(j, i)' <=> OpenIs(j, i)
  BY DEF OpenIs, mapping, sdk
<1>4. Maps(j)' <=> Maps(j)
  BY <1>2, <1>3 DEF Maps, mapping, sdk
<1>5. MapsWell(j)' <=> MapsWell(j)
  BY <1>2 DEF MapsWell, Fed, mapping, sdk
<1> QED
  BY <1>1, <1>2, <1>4, <1>5 DEF Mapped

LEMMA InitFollowed == Init => Followed
<1> SUFFICES ASSUME Init, NEW j \in Runs PROVE Told(j) /\ Mapped(j)
  BY DEF Followed
<1>1. /\ out[j] = <<>> /\ queue[j] = <<>> /\ step[j] = 0 /\ tools[j] = 0 /\ calls[j] = {}
      /\ openBlocks[j] = [i \in Indexes |-> Closed] /\ buffers[j] = [i \in Indexes |-> <<>>]
      /\ block[j] = NoBlock /\ index[j] = 0
  BY DEF Init
<1>2. Log(j) = <<>>
  BY <1>1 DEF Log
<1>3. Told(j)
  BY <1>1, <1>2 DEF Told, TellsAll
<1>4. Over(j) = 0 /\ \A id : Lately(j, id) = "none"
  <2>1. Len(<<>>) = 0 /\ 1..0 = {}
    OBVIOUS
  <2>2. \A id : LastOf(<<>>, 0, id) = "none"
    BY <2>1 DEF LastOf
  <2>3. Dones(<<>>, 0) = 0
    <3>1. {m \in 1..0 : <<>>[m].type = "tool.input_done"} = {}
      BY <2>1
    <3> QED
      BY <3>1, FS_EmptySet DEF Dones
  <2> QED
    BY <1>2, <2>1, <2>2, <2>3 DEF Over, Lately
<1>5. Maps(j)
  BY <1>1, <1>4 DEF Maps, OpenIs, Closed, NoBlock
<1>6. MapsWell(j)
  BY <1>1, <1>4 DEF MapsWell, NoBlock, Idle
<1> QED
  BY <1>3, <1>5, <1>6 DEF Mapped

(* What the mapping of another run keeps.                                  *)
Stays(k) ==
  /\ out'[k] = out[k] /\ queue'[k] = queue[k] /\ odd'[k] = odd[k]
  /\ stream'[k] = stream[k] /\ task'[k] = task[k] /\ step'[k] = step[k]
  /\ openBlocks'[k] = openBlocks[k] /\ buffers'[k] = buffers[k]
  /\ tools'[k] = tools[k] /\ calls'[k] = calls[k] /\ block'[k] = block[k]
  /\ index'[k] = index[k]

LEMMA YieldsStay ==
  ASSUME TypeOK, NEW j \in Runs, NEW k \in Runs, k # j,
         (\E kind \in Kinds : BlockStart(j, kind)) \/ BlockDelta(j) \/ BlockStop(j) \/ ToolResult(j)
           \/ SubAgentMessage(j) \/ ResultMessage(j) \/ MessageStartsOver(j)
  PROVE  Stays(k)
<1>1. CASE \E kind \in Kinds : BlockStart(j, kind)
  BY <1>1 DEF TypeOK, BlockStart, Yields, Emit, Stays
<1>2. CASE BlockDelta(j)
  BY <1>2 DEF TypeOK, BlockDelta, Yields, Emit, Stays
<1>3. CASE BlockStop(j)
  BY <1>3 DEF TypeOK, BlockStop, StopTool, Yields, Emit, Stays
<1>4. CASE ToolResult(j)
  BY <1>4 DEF TypeOK, ToolResult, Yields, Emit, Stays, mapping
<1>5. CASE SubAgentMessage(j)
  BY <1>5 DEF TypeOK, SubAgentMessage, Yields, Emit, Stays, mapping
<1>6. CASE ResultMessage(j)
  BY <1>6 DEF TypeOK, ResultMessage, Yields, Emit, Stays, mapping
<1>7. CASE MessageStartsOver(j)
  BY <1>7 DEF TypeOK, MessageStartsOver, Yields, Emit, Stays, mapping
<1> QED
  BY <1>1, <1>2, <1>3, <1>4, <1>5, <1>6, <1>7

LEMMA EndsStay ==
  ASSUME TypeOK, NEW j \in Runs, NEW k \in Runs, k # j,
         Submit(j) \/ SdkEnds(j) \/ SdkRaises(j) \/ CancelLands(j) \/ Deliver(j) \/ ClientLeaves(j) \/ Refuse(j)
  PROVE  Stays(k)
<1>1. CASE Submit(j)
  BY <1>1 DEF TypeOK, Submit, Finish, Stays, mapping, sdk
<1>2. CASE SdkEnds(j) \/ SdkRaises(j)
  BY <1>2 DEF TypeOK, SdkEnds, SdkRaises, Finish, Stays, mapping, sdk
<1>3. CASE CancelLands(j)
  BY <1>3 DEF TypeOK, CancelLands, Finish, Stays, mapping, sdk
<1>4. CASE Deliver(j)
  BY <1>4 DEF TypeOK, Deliver, Stays, mapping, sdk
<1>5. CASE ClientLeaves(j)
  BY <1>5 DEF TypeOK, ClientLeaves, Stays, mapping, sdk
<1>6. CASE Refuse(j)
  BY <1>6 DEF TypeOK, Refuse, Stays, mapping, sdk
<1> QED
  BY <1>1, <1>2, <1>3, <1>4, <1>5, <1>6

LEMMA FollowedBy ==
  ASSUME Followed, NEW j \in Runs, Told(j)' /\ Mapped(j)', \A k \in Runs : k # j => Stays(k)
  PROVE  Followed'
BY FollowedElsewhere DEF Stays

LEMMA StepFollowed == TypeOK /\ Budget /\ Attended /\ Followed /\ [Next]_vars => Followed'
<1> SUFFICES ASSUME TypeOK, Budget, Attended, Followed, [Next]_vars PROVE Followed'
  OBVIOUS
<1>1. ASSUME NEW j \in Runs, NEW kind \in Kinds, BlockStart(j, kind) PROVE Followed'
  BY <1>1, BlockStartFollowed, YieldsStay, FollowedBy
<1>2. ASSUME NEW j \in Runs, BlockDelta(j) PROVE Followed'
  BY <1>2, BlockDeltaFollowed, YieldsStay, FollowedBy
<1>3. ASSUME NEW j \in Runs, BlockStop(j) PROVE Followed'
  BY <1>3, BlockStopFollowed, YieldsStay, FollowedBy
<1>4. ASSUME NEW j \in Runs, ToolResult(j) PROVE Followed'
  BY <1>4, ToolResultFollowed, YieldsStay, FollowedBy
<1>5. ASSUME NEW j \in Runs, SubAgentMessage(j) PROVE Followed'
  BY <1>5, SubAgentFollowed, YieldsStay, FollowedBy
<1>6. ASSUME NEW j \in Runs, ResultMessage(j) PROVE Followed'
  BY <1>6, ResultFollowed, YieldsStay, FollowedBy
<1>7. ASSUME NEW j \in Runs, MessageStartsOver(j) PROVE Followed'
  BY <1>7, StartsOverFollowed, YieldsStay, FollowedBy
<1>8. ASSUME NEW j \in Runs, Deliver(j) PROVE Followed'
  BY <1>8, DeliverFollowed, EndsStay, FollowedBy
<1>9. ASSUME NEW j \in Runs, SdkEnds(j) \/ SdkRaises(j) \/ CancelLands(j) PROVE Followed'
  <2>1. \E events \in {<<>>, <<Error>>} : Finish(j, events)
    BY <1>9 DEF SdkEnds, SdkRaises, CancelLands
  <2>2. out' = out /\ odd' = odd /\ stream'[j] = stream[j]
    BY <1>9 DEF SdkEnds, SdkRaises, CancelLands
  <2>3. Told(j)' /\ Mapped(j)'
    BY <2>1, <2>2, FinishFollowed
  <2> QED
    BY <1>9, <2>3, EndsStay, FollowedBy
<1>10. ASSUME NEW j \in Runs, Submit(j) PROVE Followed'
  <2>1. /\ out' = out /\ odd' = odd /\ stream[j] = "none" /\ stream'[j] = "open" /\ task[j] = "none"
        /\ UNCHANGED <<mapping, sdk>>
    BY <1>10 DEF Submit, TypeOK, Attended, Waits
  <2>2. CASE Finish(j, <<Error>>)
    <3>1. Told(j)' /\ Mapped(j)'
      BY <2>1, <2>2, FinishFollowed
    <3> QED
      BY <1>10, <3>1, EndsStay, FollowedBy
  <2>3. CASE queue' = queue /\ task' = [task EXCEPT ![j] = "running"]
    <3>1. task'[j] = "running"
      BY <2>3 DEF TypeOK
    <3>2. Told(j)' /\ Mapped(j)'
      BY <2>1, <2>3, <3>1, QuietFollowed
    <3> QED
      BY <1>10, <3>2, EndsStay, FollowedBy
  <2> QED
    BY <1>10, <2>2, <2>3 DEF Submit
<1>11. ASSUME NEW j \in Runs, Refuse(j) \/ ClientLeaves(j) PROVE Followed'
  <2>1. /\ queue' = queue /\ out' = out /\ odd' = odd /\ UNCHANGED <<mapping, sdk>>
        /\ stream'[j] \in {stream[j], "left"}
        /\ task'[j] = task[j] \/ task'[j] = "refused"
    BY <1>11 DEF Refuse, ClientLeaves, TypeOK
  <2>2. Told(j)' /\ Mapped(j)'
    BY <2>1, QuietFollowed
  <2> QED
    BY <1>11, <2>2, EndsStay, FollowedBy
<1>12. CASE (\E j \in Runs : Cancel(j)) \/ Shutdown \/ UNCHANGED vars
  <2>1. /\ queue' = queue /\ out' = out /\ odd' = odd /\ UNCHANGED <<mapping, sdk>>
        /\ stream' = stream /\ task' = task
    BY <1>12 DEF Cancel, Shutdown, vars
  <2>2. ASSUME NEW j \in Runs PROVE Told(j)' /\ Mapped(j)'
    BY <2>1, QuietFollowed
  <2> QED
    BY <2>2 DEF Followed
<1> QED
  BY <1>1, <1>2, <1>3, <1>4, <1>5, <1>6, <1>7, <1>8, <1>9, <1>10, <1>11, <1>12 DEF Next, Sdk

(* What a client that follows has been sent.                               *)
LEMMA BeforeIs == ASSUME NEW s, NEW n PROVE Before(s, n) = LastOf(s, n - 1, s[n].id)
BY DEF Before, LastOf

LEMMA CountIs ==
  ASSUME NEW s \in Seq(Events), NEW n \in DOMAIN s
  PROVE  Count(SubSeq(s, 1, n), "tool.input_done") = Dones(s, n)
<1>1. n \in Nat /\ n <= Len(s) /\ Len(s) \in Nat
  OBVIOUS
<1>2. DOMAIN SubSeq(s, 1, n) = 1..n /\ \A m \in 1..n : SubSeq(s, 1, n)[m] = s[m]
  BY <1>1
<1>3. {m \in DOMAIN SubSeq(s, 1, n) : SubSeq(s, 1, n)[m].type = "tool.input_done"}
        = {m \in 1..n : s[m].type = "tool.input_done"}
  BY <1>2
<1> QED
  BY <1>3 DEF Count, Dones

LEMMA SentIsTold ==
  ASSUME TypeOK, NEW j \in Runs, Told(j)
  PROVE  TellsAll(out[j], odd[j])
<1> DEFINE s == Log(j)  o == out[j]  q == queue[j]
<1>1. o \in Seq(Items) /\ q \in Seq(Items) /\ s = o \o q /\ TellsAll(s, odd[j])
  BY SeqMonotonic DEF TypeOK, Items, Log, Told
<1> HIDE DEF s, o, q
<1>2. SUFFICES ASSUME NEW n \in DOMAIN o PROVE Tells(o, n) /\ (~odd[j] => Follows(o, n))
  BY DEF TellsAll, o
<1>3. n \in Nat \ {0} /\ n \in DOMAIN s /\ \A m \in 1..n : s[m] = o[m]
  BY <1>1
<1>4. Tells(s, n) /\ (~odd[j] => Follows(s, n))
  BY <1>1, <1>3 DEF TellsAll
<1>5. (Tells(s, n) <=> Tells(o, n)) /\ (Follows(s, n) <=> Follows(o, n))
  BY <1>3, TellsAgree
<1> QED
  BY <1>4, <1>5

LEMMA FollowedCanFollow == TypeOK /\ Followed => ClientCanFollow
<1> SUFFICES ASSUME TypeOK, Followed, NEW j \in Runs, NEW n \in DOMAIN out[j]
             PROVE  LET s == out[j] IN
                    /\ IsTerminal(s[n]) => n = Len(s)
                    /\ s[n].type = "tool.result" => Before(s, n) = "tool.input_done"
                    /\ s[n].type = "agent.step" =>
                         /\ s[n - 1].type = "tool.input_done"
                         /\ s[n].step = Count(SubSeq(s, 1, n), "tool.input_done")
                    /\ "id" \in DOMAIN s[n] /\ ~odd[j] => Before(s, n) \in MayFollow[s[n].type]
                    /\ s[n].type = "tool.input_done" /\ ~odd[j] =>
                         s[n].input = IF \E m \in 1..n : s[m] = Event("tool.input_delta", s[n].id)
                                        THEN <<s[n].id>> ELSE <<>>
  BY DEF ClientCanFollow
<1> DEFINE s == out[j]
<1>1. s \in Seq(Events) /\ Told(j)
  BY DEF TypeOK, Followed
<1>2. Tells(s, n) /\ (~odd[j] => Follows(s, n))
  BY <1>1, SentIsTold DEF TellsAll
<1>3. IsTerminal(s[n]) => n = Len(s)
  BY <1>1 DEF Told
<1> HIDE DEF s
<1>4. Before(s, n) = LastOf(s, n - 1, s[n].id)
  BY BeforeIs
<1>5. n \in DOMAIN s
  BY DEF s
<1>6. Count(SubSeq(s, 1, n), "tool.input_done") = Dones(s, n)
  BY <1>1, <1>5, CountIs
<1>7. /\ s[n].type = "tool.result" => Before(s, n) = "tool.input_done"
      /\ s[n].type = "agent.step" =>
           /\ s[n - 1].type = "tool.input_done"
           /\ s[n].step = Count(SubSeq(s, 1, n), "tool.input_done")
  BY <1>2, <1>4, <1>6 DEF Tells
<1>8. ASSUME ~odd[j]
      PROVE  /\ "id" \in DOMAIN s[n] => Before(s, n) \in MayFollow[s[n].type]
             /\ s[n].type = "tool.input_done" =>
                  s[n].input = IF \E m \in 1..n : s[m] = Event("tool.input_delta", s[n].id)
                                 THEN <<s[n].id>> ELSE <<>>
  BY <1>2, <1>4, <1>8 DEF Follows
<1> QED
  BY <1>3, <1>7, <1>8 DEF s

(* The events of a run, those sent and those still in the queue, tell the  *)
(* life of its blocks and calls in order, and what the mapping holds open  *)
(* is what they say is open (sdk_mapping.py:22-28, 92-98).                 *)
THEOREM EventsMakeSense == Spec => [](TypeOK /\ Followed)
<1>1. Init => TypeOK /\ Budget /\ Attended /\ Followed
  BY InitTypes, InitAttended, InitFollowed
<1>2. TypeOK /\ Budget /\ Attended /\ Followed /\ [Next]_vars => (TypeOK /\ Budget /\ Attended /\ Followed)'
  BY StepTypes, StepAttended, StepFollowed
<1> QED
  BY <1>1, <1>2, PTL DEF Spec

(* A client can follow what it is sent: nothing after a terminal event, a  *)
(* result only for a call whose input is done, steps counted as they are   *)
(* made, and blocks that begin, go on and end (the job's stream in         *)
(* engine_core/app.py; sdk_mapping.py:22-28, 92-98).                       *)
THEOREM ClientsFollow == Spec => []ClientCanFollow
BY EventsMakeSense, FollowedCanFollow, PTL

-----------------------------------------------------------------------------
(* The pump.                                                               *)

(* There is a pump for every sequence of events: were there none for some  *)
(* number of events, there would be none for one event less.               *)
LEMMA PumpIs ==
  ASSUME NEW s, Len(s) \in Nat
  PROVE  /\ Pump(s)[0] = FreshPump
         /\ \A n \in 1..Len(s) : Pump(s)[n] = Handle(Pump(s)[n - 1], s[n])
<1> DEFINE Is(g, n) == g = [m \in 0..n |-> IF m = 0 THEN FreshPump ELSE Handle(g[m - 1], s[m])]
           none == {n \in Nat : ~\E g : Is(g, n)}
<1>1. none = {}
  <2> SUFFICES ASSUME none # {} PROVE FALSE
    OBVIOUS
  <2>1. PICK n \in none : \A k \in none : n <= k
    <3>1. none \in SUBSET Nat
      OBVIOUS
    <3> HIDE DEF none
    <3> QED
      BY <3>1, LeastNumber
  <2>2. CASE n = 0
    <3> DEFINE g == [m \in 0..0 |-> FreshPump]
    <3>1. Is(g, 0)
      OBVIOUS
    <3> QED
      BY <2>2, <3>1
  <2>3. CASE n # 0
    <3>1. n - 1 \in Nat /\ n \in Nat
      BY <2>3
    <3>2. n - 1 \notin none
      <4> HIDE DEF none
      <4> QED
        BY <2>1, <3>1
    <3>3. PICK g : Is(g, n - 1)
      BY <3>1, <3>2
    <3> DEFINE h == [m \in 0..n |-> IF m < n THEN g[m] ELSE Handle(g[n - 1], s[n])]
    <3>4. ASSUME NEW m \in 0..n
          PROVE  h[m] = IF m = 0 THEN FreshPump ELSE Handle(h[m - 1], s[m])
      <4>1. CASE m = 0
        BY <2>3, <3>1, <3>3, <4>1
      <4>2. CASE m # 0 /\ m < n
        <5>1. h[m] = g[m] /\ h[m - 1] = g[m - 1] /\ m \in 0..(n - 1)
          BY <3>1, <4>2
        <5> HIDE DEF h
        <5> QED
          BY <3>1, <3>3, <4>2, <5>1
      <4>3. CASE m = n
        <5>1. h[m] = Handle(g[n - 1], s[n]) /\ h[m - 1] = g[n - 1]
          BY <3>1, <4>3
        <5> HIDE DEF h
        <5> QED
          BY <2>3, <4>3, <5>1
      <4> QED
        BY <4>1, <4>2, <4>3
    <3>5. Is(h, n)
      <4>1. h = [m \in 0..n |-> h[m]]
        OBVIOUS
      <4> HIDE DEF h
      <4> QED
        BY <3>4, <4>1
    <3> QED
      BY <3>5
  <2> QED
    BY <2>2, <2>3
<1>2. \E g : Is(g, Len(s))
  BY <1>1
<1>3. Pump(s) = CHOOSE g : Is(g, Len(s))
  BY DEF Pump
<1> DEFINE g == Pump(s)
<1>4. g = [m \in 0..Len(s) |-> IF m = 0 THEN FreshPump ELSE Handle(g[m - 1], s[m])]
  BY <1>2, <1>3
<1> HIDE DEF g
<1>5. g[0] = FreshPump
  BY <1>4
<1>6. ASSUME NEW n \in 1..Len(s) PROVE g[n] = Handle(g[n - 1], s[n])
  BY <1>4
<1> QED
  BY <1>5, <1>6 DEF g

Parts == {"text", "reasoning"}
Chunks ==
  [type : {"start", "delta", "end", "output"}, id : (Parts \cup {"tool"}) \X Ids]
    \cup [type : {"available"}, id : {"tool"} \X Ids, input : Seq(Ids)]
Pumps == [open : SUBSET (Parts \X Ids), fragments : UNION {[D -> Seq(Ids)] : D \in SUBSET Ids},
          ui : Seq(Chunks)]

(* What was shown of a part last.                                          *)
Shown(p, part, id) == LastOf(p.ui, Len(p.ui), <<part, id>>)
Precedes(u, n) == LastOf(u, n - 1, u[n].id) \in MayPrecede[u[n].type]

(* A part is open if it was begun and not ended.                           *)
Whole(p) ==
  /\ \A part \in Parts, id \in Ids :
       Shown(p, part, id) \in IF IsOpen(p, part, id) THEN {"start", "delta"} ELSE {"none", "end"}
  /\ \A n \in DOMAIN p.ui : p.ui[n].id[1] # "tool" => Precedes(p.ui, n)

LEMMA ChunksAre ==
  /\ \A type \in {"start", "delta", "end", "output"}, part \in Parts \cup {"tool"}, id \in Ids :
       Chunk(type, part, id) \in Chunks
  /\ \A type \in {"start", "delta", "end", "output"}, id \in Ids :
       Chunk(type, "tool", id) \in Chunks /\ Chunk(type, "tool", id).id[1] = "tool"
  /\ \A id \in Ids, raw \in Seq(Ids) :
       [type |-> "available", id |-> <<"tool", id>>, input |-> raw] \in Chunks
  /\ \A c \in Chunks : "id" \in DOMAIN c
BY DEF Chunks, Chunk

LEMMA WriteMore ==
  ASSUME NEW u \in Seq(Chunks), NEW c \in Chunks
  PROVE  More(u, Append(u, c), c) /\ Append(u, c) \in Seq(Chunks)
BY DEF More

(* What one more chunk shows.                                              *)
LEMMA WriteShows ==
  ASSUME NEW p \in Pumps, NEW q \in Pumps, NEW c \in Chunks, q.ui = Append(p.ui, c)
  PROVE  \A x : LastOf(q.ui, Len(q.ui), x) = IF c.id = x THEN c.type ELSE LastOf(p.ui, Len(p.ui), x)
<1> DEFINE u == p.ui  v == q.ui
<1>1. u \in Seq(Chunks) /\ v = Append(u, c)
  BY DEF Pumps
<1> HIDE DEF u, v
<1>2. More(u, v, c)
  BY <1>1, WriteMore
<1>3. \A x : LastOf(v, Len(v), x) = IF "id" \in DOMAIN c /\ c.id = x THEN c.type ELSE LastOf(u, Len(u), x)
  BY <1>2, MoreLast
<1>4. \A x : LastOf(v, Len(v), x) = IF c.id = x THEN c.type ELSE LastOf(u, Len(u), x)
  BY <1>3, ChunksAre
<1> QED
  BY <1>4 DEF u, v

LEMMA WriteKeeps ==
  ASSUME NEW p \in Pumps, NEW q \in Pumps, NEW c \in Chunks, q.ui = Append(p.ui, c)
  PROVE  \A n \in DOMAIN q.ui :
           \/ n \in DOMAIN p.ui /\ q.ui[n] = p.ui[n] /\ (Precedes(q.ui, n) <=> Precedes(p.ui, n))
           \/ q.ui[n] = c /\ (Precedes(q.ui, n) <=> LastOf(p.ui, Len(p.ui), c.id) \in MayPrecede[c.type])
<1> DEFINE u == p.ui  v == q.ui
<1>1. u \in Seq(Chunks) /\ v = Append(u, c)
  BY DEF Pumps
<1> HIDE DEF u, v
<1>2. More(u, v, c) /\ v \in Seq(Chunks)
  BY <1>1, WriteMore
<1>3. ASSUME NEW n \in DOMAIN v
      PROVE  \/ n \in DOMAIN u /\ v[n] = u[n] /\ (Precedes(v, n) <=> Precedes(u, n))
             \/ v[n] = c /\ (Precedes(v, n) <=> LastOf(u, Len(u), c.id) \in MayPrecede[c.type])
  <2>0. Len(u) \in Nat /\ DOMAIN u = 1..Len(u) /\ DOMAIN v = 1..(Len(u) + 1)
    BY <1>1, <1>2 DEF More
  <2>1. CASE n \in DOMAIN u
    <3>1. n - 1 \in Nat /\ \A m \in 1..n : v[m] = u[m]
      BY <1>2, <2>0, <2>1 DEF More
    <3>2. n \in 1..n /\ \A m \in 1..(n - 1) : v[m] = u[m]
      BY <2>0, <2>1, <3>1
    <3>3. \A x : LastOf(v, n - 1, x) = LastOf(u, n - 1, x)
      BY <3>1, <3>2, LastAgrees
    <3>4. v[n] = u[n]
      BY <3>1, <3>2
    <3> QED
      BY <2>1, <3>3, <3>4 DEF Precedes
  <2>2. CASE n = Len(u) + 1
    <3>1. v[n] = c /\ n - 1 = Len(u)
      BY <1>2, <2>0, <2>2 DEF More
    <3>2. LastOf(v, Len(u), c.id) = LastOf(u, Len(u), c.id)
      BY <1>2, MoreLast
    <3> QED
      BY <3>1, <3>2 DEF Precedes
  <2> QED
    BY <2>0, <2>1, <2>2
<1> QED
  BY <1>3 DEF u, v

(* The fields after each step.                                             *)
LEMMA PartSteps ==
  ASSUME NEW p \in Pumps, NEW part \in Parts, NEW id \in Ids
  PROVE  /\ ~IsOpen(p, part, id) =>
              /\ StartPart(p, part, id) \in Pumps
              /\ StartPart(p, part, id).open = p.open \cup {<<part, id>>}
              /\ StartPart(p, part, id).fragments = p.fragments
              /\ StartPart(p, part, id).ui = Append(p.ui, Chunk("start", part, id))
         /\ IsOpen(p, part, id) => StartPart(p, part, id) = p
         /\ IsOpen(p, part, id) =>
              /\ EndPart(p, part, id) \in Pumps
              /\ EndPart(p, part, id).open = p.open \ {<<part, id>>}
              /\ EndPart(p, part, id).fragments = p.fragments
              /\ EndPart(p, part, id).ui = Append(p.ui, Chunk("end", part, id))
         /\ ~IsOpen(p, part, id) => EndPart(p, part, id) = p
<1>1. Chunk("start", part, id) \in Chunks /\ Chunk("end", part, id) \in Chunks
  BY ChunksAre
<1>2. Append(p.ui, Chunk("start", part, id)) \in Seq(Chunks) /\ Append(p.ui, Chunk("end", part, id)) \in Seq(Chunks)
  BY <1>1, WriteMore DEF Pumps
<1>3. p.open \cup {<<part, id>>} \in SUBSET (Parts \X Ids) /\ p.open \ {<<part, id>>} \in SUBSET (Parts \X Ids)
  BY DEF Pumps
<1> QED
  BY <1>2, <1>3 DEF Pumps, StartPart, EndPart, Written

LEMMA WrittenIs ==
  ASSUME NEW p \in Pumps, NEW c \in Chunks
  PROVE  /\ Written(p, c) \in Pumps /\ Written(p, c).open = p.open
         /\ Written(p, c).fragments = p.fragments /\ Written(p, c).ui = Append(p.ui, c)
<1>1. Append(p.ui, c) \in Seq(Chunks)
  BY WriteMore DEF Pumps
<1> QED
  BY <1>1 DEF Pumps, Written

LEMMA ToolSteps ==
  ASSUME NEW p \in Pumps, NEW id \in Ids
  PROVE  /\ Buffered(p, id) \in Seq(Ids)
         /\ StartTool(p, id) \in Pumps /\ StartTool(p, id).open = p.open
         /\ FeedTool(p, id) \in Pumps /\ FeedTool(p, id).open = p.open
         /\ FinishTool(p, id) \in Pumps /\ FinishTool(p, id).open = p.open
         /\ AnswerTool(p, id) \in Pumps /\ AnswerTool(p, id).open = p.open
         /\ StartTool(p, id).ui = Append(p.ui, Chunk("start", "tool", id))
         /\ FeedTool(p, id).ui = Append(p.ui, Chunk("delta", "tool", id))
         /\ FinishTool(p, id).ui =
              Append(p.ui, [type |-> "available", id |-> <<"tool", id>>, input |-> Parsed(Buffered(p, id))])
         /\ AnswerTool(p, id).ui = Append(p.ui, Chunk("output", "tool", id))
         /\ \A x \in Ids :
              /\ Buffered(StartTool(p, id), x) = IF x = id THEN <<>> ELSE Buffered(p, x)
              /\ Buffered(FeedTool(p, id), x) = IF x = id THEN Append(Buffered(p, id), id) ELSE Buffered(p, x)
              /\ x # id => Buffered(FinishTool(p, id), x) = Buffered(p, x)
              /\ Buffered(AnswerTool(p, id), x) = Buffered(p, x)
<1> DEFINE All == UNION {[D -> Seq(Ids)] : D \in SUBSET Ids}
<1>1. Buffered(p, id) \in Seq(Ids)
  BY DEF Pumps, Buffered
<1>2. ASSUME NEW raw \in Seq(Ids)
      PROVE  /\ SetBuffer(p, id, raw) \in Pumps
             /\ SetBuffer(p, id, raw).open = p.open /\ SetBuffer(p, id, raw).ui = p.ui
             /\ \A x \in Ids : Buffered(SetBuffer(p, id, raw), x) = IF x = id THEN raw ELSE Buffered(p, x)
  <2> DEFINE f == [i \in DOMAIN p.fragments \cup {id} |-> IF i = id THEN raw ELSE p.fragments[i]]
  <2>1. PICK D \in SUBSET Ids : p.fragments \in [D -> Seq(Ids)]
    BY DEF Pumps
  <2>2. f \in [D \cup {id} -> Seq(Ids)] /\ D \cup {id} \in SUBSET Ids
    BY <2>1
  <2>3. f \in UNION {[E -> Seq(Ids)] : E \in SUBSET Ids}
    <3> HIDE DEF f
    <3> QED
      BY <2>2
  <2>4. SetBuffer(p, id, raw) = [p EXCEPT !.fragments = f]
    BY DEF SetBuffer
  <2> HIDE DEF f
  <2>5. /\ SetBuffer(p, id, raw) \in Pumps
        /\ SetBuffer(p, id, raw).open = p.open /\ SetBuffer(p, id, raw).ui = p.ui
        /\ SetBuffer(p, id, raw).fragments = f
    BY <2>3, <2>4 DEF Pumps
  <2>6. ASSUME NEW x \in Ids PROVE Buffered(SetBuffer(p, id, raw), x) = IF x = id THEN raw ELSE Buffered(p, x)
    BY <2>1, <2>5 DEF Buffered, f
  <2> QED
    BY <2>5, <2>6
<1>3. Append(Buffered(p, id), id) \in Seq(Ids) /\ <<>> \in Seq(Ids) /\ Parsed(Buffered(p, id)) \in Seq(Ids)
  BY <1>1, ParsedIs
<1>4. /\ Chunk("start", "tool", id) \in Chunks /\ Chunk("delta", "tool", id) \in Chunks
      /\ Chunk("output", "tool", id) \in Chunks
      /\ [type |-> "available", id |-> <<"tool", id>>, input |-> Parsed(Buffered(p, id))] \in Chunks
  BY <1>3, ChunksAre
<1>5. /\ StartTool(p, id) \in Pumps /\ StartTool(p, id).open = p.open
      /\ StartTool(p, id).ui = Append(p.ui, Chunk("start", "tool", id))
      /\ \A x \in Ids : Buffered(StartTool(p, id), x) = IF x = id THEN <<>> ELSE Buffered(p, x)
  <2> DEFINE q == SetBuffer(p, id, <<>>)
  <2>1. /\ q \in Pumps /\ q.open = p.open /\ q.ui = p.ui
        /\ \A x \in Ids : Buffered(q, x) = IF x = id THEN <<>> ELSE Buffered(p, x)
    BY <1>2, <1>3
  <2> DEFINE c == Chunk("start", "tool", id)
  <2>2. StartTool(p, id) = Written(q, c) /\ c \in Chunks
    BY <1>4 DEF StartTool
  <2> HIDE DEF q, c
  <2>3. /\ StartTool(p, id) \in Pumps /\ StartTool(p, id).open = q.open
        /\ StartTool(p, id).fragments = q.fragments
        /\ StartTool(p, id).ui = Append(q.ui, c)
    BY <2>1, <2>2, WrittenIs
  <2>4. \A x : Buffered(StartTool(p, id), x) = Buffered(q, x)
    BY <2>3 DEF Buffered
  <2> QED
    BY <2>1, <2>3, <2>4 DEF c
<1>6. /\ FeedTool(p, id) \in Pumps /\ FeedTool(p, id).open = p.open
      /\ FeedTool(p, id).ui = Append(p.ui, Chunk("delta", "tool", id))
      /\ \A x \in Ids : Buffered(FeedTool(p, id), x) = IF x = id THEN Append(Buffered(p, id), id) ELSE Buffered(p, x)
  <2> DEFINE raw == Append(Buffered(p, id), id)
             q == SetBuffer(p, id, raw)
  <2>0. raw \in Seq(Ids)
    BY <1>3
  <2> DEFINE c == Chunk("delta", "tool", id)
  <2>2. FeedTool(p, id) = Written(q, c) /\ c \in Chunks
    BY <1>4 DEF FeedTool
  <2> HIDE DEF raw
  <2>1. /\ q \in Pumps /\ q.open = p.open /\ q.ui = p.ui
        /\ \A x \in Ids : Buffered(q, x) = IF x = id THEN raw ELSE Buffered(p, x)
    BY <1>2, <2>0
  <2> HIDE DEF q, c
  <2>3. /\ FeedTool(p, id) \in Pumps /\ FeedTool(p, id).open = q.open
        /\ FeedTool(p, id).fragments = q.fragments
        /\ FeedTool(p, id).ui = Append(q.ui, c)
    BY <2>1, <2>2, WrittenIs
  <2>4. \A x : Buffered(FeedTool(p, id), x) = Buffered(q, x)
    BY <2>3 DEF Buffered
  <2> QED
    BY <2>1, <2>3, <2>4 DEF raw, c
<1>7. /\ FinishTool(p, id) \in Pumps /\ FinishTool(p, id).open = p.open
      /\ FinishTool(p, id).ui =
           Append(p.ui, [type |-> "available", id |-> <<"tool", id>>, input |-> Parsed(Buffered(p, id))])
      /\ \A x \in Ids : x # id => Buffered(FinishTool(p, id), x) = Buffered(p, x)
  <2> DEFINE f == Restrict(p.fragments, DOMAIN p.fragments \ {id})
             q == [p EXCEPT !.fragments = f]
             c == [type |-> "available", id |-> <<"tool", id>>, input |-> Parsed(Buffered(p, id))]
  <2>1. PICK D \in SUBSET Ids : p.fragments \in [D -> Seq(Ids)]
    BY DEF Pumps
  <2>2. f \in [D \ {id} -> Seq(Ids)] /\ D \ {id} \in SUBSET Ids
        /\ \A x \in D \ {id} : f[x] = p.fragments[x]
    BY <2>1 DEF Restrict
  <2>3. FinishTool(p, id) = Written(q, c)
    BY DEF FinishTool
  <2> HIDE DEF f
  <2>4. f \in UNION {[E -> Seq(Ids)] : E \in SUBSET Ids}
    BY <2>2
  <2>5. q \in Pumps /\ q.open = p.open /\ q.ui = p.ui /\ q.fragments = f
    BY <2>4 DEF Pumps
  <2>6. c \in Chunks
    BY <1>4
  <2> HIDE DEF q, c
  <2>7. /\ FinishTool(p, id) \in Pumps /\ FinishTool(p, id).open = q.open
        /\ FinishTool(p, id).fragments = q.fragments /\ FinishTool(p, id).ui = Append(q.ui, c)
    BY <2>3, <2>5, <2>6, WrittenIs
  <2>8. ASSUME NEW x \in Ids, x # id PROVE Buffered(FinishTool(p, id), x) = Buffered(p, x)
    BY <2>1, <2>2, <2>5, <2>7, <2>8 DEF Buffered
  <2> QED
    BY <2>5, <2>7, <2>8 DEF c
<1>8. /\ AnswerTool(p, id) \in Pumps /\ AnswerTool(p, id).open = p.open
      /\ AnswerTool(p, id).ui = Append(p.ui, Chunk("output", "tool", id))
      /\ \A x \in Ids : Buffered(AnswerTool(p, id), x) = Buffered(p, x)
  BY <1>4, WrittenIs DEF AnswerTool, Buffered
<1> QED
  BY <1>1, <1>5, <1>6, <1>7, <1>8

(* A chunk that may come next, and what is open after it.                  *)
LEMMA ChunkWhole ==
  ASSUME NEW p \in Pumps, NEW q \in Pumps, NEW c \in Chunks, q.ui = Append(p.ui, c), Whole(p),
         c.id[1] # "tool" => LastOf(p.ui, Len(p.ui), c.id) \in MayPrecede[c.type],
         \A part \in Parts, id \in Ids :
           IF c.id = <<part, id>>
             THEN c.type \in IF IsOpen(q, part, id) THEN {"start", "delta"} ELSE {"none", "end"}
             ELSE IsOpen(q, part, id) <=> IsOpen(p, part, id)
  PROVE  Whole(q)
<1>0. \A x : LastOf(q.ui, Len(q.ui), x) = IF c.id = x THEN c.type ELSE LastOf(p.ui, Len(p.ui), x)
  BY WriteShows
<1>1. \A n \in DOMAIN q.ui :
        \/ n \in DOMAIN p.ui /\ q.ui[n] = p.ui[n] /\ (Precedes(q.ui, n) <=> Precedes(p.ui, n))
        \/ q.ui[n] = c /\ (Precedes(q.ui, n) <=> LastOf(p.ui, Len(p.ui), c.id) \in MayPrecede[c.type])
  BY WriteKeeps
<1>2. ASSUME NEW part \in Parts, NEW id \in Ids
      PROVE  Shown(q, part, id) \in IF IsOpen(q, part, id) THEN {"start", "delta"} ELSE {"none", "end"}
  <2>1. CASE c.id = <<part, id>>
    BY <1>0, <2>1 DEF Shown
  <2>2. CASE c.id # <<part, id>>
    <3>1. Shown(q, part, id) = Shown(p, part, id)
      BY <1>0, <2>2 DEF Shown
    <3> QED
      BY <2>2, <3>1 DEF Whole
  <2> QED
    BY <2>1, <2>2
<1>3. ASSUME NEW n \in DOMAIN q.ui, q.ui[n].id[1] # "tool" PROVE Precedes(q.ui, n)
  BY <1>1, <1>3 DEF Whole
<1> QED
  BY <1>2, <1>3 DEF Whole

LEMMA ToolWhole ==
  ASSUME NEW p \in Pumps, NEW q \in Pumps, NEW c \in Chunks, q.ui = Append(p.ui, c), Whole(p),
         q.open = p.open, c.id[1] = "tool"
  PROVE  Whole(q)
<1>1. \A part \in Parts, id \in Ids : c.id # <<part, id>>
  BY DEF Parts
<1>2. \A part \in Parts, id \in Ids : IsOpen(q, part, id) <=> IsOpen(p, part, id)
  BY DEF IsOpen
<1> QED
  BY <1>1, <1>2, ChunkWhole

(* Two parts of one kind have two ids.                                     *)
LEMMA ChunkIs ==
  \A type, part, id :
    /\ Chunk(type, part, id).type = type /\ Chunk(type, part, id).id = <<part, id>>
    /\ Chunk(type, part, id).id[1] = part
BY DEF Chunk

LEMMA StartWhole ==
  ASSUME NEW p \in Pumps, Whole(p), NEW part \in Parts, NEW id \in Ids
  PROVE  /\ StartPart(p, part, id) \in Pumps /\ Whole(StartPart(p, part, id))
         /\ IsOpen(StartPart(p, part, id), part, id)
<1> DEFINE q == StartPart(p, part, id)  c == Chunk("start", part, id)
<1>1. CASE IsOpen(p, part, id)
  BY <1>1, PartSteps
<1>2. CASE ~IsOpen(p, part, id)
  <2>1. /\ q \in Pumps /\ q.open = p.open \cup {<<part, id>>} /\ q.ui = Append(p.ui, c)
        /\ c \in Chunks /\ c.id = <<part, id>> /\ c.type = "start" /\ c.id[1] # "tool"
    BY <1>2, PartSteps, ChunksAre, ChunkIs DEF Parts
  <2>2. LastOf(p.ui, Len(p.ui), c.id) \in MayPrecede[c.type]
    <3>1. Shown(p, part, id) \in {"none", "end"}
      BY <1>2 DEF Whole
    <3> QED
      BY <2>1, <3>1 DEF Shown, MayPrecede
  <2> HIDE DEF q, c
  <2>3. IsOpen(q, part, id)
    BY <2>1 DEF IsOpen
  <2>4. ASSUME NEW r \in Parts, NEW x \in Ids
        PROVE  IF c.id = <<r, x>>
                 THEN c.type \in IF IsOpen(q, r, x) THEN {"start", "delta"} ELSE {"none", "end"}
                 ELSE IsOpen(q, r, x) <=> IsOpen(p, r, x)
    <3>1. CASE c.id = <<r, x>>
      BY <2>1, <2>3, <3>1 DEF IsOpen
    <3>2. CASE c.id # <<r, x>>
      <4>1. <<r, x>> \in q.open <=> <<r, x>> \in p.open
        BY <2>1, <3>2
      <4> QED
        BY <3>2, <4>1 DEF IsOpen
    <3> QED
      BY <3>1, <3>2
  <2>5. Whole(q)
    BY <2>1, <2>2, <2>4, ChunkWhole
  <2> QED
    BY <2>1, <2>3, <2>5 DEF q
<1> QED
  BY <1>1, <1>2

LEMMA DeltaWhole ==
  ASSUME NEW p \in Pumps, Whole(p), NEW part \in Parts, NEW id \in Ids
  PROVE  DeltaPart(p, part, id) \in Pumps /\ Whole(DeltaPart(p, part, id))
<1> DEFINE r == StartPart(p, part, id)  c == Chunk("delta", part, id)  q == Written(r, c)
<1>1. r \in Pumps /\ Whole(r) /\ IsOpen(r, part, id)
  BY StartWhole
<1>2. c \in Chunks /\ c.id = <<part, id>> /\ c.type = "delta" /\ c.id[1] # "tool"
  BY ChunksAre, ChunkIs DEF Parts
<1>3. DeltaPart(p, part, id) = q
  BY DEF DeltaPart
<1> HIDE DEF r, c
<1>4. q \in Pumps /\ q.open = r.open /\ q.ui = Append(r.ui, c)
  BY <1>1, <1>2, WrittenIs
<1> HIDE DEF q
<1>5. LastOf(r.ui, Len(r.ui), c.id) \in MayPrecede[c.type]
  <2>1. Shown(r, part, id) \in {"start", "delta"}
    BY <1>1 DEF Whole
  <2> QED
    BY <1>2, <2>1 DEF Shown, MayPrecede
<1>6. ASSUME NEW s \in Parts, NEW x \in Ids
      PROVE  IF c.id = <<s, x>>
               THEN c.type \in IF IsOpen(q, s, x) THEN {"start", "delta"} ELSE {"none", "end"}
               ELSE IsOpen(q, s, x) <=> IsOpen(r, s, x)
  BY <1>1, <1>2, <1>4 DEF IsOpen
<1>7. Whole(q)
  BY <1>1, <1>2, <1>4, <1>5, <1>6, ChunkWhole
<1> QED
  BY <1>3, <1>4, <1>7

LEMMA EndWhole ==
  ASSUME NEW p \in Pumps, Whole(p), NEW part \in Parts, NEW id \in Ids
  PROVE  EndPart(p, part, id) \in Pumps /\ Whole(EndPart(p, part, id))
<1> DEFINE q == EndPart(p, part, id)  c == Chunk("end", part, id)
<1>1. CASE ~IsOpen(p, part, id)
  BY <1>1, PartSteps
<1>2. CASE IsOpen(p, part, id)
  <2>1. /\ q \in Pumps /\ q.open = p.open \ {<<part, id>>} /\ q.ui = Append(p.ui, c)
        /\ c \in Chunks /\ c.id = <<part, id>> /\ c.type = "end" /\ c.id[1] # "tool"
    BY <1>2, PartSteps, ChunksAre, ChunkIs DEF Parts
  <2>2. LastOf(p.ui, Len(p.ui), c.id) \in MayPrecede[c.type]
    <3>1. Shown(p, part, id) \in {"start", "delta"}
      BY <1>2 DEF Whole
    <3> QED
      BY <2>1, <3>1 DEF Shown, MayPrecede
  <2> HIDE DEF q, c
  <2>3. ~IsOpen(q, part, id)
    BY <2>1 DEF IsOpen
  <2>4. ASSUME NEW r \in Parts, NEW x \in Ids
        PROVE  IF c.id = <<r, x>>
                 THEN c.type \in IF IsOpen(q, r, x) THEN {"start", "delta"} ELSE {"none", "end"}
                 ELSE IsOpen(q, r, x) <=> IsOpen(p, r, x)
    <3>1. CASE c.id = <<r, x>>
      BY <2>1, <2>3, <3>1 DEF IsOpen
    <3>2. CASE c.id # <<r, x>>
      <4>1. <<r, x>> \in q.open <=> <<r, x>> \in p.open
        BY <2>1, <3>2
      <4> QED
        BY <3>2, <4>1 DEF IsOpen
    <3> QED
      BY <3>1, <3>2
  <2>5. Whole(q)
    BY <2>1, <2>2, <2>4, ChunkWhole
  <2> QED
    BY <2>1, <2>5 DEF q
<1> QED
  BY <1>1, <1>2

(* An event is what its type says.                                         *)
LEMMA EventIs ==
  \A e \in Events :
    \/ e.type \in BlockEvents /\ e.id \in Ids /\ "id" \in DOMAIN e /\ e = Event(e.type, e.id)
    \/ e.type = "tool.input_done" /\ e.id \in Ids /\ "id" \in DOMAIN e /\ e = InputDone(e.id, e.input)
    \/ e.type \in {"error", "result", "agent.step"} /\ "id" \notin DOMAIN e
BY DEF Events, Event, InputDone, Error, Result

LEMMA HandleIs ==
  ASSUME NEW p, NEW e \in Events
  PROVE  /\ e.type = "text.start" => Handle(p, e) = StartPart(p, "text", e.id)
         /\ e.type = "text.delta" => Handle(p, e) = DeltaPart(p, "text", e.id)
         /\ e.type = "text.stop" => Handle(p, e) = EndPart(p, "text", e.id)
         /\ e.type = "thinking.start" => Handle(p, e) = StartPart(p, "reasoning", e.id)
         /\ e.type = "thinking.delta" => Handle(p, e) = DeltaPart(p, "reasoning", e.id)
         /\ e.type = "thinking.stop" => Handle(p, e) = EndPart(p, "reasoning", e.id)
         /\ e.type = "tool.start" => Handle(p, e) = StartTool(p, e.id)
         /\ e.type = "tool.input_delta" => Handle(p, e) = FeedTool(p, e.id)
         /\ e.type = "tool.input_done" => Handle(p, e) = FinishTool(p, e.id)
         /\ e.type = "tool.result" => Handle(p, e) = AnswerTool(p, e.id)
         /\ e.type \in {"error", "result", "agent.step"} => Handle(p, e) = p
BY DEF Handle

LEMMA HandleWhole ==
  ASSUME NEW p \in Pumps, Whole(p), NEW e \in Events
  PROVE  Handle(p, e) \in Pumps /\ Whole(Handle(p, e))
<1>0. "text" \in Parts /\ "reasoning" \in Parts
  BY DEF Parts
<1>1. CASE e.type \in {"text.start", "thinking.start"} /\ e.id \in Ids
  BY <1>0, <1>1, HandleIs, StartWhole
<1>2. CASE e.type \in {"text.delta", "thinking.delta"} /\ e.id \in Ids
  BY <1>0, <1>2, HandleIs, DeltaWhole
<1>3. CASE e.type \in {"text.stop", "thinking.stop"} /\ e.id \in Ids
  BY <1>0, <1>3, HandleIs, EndWhole
<1>4. CASE e.type \in {"tool.start", "tool.input_delta", "tool.input_done", "tool.result"} /\ e.id \in Ids
  <2> DEFINE q == Handle(p, e)
  <2>1. PICK id \in Ids : id = e.id
    BY <1>4
  <2>2. \/ q = StartTool(p, id) \/ q = FeedTool(p, id) \/ q = FinishTool(p, id) \/ q = AnswerTool(p, id)
    BY <1>4, <2>1, HandleIs
  <2> HIDE DEF q
  <2>3. q \in Pumps /\ q.open = p.open
    <3>1. CASE q = StartTool(p, id)
      BY <3>1, ToolSteps
    <3>2. CASE q = FeedTool(p, id)
      BY <3>2, ToolSteps
    <3>3. CASE q = FinishTool(p, id)
      BY <3>3, ToolSteps
    <3>4. CASE q = AnswerTool(p, id)
      BY <3>4, ToolSteps
    <3> QED
      BY <2>2, <3>1, <3>2, <3>3, <3>4
  <2>4. \E c \in Chunks : q.ui = Append(p.ui, c) /\ c.id[1] = "tool"
    <3>0. ASSUME NEW type \in {"start", "delta", "output"}
          PROVE  Chunk(type, "tool", id) \in Chunks /\ Chunk(type, "tool", id).id[1] = "tool"
      BY ChunksAre
    <3>1. CASE q = StartTool(p, id)
      BY <3>0, <3>1, ToolSteps
    <3>2. CASE q = FeedTool(p, id)
      BY <3>0, <3>2, ToolSteps
    <3>3. CASE q = FinishTool(p, id)
      <4> DEFINE c == [type |-> "available", id |-> <<"tool", id>>, input |-> Parsed(Buffered(p, id))]
      <4>1. Parsed(Buffered(p, id)) \in Seq(Ids)
        BY ToolSteps, ParsedIs
      <4>2. c \in Chunks /\ c.id[1] = "tool"
        BY <4>1, ChunksAre
      <4>3. q.ui = Append(p.ui, c)
        BY <3>3, ToolSteps
      <4> QED
        BY <4>2, <4>3
    <3>4. CASE q = AnswerTool(p, id)
      BY <3>0, <3>4, ToolSteps
    <3> QED
      BY <2>2, <3>1, <3>2, <3>3, <3>4
  <2>5. Whole(q)
    BY <2>3, <2>4, ToolWhole
  <2> QED
    BY <2>3, <2>5 DEF q
<1>5. CASE e.type \in {"error", "result", "agent.step"}
  BY <1>5, HandleIs
<1> QED
  BY <1>1, <1>2, <1>3, <1>4, <1>5, EventIs DEF BlockEvents

(* Every sequence of events is shown as whole parts.                       *)
LEMMA PumpWhole ==
  ASSUME NEW s \in Seq(Events)
  PROVE  \A n \in 0..Len(s) : Pump(s)[n] \in Pumps /\ Whole(Pump(s)[n])
<1> DEFINE bad == {n \in 0..Len(s) : ~(Pump(s)[n] \in Pumps /\ Whole(Pump(s)[n]))}
<1> SUFFICES ASSUME bad # {} PROVE FALSE
  OBVIOUS
<1>0. Len(s) \in Nat
  OBVIOUS
<1>1. PICK n \in bad : \A k \in bad : n <= k
  <2>1. bad \in SUBSET Nat
    BY <1>0
  <2> HIDE DEF bad
  <2> QED
    BY <2>1, LeastNumber
<1>2. CASE n = 0
  <2>1. Pump(s)[0] = FreshPump
    BY <1>0, PumpIs
  <2>2. FreshPump \in Pumps
    <3>1. <<>> \in [{} -> Seq(Ids)] /\ <<>> \in Seq(Chunks)
      OBVIOUS
    <3>2. <<>> \in UNION {[D -> Seq(Ids)] : D \in SUBSET Ids}
      BY <3>1
    <3> QED
      BY <3>1, <3>2 DEF FreshPump, Pumps
  <2>3. Whole(FreshPump)
    <3>1. \A x : LastOf(<<>>, 0, x) = "none"
      BY DEF LastOf
    <3>2. FreshPump.ui = <<>> /\ FreshPump.open = {} /\ Len(<<>>) = 0 /\ DOMAIN <<>> = {}
      BY DEF FreshPump
    <3> QED
      BY <3>1, <3>2 DEF Whole, Shown, IsOpen
  <2> QED
    BY <1>2, <2>1, <2>2, <2>3
<1>3. CASE n # 0
  <2>1. n \in 1..Len(s) /\ n - 1 \in 0..Len(s)
    BY <1>0, <1>3
  <2>2. n - 1 \notin bad
    <3> HIDE DEF bad
    <3> QED
      BY <1>1, <2>1
  <2>3. Pump(s)[n - 1] \in Pumps /\ Whole(Pump(s)[n - 1])
    BY <2>1, <2>2
  <2>4. Pump(s)[n] = Handle(Pump(s)[n - 1], s[n]) /\ s[n] \in Events
    BY <1>0, <2>1, PumpIs
  <2>5. Pump(s)[n] \in Pumps /\ Whole(Pump(s)[n])
    BY <2>3, <2>4, HandleWhole
  <2> QED
    BY <2>5
<1> QED
  BY <1>2, <1>3

-----------------------------------------------------------------------------
(* What a pump that hears the run from the beginning shows of a call is    *)
(* what was said of it.                                                    *)
CallIs(p, s, n, id) ==
  /\ LastOf(s, n, id) = "none" => Shown(p, "tool", id) = "none"
  /\ LastOf(s, n, id) = "tool.start" => Shown(p, "tool", id) = "start" /\ Buffered(p, id) = <<>>
  /\ LastOf(s, n, id) = "tool.input_delta" => Shown(p, "tool", id) = "delta" /\ Buffered(p, id) = <<id>>
  /\ LastOf(s, n, id) = "tool.input_done" => Shown(p, "tool", id) = "available"
  /\ LastOf(s, n, id) \in {"none", "tool.start"} =>
       \A m \in 1..n : s[m] # Event("tool.input_delta", id)

Shows(p, s) ==
  \A m \in DOMAIN p.ui :
    p.ui[m].id[1] = "tool" =>
      /\ Precedes(p.ui, m)
      /\ p.ui[m].type = "available" => InputDone(p.ui[m].id[2], p.ui[m].input) \in Range(s)

(* What the pump does to texts is nothing to calls.                        *)
Alike(p, q) ==
  /\ p \in Pumps /\ q \in Pumps
  /\ \A id \in Ids : Shown(q, "tool", id) = Shown(p, "tool", id) /\ Buffered(q, id) = Buffered(p, id)
  /\ \A s : Shows(p, s) => Shows(q, s)

LEMMA TextAlike ==
  ASSUME NEW p \in Pumps, NEW q \in Pumps, NEW c \in Chunks, q.ui = Append(p.ui, c),
         q.fragments = p.fragments, c.id[1] # "tool"
  PROVE  Alike(p, q)
<1>1. \A x : LastOf(q.ui, Len(q.ui), x) = IF c.id = x THEN c.type ELSE LastOf(p.ui, Len(p.ui), x)
  BY WriteShows
<1>2. \A n \in DOMAIN q.ui :
        \/ n \in DOMAIN p.ui /\ q.ui[n] = p.ui[n] /\ (Precedes(q.ui, n) <=> Precedes(p.ui, n))
        \/ q.ui[n] = c /\ (Precedes(q.ui, n) <=> LastOf(p.ui, Len(p.ui), c.id) \in MayPrecede[c.type])
  BY WriteKeeps
<1>3. \A id : c.id # <<"tool", id>>
  OBVIOUS
<1>4. \A id \in Ids : Shown(q, "tool", id) = Shown(p, "tool", id)
  BY <1>1, <1>3 DEF Shown
<1>5. \A id \in Ids : Buffered(q, id) = Buffered(p, id)
  BY DEF Buffered
<1>6. ASSUME NEW s, Shows(p, s), NEW m \in DOMAIN q.ui, q.ui[m].id[1] = "tool"
      PROVE  /\ Precedes(q.ui, m)
             /\ q.ui[m].type = "available" => InputDone(q.ui[m].id[2], q.ui[m].input) \in Range(s)
  <2>1. m \in DOMAIN p.ui /\ q.ui[m] = p.ui[m] /\ (Precedes(q.ui, m) <=> Precedes(p.ui, m))
    BY <1>2, <1>6
  <2> QED
    BY <1>6, <2>1 DEF Shows
<1>7. \A s : Shows(p, s) => Shows(q, s)
  BY <1>6 DEF Shows
<1> QED
  BY <1>4, <1>5, <1>7 DEF Alike

LEMMA AlikeIs ==
  /\ \A p \in Pumps : Alike(p, p)
  /\ \A p, q, r : Alike(p, q) /\ Alike(q, r) => Alike(p, r)
BY DEF Alike

LEMMA PartsAlike ==
  ASSUME NEW p \in Pumps, NEW part \in Parts, NEW id \in Ids
  PROVE  /\ Alike(p, StartPart(p, part, id)) /\ Alike(p, DeltaPart(p, part, id))
         /\ Alike(p, EndPart(p, part, id))
<1>0. \A type \in {"start", "delta", "end"} :
        Chunk(type, part, id) \in Chunks /\ Chunk(type, part, id).id[1] # "tool"
  BY ChunksAre, ChunkIs DEF Parts
<1>1. Alike(p, StartPart(p, part, id)) /\ StartPart(p, part, id) \in Pumps
  <2>1. CASE IsOpen(p, part, id)
    BY <2>1, PartSteps, AlikeIs
  <2>2. CASE ~IsOpen(p, part, id)
    <3> DEFINE q == StartPart(p, part, id)  c == Chunk("start", part, id)
    <3>1. q \in Pumps /\ q.fragments = p.fragments /\ q.ui = Append(p.ui, c)
      BY <2>2, PartSteps
    <3>2. c \in Chunks /\ c.id[1] # "tool"
      BY <1>0
    <3> HIDE DEF q, c
    <3>3. Alike(p, q)
      BY <3>1, <3>2, TextAlike
    <3> QED
      BY <3>1, <3>3 DEF q
  <2> QED
    BY <2>1, <2>2
<1>2. Alike(p, EndPart(p, part, id))
  <2>1. CASE ~IsOpen(p, part, id)
    BY <2>1, PartSteps, AlikeIs
  <2>2. CASE IsOpen(p, part, id)
    <3> DEFINE q == EndPart(p, part, id)  c == Chunk("end", part, id)
    <3>1. q \in Pumps /\ q.fragments = p.fragments /\ q.ui = Append(p.ui, c)
      BY <2>2, PartSteps
    <3>2. c \in Chunks /\ c.id[1] # "tool"
      BY <1>0
    <3> HIDE DEF q, c
    <3>3. Alike(p, q)
      BY <3>1, <3>2, TextAlike
    <3> QED
      BY <3>3 DEF q
  <2> QED
    BY <2>1, <2>2
<1>3. Alike(p, DeltaPart(p, part, id))
  <2> DEFINE r == StartPart(p, part, id)  c == Chunk("delta", part, id)  q == Written(r, c)
  <2>1. r \in Pumps /\ Alike(p, r) /\ c \in Chunks /\ c.id[1] # "tool"
    BY <1>0, <1>1
  <2>2. DeltaPart(p, part, id) = q
    BY DEF DeltaPart
  <2> HIDE DEF r, c
  <2>3. q \in Pumps /\ q.fragments = r.fragments /\ q.ui = Append(r.ui, c)
    BY <2>1, WrittenIs
  <2> HIDE DEF q
  <2>4. Alike(r, q)
    BY <2>1, <2>3, TextAlike
  <2>5. Alike(p, q)
    BY <2>1, <2>4, AlikeIs
  <2> QED
    BY <2>2, <2>5
<1> QED
  BY <1>1, <1>2, <1>3

(* One more chunk of a call.                                               *)
LEMMA ToolShows ==
  ASSUME NEW p \in Pumps, NEW q \in Pumps, NEW c \in Chunks, q.ui = Append(p.ui, c),
         NEW id \in Ids, c.id = <<"tool", id>>, NEW s, Shows(p, s),
         Shown(p, "tool", id) \in MayPrecede[c.type],
         c.type = "available" => InputDone(id, c.input) \in Range(s)
  PROVE  /\ Shows(q, s) /\ Shown(q, "tool", id) = c.type
         /\ \A x \in Ids : x # id => Shown(q, "tool", x) = Shown(p, "tool", x)
<1>1. \A x : LastOf(q.ui, Len(q.ui), x) = IF c.id = x THEN c.type ELSE LastOf(p.ui, Len(p.ui), x)
  BY WriteShows
<1>2. \A n \in DOMAIN q.ui :
        \/ n \in DOMAIN p.ui /\ q.ui[n] = p.ui[n] /\ (Precedes(q.ui, n) <=> Precedes(p.ui, n))
        \/ q.ui[n] = c /\ (Precedes(q.ui, n) <=> LastOf(p.ui, Len(p.ui), c.id) \in MayPrecede[c.type])
  BY WriteKeeps
<1>3. Shown(q, "tool", id) = c.type
  BY <1>1 DEF Shown
<1>4. \A x \in Ids : x # id => Shown(q, "tool", x) = Shown(p, "tool", x)
  BY <1>1 DEF Shown
<1>5. ASSUME NEW m \in DOMAIN q.ui, q.ui[m].id[1] = "tool"
      PROVE  /\ Precedes(q.ui, m)
             /\ q.ui[m].type = "available" => InputDone(q.ui[m].id[2], q.ui[m].input) \in Range(s)
  <2>1. CASE m \in DOMAIN p.ui /\ q.ui[m] = p.ui[m] /\ (Precedes(q.ui, m) <=> Precedes(p.ui, m))
    BY <1>5, <2>1 DEF Shows
  <2>2. CASE q.ui[m] = c /\ (Precedes(q.ui, m) <=> LastOf(p.ui, Len(p.ui), c.id) \in MayPrecede[c.type])
    BY <2>2 DEF Shown
  <2> QED
    BY <1>2, <2>1, <2>2
<1>6. Shows(q, s)
  BY <1>5 DEF Shows
<1> QED
  BY <1>3, <1>4, <1>6

(* A call that the next event is not about.                                *)
LEMMA OtherCalls ==
  ASSUME NEW s, NEW n \in Nat, NEW p, NEW q, NEW id,
         ~("id" \in DOMAIN s[n + 1] /\ s[n + 1].id = id),
         Shown(q, "tool", id) = Shown(p, "tool", id), Buffered(q, id) = Buffered(p, id),
         CallIs(p, s, n, id)
  PROVE  CallIs(q, s, n + 1, id)
<1>1. LastOf(s, n + 1, id) = LastOf(s, n, id)
  BY LastSteps
<1>2. s[n + 1] # Event("tool.input_delta", id)
  BY DEF Event
<1>3. \A m \in 1..(n + 1) : m = n + 1 \/ m \in 1..n
  OBVIOUS
<1> QED
  BY <1>1, <1>2, <1>3 DEF CallIs

LEMMA CallStep ==
  ASSUME NEW s \in Seq(Events), TellsAll(s, FALSE), NEW n \in Nat, n + 1 \in DOMAIN s,
         NEW p \in Pumps, Shows(p, s), \A id \in Ids : CallIs(p, s, n, id)
  PROVE  /\ Shows(Handle(p, s[n + 1]), s)
         /\ \A id \in Ids : CallIs(Handle(p, s[n + 1]), s, n + 1, id)
<1> DEFINE e == s[n + 1]  q == Handle(p, e)
<1>1. e \in Events
  OBVIOUS
<1>2. \A x : LastOf(s, n + 1, x) = IF "id" \in DOMAIN e /\ e.id = x THEN e.type ELSE LastOf(s, n, x)
  BY LastSteps
<1>3. /\ e.type = "tool.result" => LastOf(s, n, e.id) = "tool.input_done"
      /\ "id" \in DOMAIN e => LastOf(s, n, e.id) \in MayFollow[e.type]
      /\ e.type = "tool.input_delta" => LastOf(s, n, e.id) = "tool.start"
      /\ e.type = "tool.input_done" =>
           e.input = IF \E m \in 1..(n + 1) : s[m] = Event("tool.input_delta", e.id)
                       THEN <<e.id>> ELSE <<>>
  <2>1. Tells(s, n + 1) /\ Follows(s, n + 1) /\ (n + 1) - 1 = n
    BY DEF TellsAll
  <2> QED
    BY <2>1 DEF Tells, Follows
<1>4. ASSUME NEW x \in Ids, ~("id" \in DOMAIN e /\ e.id = x),
             Shown(q, "tool", x) = Shown(p, "tool", x), Buffered(q, x) = Buffered(p, x)
      PROVE  CallIs(q, s, n + 1, x)
  <2> HIDE DEF q
  <2> QED
    BY <1>4, OtherCalls
<1>5. CASE e.type \in {"error", "result", "agent.step"} /\ "id" \notin DOMAIN e
  <2>1. q = p
    BY <1>1, <1>5, HandleIs
  <2>2. \A x \in Ids : CallIs(q, s, n + 1, x)
    BY <1>4, <1>5, <2>1
  <2> QED
    BY <2>1, <2>2
<1>6. CASE e.type \in {"text.start", "text.delta", "text.stop", "thinking.start", "thinking.delta", "thinking.stop"}
           /\ e.id \in Ids /\ "id" \in DOMAIN e
  <2>0. "text" \in Parts /\ "reasoning" \in Parts
    BY DEF Parts
  <2>1. \E part \in Parts, id \in Ids :
          q = StartPart(p, part, id) \/ q = DeltaPart(p, part, id) \/ q = EndPart(p, part, id)
    BY <1>1, <1>6, <2>0, HandleIs
  <2>2. Alike(p, q)
    <3> HIDE DEF q
    <3>1. PICK part \in Parts, id \in Ids :
            q = StartPart(p, part, id) \/ q = DeltaPart(p, part, id) \/ q = EndPart(p, part, id)
      BY <2>1
    <3> QED
      BY <3>1, PartsAlike
  <2>3. ASSUME NEW x \in Ids, x = e.id PROVE CallIs(q, s, n + 1, x)
    <3>1. LastOf(s, n + 1, x) = e.type
      BY <1>2, <1>6, <2>3
    <3> QED
      BY <1>6, <3>1 DEF CallIs
  <2>4. ASSUME NEW x \in Ids, x # e.id PROVE CallIs(q, s, n + 1, x)
    <3>1. Shown(q, "tool", x) = Shown(p, "tool", x) /\ Buffered(q, x) = Buffered(p, x)
      BY <2>2 DEF Alike
    <3> QED
      BY <1>4, <2>4, <3>1
  <2>5. Shows(q, s)
    BY <2>2 DEF Alike
  <2> QED
    BY <2>3, <2>4, <2>5
<1>7. CASE e.type \in {"tool.start", "tool.input_delta", "tool.input_done", "tool.result"}
           /\ e.id \in Ids /\ "id" \in DOMAIN e
  <2>1. PICK id \in Ids : id = e.id
    BY <1>7
  <2>2. CallIs(p, s, n, id) /\ LastOf(s, n + 1, id) = e.type /\ LastOf(s, n, id) \in MayFollow[e.type]
    BY <1>2, <1>3, <1>7, <2>1
  <2>3. \A m \in 1..(n + 1) : m = n + 1 \/ m \in 1..n
    OBVIOUS
  <2>4. CASE e.type = "tool.start"
    <3> DEFINE c == Chunk("start", "tool", id)
    <3>1. q = StartTool(p, id)
      BY <1>1, <2>1, <2>4, HandleIs
    <3> HIDE DEF q
    <3>2. /\ q \in Pumps /\ q.ui = Append(p.ui, c) /\ Buffered(q, id) = <<>>
          /\ \A x \in Ids : x # id => Buffered(q, x) = Buffered(p, x)
      BY <3>1, ToolSteps
    <3>3. c \in Chunks /\ c.id = <<"tool", id>> /\ c.type = "start"
      BY ChunksAre, ChunkIs
    <3>4. LastOf(s, n, id) = "none"
      BY <2>2, <2>4, MayFollowIs
    <3>5. Shown(p, "tool", id) \in MayPrecede["start"]
      BY <2>2, <3>4 DEF CallIs, MayPrecede
    <3>9. \A m \in 1..n : s[m] # Event("tool.input_delta", id)
      BY <2>2, <3>4 DEF CallIs
    <3> HIDE DEF c
    <3>6. /\ Shows(q, s) /\ Shown(q, "tool", id) = c.type
          /\ \A x \in Ids : x # id => Shown(q, "tool", x) = Shown(p, "tool", x)
      <4>1. Shown(p, "tool", id) \in MayPrecede[c.type] /\ c.type # "available"
        BY <3>3, <3>5
      <4>2. q \in Pumps /\ q.ui = Append(p.ui, c)
        BY <3>2
      <4> QED
        BY <3>3, <4>1, <4>2, ToolShows
    <3>7. CallIs(q, s, n + 1, id)
      <4>1. e # Event("tool.input_delta", id)
        BY <2>4 DEF Event
      <4>2. \A m \in 1..(n + 1) : s[m] # Event("tool.input_delta", id)
        BY <2>3, <3>9, <4>1
      <4> QED
        BY <2>2, <2>4, <3>2, <3>3, <3>6, <4>2 DEF CallIs
    <3>8. ASSUME NEW x \in Ids, x # id PROVE CallIs(q, s, n + 1, x)
      BY <1>4, <2>1, <3>2, <3>6, <3>8 DEF q
    <3> QED
      BY <3>6, <3>7, <3>8 DEF q
  <2>5. CASE e.type = "tool.input_delta"
    <3> DEFINE c == Chunk("delta", "tool", id)
    <3>1. q = FeedTool(p, id)
      BY <1>1, <2>1, <2>5, HandleIs
    <3> HIDE DEF q
    <3>4. LastOf(s, n, id) = "tool.start"
      BY <1>3, <2>1, <2>5
    <3>5. Shown(p, "tool", id) \in MayPrecede["delta"] /\ Buffered(p, id) = <<>>
      BY <2>2, <3>4 DEF CallIs, MayPrecede
    <3>2. /\ q \in Pumps /\ q.ui = Append(p.ui, c) /\ Buffered(q, id) = Append(Buffered(p, id), id)
          /\ \A x \in Ids : x # id => Buffered(q, x) = Buffered(p, x)
      BY <3>1, ToolSteps
    <3>3. c \in Chunks /\ c.id = <<"tool", id>> /\ c.type = "delta"
      BY ChunksAre, ChunkIs
    <3> HIDE DEF c
    <3>6. /\ Shows(q, s) /\ Shown(q, "tool", id) = c.type
          /\ \A x \in Ids : x # id => Shown(q, "tool", x) = Shown(p, "tool", x)
      <4>1. Shown(p, "tool", id) \in MayPrecede[c.type] /\ c.type # "available"
        BY <3>3, <3>5
      <4>2. q \in Pumps /\ q.ui = Append(p.ui, c)
        BY <3>2
      <4> QED
        BY <3>3, <4>1, <4>2, ToolShows
    <3>7. CallIs(q, s, n + 1, id)
      <4>1. Buffered(q, id) = <<id>>
        BY <3>2, <3>5
      <4> QED
        BY <2>2, <2>5, <3>3, <3>6, <4>1 DEF CallIs
    <3>8. ASSUME NEW x \in Ids, x # id PROVE CallIs(q, s, n + 1, x)
      BY <1>4, <2>1, <3>2, <3>6, <3>8 DEF q
    <3> QED
      BY <3>6, <3>7, <3>8 DEF q
  <2>6. CASE e.type = "tool.input_done"
    <3> DEFINE c == [type |-> "available", id |-> <<"tool", id>>, input |-> Parsed(Buffered(p, id))]
    <3>1. q = FinishTool(p, id)
      BY <1>1, <2>1, <2>6, HandleIs
    <3> HIDE DEF q
    <3>2. /\ q \in Pumps /\ q.ui = Append(p.ui, c)
          /\ \A x \in Ids : x # id => Buffered(q, x) = Buffered(p, x)
      BY <3>1, ToolSteps
    <3>3. c \in Chunks /\ c.id = <<"tool", id>> /\ c.type = "available" /\ c.input = Parsed(Buffered(p, id))
      <4>1. Parsed(Buffered(p, id)) \in Seq(Ids)
        BY ToolSteps, ParsedIs
      <4> QED
        BY <4>1, ChunksAre
    <3> HIDE DEF c
    <3>4. LastOf(s, n, id) \in {"tool.start", "tool.input_delta"}
      BY <2>2, <2>6, MayFollowIs
    <3>5. Shown(p, "tool", id) \in MayPrecede["available"]
      BY <2>2, <3>4 DEF CallIs, MayPrecede
    <3>6. e = InputDone(id, c.input)
      <4>1. e = InputDone(id, e.input)
        BY <1>1, <2>1, <2>6, EventIs DEF BlockEvents
      <4>2. e # Event("tool.input_delta", id)
        BY <2>6 DEF Event
      <4>3. e.input = IF \E m \in 1..n : s[m] = Event("tool.input_delta", id) THEN <<id>> ELSE <<>>
        <5>1. (\E m \in 1..(n + 1) : s[m] = Event("tool.input_delta", id))
                <=> \E m \in 1..n : s[m] = Event("tool.input_delta", id)
          BY <2>3, <4>2
        <5> QED
          BY <1>3, <2>1, <2>6, <5>1
      <4>4. CASE LastOf(s, n, id) = "tool.start"
        <5>1. Buffered(p, id) = <<>> /\ \A m \in 1..n : s[m] # Event("tool.input_delta", id)
          BY <2>2, <4>4 DEF CallIs
        <5> QED
          BY <3>3, <4>1, <4>3, <5>1, ParsedIs
      <4>5. CASE LastOf(s, n, id) = "tool.input_delta"
        <5>1. Buffered(p, id) = <<id>>
          BY <2>2, <4>5 DEF CallIs
        <5>2. \E m \in 1..n : s[m] = Event("tool.input_delta", id)
          <6>1. PICK m \in 1..n : /\ "id" \in DOMAIN s[m] /\ s[m].id = id
                                  /\ LastOf(s, n, id) = s[m].type
            BY <4>5, LastIsLast
          <6>2. s[m] \in Events /\ s[m].type = "tool.input_delta"
            BY <4>5, <6>1
          <6> QED
            BY <6>1, <6>2, EventIs
        <5> QED
          BY <3>3, <4>1, <4>3, <5>1, <5>2, ParsedIs
      <4> QED
        BY <3>4, <4>4, <4>5
    <3>7. InputDone(id, c.input) \in Range(s)
      BY <3>6 DEF Range
    <3>8. /\ Shows(q, s) /\ Shown(q, "tool", id) = c.type
          /\ \A x \in Ids : x # id => Shown(q, "tool", x) = Shown(p, "tool", x)
      <4>1. /\ Shown(p, "tool", id) \in MayPrecede[c.type]
            /\ c.type = "available" => InputDone(id, c.input) \in Range(s)
        BY <3>3, <3>5, <3>7
      <4>2. q \in Pumps /\ q.ui = Append(p.ui, c)
        BY <3>2
      <4> QED
        BY <3>3, <4>1, <4>2, ToolShows
    <3>9. CallIs(q, s, n + 1, id)
      BY <2>2, <2>6, <3>3, <3>8 DEF CallIs
    <3>10. ASSUME NEW x \in Ids, x # id PROVE CallIs(q, s, n + 1, x)
      BY <1>4, <2>1, <3>2, <3>8, <3>10 DEF q
    <3> QED
      BY <3>8, <3>9, <3>10 DEF q
  <2>7. CASE e.type = "tool.result"
    <3> DEFINE c == Chunk("output", "tool", id)
    <3>1. q = AnswerTool(p, id)
      BY <1>1, <2>1, <2>7, HandleIs
    <3> HIDE DEF q
    <3>2. /\ q \in Pumps /\ q.ui = Append(p.ui, c)
          /\ \A x \in Ids : Buffered(q, x) = Buffered(p, x)
      BY <3>1, ToolSteps
    <3>3. c \in Chunks /\ c.id = <<"tool", id>> /\ c.type = "output"
      BY ChunksAre, ChunkIs
    <3> HIDE DEF c
    <3>4. LastOf(s, n, id) = "tool.input_done"
      BY <1>3, <2>1, <2>7
    <3>5. Shown(p, "tool", id) \in MayPrecede["output"]
      BY <2>2, <3>4 DEF CallIs, MayPrecede
    <3>6. /\ Shows(q, s) /\ Shown(q, "tool", id) = c.type
          /\ \A x \in Ids : x # id => Shown(q, "tool", x) = Shown(p, "tool", x)
      <4>1. Shown(p, "tool", id) \in MayPrecede[c.type] /\ c.type # "available"
        BY <3>3, <3>5
      <4>2. q \in Pumps /\ q.ui = Append(p.ui, c)
        BY <3>2
      <4> QED
        BY <3>3, <4>1, <4>2, ToolShows
    <3>7. CallIs(q, s, n + 1, id)
      BY <2>2, <2>7 DEF CallIs
    <3>8. ASSUME NEW x \in Ids, x # id PROVE CallIs(q, s, n + 1, x)
      BY <1>4, <2>1, <3>2, <3>6, <3>8 DEF q
    <3> QED
      BY <3>6, <3>7, <3>8 DEF q
  <2> QED
    BY <1>7, <2>4, <2>5, <2>6, <2>7
<1> QED
  BY <1>1, <1>5, <1>6, <1>7, EventIs DEF BlockEvents

(* A pump that hears the run from the beginning shows its calls whole.     *)
LEMMA PumpShows ==
  ASSUME NEW s \in Seq(Events), TellsAll(s, FALSE)
  PROVE  \A n \in 0..Len(s) :
           Shows(Pump(s)[n], s) /\ \A id \in Ids : CallIs(Pump(s)[n], s, n, id)
<1> DEFINE bad == {n \in 0..Len(s) :
                     ~(Shows(Pump(s)[n], s) /\ \A id \in Ids : CallIs(Pump(s)[n], s, n, id))}
<1> SUFFICES ASSUME bad # {} PROVE FALSE
  OBVIOUS
<1>0. Len(s) \in Nat
  OBVIOUS
<1>1. PICK n \in bad : \A k \in bad : n <= k
  <2>1. bad \in SUBSET Nat
    BY <1>0
  <2> HIDE DEF bad
  <2> QED
    BY <2>1, LeastNumber
<1>2. CASE n = 0
  <2>1. Pump(s)[0] = FreshPump
    BY <1>0, PumpIs
  <2>2. FreshPump.ui = <<>> /\ Len(<<>>) = 0 /\ DOMAIN <<>> = {}
    BY DEF FreshPump
  <2>3. Shows(FreshPump, s)
    BY <2>2 DEF Shows
  <2>4. ASSUME NEW id \in Ids PROVE CallIs(FreshPump, s, 0, id)
    <3>1. LastOf(s, 0, id) = "none" /\ LastOf(<<>>, 0, <<"tool", id>>) = "none"
      BY DEF LastOf
    <3>2. Shown(FreshPump, "tool", id) = "none"
      BY <2>2, <3>1 DEF Shown
    <3> QED
      BY <3>1, <3>2 DEF CallIs
  <2> QED
    BY <1>2, <2>1, <2>3, <2>4
<1>3. CASE n # 0
  <2> DEFINE m == n - 1
  <2>1. n \in 1..Len(s) /\ m \in 0..Len(s) /\ m \in Nat /\ m + 1 = n /\ n \in DOMAIN s /\ ~(n <= m)
    BY <1>0, <1>3
  <2>2. m \notin bad
    <3> HIDE DEF bad
    <3> QED
      BY <1>1, <2>1
  <2> DEFINE p == Pump(s)[m]
  <2>3. Shows(p, s) /\ \A id \in Ids : CallIs(p, s, m, id)
    BY <2>1, <2>2
  <2>4. p \in Pumps
    BY <2>1, PumpWhole
  <2>5. Pump(s)[n] = Handle(p, s[n])
    BY <1>0, <2>1, PumpIs
  <2> HIDE DEF m, p
  <2>6. /\ Shows(Handle(p, s[m + 1]), s)
        /\ \A id \in Ids : CallIs(Handle(p, s[m + 1]), s, m + 1, id)
    <3>1. m + 1 \in DOMAIN s
      BY <2>1
    <3> QED
      BY <2>1, <2>3, <2>4, <3>1, CallStep
  <2> QED
    BY <2>1, <2>5, <2>6
<1> QED
  BY <1>2, <1>3

(* Whatever a pump hears of the events of a run are events.                *)
LEMMA HearingsAre ==
  ASSUME NEW s \in Seq(Events), NEW h \in Hearings(s)
  PROVE  h \in Seq(Events)
<1>0. Len(s) \in Nat
  OBVIOUS
<1>1. CASE \E k \in 0..Len(s) : h = SubSeq(s, k + 1, Len(s))
  BY <1>0, <1>1
<1>2. CASE \E k \in 1..Len(s) : h = RemoveAt(s, k)
  <2>1. PICK k \in 1..Len(s) : h = RemoveAt(s, k)
    BY <1>2
  <2>2. SubSeq(s, 1, k - 1) \in Seq(Events) /\ SubSeq(s, k + 1, Len(s)) \in Seq(Events)
    BY <1>0, <2>1
  <2> QED
    BY <2>1, <2>2, ConcatProperties DEF RemoveAt
<1> QED
  BY <1>1, <1>2 DEF Hearings

LEMMA PumpedWhole ==
  ASSUME NEW s \in Seq(Events)
  PROVE  PartsAreWhole(Pumped(s))
<1>1. Len(s) \in 0..Len(s)
  OBVIOUS
<1>2. Whole(Pump(s)[Len(s)])
  BY <1>1, PumpWhole
<1> DEFINE u == Pumped(s)
<1>3. ASSUME NEW n \in DOMAIN u, u[n].id[1] # "tool" PROVE Before(u, n) \in MayPrecede[u[n].type]
  <2>1. LastOf(u, n - 1, u[n].id) \in MayPrecede[u[n].type]
    BY <1>2, <1>3 DEF Whole, Precedes, Pumped
  <2> HIDE DEF u
  <2> QED
    BY <2>1, BeforeIs
<1> QED
  BY <1>3 DEF PartsAreWhole

LEMMA PumpedCalls ==
  ASSUME NEW s \in Seq(Events), TellsAll(s, FALSE)
  PROVE  CallsAreWhole(Pumped(s), s)
<1>1. Len(s) \in 0..Len(s)
  OBVIOUS
<1>2. Shows(Pump(s)[Len(s)], s)
  BY <1>1, PumpShows
<1> DEFINE u == Pumped(s)
<1>3. ASSUME NEW n \in DOMAIN u, u[n].id[1] = "tool"
      PROVE  /\ Before(u, n) \in MayPrecede[u[n].type]
             /\ u[n].type = "available" => InputDone(u[n].id[2], u[n].input) \in Range(s)
  <2>1. /\ LastOf(u, n - 1, u[n].id) \in MayPrecede[u[n].type]
        /\ u[n].type = "available" => InputDone(u[n].id[2], u[n].input) \in Range(s)
    BY <1>2, <1>3 DEF Shows, Precedes, Pumped
  <2> HIDE DEF u
  <2> QED
    BY <2>1, BeforeIs
<1> QED
  BY <1>3 DEF CallsAreWhole

LEMMA FollowedIsShown == TypeOK /\ Followed => EveryoneCanFollow
<1> SUFFICES ASSUME TypeOK, Followed, NEW j \in Runs
             PROVE  /\ \A s \in Hearings(out[j]) : PartsAreWhole(Pumped(s))
                    /\ ~odd[j] => CallsAreWhole(Pumped(out[j]), out[j])
  BY FollowedCanFollow DEF EveryoneCanFollow
<1>1. out[j] \in Seq(Events) /\ Told(j)
  BY DEF TypeOK, Followed
<1> DEFINE o == out[j]
<1>2. TellsAll(o, odd[j])
  BY <1>1, SentIsTold
<1>3. ASSUME ~odd[j] PROVE TellsAll(o, FALSE)
  BY <1>2, <1>3 DEF TellsAll
<1> HIDE DEF o
<1>4. o \in Seq(Events)
  BY <1>1 DEF o
<1>5. ASSUME NEW h \in Hearings(o) PROVE PartsAreWhole(Pumped(h))
  BY <1>4, <1>5, HearingsAre, PumpedWhole
<1>6. ~odd[j] => CallsAreWhole(Pumped(o), o)
  BY <1>3, <1>4, PumpedCalls
<1> QED
  BY <1>5, <1>6 DEF o

(* So can the browser behind it, whatever it hears of a run: no part goes  *)
(* on or ends without having begun, and calls are shown with the input     *)
(* they were made with (go-sse-to-ui.ts:91-241).                           *)
THEOREM EveryoneFollows == Spec => []EveryoneCanFollow
BY EventsMakeSense, FollowedIsShown, PTL
=============================================================================
