----------------------------- MODULE EngineJob -----------------------------
(***************************************************************************)
(* The engine's job server (engine/engine_core/app.py, the control of      *)
(* runner.py) and its translation of the agent SDK's message stream        *)
(* (engine/claude_engine/core/sdk_mapping.py).                             *)
(*                                                                         *)
(* A submitted job runs as an asyncio task that turns the messages of the  *)
(* SDK into protocol events and puts them into a queue; the response body  *)
(* is a generator that takes them out.  Everything runs on one event loop, *)
(* so an action is what happens between two awaits.  The SDK is external:  *)
(* it streams messages block by block, may abandon a message and begin it  *)
(* again, may stop or raise at any point.  A job is cancelled by request,  *)
(* by a client that goes away, or by the server's shutdown.                *)
(***************************************************************************)
EXTENDS Integers, FiniteSets, Sequences, SequencesExt

CONSTANTS
  Runs,         (* run ids                                                 *)
  MaxMessages,  (* bound: messages that the SDK yields in a run            *)
  MaxBlocks     (* bound: content blocks of one message                    *)

ASSUME EngineJobAssumption == MaxMessages \in Nat /\ MaxBlocks \in Nat \ {0}

VARIABLES
  up,           (* the server takes requests                               *)
  task,         (* the run's task                                          *)
  cancelling,   (* task.cancel() was called, the task has not noticed      *)
  active,       (* _active_jobs                                            *)
  queue,        (* the job's queue; Sentinel is its None                   *)
  stream,       (* the response body                                       *)
  out,          (* what the client has been sent                           *)
  openBlocks,   (* open_blocks: index -> id and type                       *)
  buffers,      (* tool_input_buffers: index -> the fragments so far       *)
  step,         (* number of finished tool blocks                          *)
  block,        (* SDK: the block being streamed                           *)
  index,        (* SDK: index of the next block of the message             *)
  calls,        (* SDK: tool calls whose results are due                   *)
  tools,        (* SDK: number of tool calls begun                         *)
  left,         (* SDK: messages it may still yield                        *)
  outcome,      (* history: how the job's SDK stream ended                 *)
  odd           (* history: a message was abandoned, or had an odd block   *)

server  == <<up, active>>
mapping == <<openBlocks, buffers, step>>
sdk     == <<block, index, calls, tools, left>>
vars    == <<server, task, cancelling, queue, stream, out, mapping, sdk,
             outcome, odd>>

Indexes == 0..(MaxBlocks - 1)
Kinds   == {"text", "thinking", "tool_use", "other"}

(* Ids: the n-th tool call's, or the one that is made up for an index.     *)
ToolId(n)  == <<"tool", n>>
BlockId(i) == <<"b", i + 1>>
Ids == {ToolId(n) : n \in 1..MaxMessages} \cup {BlockId(i) : i \in Indexes}

Closed     == [id |-> <<>>, type |-> "none"]
NoBlock    == [type |-> "none", fed |-> FALSE]
Sentinel   == [type |-> "None"]
Error      == [type |-> "error"]
Result     == [type |-> "result"]
Event(type, id)    == [type |-> type, id |-> id]
InputDone(id, raw) == [type |-> "tool.input_done", id |-> id, input |-> raw]
AgentStep(n)       == [type |-> "agent.step", step |-> n]

BlockEvents == {"text.start", "text.delta", "text.stop", "thinking.start",
                "thinking.delta", "thinking.stop", "tool.start",
                "tool.input_delta", "tool.result"}
Events == {Error, Result} \cup [type : BlockEvents, id : Ids]
          \cup [type : {"tool.input_done"}, id : Ids, input : Seq(Ids)]
          \cup [type : {"agent.step"}, step : 1..MaxMessages]

IsTerminal(e) == e.type \in {"result", "error"}
Ended(s)      == s # <<>> /\ IsTerminal(Last(s))

OpenBlock == {Closed} \cup [id : Ids, type : {"text", "thinking", "tool_use"}]
SdkBlock  == {NoBlock} \cup [type : Kinds, fed : BOOLEAN]

TypeOK ==
  /\ up \in BOOLEAN
  /\ task \in [Runs -> {"none", "refused", "running", "ended"}]
  /\ cancelling \in [Runs -> BOOLEAN] /\ active \subseteq Runs
  /\ queue \in [Runs -> Seq(Events \cup {Sentinel})] /\ out \in [Runs -> Seq(Events)]
  /\ stream \in [Runs -> {"none", "open", "closed", "left"}]
  /\ openBlocks \in [Runs -> [Indexes -> OpenBlock]]
  /\ buffers \in [Runs -> [Indexes -> Seq(Ids)]]
  /\ step \in [Runs -> 0..MaxMessages]
  /\ block \in [Runs -> SdkBlock]
  /\ index \in [Runs -> 0..MaxBlocks]
  /\ calls \in [Runs -> SUBSET Ids] /\ tools \in [Runs -> 0..MaxMessages]
  /\ left \in [Runs -> 0..MaxMessages]
  /\ outcome \in [Runs -> {"none", "complete", "short", "raised", "cancelled"}]
  /\ odd \in [Runs -> BOOLEAN]

Init ==
  /\ up = TRUE /\ active = {}
  /\ task = [j \in Runs |-> "none"] /\ cancelling = [j \in Runs |-> FALSE]
  /\ queue = [j \in Runs |-> <<>>] /\ out = [j \in Runs |-> <<>>]
  /\ stream = [j \in Runs |-> "none"]
  /\ openBlocks = [j \in Runs |-> [i \in Indexes |-> Closed]]
  /\ buffers = [j \in Runs |-> [i \in Indexes |-> <<>>]]
  /\ step = [j \in Runs |-> 0]
  /\ block = [j \in Runs |-> NoBlock] /\ index = [j \in Runs |-> 0]
  /\ calls = [j \in Runs |-> {}] /\ tools = [j \in Runs |-> 0]
  /\ left = [j \in Runs |-> MaxMessages]
  /\ outcome = [j \in Runs |-> "none"] /\ odd = [j \in Runs |-> FALSE]

-----------------------------------------------------------------------------
(* The task.                                                               *)

(* MUTANT of Finish: the sentinel is put at the end of the try.            *)
FinishQuietly(j, events) ==
  /\ queue' = [queue EXCEPT ![j] = @ \o IF cancelling[j] THEN events
                                        ELSE events \o <<Sentinel>>]
  /\ task' = [task EXCEPT ![j] = "ended"] /\ active' = active \ {j}

(* The finally of _run_agent: whatever happened, the sentinel follows and  *)
(* the run is no longer active.                                            *)
Finish(j, events) ==
  /\ queue' = [queue EXCEPT ![j] = @ \o events \o <<Sentinel>>]
  /\ task' = [task EXCEPT ![j] = "ended"] /\ active' = active \ {j}

(* POST /v1/jobs.  An invalid job is refused.  Otherwise the task is made  *)
(* and its first step taken before anybody can know the run's id: it sets  *)
(* the run up and asks the SDK, unless there is no API key or the set-up   *)
(* raises.                                                                 *)
Refuse(j) ==
  /\ up /\ task[j] = "none"
  /\ task' = [task EXCEPT ![j] = "refused"]
  /\ UNCHANGED <<server, cancelling, queue, stream, out, mapping, sdk,
                 outcome, odd>>

Submit(j) ==
  /\ up /\ task[j] = "none"
  /\ stream' = [stream EXCEPT ![j] = "open"]
  /\ \/ /\ task' = [task EXCEPT ![j] = "running"] /\ active' = active \cup {j}
        /\ UNCHANGED <<queue, outcome>>
     \/ Finish(j, <<Error>>) /\ outcome' = [outcome EXCEPT ![j] = "raised"]
  /\ UNCHANGED <<up, cancelling, out, mapping, sdk, odd>>

(* The SDK's iterator ends, with or without a ResultMessage before; or it  *)
(* raises, and runner.run reports the error.                               *)
SdkEnds(j) ==
  /\ task[j] = "running" /\ ~cancelling[j]
  /\ Finish(j, <<>>)
  /\ outcome' = [outcome EXCEPT ![j] = IF @ = "none" THEN "short" ELSE @]
  /\ UNCHANGED <<up, cancelling, stream, out, mapping, sdk, odd>>

SdkRaises(j) ==
  /\ task[j] = "running" /\ ~cancelling[j]
  /\ Finish(j, <<Error>>)
  /\ outcome' = [outcome EXCEPT ![j] = IF @ = "none" THEN "raised" ELSE @]
  /\ UNCHANGED <<up, cancelling, stream, out, mapping, sdk, odd>>

(* The cancellation reaches the task: as CancelledError, which no handler  *)
(* catches, or as an error that the SDK raises while it cleans up.         *)
CancelLands(j) ==
  /\ task[j] = "running" /\ cancelling[j]
  /\ \E events \in {<<>>, <<Error>>} : Finish(j, events)
  /\ cancelling' = [cancelling EXCEPT ![j] = FALSE]
  /\ outcome' = [outcome EXCEPT ![j] = IF @ = "none" THEN "cancelled" ELSE @]
  /\ UNCHANGED <<up, stream, out, mapping, sdk, odd>>

-----------------------------------------------------------------------------
(* process_sdk_messages: what it emits for each message of the SDK.        *)

Emit(j, events) == queue' = [queue EXCEPT ![j] = @ \o events]

Yields(j) ==
  /\ task[j] = "running" /\ ~cancelling[j] /\ outcome[j] = "none"
  /\ left[j] > 0 /\ left' = [left EXCEPT ![j] = @ - 1]
  /\ UNCHANGED <<server, task, cancelling, stream, out>>

StartOf == [text |-> "text.start", thinking |-> "thinking.start", tool_use |-> "tool.start"]

(* content_block_start.  A block of another kind is ignored.               *)
BlockStart(j, kind) ==
  LET i  == index[j]
      id == IF kind = "tool_use" THEN ToolId(tools[j] + 1) ELSE BlockId(i) IN
  /\ Yields(j)
  /\ block[j] = NoBlock /\ i < MaxBlocks /\ (i = 0 => calls[j] = {})
  /\ block' = [block EXCEPT ![j] = [type |-> kind, fed |-> FALSE]]
  /\ tools' = [tools EXCEPT ![j] = IF kind = "tool_use" THEN @ + 1 ELSE @]
  /\ IF kind = "other"
       THEN UNCHANGED <<openBlocks, queue>>
       ELSE /\ openBlocks' = [openBlocks EXCEPT ![j][i] = [id |-> id, type |-> kind]]
            /\ Emit(j, <<Event(StartOf[kind], id)>>)
  /\ odd' = [odd EXCEPT ![j] = @ \/ kind = "other"]
  /\ UNCHANGED <<buffers, step, index, calls, outcome>>

(* MUTANT of OpenAt: no default.                                           *)
OpenAtOnly(j, i) == openBlocks[j][i]

(* open_blocks.get: an index that is not open passes for a text block.     *)
OpenAt(j, i) ==
  IF openBlocks[j][i] = Closed THEN [id |-> BlockId(i), type |-> "text"]
                               ELSE openBlocks[j][i]

(* content_block_delta.  A fragment of a tool's input is named after the   *)
(* call it belongs to; a block of another kind brings such fragments too.  *)
BlockDelta(j) ==
  LET i == index[j]
      b == OpenAt(j, i)
      fragment == IF block[j].type = "tool_use" THEN ToolId(tools[j]) ELSE BlockId(i) IN
  /\ Yields(j)
  /\ block[j] # NoBlock /\ ~block[j].fed
  /\ block' = [block EXCEPT ![j].fed = TRUE]
  /\ IF block[j].type \in {"tool_use", "other"}
       THEN /\ buffers' = [buffers EXCEPT ![j][i] = Append(@, fragment)]
            /\ Emit(j, <<Event("tool.input_delta", b.id)>>)
       ELSE /\ Emit(j, <<Event(IF block[j].type = "text" THEN "text.delta"
                                                        ELSE "thinking.delta", b.id)>>)
            /\ UNCHANGED buffers
  /\ UNCHANGED <<openBlocks, step, index, calls, tools, outcome, odd>>

(* json.loads of the fragments: nothing, unless they are of one call.      *)
Parsed(raw) == IF Cardinality(ToSet(raw)) > 1 THEN <<>> ELSE raw

(* The end of a tool block: its input is assembled and a step counted.     *)
StopTool(j, i, b) ==
  /\ buffers' = [buffers EXCEPT ![j][i] = <<>>]
  /\ step' = [step EXCEPT ![j] = @ + 1]
  /\ Emit(j, <<InputDone(b.id, Parsed(buffers[j][i])), AgentStep(step[j] + 1)>>)

(* content_block_stop                                                      *)
BlockStop(j) ==
  LET i == index[j]
      b == OpenAt(j, i) IN
  /\ Yields(j)
  /\ block[j] # NoBlock
  /\ openBlocks' = [openBlocks EXCEPT ![j][i] = Closed]
  /\ IF b.type = "tool_use"
       THEN StopTool(j, i, b)
       ELSE /\ Emit(j, <<Event(IF b.type = "text" THEN "text.stop"
                                                  ELSE "thinking.stop", b.id)>>)
            /\ UNCHANGED <<buffers, step>>
  /\ block' = [block EXCEPT ![j] = NoBlock]
  /\ index' = [index EXCEPT ![j] = @ + 1]
  /\ calls' = [calls EXCEPT ![j] = IF block[j].type = "tool_use"
                                     THEN @ \cup {ToolId(tools[j])} ELSE @]
  /\ UNCHANGED <<tools, outcome, odd>>

(* UserMessage: the result of a tool call.  With the first one the message *)
(* is over.  A sub-agent's messages are skipped.                           *)
ToolResult(j) ==
  /\ Yields(j)
  /\ block[j] = NoBlock
  /\ \E id \in calls[j] :
       /\ calls' = [calls EXCEPT ![j] = @ \ {id}]
       /\ Emit(j, <<Event("tool.result", id)>>)
  /\ index' = [index EXCEPT ![j] = 0]
  /\ UNCHANGED <<mapping, block, tools, outcome, odd>>

SubAgentMessage(j) ==
  /\ Yields(j)
  /\ calls[j] # {} /\ block[j] = NoBlock
  /\ UNCHANGED <<queue, mapping, block, index, calls, tools, outcome, odd>>

(* ResultMessage, whatever it says of the run.                             *)
ResultMessage(j) ==
  /\ Yields(j)
  /\ Emit(j, <<Result>>)
  /\ outcome' = [outcome EXCEPT ![j] = "complete"]
  /\ UNCHANGED <<mapping, block, index, calls, tools, odd>>

(* SDK: the response breaks off and is begun again.  message_start is      *)
(* ignored, so nothing that is open or buffered is cleared.                *)
MessageStartsOver(j) ==
  /\ Yields(j)
  /\ block[j] # NoBlock
  /\ block' = [block EXCEPT ![j] = NoBlock]
  /\ index' = [index EXCEPT ![j] = 0] /\ calls' = [calls EXCEPT ![j] = {}]
  /\ odd' = [odd EXCEPT ![j] = TRUE]
  /\ UNCHANGED <<queue, mapping, tools, outcome>>

-----------------------------------------------------------------------------
(* The response body, and who cancels.                                     *)

Closes(e) == e = Sentinel \/ IsTerminal(e)

(* _event_stream: the next event is sent; None and the terminal events end *)
(* the body.                                                               *)
Deliver(j) ==
  /\ stream[j] = "open" /\ queue[j] # <<>>
  /\ queue' = [queue EXCEPT ![j] = Tail(@)]
  /\ LET e == Head(queue[j]) IN
       /\ out' = [out EXCEPT ![j] = IF e = Sentinel THEN @ ELSE Append(@, e)]
       /\ stream' = [stream EXCEPT ![j] = IF Closes(e) THEN "closed" ELSE @]
  /\ UNCHANGED <<server, task, cancelling, mapping, sdk, outcome, odd>>

(* task.cancel() on a task that has not ended.                             *)
CancelTasks(js) ==
  cancelling' = [j \in Runs |-> cancelling[j] \/ (j \in js /\ task[j] = "running")]

(* The client goes away.  The generator learns of it only while it waits   *)
(* for an event, not while one is being sent.                              *)
ClientLeaves(j) ==
  /\ stream[j] = "open"
  /\ stream' = [stream EXCEPT ![j] = "left"]
  /\ \/ queue[j] = <<>> /\ CancelTasks({j})
     \/ UNCHANGED cancelling
  /\ UNCHANGED <<server, task, queue, out, mapping, sdk, outcome, odd>>

(* POST /v1/jobs/{run_id}/cancel: 404 unless the run is active.            *)
Cancel(j) ==
  /\ up /\ j \in active /\ ~cancelling[j]
  /\ CancelTasks({j})
  /\ UNCHANGED <<server, task, queue, stream, out, mapping, sdk,
                 outcome, odd>>

(* _lifespan: all active jobs are cancelled, then awaited.                 *)
Shutdown ==
  /\ up /\ up' = FALSE
  /\ CancelTasks(active)
  /\ UNCHANGED <<active, task, queue, stream, out, mapping, sdk,
                 outcome, odd>>

Sdk(j) ==
  \/ \E kind \in Kinds : BlockStart(j, kind)
  \/ BlockDelta(j) \/ BlockStop(j) \/ ToolResult(j) \/ SubAgentMessage(j)
  \/ ResultMessage(j) \/ MessageStartsOver(j) \/ SdkEnds(j) \/ SdkRaises(j)

Next ==
  \/ \E j \in Runs :
       \/ Refuse(j) \/ Submit(j) \/ Sdk(j) \/ CancelLands(j) \/ Deliver(j)
       \/ ClientLeaves(j) \/ Cancel(j)
  \/ Shutdown

(* The event loop runs what is ready, and the SDK does not hang: it yields *)
(* until it ends.  Nothing is assumed of clients.                          *)
Fairness ==
  \A j \in Runs : WF_vars(Sdk(j)) /\ WF_vars(CancelLands(j)) /\ WF_vars(Deliver(j))

Spec == Init /\ [][Next]_vars /\ Fairness

-----------------------------------------------------------------------------
(* What holds.                                                             *)

(* The last event about the same block before the n-th.                    *)
Before(s, n) ==
  LET same == {m \in 1..(n - 1) : "id" \in DOMAIN s[m] /\ s[m].id = s[n].id} IN
  IF same = {} THEN "none" ELSE s[CHOOSE m \in same : \A k \in same : k <= m].type

(* What may come before an event in the life of its block.                 *)
MayFollow ==
  LET idle == {"none", "text.stop", "thinking.stop"} IN
  [type \in BlockEvents \cup {"tool.input_done"} |->
     CASE type \in {"text.start", "thinking.start"}   -> idle
       [] type \in {"text.delta", "text.stop"}        -> {"text.start", "text.delta"}
       [] type \in {"thinking.delta", "thinking.stop"} -> {"thinking.start", "thinking.delta"}
       [] type = "tool.start"                          -> {"none"}
       [] type \in {"tool.input_delta", "tool.input_done"}
                                                       -> {"tool.start", "tool.input_delta"}
       [] OTHER                                        -> {"tool.input_done"}]

Count(s, type) == Cardinality({m \in DOMAIN s : s[m].type = type})

(* A client can follow the stream: a result belongs to a call that was     *)
(* streamed, steps count the calls, nothing follows a terminal event, and, *)
(* unless the SDK began a message over or sent a kind of block the mapping *)
(* does not know, every delta and stop falls into an open block of its     *)
(* kind and the input of a call is its own (sdk_mapping.py:22-28, 92-98).  *)
ClientCanFollow ==
  \A j \in Runs :
    LET s == out[j] IN
    \A n \in DOMAIN s :
      /\ IsTerminal(s[n]) => n = Len(s)
      /\ s[n].type = "tool.result" => Before(s, n) = "tool.input_done"
      /\ s[n].type = "agent.step" =>
           /\ s[n - 1].type = "tool.input_done"
           /\ s[n].step = Count(SubSeq(s, 1, n), "tool.input_done")
      /\ "id" \in DOMAIN s[n] /\ ~odd[j] => Before(s, n) \in MayFollow[s[n].type]
      /\ s[n].type = "tool.input_done" /\ ~odd[j] =>
           s[n].input = IF \E m \in 1..n : s[m] = Event("tool.input_delta", s[n].id)
                          THEN <<s[n].id>> ELSE <<>>

(* Nobody waits for nothing: the active runs are those whose task runs; a  *)
(* client whose body is open still has an event coming once the task has   *)
(* ended; and the body of a job closes after a terminal event, except when *)
(* it was cancelled or its SDK stream ended without a result.              *)
NobodyWaitsForNothing ==
  \A j \in Runs :
    /\ j \in active <=> task[j] = "running"
    /\ cancelling[j] => task[j] = "running"
    /\ task[j] = "ended" /\ stream[j] = "open" => queue[j] # <<>>
    /\ stream[j] = "closed" =>
         Ended(out[j]) \/ outcome[j] \in {"short", "cancelled"}

(* Every body closes or loses its client, and a cancelled job ends.        *)
BodyCloses ==
  \A j \in Runs :
    /\ stream[j] = "open" ~> stream[j] # "open"
    /\ cancelling[j] ~> task[j] = "ended"
=============================================================================
