----------------------------- MODULE StreamPump -----------------------------
(***************************************************************************)
(* The BFF's translation of a run's events into the stream that the chat   *)
(* UI's library reads (web/src/lib/chat/go-sse-to-ui.ts), composed with    *)
(* the events of EngineJob.                                                *)
(*                                                                         *)
(* The backend passes the engine's events on in order (RunFeed), from the  *)
(* first one or from where the browser says it left off; a frame that does *)
(* not parse is dropped.  The library throws on a part that goes on or     *)
(* ends without having begun.                                              *)
(***************************************************************************)
EXTENDS EngineJob

(* What is written for the UI: a step in the life of a part.               *)
Chunk(step_, part, id) == [type |-> step_, id |-> <<part, id>>]

(* A pump: the parts that are open (openText, openReasoning), the          *)
(* fragments of each call's input (toolInputBuffers), what it has written. *)
FreshPump == [open |-> {}, fragments |-> <<>>, ui |-> <<>>]

Written(p, chunk) == [p EXCEPT !.ui = Append(@, chunk)]
IsOpen(p, part, id) == <<part, id>> \in p.open

(* A start, and a delta whose start was lost, open the part.               *)
StartPart(p, part, id) ==
  IF IsOpen(p, part, id)
    THEN p
    ELSE Written([p EXCEPT !.open = @ \cup {<<part, id>>}], Chunk("start", part, id))

DeltaPart(p, part, id) == Written(StartPart(p, part, id), Chunk("delta", part, id))

(* MUTANT of EndPart: every stop is passed on.                             *)
EndPartAnyway(p, part, id) ==
  Written([p EXCEPT !.open = @ \ {<<part, id>>}], Chunk("end", part, id))

(* A stop of a part that is not open is dropped.                           *)
EndPart(p, part, id) ==
  IF IsOpen(p, part, id)
    THEN Written([p EXCEPT !.open = @ \ {<<part, id>>}], Chunk("end", part, id))
    ELSE p

Buffered(p, id) == IF id \in DOMAIN p.fragments THEN p.fragments[id] ELSE <<>>
SetBuffer(p, id, raw) ==
  [p EXCEPT !.fragments = [i \in DOMAIN @ \cup {id} |-> IF i = id THEN raw ELSE @[i]]]

(* Calls are passed on step by step; the input is put together again from  *)
(* the fragments, whatever input the event brings.                         *)
StartTool(p, id)   == Written(SetBuffer(p, id, <<>>), Chunk("start", "tool", id))
FeedTool(p, id)    == Written(SetBuffer(p, id, Append(Buffered(p, id), id)),
                              Chunk("delta", "tool", id))
FinishTool(p, id)  ==
  Written([p EXCEPT !.fragments = Restrict(@, DOMAIN @ \ {id})],
          [type |-> "available", id |-> <<"tool", id>>, input |-> Parsed(Buffered(p, id))])
AnswerTool(p, id)  == Written(p, Chunk("output", "tool", id))

(* The switch of pumpGoStream; steps and results are not shown.            *)
Handle(p, e) ==
  CASE e.type = "text.start"       -> StartPart(p, "text", e.id)
    [] e.type = "text.delta"       -> DeltaPart(p, "text", e.id)
    [] e.type = "text.stop"        -> EndPart(p, "text", e.id)
    [] e.type = "thinking.start"   -> StartPart(p, "reasoning", e.id)
    [] e.type = "thinking.delta"   -> DeltaPart(p, "reasoning", e.id)
    [] e.type = "thinking.stop"    -> EndPart(p, "reasoning", e.id)
    [] e.type = "tool.start"       -> StartTool(p, e.id)
    [] e.type = "tool.input_delta" -> FeedTool(p, e.id)
    [] e.type = "tool.input_done"  -> FinishTool(p, e.id)
    [] e.type = "tool.result"      -> AnswerTool(p, e.id)
    [] OTHER                       -> p

(* The pump after each event of s.                                         *)
Pump(s) ==
  LET pump[n \in 0..Len(s)] == IF n = 0 THEN FreshPump ELSE Handle(pump[n - 1], s[n]) IN
  pump

Pumped(s) == Pump(s)[Len(s)].ui

-----------------------------------------------------------------------------
(* What holds.                                                             *)

(* What a pump may hear of the events s: all, all from some event on (the  *)
(* browser came back), all but one that was dropped.                       *)
Hearings(s) ==
  {SubSeq(s, k + 1, Len(s)) : k \in 0..Len(s)} \cup {RemoveAt(s, k) : k \in 1..Len(s)}

(* What may come before a chunk in the life of its part.                   *)
MayPrecede ==
  [start |-> {"none", "end"}, delta |-> {"start", "delta"}, end |-> {"start", "delta"},
   available |-> {"start", "delta"}, output |-> {"available"}]

(* Text and reasoning parts are start, deltas, end, whatever the SDK sends *)
(* and whatever the pump hears of it.                                      *)
PartsAreWhole(ui) ==
  \A n \in DOMAIN ui :
    ui[n].id[1] # "tool" => Before(ui, n) \in MayPrecede[ui[n].type]

(* Heard from the beginning, so are the calls, and each is shown with the  *)
(* input that the engine put together.                                     *)
CallsAreWhole(ui, s) ==
  \A n \in DOMAIN ui :
    ui[n].id[1] = "tool" =>
      /\ Before(ui, n) \in MayPrecede[ui[n].type]
      /\ ui[n].type = "available" => InputDone(ui[n].id[2], ui[n].input) \in Range(s)

(* A client can follow the events, and the browser behind it what they are *)
(* translated to (go-sse-to-ui.ts:100-106): its text and reasoning parts   *)
(* never go on or end without having begun, even if it came back in the    *)
(* middle of one; and its calls do not either, and show the input they     *)
(* were made with, if it hears the run from the beginning and the SDK did  *)
(* not begin a message over.                                               *)
EveryoneCanFollow ==
  /\ ClientCanFollow
  /\ \A j \in Runs :
       stream[j] = "closed" =>
         /\ \A s \in Hearings(out[j]) : PartsAreWhole(Pumped(s))
         /\ ~odd[j] => CallsAreWhole(Pumped(out[j]), out[j])
=============================================================================
