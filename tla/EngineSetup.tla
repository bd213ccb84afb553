---------------------------- MODULE EngineSetup ----------------------------
(***************************************************************************)
(* What the engine makes of a job before it asks the agent SDK: which jobs *)
(* it accepts, the tools and servers it attaches, the calls it allows      *)
(* beforehand and the prompt (engine/engine_core/runner.py, models/job.py, *)
(* capabilities/*.py, engine/claude_engine/runtime.py, sdk_adapters.py).   *)
(* All of it is computed from the job; nothing here has state.             *)
(*                                                                         *)
(* Symbolic links are left out.                                            *)
(***************************************************************************)
EXTENDS Lists

CONSTANT Root  (* the workspace's absolute path, a sequence of names       *)

WorkspaceTools   == {"Read", "Glob", "Grep"}
InteractiveTools == {"AskChoice"}
RouterTools      == {"list_mcp_servers", "search_tools", "call_tool"}
WebTools         == {"WebSearch", "WebFetch"}

(* A path, of names; and an attachment, which has an absolute one: whether *)
(* there is a file at the path, and an image small enough to be inlined.   *)
Path       == [abs : BOOLEAN, parts : Seq(STRING)]
Attachment == [kind : {"image", "file"}, path : [abs : {TRUE}, parts : Seq(STRING)],
               there : BOOLEAN, small : BOOLEAN]

(* A message: whether it has a text that is not blank.                     *)
Message         == [text : BOOLEAN, attachments : Seq(Attachment)]
McpServerConfig == [name : STRING, deferred : BOOLEAN]
PermissionMode  == {"dontAsk", "default"}
Job == [messages : Seq(Message), tools : SUBSET STRING, mode : PermissionMode,
        servers : Seq(McpServerConfig)]

(* A message needs a text or an attachment; a job needs a message.         *)
Accepts(job) ==
  /\ job.messages # <<>>
  /\ \A i \in DOMAIN job.messages :
       job.messages[i].text \/ job.messages[i].attachments # <<>>

HasAttachments(job) ==
  \E i \in DOMAIN job.messages : job.messages[i].attachments # <<>>

(* Attachments are read with the workspace tools, so they enable them.     *)
EffectiveTools(job) ==
  IF HasAttachments(job) THEN job.tools \cup WorkspaceTools ELSE job.tools

EffectiveMode(job) ==
  IF HasAttachments(job) /\ job.mode = "default" THEN "dontAsk" ELSE job.mode

-----------------------------------------------------------------------------
(* Servers.  Those of the engine itself, each with its tools, if any.      *)

Workspace(job) ==
  IF EffectiveMode(job) = "default" THEN {}
  ELSE EffectiveTools(job) \cap WorkspaceTools

Interactive(job) ==
  IF EffectiveMode(job) = "default" THEN {}
  ELSE EffectiveTools(job) \cap InteractiveTools

(* The job's servers, by their places in its list: two may have one name.  *)
NameOf(job, i) == job.servers[i].name
Names(job, places) == {NameOf(job, i) : i \in places}

Deferred(job) == {i \in DOMAIN job.servers : job.servers[i].deferred}
Native(job)   == DOMAIN job.servers \ Deferred(job)

Router(job) == IF Deferred(job) = {} THEN {} ELSE RouterTools

(* RemoteMcpRouter's registry: a dict, so that of two servers with one     *)
(* name the later replaces the earlier, in the place of the earlier.       *)
First(job, places) ==
  {i \in places : \A k \in places : NameOf(job, k) = NameOf(job, i) => i <= k}

Latest(job, i) ==
  CHOOSE l \in Deferred(job) :
    /\ NameOf(job, l) = NameOf(job, i)
    /\ \A k \in Deferred(job) : NameOf(job, k) = NameOf(job, i) => k <= l

Registry(job) ==
  LET order == Ascending(First(job, Deferred(job))) IN
  [n \in DOMAIN order |-> Latest(job, order[n])]

(* server_names                                                            *)
ServerNames(job) == [n \in DOMAIN Registry(job) |-> NameOf(job, Registry(job)[n])]

Built(job) ==
  [name \in {"workspace", "interactive", "mcp_router"} |->
     CASE name = "workspace"   -> Workspace(job)
       [] name = "interactive" -> Interactive(job)
       [] name = "mcp_router"  -> Router(job)]

InProcess(job) == {name \in DOMAIN Built(job) : Built(job)[name] # {}}

(* MUTANT of Remote: only duplicates are skipped.                          *)
RemoteUnreserved(job) == First(job, Native(job))

(* build_remote_mcp: native servers, but none that takes the name of a     *)
(* server of the engine, and the first only of several with one name.      *)
Remote(job) == {i \in First(job, Native(job)) : NameOf(job, i) \notin InProcess(job)}

(* The servers handed to the SDK by their names, where remote ones update  *)
(* those of the engine: the place in the job, or 0 for the engine's own,   *)
(* and the tools, which for a remote server are not known here: Anything.  *)
Anything == {"*"}

Attached(job) ==
  [name \in InProcess(job) \cup Names(job, Remote(job)) |->
     IF name \in Names(job, Remote(job))
       THEN [place |-> CHOOSE i \in Remote(job) : NameOf(job, i) = name, tools |-> Anything]
       ELSE [place |-> 0, tools |-> Built(job)[name]]]

(* Calls that need no permission: mcp__<server>__<tool>, mcp__<server> for *)
(* all tools of a remote server, and the SDK's own web tools.              *)
Allowed(job) ==
  (UNION {{name} \X Built(job)[name] : name \in InProcess(job)})
  \cup (Names(job, Remote(job)) \X Anything)
  \cup ({"sdk"} \X (EffectiveTools(job) \cap WebTools))

Disallowed(job) ==
  IF "interactive" \in InProcess(job) THEN {"AskUserQuestion"} ELSE {}

-----------------------------------------------------------------------------
(* Paths.                                                                  *)

IsInside(root, parts) == IsPrefix(root, parts)

(* Path.resolve without links.                                             *)
Normal(parts) ==
  LET enter(dir, name) == IF name # ".." THEN Append(dir, name)
                          ELSE IF dir = <<>> THEN <<>> ELSE Front(dir) IN
  FoldLeft(enter, <<>>, parts)

Outside == <<"outside">>

(* WorkspaceTools._safe_path: an absolute path inside the workspace stays  *)
(* as it is, any other path starts at the workspace.                       *)
SafePath(path) ==
  LET asIs == Normal(path.parts)
      candidate == IF path.abs /\ IsInside(Root, asIs) THEN asIs
                   ELSE Normal(Root \o path.parts) IN
  IF IsInside(Root, candidate) THEN candidate ELSE Outside

-----------------------------------------------------------------------------
(* The prompt: the last message and no other, whether or not a session of  *)
(* earlier messages is resumed.  A block is a text, an inlined image, the  *)
(* path of a file to read, or a note that an image could not be read.      *)

Text       == [type |-> "text"]
Image(p)   == [type |-> "image", path |-> p]
PathOf(p)  == [type |-> "path", path |-> p]
Unreadable == [type |-> "unreadable"]

Block(a) ==
  IF a.kind # "image" THEN PathOf(a.path)
  ELSE IF ~(IsInside(Root, Normal(a.path.parts)) /\ a.there) THEN Unreadable
  ELSE IF a.small THEN Image(a.path) ELSE PathOf(a.path)

MessageContent(m) ==
  IF m.attachments = <<>> THEN <<Text>>
  ELSE (IF m.text THEN <<Text>> ELSE <<>>)
       \o [i \in DOMAIN m.attachments |-> Block(m.attachments[i])]

Prompt(job) == IF HasAttachments(job) THEN MessageContent(Last(job.messages)) ELSE <<Text>>

-----------------------------------------------------------------------------
(* What the set-up owes the job.                                           *)

(* Every attachment of the message sent, the last, that lies in the        *)
(* workspace is in the prompt, or is named there and a tool that may be    *)
(* called opens it.  Of earlier messages nothing is sent.                  *)
AttachmentsReach(job) ==
  LET m == Last(job.messages) IN
  \A i \in DOMAIN m.attachments :
    LET a == m.attachments[i] IN
    a.there /\ IsInside(Root, Normal(a.path.parts)) =>
      \/ \E k \in DOMAIN Prompt(job) : Prompt(job)[k] = Image(a.path)
      \/ /\ \E k \in DOMAIN Prompt(job) : Prompt(job)[k] = PathOf(a.path)
         /\ <<"workspace", "Read">> \in Allowed(job)
         /\ "workspace" \in DOMAIN Attached(job)
         /\ SafePath(a.path) = Normal(a.path.parts)

(* A call that may be made of the job's server at place i reaches it and   *)
(* not another one of its name.                                            *)
Reached(job, i) ==
  IF job.servers[i].deferred
    THEN /\ \E n \in DOMAIN Registry(job) : Registry(job)[n] = i
         /\ <<"mcp_router", "call_tool">> \in Allowed(job)
    ELSE /\ NameOf(job, i) \in DOMAIN Attached(job)
         /\ Attached(job)[NameOf(job, i)].place = i
         /\ <<NameOf(job, i), "*">> \in Allowed(job)

(* The engine's own servers are never replaced by a server of the job; a   *)
(* call is allowed exactly if an attached server offers it; a name stands  *)
(* for one server; and a server of the job is reached, unless its name is  *)
(* a server's of the engine or is borne by one that is: of those to be     *)
(* deferred the last, of the others the first.                             *)
ServersReach(job) ==
  /\ \A name \in InProcess(job) : Attached(job)[name] = [place |-> 0, tools |-> Built(job)[name]]
  /\ \A name \in DOMAIN Attached(job) :
       \A t \in Attached(job)[name].tools : <<name, t>> \in Allowed(job)
  /\ \A call \in Allowed(job) :
       \/ call[1] = "sdk"
       \/ call[1] \in DOMAIN Attached(job) /\ call[2] \in Attached(job)[call[1]].tools
  /\ IsInjective(ServerNames(job))
  /\ \A i \in DOMAIN job.servers :
       \/ Reached(job, i)
       \/ i \in Native(job) /\ NameOf(job, i) \in InProcess(job)
       \/ i \in Native(job)   /\ \E k \in Native(job) :
            k < i /\ NameOf(job, k) = NameOf(job, i) /\ Reached(job, k)
       \/ i \in Deferred(job) /\ \E k \in Deferred(job) :
            i < k /\ NameOf(job, k) = NameOf(job, i) /\ Reached(job, k)
=============================================================================
