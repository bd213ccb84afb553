-------------------------- MODULE AgentToolsProofs --------------------------
(***************************************************************************)
(* Proofs about AgentTools and EngineSetup, for any jobs, servers,         *)
(* repositories, contents, queries and times.  What lists and searches are *)
(* is proved in IndexSearchProofs.  The invariants, each with an induction *)
(* that may use those above it:                                            *)
(*   TypeOK    types;                                                      *)
(*   Verdicts  how old the verdicts of the cache are;                      *)
(*   Checks    what a request that checks repositories has still to check, *)
(*             and how old the verdict is that it is about to keep;        *)
(*   Gathering what a search of tools has found of the servers it asked.   *)
(*   AnswersAreComplete, by what each kind of step does to `out`.          *)
(***************************************************************************)
EXTENDS AgentTools, IndexSearchProofs

(* GitHub's verdict is true now, unless the history says since when not;   *)
(* and a verdict of the cache lives until it is TTL old, at most.          *)
Verdicts ==
  \A r \in GitHubRepos :
    /\ IF r \in grants THEN granted[r] = 0 ELSE denied[r] = 0
    /\ cache[r].life > 0 =>
         (IF cache[r].allowed THEN granted[r] ELSE denied[r]) + cache[r].life <= TTL

(* A verdict that waits to be kept is not older than the check; a request  *)
(* whose tool runs checks nothing; and no repository is checked twice in a *)
(* decision.                                                               *)
Check(c) ==
  /\ request[c].at = "storing" =>
       LET r == Head(request[c].todo) IN
       (IF request[c].verdict THEN granted[r] ELSE denied[r]) <= request[c].age
  /\ request[c].at = "running" => request[c].todo = <<>>
  /\ request[c] # None =>
       /\ IsInjective(request[c].todo)
       /\ request[c].allowed \cap ToSet(request[c].todo) = {}

Checks == \A c \in Calls \cup Web : Check(c)

(* A search has asked a part of its servers, and has found what those of   *)
(* them offer that did not fail.  No server is asked twice: it could fail  *)
(* once and answer once.                                                   *)
GatheredTo(x, n) ==
  /\ n \in 0..Len(x.asked) /\ Len(x.todo) = Len(x.asked) - n
  /\ \A i \in DOMAIN x.todo : x.todo[i] = x.asked[n + i]
  /\ \A s \in x.failed : \E i \in 1..n : x.asked[i] = s
  /\ x.found = Offered(x.asked, x.failed)[n]

Gathered(x) == IsInjective(x.asked) /\ \E n \in Nat : GatheredTo(x, n)

Gathering ==
  /\ IsInjective(session.deferred)
  /\ \A c \in Calls : call[c].at \in {"searching", "connecting", "listing"} => Gathered(call[c])

-----------------------------------------------------------------------------
(* The set-up of a job.                                                    *)

(* The fields of a job.                                                    *)
LEMMA JobFields ==
  ASSUME NEW job \in Job
  PROVE  /\ job.messages \in Seq(Message) /\ job.tools \subseteq STRING
         /\ job.mode \in PermissionMode
         /\ job.servers \in Seq(McpServerConfig) /\ Len(job.servers) \in Nat
         /\ DOMAIN job.servers = 1..Len(job.servers)
         /\ \A i \in DOMAIN job.servers :
              job.servers[i].name \in STRING /\ job.servers[i].deferred \in BOOLEAN
<1>1. /\ job.messages \in Seq(Message) /\ job.tools \subseteq STRING
      /\ job.mode \in PermissionMode /\ job.servers \in Seq(McpServerConfig)
  BY DEF Job
<1>2. Len(job.servers) \in Nat /\ DOMAIN job.servers = 1..Len(job.servers)
      /\ \A i \in DOMAIN job.servers : job.servers[i] \in McpServerConfig
  BY <1>1
<1> QED
  BY <1>1, <1>2 DEF McpServerConfig

(* The servers of a job, by their places.                                  *)
LEMMA PlacesAre ==
  ASSUME NEW job \in Job
  PROVE  /\ Len(job.servers) \in Nat
         /\ Deferred(job) \in SUBSET (1..Len(job.servers)) /\ Deferred(job) \in SUBSET Nat
         /\ Native(job) \in SUBSET Nat
         /\ IsFiniteSet(Deferred(job))
<1>1. Len(job.servers) \in Nat /\ DOMAIN job.servers = 1..Len(job.servers)
  BY JobFields
<1>2. Deferred(job) \in SUBSET (1..Len(job.servers)) /\ Deferred(job) \in SUBSET Nat
      /\ Native(job) \in SUBSET Nat
  BY <1>1 DEF Deferred, Native
<1>3. IsFiniteSet(1..Len(job.servers))
  BY <1>1, FS_Interval
<1> QED
  BY <1>1, <1>2, <1>3, FS_Subset

(* Of the servers of a name one is the first.                              *)
LEMMA FirstIs ==
  ASSUME NEW job, NEW places \in SUBSET Nat
  PROVE  /\ First(job, places) \subseteq places
         /\ \A i, k \in First(job, places) : NameOf(job, i) = NameOf(job, k) => i = k
         /\ \A i \in places : \E f \in First(job, places) :
              NameOf(job, f) = NameOf(job, i) /\ f <= i
<1>1. \A i, k \in First(job, places) :
        NameOf(job, i) = NameOf(job, k) => i <= k /\ k <= i /\ i \in Nat /\ k \in Nat
  BY DEF First
<1>2. ASSUME NEW i \in places
      PROVE  \E f \in First(job, places) : NameOf(job, f) = NameOf(job, i) /\ f <= i
  <2> DEFINE same == {k \in places : NameOf(job, k) = NameOf(job, i)}
  <2>1. same \in SUBSET Nat /\ i \in same
    OBVIOUS
  <2>2. PICK f \in same : \A k \in same : f <= k
    BY <2>1, LeastNumber
  <2> QED
    BY <2>1, <2>2 DEF First
<1>3. \A i, k \in First(job, places) : NameOf(job, i) = NameOf(job, k) => i = k
  BY <1>1
<1>4. First(job, places) \subseteq places
  BY DEF First
<1> QED
  BY <1>2, <1>3, <1>4

(* Of the deferred servers of a name one is the last.                      *)
LEMMA LatestIs ==
  ASSUME NEW job \in Job, NEW i \in Deferred(job)
  PROVE  /\ Latest(job, i) \in Deferred(job)
         /\ NameOf(job, Latest(job, i)) = NameOf(job, i)
         /\ \A k \in Deferred(job) : NameOf(job, k) = NameOf(job, i) => k <= Latest(job, i)
<1> DEFINE N == Len(job.servers)
           same == {k \in Deferred(job) : NameOf(job, k) = NameOf(job, i)}
           after == {N - k : k \in same}
<1>1. N \in Nat /\ \A k \in Deferred(job) : k \in 1..N
  BY PlacesAre
<1>2. i \in same /\ same \subseteq 1..N
  BY <1>1
<1> HIDE DEF N, same
<1>3. after \in SUBSET Nat /\ N - i \in after
  BY <1>1, <1>2
<1>4. PICK a \in after : \A o \in after : a <= o
  BY <1>3, LeastNumber
<1>5. PICK l \in same : a = N - l
  BY <1>4
<1>6. \A k \in same : k <= l
  <2> SUFFICES ASSUME NEW k \in same
               PROVE  k <= l
    OBVIOUS
  <2>1. N - k \in after /\ N - l <= N - k
    BY <1>4, <1>5
  <2> QED
    BY <1>1, <1>2, <1>5, <2>1
<1>7. /\ l \in Deferred(job) /\ NameOf(job, l) = NameOf(job, i)
      /\ \A k \in Deferred(job) : NameOf(job, k) = NameOf(job, i) => k <= l
  BY <1>5, <1>6 DEF same
<1> QED
  BY <1>7 DEF Latest

(* The registry has each name of a deferred server once, and behind it the *)
(* last server of that name.                                               *)
LEMMA RegistryIs ==
  ASSUME NEW job \in Job
  PROVE  /\ ServerNames(job) \in Seq(Names(job, Deferred(job)))
         /\ IsInjective(ServerNames(job))
         /\ \A i \in Deferred(job) : \E n \in DOMAIN Registry(job) : \E l \in Deferred(job) :
              Registry(job)[n] = l /\ NameOf(job, l) = NameOf(job, i) /\ i <= l
<1> DEFINE first == First(job, Deferred(job))
           N == Cardinality(first)
           order == Ascending(first)
<1>1. Deferred(job) \in SUBSET Nat /\ IsFiniteSet(Deferred(job))
  BY PlacesAre
<1>2. /\ first \subseteq Deferred(job) /\ first \in SUBSET Nat
      /\ \A i, k \in first : NameOf(job, i) = NameOf(job, k) => i = k
      /\ \A i \in Deferred(job) : \E f \in first : NameOf(job, f) = NameOf(job, i)
  BY <1>1, FirstIs
<1>3. IsFiniteSet(first)
  BY <1>1, <1>2, FS_Subset
<1>4. /\ N \in Nat /\ order \in [1..N -> first]
      /\ \A m, n \in 1..N : order[m] = order[n] => m = n
      /\ \A i \in first : \E n \in 1..N : order[n] = i
  BY <1>2, <1>3, AscendingEnumerates
<1>5. Registry(job) = [n \in DOMAIN order |-> Latest(job, order[n])]
  BY DEF Registry
<1> HIDE DEF first, N, order
<1>6. /\ DOMAIN Registry(job) = 1..N
      /\ \A n \in 1..N : Registry(job)[n] = Latest(job, order[n]) /\ order[n] \in first
  BY <1>4, <1>5
<1>7. ASSUME NEW n \in 1..N
      PROVE  Registry(job)[n] \in Deferred(job)
             /\ NameOf(job, Registry(job)[n]) = NameOf(job, order[n])
  <2>1. order[n] \in Deferred(job)
    BY <1>2, <1>6
  <2> QED
    BY <1>6, <2>1, LatestIs
<1>8. /\ DOMAIN ServerNames(job) = 1..N
      /\ \A n \in 1..N : ServerNames(job)[n] = NameOf(job, order[n])
      /\ ServerNames(job) \in [1..N -> Names(job, Deferred(job))]
  <2>1. ServerNames(job) = [n \in 1..N |-> NameOf(job, Registry(job)[n])]
    BY <1>6 DEF ServerNames
  <2>2. \A n \in 1..N : NameOf(job, Registry(job)[n]) \in Names(job, Deferred(job))
    BY <1>7 DEF Names
  <2> QED
    BY <1>7, <2>1, <2>2
<1>9. ServerNames(job) \in Seq(Names(job, Deferred(job)))
  BY <1>4, <1>8
<1>10. \A m, n \in 1..N : NameOf(job, order[m]) = NameOf(job, order[n]) => m = n
  BY <1>2, <1>4, <1>6
<1>11. IsInjective(ServerNames(job))
  BY <1>8, <1>10 DEF IsInjective
<1>12. ASSUME NEW i \in Deferred(job)
       PROVE  \E n \in DOMAIN Registry(job) : \E l \in Deferred(job) :
                Registry(job)[n] = l /\ NameOf(job, l) = NameOf(job, i) /\ i <= l
  <2>1. PICK f \in first : NameOf(job, f) = NameOf(job, i)
    BY <1>2
  <2>2. PICK n \in 1..N : order[n] = f
    BY <1>4
  <2>3. f \in Deferred(job) /\ Registry(job)[n] = Latest(job, f)
    BY <1>2, <1>6, <2>2
  <2>4. /\ Latest(job, f) \in Deferred(job) /\ NameOf(job, Latest(job, f)) = NameOf(job, i)
        /\ i <= Latest(job, f)
    BY <2>1, <2>3, LatestIs
  <2> QED
    BY <1>6, <2>3, <2>4
<1> QED
  BY <1>9, <1>11, <1>12

(* The calls that need no permission.                                      *)
LEMMA AllowedCalls ==
  ASSUME NEW job
  PROVE  \A a : a \in Allowed(job) <=>
           \/ \E n \in InProcess(job) : \E t \in Built(job)[n] : a = <<n, t>>
           \/ \E n \in Names(job, Remote(job)) : a = <<n, "*">>
           \/ \E t \in EffectiveTools(job) \cap WebTools : a = <<"sdk", t>>
<1> DEFINE own(n) == {n} \X Built(job)[n]
           owns   == UNION {own(n) : n \in InProcess(job)}
           remote == Names(job, Remote(job)) \X {"*"}
           web    == {"sdk"} \X (EffectiveTools(job) \cap WebTools)
<1>1. Allowed(job) = owns \cup remote \cup web
  BY DEF Allowed, Anything
<1>2. \A n : \A a : a \in own(n) <=> \E t \in Built(job)[n] : a = <<n, t>>
  OBVIOUS
<1>3. \A a : a \in remote <=> \E n \in Names(job, Remote(job)) : a = <<n, "*">>
  OBVIOUS
<1>4. \A a : a \in web <=> \E t \in EffectiveTools(job) \cap WebTools : a = <<"sdk", t>>
  OBVIOUS
<1> HIDE DEF own, remote, web
<1>5. \A a : a \in owns <=> \E n \in InProcess(job) : a \in own(n)
  OBVIOUS
<1> HIDE DEF owns
<1> QED
  BY <1>1, <1>2, <1>3, <1>4, <1>5

(* What the engine's servers offer is allowed, and so is everything of the *)
(* remote ones, which take no name of the engine's.                        *)
LEMMA ServersAreReached ==
  ASSUME NEW job \in Job
  PROVE  ServersReach(job)
<1> DEFINE remote == Names(job, Remote(job))
<1>1. \A n \in InProcess(job) : n \notin remote /\ n \in DOMAIN Attached(job)
        /\ Attached(job)[n] = [place |-> 0, tools |-> Built(job)[n]]
  BY DEF Names, Remote, Attached
<1>2. \A i, k \in Remote(job) : NameOf(job, i) = NameOf(job, k) => i = k
  BY PlacesAre, FirstIs DEF Remote
<1>3. ASSUME NEW i \in Remote(job)
      PROVE  /\ NameOf(job, i) \in remote /\ NameOf(job, i) \in DOMAIN Attached(job)
             /\ Attached(job)[NameOf(job, i)] = [place |-> i, tools |-> {"*"}]
             /\ <<NameOf(job, i), "*">> \in Allowed(job)
  <2>1. NameOf(job, i) \in remote
    BY DEF Names
  <2>2. (CHOOSE k \in Remote(job) : NameOf(job, k) = NameOf(job, i)) = i
    BY <1>2
  <2>3. NameOf(job, i) \in DOMAIN Attached(job)
        /\ Attached(job)[NameOf(job, i)] = [place |-> i, tools |-> {"*"}]
    BY <2>1, <2>2 DEF Attached, Anything
  <2>4. \A n \in remote : <<n, "*">> \in Allowed(job)
    BY AllowedCalls
  <2> HIDE DEF remote
  <2> QED
    BY <2>1, <2>3, <2>4
<1>4. \A n \in remote : n \in DOMAIN Attached(job) /\ Attached(job)[n].tools = {"*"}
        /\ <<n, "*">> \in Allowed(job)
  <2> SUFFICES ASSUME NEW n \in remote
               PROVE  n \in DOMAIN Attached(job) /\ Attached(job)[n].tools = {"*"}
                      /\ <<n, "*">> \in Allowed(job)
    OBVIOUS
  <2>1. PICK i \in Remote(job) : n = NameOf(job, i)
    BY DEF Names
  <2>2. Attached(job)[n] = [place |-> i, tools |-> {"*"}]
    BY <1>3, <2>1
  <2> QED
    BY <1>3, <2>1, <2>2
<1>5. \A n \in InProcess(job) : \A t \in Built(job)[n] : <<n, t>> \in Allowed(job)
  BY AllowedCalls
<1>6. DOMAIN Attached(job) = InProcess(job) \cup remote
  BY DEF Attached
<1>7. \A n \in DOMAIN Attached(job) : \A t \in Attached(job)[n].tools : <<n, t>> \in Allowed(job)
  <2> SUFFICES ASSUME NEW n \in DOMAIN Attached(job), NEW t \in Attached(job)[n].tools
               PROVE  <<n, t>> \in Allowed(job)
    OBVIOUS
  <2>1. CASE n \in InProcess(job)
    <3>1. Attached(job)[n] = [place |-> 0, tools |-> Built(job)[n]]
      BY <1>1, <2>1
    <3>2. t \in Built(job)[n]
      BY <3>1
    <3> QED
      BY <1>5, <2>1, <3>2
  <2>2. CASE n \in remote
    BY <1>4, <2>2
  <2> QED
    BY <1>6, <2>1, <2>2
<1>8. \A call_ \in Allowed(job) :
        \/ call_[1] = "sdk"
        \/ call_[1] \in DOMAIN Attached(job) /\ call_[2] \in Attached(job)[call_[1]].tools
  <2> SUFFICES ASSUME NEW a \in Allowed(job), a[1] # "sdk"
               PROVE  a[1] \in DOMAIN Attached(job) /\ a[2] \in Attached(job)[a[1]].tools
    OBVIOUS
  <2>1. \/ \E n \in InProcess(job) : \E t \in Built(job)[n] : a = <<n, t>>
        \/ \E n \in remote : a = <<n, "*">>
    BY AllowedCalls
  <2> HIDE DEF remote
  <2>2. CASE \E n \in InProcess(job) : \E t \in Built(job)[n] : a = <<n, t>>
    <3>1. PICK n \in InProcess(job) : \E t \in Built(job)[n] : a = <<n, t>>
      BY <2>2
    <3>2. n \in DOMAIN Attached(job)
      BY <1>1, <3>1
    <3>3. Attached(job)[n] = [place |-> 0, tools |-> Built(job)[n]]
      BY <1>1, <3>1
    <3>4. Attached(job)[n].tools = Built(job)[n]
      BY <3>3
    <3> QED
      BY <3>1, <3>2, <3>4
  <2>3. CASE \E n \in remote : a = <<n, "*">>
    BY <1>4, <2>3
  <2> QED
    BY <2>1, <2>2, <2>3
<1>9. ASSUME NEW i \in Deferred(job)
      PROVE  \/ Reached(job, i)
             \/ \E k \in Deferred(job) :
                  i < k /\ NameOf(job, k) = NameOf(job, i) /\ Reached(job, k)
  <2>1. Built(job)["mcp_router"] = RouterTools
    BY <1>9 DEF Built, Router
  <2>2. "mcp_router" \in InProcess(job) /\ "call_tool" \in Built(job)["mcp_router"]
    BY <2>1 DEF InProcess, RouterTools, Built
  <2>3. <<"mcp_router", "call_tool">> \in Allowed(job)
    BY <1>5, <2>2
  <2>4. PICK n \in DOMAIN Registry(job) : \E l \in Deferred(job) :
               Registry(job)[n] = l /\ NameOf(job, l) = NameOf(job, i) /\ i <= l
    BY RegistryIs
  <2>5. PICK l \in Deferred(job) :
               Registry(job)[n] = l /\ NameOf(job, l) = NameOf(job, i) /\ i <= l
    BY <2>4
  <2>6. Reached(job, l)
    BY <2>3, <2>4, <2>5 DEF Reached, Deferred
  <2>7. i \in Nat /\ l \in Nat
    BY PlacesAre
  <2> QED
    BY <2>5, <2>6, <2>7
<1>10. ASSUME NEW i \in Native(job), NameOf(job, i) \notin InProcess(job)
       PROVE  \/ Reached(job, i)
              \/ \E k \in Native(job) :
                   k < i /\ NameOf(job, k) = NameOf(job, i) /\ Reached(job, k)
  <2>1. Native(job) \in SUBSET Nat
    BY PlacesAre
  <2>2. PICK f \in First(job, Native(job)) : NameOf(job, f) = NameOf(job, i) /\ f <= i
    BY <2>1, FirstIs
  <2>3. f \in Native(job) /\ f \in Remote(job)
    BY <1>10, <2>1, <2>2, FirstIs DEF Remote
  <2>4. ~job.servers[f].deferred
    BY <2>3 DEF Native, Deferred
  <2>5. Attached(job)[NameOf(job, f)] = [place |-> f, tools |-> {"*"}]
    BY <1>3, <2>3
  <2>6. Reached(job, f)
    BY <1>3, <2>3, <2>4, <2>5 DEF Reached
  <2>7. f \in Nat /\ i \in Nat
    BY <2>1, <2>3
  <2> QED
    BY <2>2, <2>3, <2>6, <2>7
<1>11. \A i \in DOMAIN job.servers : i \in Deferred(job) \/ i \in Native(job)
  BY DEF Native
<1>12. IsInjective(ServerNames(job))
  BY RegistryIs
<1> HIDE DEF remote
<1> QED
  BY <1>1, <1>7, <1>8, <1>9, <1>10, <1>11, <1>12 DEF ServersReach

(* The tools that read a workspace are offered to a job with attachments.  *)
LEMMA ReadIsOffered ==
  ASSUME NEW job \in Job, HasAttachments(job)
  PROVE  <<"workspace", "Read">> \in Allowed(job) /\ "workspace" \in DOMAIN Attached(job)
<1>1. EffectiveMode(job) = "dontAsk"
  BY JobFields DEF EffectiveMode, PermissionMode
<1>2. "Read" \in Workspace(job)
  BY <1>1 DEF Workspace, EffectiveTools, WorkspaceTools
<1>3. "Read" \in Built(job)["workspace"] /\ "workspace" \in InProcess(job)
  BY <1>2 DEF Built, InProcess
<1> QED
  BY <1>3, AllowedCalls DEF Attached

(* Each attachment of the last message can be opened.                      *)
LEMMA AttachmentsAreReached ==
  ASSUME NEW job \in Job, Accepts(job)
  PROVE  AttachmentsReach(job)
<1> DEFINE m == Last(job.messages)
<1>1. m \in Message /\ m = job.messages[Len(job.messages)]
      /\ Len(job.messages) \in DOMAIN job.messages
  <2>1. job.messages \in Seq(Message) /\ job.messages # <<>>
    BY JobFields DEF Accepts
  <2> QED
    BY <2>1, EmptySeq DEF Last
<1>2. /\ m.attachments \in Seq(Attachment) /\ Len(m.attachments) \in Nat
      /\ DOMAIN m.attachments = 1..Len(m.attachments)
  <2>1. m.attachments \in Seq(Attachment)
    BY <1>1 DEF Message
  <2> QED
    BY <2>1
<1> HIDE DEF m
<1> SUFFICES ASSUME NEW i \in DOMAIN m.attachments,
                    m.attachments[i].there,
                    IsInside(Root, Normal(m.attachments[i].path.parts))
             PROVE  LET a == m.attachments[i] IN
                    \/ \E k \in DOMAIN Prompt(job) : Prompt(job)[k] = Image(a.path)
                    \/ /\ \E k \in DOMAIN Prompt(job) : Prompt(job)[k] = PathOf(a.path)
                       /\ <<"workspace", "Read">> \in Allowed(job)
                       /\ "workspace" \in DOMAIN Attached(job)
                       /\ SafePath(a.path) = Normal(a.path.parts)
  BY DEF AttachmentsReach, m
<1> DEFINE a == m.attachments[i]
           blocks == [n \in DOMAIN m.attachments |-> Block(m.attachments[n])]
<1>3. a \in Attachment /\ a.path.abs
  <2>1. a \in Attachment
    BY <1>2
  <2> HIDE DEF a
  <2>2. a.path \in [abs : {TRUE}, parts : Seq(STRING)]
    BY <2>1 DEF Attachment
  <2>3. a.path.abs = TRUE
    BY <2>2
  <2> QED
    BY <2>1, <2>3
<1>4. SafePath(a.path) = Normal(a.path.parts)
  BY <1>3 DEF SafePath
<1>5. HasAttachments(job) /\ m.attachments # <<>>
  <2>1. m.attachments # <<>>
    BY <1>2
  <2> QED
    BY <1>1, <2>1 DEF HasAttachments
<1>6. Block(a) \in {Image(a.path), PathOf(a.path)}
  BY DEF Block
<1>7. \E k \in DOMAIN Prompt(job) : Prompt(job)[k] = Block(a)
  <2>1. Prompt(job) = (IF m.text THEN <<Text>> ELSE <<>>) \o blocks
    BY <1>5 DEF Prompt, MessageContent, m
  <2>2. blocks \in Seq({Block(m.attachments[n]) : n \in DOMAIN m.attachments})
        /\ Len(blocks) = Len(m.attachments) /\ blocks[i] = Block(a)
    BY <1>2
  <2> HIDE DEF blocks
  <2>3. CASE m.text
    <3>1. Prompt(job) = <<Text>> \o blocks
      BY <2>1, <2>3
    <3>2. i \in 1..Len(blocks) /\ Len(blocks) \in Nat
      BY <1>2, <2>2
    <3> DEFINE kinds == {Text} \cup {Block(m.attachments[n]) : n \in DOMAIN m.attachments}
    <3>3. <<Text>> \in Seq(kinds) /\ Len(<<Text>>) = 1 /\ blocks \in Seq(kinds)
      BY <2>2, SeqMonotonic
    <3> HIDE DEF kinds
    <3>4. /\ Prompt(job) \in Seq(kinds) /\ Len(Prompt(job)) = 1 + Len(blocks)
          /\ \A n \in 1..(1 + Len(blocks)) :
               Prompt(job)[n] = IF n <= 1 THEN <<Text>>[n] ELSE blocks[n - 1]
      BY <3>1, <3>3, ConcatProperties
    <3>5. i + 1 \in DOMAIN Prompt(job) /\ Prompt(job)[i + 1] = blocks[i]
      BY <3>2, <3>4
    <3> QED
      BY <2>2, <3>5
  <2>4. CASE ~m.text
    <3>1. Prompt(job) = <<>> \o blocks
      BY <2>1, <2>4
    <3>2. Prompt(job) = blocks
      BY <2>2, <3>1, ConcatEmptySeq
    <3> QED
      BY <1>2, <2>2, <3>2
  <2> QED
    BY <2>3, <2>4
<1> QED
  BY <1>4, <1>5, <1>6, <1>7, ReadIsOffered

(* A session serves its job.                                               *)
LEMMA SetUpsServe ==
  ASSUME NEW s \in SetUps
  PROVE  s.serves = TRUE /\ s.session \in Session
<1>1. PICK j \in Jobs : /\ Accepts(j)
                        /\ s = [session |-> [tools |-> Workspace(j),
                                             remote |-> Names(j, Remote(j)),
                                             deferred |-> ServerNames(j)],
                                serves  |-> AttachmentsReach(j) /\ ServersReach(j)]
  BY DEF SetUps
<1>2. j \in Job
  BY AgentToolsAssumption
<1>3. AttachmentsReach(j) /\ ServersReach(j)
  BY <1>1, <1>2, AttachmentsAreReached, ServersAreReached
<1>4. Workspace(j) \in SUBSET WorkspaceTools
  BY DEF Workspace
<1>5. Names(j, Remote(j)) \in SUBSET STRING
  <2>1. \A i \in DOMAIN j.servers : j.servers[i].name \in STRING
    BY <1>2, JobFields
  <2> QED
    BY <2>1 DEF Names, NameOf, Remote, First, Native
<1>6. ServerNames(j) \in Seq(DOMAIN Offer)
  <2>1. Names(j, Deferred(j)) \subseteq DOMAIN Offer
    BY AgentToolsAssumption DEF Names, NameOf
  <2> QED
    BY <1>2, <2>1, RegistryIs, SeqMonotonic
<1> QED
  BY <1>1, <1>3, <1>4, <1>5, <1>6 DEF Session

-----------------------------------------------------------------------------
(* Types.  The parts of TypeOK.                                            *)

CallOK(x) ==
  /\ x \in {Idle} \cup SearchCall \cup ToolCall
  /\ x.at \in {"connecting", "listing"} => x.todo # <<>>

RequestOK(x) ==
  /\ x \in {None} \cup Request
  /\ x.at \in {"asking", "storing"} => x.todo # <<>>

IsMap(f, S) == f = [x \in S |-> f[x]]

CallsOK    == IsMap(call, Calls) /\ \A c \in Calls : CallOK(call[c])
RequestsOK == IsMap(request, Calls \cup Web) /\ \A c \in Calls \cup Web : RequestOK(request[c])
CatalogOK  == /\ catalog \in [DOMAIN Offer -> {NotFetched} \cup Seq(Nat)]
              /\ \A s \in DOMAIN Offer : catalog[s] \in {NotFetched, Offer[s]}
GateOK     == /\ cache \in [GitHubRepos -> [allowed : BOOLEAN, life : 0..TTL]]
              /\ grants \subseteq GitHubRepos
              /\ granted \in [GitHubRepos -> 0..TTL] /\ denied \in [GitHubRepos -> 0..TTL]

LEMMA TypeParts ==
  TypeOK <=> session \in Session /\ CatalogOK /\ CallsOK /\ RequestsOK /\ GateOK
<1>1. CallsOK <=> /\ call \in [Calls -> {Idle} \cup SearchCall \cup ToolCall]
                  /\ \A c \in Calls : call[c].at \in {"connecting", "listing"} => call[c].todo # <<>>
  BY DEF CallsOK, CallOK, IsMap
<1>2. RequestsOK <=> /\ request \in [Calls \cup Web -> {None} \cup Request]
                     /\ \A c \in Calls \cup Web :
                          request[c].at \in {"asking", "storing"} => request[c].todo # <<>>
  BY DEF RequestsOK, RequestOK, IsMap
<1> QED
  BY <1>1, <1>2 DEF TypeOK, CatalogOK, GateOK

LEMMA TypePartsNext ==
  session' \in Session /\ CatalogOK' /\ CallsOK' /\ RequestsOK' /\ GateOK' => TypeOK'
<1>1. CallsOK' => /\ call' \in [Calls -> {Idle} \cup SearchCall \cup ToolCall]
                  /\ \A c \in Calls : call'[c].at \in {"connecting", "listing"} => call'[c].todo # <<>>
  BY DEF CallsOK, CallOK, IsMap
<1>2. RequestsOK' => /\ request' \in [Calls \cup Web -> {None} \cup Request]
                     /\ \A c \in Calls \cup Web :
                          request'[c].at \in {"asking", "storing"} => request'[c].todo # <<>>
  BY DEF RequestsOK, RequestOK, IsMap
<1> QED
  BY <1>1, <1>2 DEF TypeOK, CatalogOK, GateOK

(* What a call or a request is tells where it is.                          *)
LEMMA CallShape ==
  ASSUME NEW x, CallOK(x)
  PROVE  /\ x.at \in {"searching", "connecting", "listing"} => x \in SearchCall
         /\ x.at \in {"dialing", "calling", "native"} => x \in ToolCall
BY DEF CallOK, SearchCall, ToolCall, Idle

LEMMA RequestShape ==
  ASSUME NEW x, RequestOK(x)
  PROVE  /\ x # None => x \in Request
         /\ x.at \in {"checking", "asking", "storing", "running"} => x \in Request
BY DEF RequestOK, Request, None

(* One call, or one request, goes on.                                      *)
LEMMA SetCall ==
  ASSUME CallsOK, NEW c \in Calls, NEW x, CallOK(x), call' = [call EXCEPT ![c] = x]
  PROVE  CallsOK'
BY DEF CallsOK, IsMap

LEMMA SetRequest ==
  ASSUME RequestsOK, NEW c \in Calls \cup Web, NEW x, RequestOK(x),
         request' = [request EXCEPT ![c] = x]
  PROVE  RequestsOK'
BY DEF RequestsOK, IsMap

LEMMA InitTypes == Init => TypeOK
<1> SUFFICES ASSUME Init PROVE TypeOK
  OBVIOUS
<1>1. session \in Session
  BY DEF Init, NoSession, Session
<1>2. CatalogOK
  BY DEF Init, CatalogOK
<1>3. CallsOK
  BY DEF Init, CallsOK, CallOK, IsMap, Idle
<1>4. RequestsOK
  BY DEF Init, RequestsOK, RequestOK, IsMap, None
<1>5. GateOK
  BY AgentToolsAssumption DEF Init, GateOK
<1> QED
  BY <1>1, <1>2, <1>3, <1>4, <1>5, TypeParts

(* A search goes on with the next server.                                  *)
LEMMA AddTypes ==
  ASSUME NEW c, CallOK(call[c]), call[c] \in SearchCall, call[c].todo # <<>>,
         NEW tools \in Seq(Nat)
  PROVE  CallOK(Add(c, tools))
<1> DEFINE s == Head(call[c].todo)
<1>1. /\ call[c].todo \in Seq(DOMAIN Offer) /\ call[c].asked \in Seq(DOMAIN Offer)
      /\ call[c].failed \in SUBSET DOMAIN Offer /\ call[c].found \in Seq((DOMAIN Offer) \X Nat)
      /\ DOMAIN call[c] = {"at", "asked", "todo", "failed", "found"}
  BY DEF SearchCall
<1>2. s \in DOMAIN Offer /\ Tail(call[c].todo) \in Seq(DOMAIN Offer)
  BY <1>1, HeadTailProperties
<1>3. Scored(s, tools) \in Seq((DOMAIN Offer) \X Nat)
  <2>1. Len(tools) \in Nat /\ DOMAIN tools = 1..Len(tools) /\ \A i \in 1..Len(tools) : tools[i] \in Nat
    OBVIOUS
  <2>2. Scored(s, tools) = [i \in 1..Len(tools) |-> <<s, tools[i]>>]
    BY <2>1 DEF Scored
  <2> QED
    BY <1>2, <2>1, <2>2
<1>4. call[c].found \o Scored(s, tools) \in Seq((DOMAIN Offer) \X Nat)
  BY <1>1, <1>3
<1> HIDE DEF s
<1>5. Add(c, tools) \in SearchCall /\ Add(c, tools).at = "searching"
  BY <1>1, <1>2, <1>4 DEF Add, SearchCall, s
<1> QED
  BY <1>5 DEF CallOK

(* ... or leaves one out.                                                  *)
LEMMA SkipTypes ==
  ASSUME CallsOK, NEW c \in Calls, call[c].at \in {"connecting", "listing"}, Skip(c)
  PROVE  CallsOK' /\ UNCHANGED catalog
<1> DEFINE x == [call[c] EXCEPT !.at = "searching", !.todo = Tail(@),
                                !.failed = @ \cup {Head(call[c].todo)}]
<1>1. CallOK(call[c]) /\ call[c] \in SearchCall /\ call[c].todo # <<>>
  BY CallShape DEF CallsOK, CallOK
<1>2. /\ call[c].todo \in Seq(DOMAIN Offer) /\ call[c].asked \in Seq(DOMAIN Offer)
      /\ call[c].failed \in SUBSET DOMAIN Offer /\ call[c].found \in Seq((DOMAIN Offer) \X Nat)
      /\ DOMAIN call[c] = {"at", "asked", "todo", "failed", "found"}
  BY <1>1 DEF SearchCall
<1>3. Head(call[c].todo) \in DOMAIN Offer /\ Tail(call[c].todo) \in Seq(DOMAIN Offer)
  BY <1>1, <1>2, HeadTailProperties
<1>4. x \in SearchCall /\ x.at = "searching"
  BY <1>2, <1>3 DEF SearchCall
<1>5. call' = [call EXCEPT ![c] = x]
  BY DEF Skip
<1>6. CallOK(x)
  BY <1>4 DEF CallOK
<1> HIDE DEF x
<1> QED
  BY <1>5, <1>6, SetCall DEF Skip

LEMMA EndCallTypes ==
  ASSUME CallsOK, NEW c \in Calls, NEW o, EndCall(c, o)
  PROVE  CallsOK'
<1>1. CallOK(Idle)
  BY DEF CallOK, Idle
<1> QED
  BY <1>1, SetCall DEF EndCall

(* A call that only moves on.                                              *)
LEMMA MoveTypes ==
  ASSUME CallsOK, NEW c \in Calls, NEW at,
         call' = [call EXCEPT ![c].at = at],
         \/ call[c] \in SearchCall /\ call[c].todo # <<>> /\ at \in {"connecting", "listing"}
         \/ call[c] \in ToolCall /\ at \in {"dialing", "calling", "native"}
  PROVE  CallsOK'
<1> DEFINE x == [call[c] EXCEPT !.at = at]
<1>1. CASE call[c] \in SearchCall /\ call[c].todo # <<>> /\ at \in {"connecting", "listing"}
  <2>1. x \in SearchCall /\ x.todo # <<>>
    BY <1>1 DEF SearchCall
  <2>2. CallOK(x)
    BY <2>1 DEF CallOK
  <2> QED
    BY <2>2, SetCall
<1>2. CASE call[c] \in ToolCall /\ at \in {"dialing", "calling", "native"}
  <2>1. x \in ToolCall /\ x.at = at
    BY <1>2 DEF ToolCall
  <2>2. CallOK(x)
    BY <1>2, <2>1 DEF CallOK
  <2> QED
    BY <2>2, SetCall
<1> QED
  BY <1>1, <1>2

(* A search begins, or a tool is called.                                   *)
LEMMA BeginTypes ==
  ASSUME CallsOK, NEW c \in Calls, NEW x, call' = [call EXCEPT ![c] = x],
         \/ \E asked \in Seq(DOMAIN Offer) :
              x = [at |-> "searching", asked |-> asked, todo |-> asked,
                   failed |-> {}, found |-> <<>>]
         \/ \E s \in DOMAIN Offer, at \in {"dialing", "native"} : x = [at |-> at, server |-> s]
  PROVE  CallsOK'
<1>1. ASSUME NEW asked \in Seq(DOMAIN Offer),
             x = [at |-> "searching", asked |-> asked, todo |-> asked,
                  failed |-> {}, found |-> <<>>]
      PROVE  CallOK(x)
  <2>1. x \in SearchCall /\ x.at = "searching"
    BY <1>1 DEF SearchCall
  <2> QED
    BY <2>1 DEF CallOK
<1>2. ASSUME NEW s \in DOMAIN Offer, NEW at \in {"dialing", "native"},
             x = [at |-> at, server |-> s]
      PROVE  CallOK(x)
  <2>1. x \in ToolCall /\ x.at \in {"dialing", "native"}
    BY <1>2 DEF ToolCall
  <2> QED
    BY <2>1 DEF CallOK
<1>3. CallOK(x)
  BY <1>1, <1>2
<1> QED
  BY <1>3, SetCall

LEMMA CallsStep ==
  ASSUME TypeOK, NEW c \in Calls, CallStep(c)
  PROVE  CallsOK' /\ CatalogOK'
<1>1. session \in Session /\ CallsOK /\ CatalogOK /\ CallOK(call[c])
  BY TypeParts DEF CallsOK
<1>2. CASE ListServers(c)
  BY <1>1, <1>2 DEF ListServers, CallsOK, CatalogOK
<1>3. CASE SearchTools(c)
  <2>1. session.deferred \in Seq(DOMAIN Offer) /\ \A s \in DOMAIN Offer : <<s>> \in Seq(DOMAIN Offer)
    BY <1>1 DEF Session
  <2>2. PICK asked \in {session.deferred} \cup {<<s>> : s \in DOMAIN Offer} :
          \/ call' = [call EXCEPT ![c] = [at |-> "searching", asked |-> asked, todo |-> asked,
                                          failed |-> {}, found |-> <<>>]]
          \/ EndCall(c, Error)
    BY <1>3 DEF SearchTools
  <2>3. asked \in Seq(DOMAIN Offer)
    BY <2>1, <2>2
  <2>4. CallsOK'
    BY <1>1, <2>2, <2>3, BeginTypes, EndCallTypes
  <2> QED
    BY <1>1, <1>3, <2>4 DEF SearchTools, CatalogOK
<1>4. CASE CallTool(c)
  <2>1. PICK s \in DOMAIN Offer :
          \/ call' = [call EXCEPT ![c] = [at |-> "dialing", server |-> s]]
          \/ EndCall(c, Error)
    BY <1>4 DEF CallTool
  <2>2. CallsOK'
    BY <1>1, <2>1, BeginTypes, EndCallTypes
  <2> QED
    BY <1>1, <1>4, <2>2 DEF CallTool, CatalogOK
<1>5. CASE CallNative(c)
  <2>1. PICK s \in DOMAIN Offer : call' = [call EXCEPT ![c] = [at |-> "native", server |-> s]]
    BY <1>5 DEF CallNative
  <2>2. CallsOK'
    BY <1>1, <2>1, BeginTypes
  <2> QED
    BY <1>1, <1>5, <2>2 DEF CallNative, CatalogOK
<1>6. CASE UseWorkspace(c)
  BY <1>1, <1>6 DEF UseWorkspace, CallsOK, CatalogOK
<1>7. CASE Arrive(c)
  BY <1>1, <1>7 DEF Arrive, CallsOK, CatalogOK
<1>8. CASE FromCatalog(c)
  <2> DEFINE s == Head(call[c].todo)
  <2>1. call[c] \in SearchCall /\ call[c].todo # <<>>
    BY <1>1, <1>8, CallShape DEF FromCatalog
  <2>2. call[c].todo \in Seq(DOMAIN Offer)
    BY <2>1 DEF SearchCall
  <2>3. s \in DOMAIN Offer
    BY <2>1, <2>2, HeadTailProperties
  <2>4. catalog[s] \in Seq(Nat)
    BY <1>1, <1>8, <2>3 DEF FromCatalog, CatalogOK
  <2>5. CallOK(Add(c, catalog[s]))
    BY <1>1, <2>1, <2>4, AddTypes
  <2>6. CallsOK'
    BY <1>1, <1>8, <2>5, SetCall DEF FromCatalog
  <2> QED
    BY <1>1, <1>8, <2>6 DEF FromCatalog, CatalogOK
<1>9. CASE Connect(c)
  <2>1. call[c] \in SearchCall /\ call[c].todo # <<>>
    BY <1>1, <1>9, CallShape DEF Connect
  <2>2. CallsOK'
    BY <1>1, <1>9, <2>1, MoveTypes DEF Connect
  <2> QED
    BY <1>1, <1>9, <2>2 DEF Connect, CatalogOK
<1>10. CASE Connected(c)
  <2>1. call[c] \in SearchCall /\ call[c].todo # <<>>
    BY <1>1, <1>10, CallShape DEF Connected, CallOK
  <2>2. CallsOK'
    BY <1>1, <1>10, <2>1, MoveTypes DEF Connected
  <2> QED
    BY <1>1, <1>10, <2>2 DEF Connected, CatalogOK
<1>11. CASE ListTools(c)
  <2> DEFINE s == Head(call[c].todo)
  <2>1. call[c] \in SearchCall /\ call[c].todo # <<>>
    BY <1>1, <1>11, CallShape DEF ListTools, CallOK
  <2>2. call[c].todo \in Seq(DOMAIN Offer)
    BY <2>1 DEF SearchCall
  <2>3. s \in DOMAIN Offer
    BY <2>1, <2>2, HeadTailProperties
  <2>4. Offer[s] \in Seq(Nat)
    BY <2>3, AgentToolsAssumption
  <2>5. CallOK(Add(c, Offer[s]))
    BY <1>1, <2>1, <2>4, AddTypes
  <2>6. /\ catalog' = [catalog EXCEPT ![s] = Offer[s]]
        /\ call' = [call EXCEPT ![c] = Add(c, Offer[s])]
    BY <1>11 DEF ListTools
  <2> HIDE DEF s
  <2>7. CallsOK'
    BY <1>1, <2>5, <2>6, SetCall
  <2>8. CatalogOK'
    BY <1>1, <2>3, <2>4, <2>6 DEF CatalogOK
  <2> QED
    BY <2>7, <2>8
<1>12. CASE Timeout(c) \/ Fails(c)
  <2>1. \/ call[c].at \in {"connecting", "listing"} /\ Skip(c)
        \/ EndCall(c, Error) /\ UNCHANGED catalog
    BY <1>12 DEF Timeout, Fails
  <2>2. CallsOK' /\ UNCHANGED catalog
    BY <1>1, <2>1, SkipTypes, EndCallTypes
  <2> QED
    BY <1>1, <2>2 DEF CatalogOK
<1>13. CASE Found(c)
  <2>1. CallsOK'
    BY <1>1, <1>13, EndCallTypes DEF Found
  <2> QED
    BY <1>1, <1>13, <2>1 DEF Found, CatalogOK
<1>14. CASE Dialed(c)
  <2>1. call[c] \in ToolCall
    BY <1>1, <1>14, CallShape DEF Dialed
  <2>2. CallsOK'
    BY <1>1, <1>14, <2>1, MoveTypes DEF Dialed
  <2> QED
    BY <1>1, <1>14, <2>2 DEF Dialed, CatalogOK
<1>15. CASE Answered(c)
  <2>1. CallsOK'
    BY <1>1, <1>15, EndCallTypes DEF Answered
  <2> QED
    BY <1>1, <1>15, <2>1 DEF Answered, CatalogOK
<1> QED
  BY <1>2, <1>3, <1>4, <1>5, <1>6, <1>7, <1>8, <1>9, <1>10, <1>11, <1>12, <1>13, <1>14, <1>15
  DEF CallStep, RouterStep

-----------------------------------------------------------------------------
(* Requests.                                                               *)

(* The repositories to check are GitHub's, each once.                      *)
LEMMA ToCheckLists ==
  ASSUME NEW auth
  PROVE  ToCheck(auth) \in Seq(GitHubRepos) /\ IsInjective(ToCheck(auth))
<1> DEFINE places == {i \in DOMAIN Registered : Registered[i] \in GitHubRepos}
           N == Cardinality(places)
<1>1. /\ Len(Registered) \in Nat /\ DOMAIN Registered = 1..Len(Registered)
      /\ IsInjective(Registered)
  BY AgentToolsAssumption
<1>2. places \in SUBSET (1..Len(Registered)) /\ places \in SUBSET Nat /\ IsFiniteSet(places)
  <2>1. places \subseteq 1..Len(Registered) /\ 1..Len(Registered) \subseteq Nat
    BY <1>1
  <2>2. IsFiniteSet(1..Len(Registered))
    BY <1>1, FS_Interval
  <2> HIDE DEF places
  <2> QED
    BY <2>1, <2>2, FS_Subset
<1>3. /\ N \in Nat /\ Ascending(places) \in [1..N -> places]
      /\ \A m, n \in 1..N : Ascending(places)[m] = Ascending(places)[n] => m = n
  BY <1>2, AscendingEnumerates
<1>4. CASE auth = "token"
  <2>1. ToCheck(auth) = [n \in 1..N |-> Registered[Ascending(places)[n]]]
    BY <1>4 DEF ToCheck, Sublist
  <2>2. \A i \in places : Registered[i] \in GitHubRepos /\ i \in DOMAIN Registered
    OBVIOUS
  <2> HIDE DEF places, N
  <2>3. \A n \in 1..N : Ascending(places)[n] \in places
    BY <1>3
  <2>4. ToCheck(auth) \in [1..N -> GitHubRepos]
    BY <2>1, <2>2, <2>3
  <2>5. ToCheck(auth) \in Seq(GitHubRepos)
    BY <1>3, <2>4
  <2>6. \A m, n \in 1..N : ToCheck(auth)[m] = ToCheck(auth)[n] => m = n
    BY <1>1, <1>3, <2>1, <2>2, <2>3 DEF IsInjective
  <2> QED
    BY <2>4, <2>5, <2>6 DEF IsInjective
<1>5. CASE auth # "token"
  <2>1. ToCheck(auth) = <<>>
    BY <1>5 DEF ToCheck
  <2> QED
    BY <2>1 DEF IsInjective
<1> QED
  BY <1>4, <1>5

LEMMA PlanTypes ==
  ASSUME NEW kind
  PROVE  Plan(kind) \in Seq(Repos \cup {Named, Filter})
<1> DEFINE T == Repos \cup {Named, Filter}
<1>1. Registered \in Seq(T) /\ <<Named>> \in Seq(T) /\ <<Filter>> \in Seq(T) /\ <<>> \in Seq(T)
  <2>1. Registered \in Seq(Repos)
    <3>1. Len(Registered) \in Nat /\ DOMAIN Registered = 1..Len(Registered)
          /\ Registered = [i \in 1..Len(Registered) |-> Registered[i]]
      BY AgentToolsAssumption
    <3>2. \A i \in 1..Len(Registered) : Registered[i] \in Repos
      BY <3>1 DEF Repos, ToSet
    <3> QED
      BY <3>1, <3>2
  <2> QED
    BY <2>1, SeqMonotonic
<1> HIDE DEF T
<1>2. \A s, t \in Seq(T) : s \o t \in Seq(T)
  OBVIOUS
<1>3. /\ (IF kind \in {"search_repo", "one_repo"} THEN <<Named>> ELSE <<>>) \in Seq(T)
      /\ (IF kind \in Searches THEN <<Filter>> ELSE <<>>) \in Seq(T)
      /\ (IF kind = "list_repos" THEN Registered ELSE <<>>) \in Seq(T)
  BY <1>1
<1>4. Plan(kind) \in Seq(T)
  BY <1>2, <1>3 DEF Plan
<1> QED
  BY <1>4 DEF T

LEMMA FreshTypes ==
  ASSUME NEW kind \in McpKinds \cup Searches, NEW auth \in Auths
  PROVE  Fresh(kind, auth) \in Request /\ RequestOK(Fresh(kind, auth))
<1>1. 0 \in 0..CheckTime
  BY AgentToolsAssumption
<1>2. Fresh(kind, auth) \in Request /\ Fresh(kind, auth).at = "checking"
  BY <1>1, PlanTypes, ToCheckLists DEF Fresh, Request
<1> QED
  BY <1>2 DEF RequestOK

LEMMA FinishedTypes == RequestOK(None)
BY DEF RequestOK, None

(* The fields of a request.                                                *)
LEMMA RequestFields ==
  ASSUME NEW x \in Request
  PROVE  /\ x.todo \in Seq(GitHubRepos) /\ x.plan \in Seq(Repos \cup {Named, Filter})
         /\ x.allowed \in SUBSET GitHubRepos /\ x.age \in 0..CheckTime /\ x.verdict \in BOOLEAN
         /\ x.kind \in McpKinds \cup Searches /\ x.repo \in Repos \cup {AllRepos}
         /\ x.auth \in Auths /\ x # None /\ x.at \in {"checking", "asking", "storing", "running"}
         /\ DOMAIN x = {"at", "kind", "repo", "auth", "plan", "todo", "allowed", "age", "verdict"}
BY DEF Request, None

(* The next repository to check is one of GitHub's.                        *)
LEMMA NextToCheck ==
  ASSUME NEW x \in Request, x.todo # <<>>
  PROVE  Head(x.todo) \in GitHubRepos /\ Tail(x.todo) \in Seq(GitHubRepos)
BY RequestFields, HeadTailProperties

(* A request goes from one repository, or from one decision, to the next.  *)
LEMMA PassedTypes ==
  ASSUME RequestsOK, NEW c \in Calls \cup Web, request[c] \in Request, request[c].todo # <<>>,
         NEW allowed \in SUBSET GitHubRepos,
         request' = [request EXCEPT ![c] = [request[c] EXCEPT !.at = "checking", !.todo = Tail(@),
                       !.allowed = allowed, !.age = 0, !.verdict = FALSE]]
         \/ (/\ request[c].at = "checking"
             /\ request' = [request EXCEPT ![c] =
                             [request[c] EXCEPT !.todo = Tail(@), !.allowed = allowed]])
  PROVE  RequestsOK'
<1>1. 0 \in 0..CheckTime
  BY AgentToolsAssumption
<1>2. Tail(request[c].todo) \in Seq(GitHubRepos)
  BY NextToCheck
<1> DEFINE kept  == [request[c] EXCEPT !.at = "checking", !.todo = Tail(@), !.allowed = allowed,
                                       !.age = 0, !.verdict = FALSE]
           known == [request[c] EXCEPT !.todo = Tail(@), !.allowed = allowed]
<1>3. kept \in Request /\ kept.at = "checking"
  BY <1>1, <1>2 DEF Request
<1>4. request[c].at = "checking" => known \in Request /\ known.at = "checking"
  BY <1>2 DEF Request
<1>5. RequestOK(kept) /\ (request[c].at = "checking" => RequestOK(known))
  BY <1>3, <1>4 DEF RequestOK
<1> HIDE DEF kept, known
<1> QED
  BY <1>5, SetRequest DEF kept, known

LEMMA NextDecisionTypes ==
  ASSUME NEW c \in Calls \cup Web, request[c] \in Request, Decided(c),
         NEW repo \in Repos \cup {AllRepos}
  PROVE  /\ NextDecision(c) \in Request /\ RequestOK(NextDecision(c))
         /\ RequestOK([NextDecision(c) EXCEPT !.repo = repo])
         /\ RequestOK([request[c] EXCEPT !.at = "running", !.plan = <<>>])
<1>1. Tail(request[c].plan) \in Seq(Repos \cup {Named, Filter})
  BY RequestFields, HeadTailProperties DEF Decided
<1>2. ToCheck(request[c].auth) \in Seq(GitHubRepos)
  BY ToCheckLists
<1>3. request[c].at = "checking"
  BY DEF Decided
<1>4. NextDecision(c) \in Request /\ NextDecision(c).at = "checking"
  BY <1>1, <1>2, <1>3 DEF NextDecision, Request
<1>5. [NextDecision(c) EXCEPT !.repo = repo] \in Request
      /\ [NextDecision(c) EXCEPT !.repo = repo].at = "checking"
  BY <1>4 DEF Request
<1>6. [request[c] EXCEPT !.at = "running", !.plan = <<>>] \in Request
      /\ [request[c] EXCEPT !.at = "running", !.plan = <<>>].at = "running"
  <2>1. <<>> \in Seq(Repos \cup {Named, Filter})
    OBVIOUS
  <2> QED
    BY <2>1 DEF Request
<1> QED
  BY <1>4, <1>5, <1>6 DEF RequestOK

LEMMA RespondTypes ==
  ASSUME CallsOK, RequestsOK, NEW c \in Calls \cup Web, NEW o, Respond(c, o)
  PROVE  CallsOK' /\ RequestsOK'
<1>1. RequestsOK'
  BY FinishedTypes, SetRequest DEF Respond
<1>2. call' = call \/ (c \in Calls /\ EndCall(c, o))
  BY DEF Respond
<1>3. CallsOK'
  BY <1>2, EndCallTypes DEF CallsOK
<1> QED
  BY <1>1, <1>3

(* What a request leaves alone.                                            *)
LEMMA RequestMoves ==
  ASSUME NEW c \in Calls \cup Web, RequestStep(c)
  PROVE  /\ UNCHANGED <<session, catalog, grants, granted>>
         /\ \/ Cached(c) \/ AskGitHub(c)
            \/ GitHubAnswers(c)
            \/ StoreVerdict(c)
            \/ Gate(c) /\ UNCHANGED <<cache, denied>>
            \/ ListRepo(c) /\ UNCHANGED <<cache, denied>>
            \/ Search(c) /\ UNCHANGED <<cache, denied>>
            \/ RunTool(c) /\ UNCHANGED <<cache, denied>>
<1>1. CASE Cached(c) \/ AskGitHub(c)
  BY <1>1 DEF Cached, AskGitHub, gateVars, worldVars
<1>2. CASE GitHubAnswers(c)
  BY <1>2 DEF GitHubAnswers, worldVars
<1>3. CASE StoreVerdict(c)
  BY <1>3 DEF StoreVerdict, worldVars
<1>4. CASE Gate(c)
  BY <1>4 DEF Gate, gateVars, worldVars
<1>5. CASE ListRepo(c)
  BY <1>5 DEF ListRepo, gateVars, worldVars
<1>6. CASE Search(c)
  BY <1>6 DEF Search, gateVars, worldVars
<1>7. CASE RunTool(c)
  BY <1>7 DEF RunTool, gateVars, worldVars
<1> QED
  BY <1>1, <1>2, <1>3, <1>4, <1>5, <1>6, <1>7 DEF RequestStep

(* A verdict lives until it is TTL old.                                    *)
LEMMA LifeLasts ==
  ASSUME NEW c, request[c].age \in 0..CheckTime
  PROVE  Life(c) = TTL - request[c].age /\ Life(c) \in 1..TTL
BY AgentToolsAssumption DEF Life, Larger

LEMMA RequestsStep ==
  ASSUME TypeOK, NEW c \in Calls \cup Web, RequestStep(c)
  PROVE  CallsOK' /\ RequestsOK' /\ GateOK'
<1>1. CallsOK /\ RequestsOK /\ GateOK /\ RequestOK(request[c])
  BY TypeParts DEF RequestsOK
<1>2. UNCHANGED <<grants, granted>>
  BY RequestMoves
<1> DEFINE r == Head(request[c].todo)
<1>3. CASE Cached(c)
  <2>1. /\ request[c] \in Request /\ request[c].todo # <<>> /\ request[c].at = "checking"
        /\ r \in GitHubRepos
    BY <1>1, <1>3, RequestShape, NextToCheck DEF Cached
  <2> DEFINE allowed == IF cache[r].allowed THEN request[c].allowed \cup {r}
                                            ELSE request[c].allowed
  <2>2. allowed \in SUBSET GitHubRepos
    BY <2>1, RequestFields
  <2>3. request' = [request EXCEPT ![c] =
                      [request[c] EXCEPT !.todo = Tail(@), !.allowed = allowed]]
    BY <1>3 DEF Cached
  <2> HIDE DEF allowed
  <2>4. RequestsOK'
    BY <1>1, <2>1, <2>2, <2>3, PassedTypes
  <2>5. UNCHANGED <<call, cache, denied>>
    BY <1>3 DEF Cached, gateVars
  <2> QED
    BY <1>1, <1>2, <2>4, <2>5 DEF CallsOK, GateOK
<1>4. CASE AskGitHub(c)
  <2>1. request[c] \in Request /\ request[c].todo # <<>>
    BY <1>1, <1>4, RequestShape DEF AskGitHub
  <2> DEFINE x == [request[c] EXCEPT !.at = "asking"]
  <2>2. x \in Request /\ x.todo # <<>>
    BY <2>1 DEF Request
  <2>3. RequestOK(x)
    BY <2>2 DEF RequestOK
  <2>4. RequestsOK'
    BY <1>1, <1>4, <2>3, SetRequest DEF AskGitHub
  <2>5. UNCHANGED <<call, cache, denied>>
    BY <1>4 DEF AskGitHub, gateVars
  <2> QED
    BY <1>1, <1>2, <2>4, <2>5 DEF CallsOK, GateOK
<1>5. CASE GitHubAnswers(c)
  <2>1. request[c] \in Request /\ request[c].todo # <<>> /\ r \in GitHubRepos
    BY <1>1, <1>5, RequestShape, NextToCheck DEF GitHubAnswers, RequestOK
  <2>2. PICK verdict \in BOOLEAN :
          /\ request' = [request EXCEPT ![c].at = "storing", ![c].verdict = verdict]
          /\ denied' = IF verdict THEN denied ELSE [denied EXCEPT ![r] = 0]
    BY <1>5 DEF GitHubAnswers
  <2> DEFINE x == [request[c] EXCEPT !.at = "storing", !.verdict = verdict]
  <2>3. x \in Request /\ x.todo # <<>>
    BY <2>1 DEF Request
  <2>4. RequestOK(x) /\ request' = [request EXCEPT ![c] = x]
    BY <2>2, <2>3 DEF RequestOK
  <2> HIDE DEF x
  <2>5. RequestsOK'
    BY <1>1, <2>4, SetRequest
  <2>6. UNCHANGED <<call, cache>>
    BY <1>5 DEF GitHubAnswers
  <2>7. denied' \in [GitHubRepos -> 0..TTL]
    BY <1>1, <2>1, <2>2, AgentToolsAssumption DEF GateOK
  <2> QED
    BY <1>1, <1>2, <2>5, <2>6, <2>7 DEF CallsOK, GateOK
<1>6. CASE StoreVerdict(c)
  <2>1. request[c] \in Request /\ request[c].todo # <<>> /\ r \in GitHubRepos
    BY <1>1, <1>6, RequestShape, NextToCheck DEF StoreVerdict, RequestOK
  <2>2. request[c].verdict \in BOOLEAN /\ Life(c) \in 0..TTL /\ request[c].allowed \subseteq GitHubRepos
    BY <2>1, RequestFields, LifeLasts
  <2> DEFINE allowed == IF request[c].verdict THEN request[c].allowed \cup {r}
                                              ELSE request[c].allowed
  <2>3. allowed \in SUBSET GitHubRepos
    BY <2>1, <2>2
  <2>4. /\ request' = [request EXCEPT ![c] = [request[c] EXCEPT !.at = "checking", !.todo = Tail(@),
                          !.allowed = allowed, !.age = 0, !.verdict = FALSE]]
        /\ cache' = [cache EXCEPT ![r] = [allowed |-> request[c].verdict, life |-> Life(c)]]
        /\ UNCHANGED <<call, denied>>
    BY <1>6 DEF StoreVerdict
  <2> HIDE DEF allowed, r
  <2>5. RequestsOK'
    BY <1>1, <2>1, <2>3, <2>4, PassedTypes
  <2>6. cache' \in [GitHubRepos -> [allowed : BOOLEAN, life : 0..TTL]]
    BY <1>1, <2>1, <2>2, <2>4 DEF GateOK
  <2> QED
    BY <1>1, <1>2, <2>4, <2>5, <2>6 DEF CallsOK, GateOK
<1>7. CASE Gate(c)
  <2>1. Decided(c) /\ request[c] \in Request
    BY <1>1, <1>7, RequestShape DEF Gate, Decided
  <2>2. PICK repo \in Repos :
          \/ Respond(c, Error)
          \/ /\ UNCHANGED call
             /\ \/ request' = [request EXCEPT ![c] =
                                 [request[c] EXCEPT !.at = "running", !.plan = <<>>]]
                \/ request' = [request EXCEPT ![c] = [NextDecision(c) EXCEPT !.repo = repo]]
    BY <1>7 DEF Gate
  <2>3. /\ RequestOK([NextDecision(c) EXCEPT !.repo = repo])
        /\ RequestOK([request[c] EXCEPT !.at = "running", !.plan = <<>>])
    BY <2>1, NextDecisionTypes
  <2>4. CallsOK' /\ RequestsOK'
    <3>1. CASE Respond(c, Error)
      BY <1>1, <3>1, RespondTypes
    <3>2. CASE ~Respond(c, Error)
      BY <1>1, <2>2, <2>3, <3>2, SetRequest DEF CallsOK
    <3> QED
      BY <3>1, <3>2
  <2> QED
    BY <1>1, <1>2, <1>7, <2>4 DEF Gate, GateOK, gateVars
<1>8. CASE ListRepo(c)
  <2>1. Decided(c) /\ request[c] \in Request
    BY <1>1, <1>8, RequestShape DEF ListRepo, Decided
  <2>2. \/ Respond(c, Answer)
        \/ request' = [request EXCEPT ![c] = NextDecision(c)] /\ UNCHANGED call
    BY <1>8 DEF ListRepo
  <2>3. RequestOK(NextDecision(c))
    BY <2>1, NextDecisionTypes
  <2>4. CallsOK' /\ RequestsOK'
    <3>1. CASE Respond(c, Answer)
      BY <1>1, <3>1, RespondTypes
    <3>2. CASE ~Respond(c, Answer)
      BY <1>1, <2>2, <2>3, <3>2, SetRequest DEF CallsOK
    <3> QED
      BY <3>1, <3>2
  <2> QED
    BY <1>1, <1>2, <1>8, <2>4 DEF ListRepo, GateOK, gateVars
<1>9. CASE Search(c)
  <2>1. \E o : Respond(c, o)
    BY <1>9 DEF Search
  <2>2. CallsOK' /\ RequestsOK'
    BY <1>1, <2>1, RespondTypes
  <2> QED
    BY <1>1, <1>2, <1>9, <2>2 DEF Search, GateOK, gateVars
<1>10. CASE RunTool(c)
  <2>1. \E o : Respond(c, o)
    BY <1>10 DEF RunTool
  <2>2. CallsOK' /\ RequestsOK'
    BY <1>1, <2>1, RespondTypes
  <2> QED
    BY <1>1, <1>2, <1>10, <2>2 DEF RunTool, GateOK, gateVars
<1> QED
  BY <1>3, <1>4, <1>5, <1>6, <1>7, <1>8, <1>9, <1>10 DEF RequestStep

(* What a call of the agent leaves alone.                                  *)
LEMMA CallMoves ==
  ASSUME NEW c \in Calls, CallStep(c)
  PROVE  /\ UNCHANGED <<session, cache, denied, grants, granted>>
         /\ UNCHANGED request \/ Arrive(c)
<1>1. CASE ListServers(c) \/ SearchTools(c)
  BY <1>1 DEF ListServers, SearchTools, gateVars, worldVars
<1>2. CASE CallTool(c) \/ CallNative(c)
  BY <1>2 DEF CallTool, CallNative, gateVars, worldVars
<1>3. CASE UseWorkspace(c) \/ Arrive(c)
  BY <1>3 DEF UseWorkspace, Arrive, gateVars, worldVars
<1>4. CASE FromCatalog(c) \/ Connect(c) \/ Connected(c)
  BY <1>4 DEF FromCatalog, Connect, Connected, gateVars, worldVars
<1>5. CASE ListTools(c) \/ Timeout(c) \/ Fails(c)
  BY <1>5 DEF ListTools, Timeout, Fails, gateVars, worldVars
<1>6. CASE Found(c) \/ Dialed(c) \/ Answered(c)
  BY <1>6 DEF Found, Dialed, Answered, gateVars, worldVars
<1> QED
  BY <1>1, <1>2, <1>3, <1>4, <1>5, <1>6 DEF CallStep, RouterStep

(* A new request.                                                          *)
LEMMA ArrivalTypes ==
  ASSUME RequestsOK, NEW c \in Calls \cup Web,
         Arrive(c) \/ WebAsks(c)
  PROVE  /\ RequestsOK'
         /\ \E kind \in McpKinds \cup Searches, auth \in Auths :
              request' = [request EXCEPT ![c] = Fresh(kind, auth)]
<1>1. PICK kind \in McpKinds \cup Searches, auth \in Auths :
        request' = [request EXCEPT ![c] = Fresh(kind, auth)]
  BY DEF Arrive, WebAsks, Searches
<1> QED
  BY <1>1, FreshTypes, SetRequest

(* What the passing of time does to a request.                             *)
LEMMA TickRequests ==
  ASSUME RequestsOK, Tick
  PROVE  /\ IsMap(request', Calls \cup Web)
         /\ \A c \in Calls \cup Web :
              request'[c] = IF AtGitHub(c) THEN [request[c] EXCEPT !.age = @ + 1] ELSE request[c]
         /\ \A c \in Calls \cup Web :
              AtGitHub(c) => /\ request[c] \in Request
                             /\ request[c].age + 1 \in 0..CheckTime
<1>1. DOMAIN request = Calls \cup Web
  BY DEF RequestsOK, IsMap
<1>2. /\ request' = [c \in DOMAIN request |->
                      IF AtGitHub(c) THEN [request[c] EXCEPT !.age = @ + 1] ELSE request[c]]
      /\ \A c \in DOMAIN request : AtGitHub(c) => request[c].age < CheckTime
  BY DEF Tick
<1>3. ASSUME NEW c \in Calls \cup Web, AtGitHub(c)
      PROVE  request[c] \in Request /\ request[c].age + 1 \in 0..CheckTime
  <2>1. request[c] \in Request
    BY <1>3, RequestShape DEF AtGitHub, RequestsOK
  <2>2. request[c].age \in 0..CheckTime /\ request[c].age < CheckTime
    BY <1>1, <1>2, <1>3, <2>1, RequestFields
  <2> QED
    BY <2>1, <2>2, AgentToolsAssumption
<1> QED
  BY <1>1, <1>2, <1>3 DEF IsMap

LEMMA TickTypes ==
  ASSUME TypeOK, Tick
  PROVE  RequestsOK' /\ GateOK'
<1>1. RequestsOK /\ GateOK
  BY TypeParts
<1>2. ASSUME NEW c \in Calls \cup Web
      PROVE  RequestOK(request'[c])
  <2>1. CASE AtGitHub(c)
    <3>1. /\ request'[c] = [request[c] EXCEPT !.age = request[c].age + 1]
          /\ request[c] \in Request /\ request[c].age + 1 \in 0..CheckTime
          /\ request[c].todo # <<>>
      BY <1>1, <2>1, TickRequests DEF AtGitHub, RequestsOK, RequestOK
    <3>2. request'[c] \in Request /\ request'[c].todo # <<>>
      BY <3>1 DEF Request
    <3> QED
      BY <3>2 DEF RequestOK
  <2>2. CASE ~AtGitHub(c)
    BY <1>1, <2>2, TickRequests DEF RequestsOK
  <2> QED
    BY <2>1, <2>2
<1>3. RequestsOK'
  BY <1>1, <1>2, TickRequests DEF RequestsOK, IsMap
<1>4. \A n \in 0..TTL : Spent(n) \in 0..TTL /\ Older(n) \in 0..TTL
  BY AgentToolsAssumption DEF Spent, Older, Smaller, Larger
<1>5. cache' \in [GitHubRepos -> [allowed : BOOLEAN, life : 0..TTL]]
  BY <1>1, <1>4 DEF GateOK, Tick
<1>6. granted' \in [GitHubRepos -> 0..TTL] /\ denied' \in [GitHubRepos -> 0..TTL]
  BY <1>1, <1>4, AgentToolsAssumption DEF GateOK, Tick
<1> QED
  BY <1>1, <1>3, <1>5, <1>6 DEF GateOK, Tick

LEMMA StepTypes == TypeOK /\ [Next]_vars => TypeOK'
<1> SUFFICES ASSUME TypeOK, [Next]_vars PROVE TypeOK'
  OBVIOUS
<1>1. session \in Session /\ CatalogOK /\ CallsOK /\ RequestsOK /\ GateOK
  BY TypeParts
<1>2. CASE UNCHANGED vars
  BY <1>2 DEF vars, gateVars, worldVars, TypeOK
<1>3. CASE Submit
  <2>1. session' \in Session
    BY <1>3, SetUpsServe DEF Submit
  <2>2. UNCHANGED <<catalog, call, request, cache, denied, grants, granted>>
    BY <1>3 DEF Submit, gateVars, worldVars
  <2>3. CatalogOK' /\ CallsOK' /\ RequestsOK' /\ GateOK'
    BY <1>1, <2>2 DEF CatalogOK, CallsOK, RequestsOK, GateOK
  <2> QED
    BY <2>1, <2>3, TypePartsNext
<1>4. CASE Tick
  <2>1. UNCHANGED <<session, catalog, call>>
    BY <1>4 DEF Tick
  <2>2. session' \in Session /\ CatalogOK' /\ CallsOK'
    BY <1>1, <2>1 DEF CatalogOK, CallsOK
  <2>3. RequestsOK' /\ GateOK'
    BY <1>4, TickTypes
  <2> QED
    BY <2>2, <2>3, TypePartsNext
<1>5. ASSUME NEW c \in Calls, CallStep(c)
      PROVE  TypeOK'
  <2>1. CallsOK' /\ CatalogOK'
    BY <1>5, CallsStep
  <2>2. UNCHANGED <<session, cache, denied, grants, granted>>
    BY <1>5, CallMoves
  <2>3. session' \in Session /\ GateOK'
    BY <1>1, <2>2 DEF GateOK
  <2>4. RequestsOK'
    <3>1. CASE UNCHANGED request
      BY <1>1, <3>1 DEF RequestsOK
    <3>2. CASE Arrive(c)
      BY <1>1, <3>2, ArrivalTypes
    <3> QED
      BY <1>5, <3>1, <3>2, CallMoves
  <2> QED
    BY <2>1, <2>3, <2>4, TypePartsNext
<1>6. ASSUME NEW w \in Web, WebAsks(w)
      PROVE  TypeOK'
  <2>1. UNCHANGED <<session, catalog, call, cache, denied, grants, granted>>
    BY <1>6 DEF WebAsks, gateVars, worldVars
  <2>2. session' \in Session /\ CatalogOK' /\ CallsOK' /\ GateOK'
    BY <1>1, <2>1 DEF CatalogOK, CallsOK, GateOK
  <2>3. RequestsOK'
    BY <1>1, <1>6, ArrivalTypes
  <2> QED
    BY <2>2, <2>3, TypePartsNext
<1>7. ASSUME NEW c \in Calls \cup Web, RequestStep(c)
      PROVE  TypeOK'
  <2>1. CallsOK' /\ RequestsOK' /\ GateOK'
    BY <1>7, RequestsStep
  <2>2. UNCHANGED <<session, catalog>>
    BY <1>7, RequestMoves
  <2>3. session' \in Session /\ CatalogOK'
    BY <1>1, <2>2 DEF CatalogOK
  <2> QED
    BY <2>1, <2>3, TypePartsNext
<1>8. ASSUME NEW r \in GitHubRepos, ChangeAccess(r)
      PROVE  TypeOK'
  <2>1. UNCHANGED <<session, catalog, call, request, cache>>
    BY <1>8 DEF ChangeAccess
  <2>2. session' \in Session /\ CatalogOK' /\ CallsOK' /\ RequestsOK'
    BY <1>1, <2>1 DEF CatalogOK, CallsOK, RequestsOK
  <2>3. GateOK'
    BY <1>1, <1>8, <2>1, AgentToolsAssumption DEF ChangeAccess, GateOK
  <2> QED
    BY <2>2, <2>3, TypePartsNext
<1> QED
  BY <1>2, <1>3, <1>4, <1>5, <1>6, <1>7, <1>8 DEF Next

(* Every variable keeps its type.                                          *)
THEOREM TypeCorrect == Spec => []TypeOK
BY InitTypes, StepTypes, PTL DEF Spec

-----------------------------------------------------------------------------
(* The set-up serves the job.                                              *)

(* Only Submit answers with a session, only Found with tools, and only     *)
(* UseWorkspace, Search and RunTool with rows.                             *)
LEMMA AnswersMove ==
  ASSUME NEW kind \in {"session", "tools", "rows"}
  PROVE  /\ \A c \in Calls :
              CallStep(c) /\ (Found(c) => kind # "tools") /\ (UseWorkspace(c) => kind # "rows")
                => out'.kind # kind
         /\ \A c \in Calls \cup Web :
              RequestStep(c) /\ (Search(c) \/ RunTool(c) => kind # "rows") => out'.kind # kind
         /\ \A w \in Web : WebAsks(w) => out'.kind # kind
         /\ \A r \in GitHubRepos : ChangeAccess(r) => out'.kind # kind
         /\ Tick => out'.kind # kind
<1> DEFINE Other(o) == o.kind # kind
<1>1. Other(Nothing) /\ Other(Error) /\ Other(Answer)
  BY DEF Nothing, Error, Answer
<1>2. ASSUME kind # "tools", NEW asked, NEW failed, NEW tools
      PROVE  Other([kind |-> "tools", asked |-> asked, failed |-> failed, tools |-> tools])
  BY <1>2
<1>3. ASSUME kind # "rows", NEW a
      PROVE  Other(Rows(a))
  BY <1>3 DEF Rows
<1> HIDE DEF Other
<1>4. ASSUME NEW c \in Calls, CallStep(c), Found(c) => kind # "tools",
             UseWorkspace(c) => kind # "rows"
      PROVE  Other(out')
  <2>1. CASE ListServers(c) \/ SearchTools(c)
    BY <1>1, <2>1 DEF ListServers, SearchTools, EndCall
  <2>2. CASE CallTool(c) \/ CallNative(c)
    BY <1>1, <2>2 DEF CallTool, CallNative, EndCall
  <2>3. CASE UseWorkspace(c) \/ Arrive(c)
    BY <1>1, <1>3, <1>4, <2>3 DEF UseWorkspace, Arrive
  <2>4. CASE FromCatalog(c) \/ Connect(c) \/ Connected(c)
    BY <1>1, <2>4 DEF FromCatalog, Connect, Connected
  <2>5. CASE ListTools(c) \/ Timeout(c) \/ Fails(c)
    BY <1>1, <2>5 DEF ListTools, Timeout, Fails, EndCall
  <2>6. CASE Found(c)
    BY <1>2, <1>4, <2>6 DEF Found, EndCall
  <2>7. CASE Dialed(c) \/ Answered(c)
    BY <1>1, <2>7 DEF Dialed, Answered, EndCall
  <2> QED
    BY <1>4, <2>1, <2>2, <2>3, <2>4, <2>5, <2>6, <2>7 DEF CallStep, RouterStep
<1>5. ASSUME NEW c \in Calls \cup Web, NEW o, Other(o), Respond(c, o) PROVE Other(out')
  BY <1>1, <1>5 DEF Respond, EndCall
<1>6. ASSUME NEW c \in Calls \cup Web, RequestStep(c),
             Search(c) \/ RunTool(c) => kind # "rows"
      PROVE  Other(out')
  <2>1. CASE Cached(c) \/ AskGitHub(c) \/ GitHubAnswers(c) \/ StoreVerdict(c)
    BY <1>1, <2>1 DEF Cached, AskGitHub, GitHubAnswers, StoreVerdict
  <2>2. CASE Gate(c)
    <3>1. Respond(c, Error) \/ out' = Nothing
      BY <2>2 DEF Gate
    <3> QED
      BY <1>1, <1>5, <3>1
  <2>3. CASE ListRepo(c)
    <3>1. Respond(c, Answer) \/ out' = Nothing
      BY <2>3 DEF ListRepo
    <3> QED
      BY <1>1, <1>5, <3>1
  <2>4. CASE Search(c)
    <3>1. Respond(c, Error) \/ \E a : Respond(c, Rows(a))
      BY <2>4 DEF Search
    <3> QED
      BY <1>1, <1>3, <1>5, <1>6, <2>4, <3>1
  <2>5. CASE RunTool(c)
    <3>1. Respond(c, Error) \/ Respond(c, Answer) \/ \E a : Respond(c, Rows(a))
      BY <2>5 DEF RunTool
    <3> QED
      BY <1>1, <1>3, <1>5, <1>6, <2>5, <3>1
  <2> QED
    BY <1>6, <2>1, <2>2, <2>3, <2>4, <2>5 DEF RequestStep
<1>7. \A w \in Web : WebAsks(w) => Other(out')
  BY <1>1 DEF WebAsks
<1>8. \A r \in GitHubRepos : ChangeAccess(r) => Other(out')
  BY <1>1 DEF ChangeAccess
<1>9. Tick => Other(out')
  BY <1>1 DEF Tick
<1> QED
  BY <1>4, <1>6, <1>7, <1>8, <1>9 DEF Other

LEMMA StepServes == SetupServesJob /\ [Next]_vars => SetupServesJob'
<1> SUFFICES ASSUME SetupServesJob, [Next]_vars PROVE SetupServesJob'
  OBVIOUS
<1>1. CASE UNCHANGED vars
  BY <1>1 DEF vars, SetupServesJob
<1>2. CASE Submit
  <2>1. PICK s \in SetUps : out' = [kind |-> "session", serves |-> s.serves]
    BY <1>2 DEF Submit
  <2>2. out'.serves = TRUE
    BY <2>1, SetUpsServe
  <2> QED
    BY <2>2 DEF SetupServesJob
<1>3. CASE Next /\ ~Submit
  <2>1. \A kind \in {"session", "tools"} :
          /\ \A c \in Calls : CallStep(c) /\ (Found(c) => kind # "tools") => out'.kind # kind
          /\ \A c \in Calls \cup Web : RequestStep(c) => out'.kind # kind
          /\ \A w \in Web : WebAsks(w) => out'.kind # kind
          /\ \A r \in GitHubRepos : ChangeAccess(r) => out'.kind # kind
          /\ Tick => out'.kind # kind
    BY AnswersMove
  <2>2. out'.kind # "session"
    BY <1>3, <2>1 DEF Next
  <2> QED
    BY <2>2 DEF SetupServesJob
<1> QED
  BY <1>1, <1>2, <1>3

(* Whatever the job, the agent can open each attachment of its last        *)
(* message, and reaches each of its servers but those dropped because      *)
(* their name is the engine's or is borne by one that is reached; and the  *)
(* engine's own servers stay (runner.py:85-113, runtime.py:103-131,        *)
(* sdk_adapters.py:48-68, mcp_router.py:50-59).                            *)
THEOREM EveryJobIsServed == Spec => []SetupServesJob
<1>1. Init => SetupServesJob
  BY DEF Init, Nothing, SetupServesJob
<1> QED
  BY <1>1, StepServes, PTL DEF Spec

-----------------------------------------------------------------------------
(* Verdicts are fresh.                                                     *)

LEMMA InitFresh == Init => Verdicts /\ Checks
<1> SUFFICES ASSUME Init PROVE Verdicts /\ Checks
  OBVIOUS
<1>1. Verdicts
  BY DEF Init, Verdicts
<1>2. Checks
  BY DEF Init, Checks, Check, None
<1> QED
  BY <1>1, <1>2

(* The first of a list without repetitions is not among the rest.          *)
LEMMA TailInjective ==
  ASSUME NEW S, NEW s \in Seq(S), s # <<>>, IsInjective(s)
  PROVE  /\ IsInjective(Tail(s)) /\ Head(s) \notin ToSet(Tail(s))
         /\ ToSet(Tail(s)) \subseteq ToSet(s)
<1>1. Len(s) \in Nat \ {0} /\ DOMAIN s = 1..Len(s)
  BY EmptySeq
<1>2. /\ Head(s) = s[1] /\ DOMAIN Tail(s) = 1..(Len(s) - 1)
      /\ \A i \in 1..(Len(s) - 1) : Tail(s)[i] = s[i + 1]
  BY <1>1
<1>3. \A i \in 1..(Len(s) - 1) : i + 1 \in DOMAIN s /\ i + 1 # 1
  BY <1>1
<1>4. 1 \in DOMAIN s
  BY <1>1
<1>5. IsInjective(Tail(s))
  <2> SUFFICES ASSUME NEW i \in 1..(Len(s) - 1), NEW k \in 1..(Len(s) - 1), s[i + 1] = s[k + 1]
               PROVE  i = k
    BY <1>2 DEF IsInjective
  <2>1. i + 1 = k + 1
    BY <1>3 DEF IsInjective
  <2> QED
    BY <1>1, <2>1
<1>6. Head(s) \notin ToSet(Tail(s))
  BY <1>2, <1>3, <1>4 DEF IsInjective, ToSet
<1>7. ToSet(Tail(s)) \subseteq ToSet(s)
  BY <1>2, <1>3 DEF ToSet
<1> QED
  BY <1>5, <1>6, <1>7

(* Time does not run backwards for who has asked and waits.                *)
LEMMA ChecksElsewhere ==
  ASSUME TypeOK, TypeOK', Checks, NEW c \in Calls \cup Web, request'[c] = request[c],
         \A r \in GitHubRepos : granted'[r] <= granted[r] /\ denied'[r] <= denied[r]
  PROVE  Check(c)'
<1>1. Check(c)
  BY DEF Checks
<1>2. ASSUME request[c].at = "storing"
      PROVE  LET r == Head(request[c].todo) IN
             (IF request[c].verdict THEN granted'[r] ELSE denied'[r]) <= request[c].age
  <2> DEFINE r == Head(request[c].todo)
  <2>1. request[c] \in Request /\ request[c].todo # <<>> /\ r \in GitHubRepos
    BY <1>2, TypeParts, RequestShape, NextToCheck DEF RequestsOK, RequestOK
  <2>2. request[c].age \in Nat /\ request[c].verdict \in BOOLEAN
    BY <2>1, RequestFields, AgentToolsAssumption
  <2>3. granted[r] \in Nat /\ denied[r] \in Nat /\ granted'[r] \in Nat /\ denied'[r] \in Nat
    BY <2>1, AgentToolsAssumption DEF TypeOK
  <2>4. (IF request[c].verdict THEN granted[r] ELSE denied[r]) <= request[c].age
    BY <1>1, <1>2 DEF Check
  <2> HIDE DEF r
  <2>5. (IF request[c].verdict THEN granted'[r] ELSE denied'[r]) <= request[c].age
    BY <2>1, <2>2, <2>3, <2>4
  <2> QED
    BY <2>5 DEF r
<1> QED
  BY <1>1, <1>2 DEF Check

(* A new decision of a request checks nothing twice.                       *)
LEMMA FreshDecision ==
  ASSUME NEW c, request'[c].at = "checking", IsInjective(request'[c].todo),
         request'[c].allowed \cap ToSet(request'[c].todo) = {}
  PROVE  Check(c)'
BY DEF Check

(* Who is done, or runs a tool, checks nothing.                            *)
LEMMA NothingToCheck ==
  ASSUME NEW c, request'[c] = None
  PROVE  Check(c)'
BY DEF Check, None

LEMMA ChecksNothing ==
  ASSUME NEW c, request'[c].at = "running", request'[c].todo = <<>>, IsInjective(request'[c].todo),
         request'[c].allowed \cap ToSet(request'[c].todo) = {}
  PROVE  Check(c)'
BY DEF Check

(* The repository a request goes past.                                     *)
LEMMA PassedCheck ==
  ASSUME Checks, NEW c \in Calls \cup Web, request[c] \in Request, request[c].todo # <<>>,
         request'[c].at = "checking", request'[c].todo = Tail(request[c].todo),
         request'[c].allowed \subseteq request[c].allowed \cup {Head(request[c].todo)}
  PROVE  Check(c)'
<1>1. /\ request[c].todo \in Seq(GitHubRepos) /\ IsInjective(request[c].todo)
      /\ request[c].allowed \cap ToSet(request[c].todo) = {}
  BY RequestFields DEF Checks, Check
<1>2. /\ IsInjective(Tail(request[c].todo))
      /\ Head(request[c].todo) \notin ToSet(Tail(request[c].todo))
      /\ ToSet(Tail(request[c].todo)) \subseteq ToSet(request[c].todo)
  BY <1>1, TailInjective
<1> QED
  BY <1>1, <1>2, FreshDecision

(* What a decision, or the answer, does to the request.                    *)
LEMMA DecisionMoves ==
  ASSUME NEW c, Gate(c) \/ ListRepo(c) \/ Search(c) \/ RunTool(c)
  PROVE  /\ UNCHANGED <<cache, denied, grants, granted>>
         /\ \E x :
              /\ request' = [request EXCEPT ![c] = x]
              /\ \/ x = None
                 \/ Decided(c) /\ x = [request[c] EXCEPT !.at = "running", !.plan = <<>>]
                 \/ Decided(c) /\ x = NextDecision(c)
                 \/ Decided(c) /\ \E repo \in Repos : x = [NextDecision(c) EXCEPT !.repo = repo]
<1>1. CASE Gate(c)
  BY <1>1 DEF Gate, Respond, gateVars, worldVars
<1>2. CASE ListRepo(c)
  BY <1>2 DEF ListRepo, Respond, gateVars, worldVars
<1>3. CASE Search(c)
  <2>1. \E o : Respond(c, o)
    BY <1>3 DEF Search
  <2>2. UNCHANGED <<cache, denied, grants, granted>>
    BY <1>3 DEF Search, gateVars, worldVars
  <2> QED
    BY <2>1, <2>2 DEF Respond
<1>4. CASE RunTool(c)
  <2>1. \E o : Respond(c, o)
    BY <1>4 DEF RunTool
  <2>2. UNCHANGED <<cache, denied, grants, granted>>
    BY <1>4 DEF RunTool, gateVars, worldVars
  <2> QED
    BY <2>1, <2>2 DEF Respond
<1> QED
  BY <1>1, <1>2, <1>3, <1>4

LEMMA GateSteps ==
  ASSUME TypeOK, TypeOK', Verdicts, Checks, NEW c \in Calls \cup Web, RequestStep(c)
  PROVE  Verdicts' /\ Checks'
<1> DEFINE r == Head(request[c].todo)
           Same == \A d \in (Calls \cup Web) \ {c} : request'[d] = request[d]
           Sooner == \A q \in GitHubRepos : granted'[q] <= granted[q] /\ denied'[q] <= denied[q]
<1>1. RequestsOK /\ RequestOK(request[c]) /\ IsMap(request, Calls \cup Web) /\ Check(c)
  BY TypeParts DEF RequestsOK, Checks
<1>2. \A q \in GitHubRepos : /\ granted[q] \in 0..TTL /\ denied[q] \in 0..TTL
                              /\ granted'[q] \in 0..TTL /\ denied'[q] \in 0..TTL
  BY DEF TypeOK
<1>3. ASSUME Same, Sooner, Check(c)'
      PROVE  Checks'
  BY <1>3, ChecksElsewhere DEF Checks
<1>4. CASE Cached(c)
  <2>1. /\ request[c] \in Request /\ request[c].todo # <<>> /\ request[c].at = "checking"
    BY <1>1, <1>4, RequestShape DEF Cached
  <2>2. /\ request' = [request EXCEPT ![c].todo = Tail(@),
                          ![c].allowed = IF cache[r].allowed THEN @ \cup {r} ELSE @]
        /\ UNCHANGED <<cache, denied, grants, granted>>
    BY <1>4 DEF Cached, gateVars, worldVars
  <2>3. /\ request'[c].at = "checking" /\ request'[c].todo = Tail(request[c].todo)
        /\ request'[c].allowed \subseteq request[c].allowed \cup {r} /\ Same
    BY <1>1, <2>1, <2>2 DEF IsMap, Request
  <2>4. Check(c)'
    BY <2>1, <2>3, PassedCheck
  <2>5. Sooner
    BY <1>2, <2>2, AgentToolsAssumption
  <2>6. Verdicts'
    BY <2>2 DEF Verdicts
  <2> QED
    BY <1>3, <2>3, <2>4, <2>5, <2>6
<1>5. CASE AskGitHub(c)
  <2>1. request[c] \in Request
    BY <1>1, <1>5, RequestShape DEF AskGitHub
  <2>2. /\ request' = [request EXCEPT ![c].at = "asking"]
        /\ UNCHANGED <<cache, denied, grants, granted>>
    BY <1>5 DEF AskGitHub, gateVars, worldVars
  <2>3. /\ request'[c].at = "asking" /\ request'[c].todo = request[c].todo
        /\ request'[c].allowed = request[c].allowed /\ Same
    BY <1>1, <2>1, <2>2 DEF IsMap, Request
  <2>4. Check(c)'
    BY <1>1, <2>1, <2>3, RequestFields DEF Check
  <2>5. Verdicts' /\ Sooner
    BY <1>2, <2>2, AgentToolsAssumption DEF Verdicts
  <2> QED
    BY <1>3, <2>3, <2>4, <2>5
<1>6. CASE GitHubAnswers(c)
  <2>1. request[c] \in Request /\ request[c].todo # <<>> /\ r \in GitHubRepos
    BY <1>1, <1>6, RequestShape, NextToCheck DEF GitHubAnswers, RequestOK
  <2>2. PICK verdict \in BOOLEAN :
          /\ verdict => r \in grants
          /\ request' = [request EXCEPT ![c].at = "storing", ![c].verdict = verdict]
          /\ denied' = IF verdict THEN denied ELSE [denied EXCEPT ![r] = 0]
    BY <1>6 DEF GitHubAnswers
  <2>3. UNCHANGED <<cache, grants, granted>>
    BY <1>6 DEF GitHubAnswers, worldVars
  <2>4. /\ request'[c].at = "storing" /\ request'[c].verdict = verdict
        /\ request'[c].todo = request[c].todo /\ request'[c].allowed = request[c].allowed
        /\ request'[c].age = request[c].age /\ Same
    BY <1>1, <2>1, <2>2 DEF IsMap, Request
  <2>5. request[c].age \in Nat
    BY <2>1, RequestFields, AgentToolsAssumption
  <2>6. \A q \in GitHubRepos : denied'[q] = (IF ~verdict /\ q = r THEN 0 ELSE denied[q])
    BY <2>1, <2>2 DEF TypeOK
  <2> HIDE DEF r
  <2>7. (IF verdict THEN granted'[r] ELSE denied'[r]) <= request[c].age
    BY <2>1, <2>2, <2>3, <2>5, <2>6 DEF Verdicts
  <2>8. Check(c)'
    BY <1>1, <2>1, <2>4, <2>7, RequestFields DEF Check, r
  <2>9. Sooner
    BY <1>2, <2>3, <2>6, AgentToolsAssumption
  <2>10. Verdicts'
    <3> SUFFICES ASSUME NEW q \in GitHubRepos
                 PROVE  /\ IF q \in grants THEN granted[q] = 0 ELSE denied'[q] = 0
                        /\ cache[q].life > 0 =>
                             (IF cache[q].allowed THEN granted[q] ELSE denied'[q]) + cache[q].life <= TTL
      BY <2>3 DEF Verdicts
    <3>1. cache[q].life \in 0..TTL /\ denied'[q] <= denied[q] /\ denied'[q] \in 0..TTL
          /\ denied[q] \in 0..TTL
      BY <1>2, <2>9 DEF TypeOK
    <3>2. denied[q] = 0 => denied'[q] = 0
      BY <2>6
    <3>3. TTL \in Nat /\ granted[q] \in Nat
      BY <1>2, AgentToolsAssumption
    <3>4. /\ IF q \in grants THEN granted[q] = 0 ELSE denied[q] = 0
          /\ cache[q].life > 0 =>
               (IF cache[q].allowed THEN granted[q] ELSE denied[q]) + cache[q].life <= TTL
      BY DEF Verdicts
    <3> QED
      BY <3>1, <3>2, <3>3, <3>4
  <2> QED
    BY <1>3, <2>4, <2>8, <2>9, <2>10
<1>7. CASE StoreVerdict(c)
  <2>1. request[c] \in Request /\ request[c].todo # <<>> /\ r \in GitHubRepos
        /\ request[c].at = "storing"
    BY <1>1, <1>7, RequestShape, NextToCheck DEF StoreVerdict, RequestOK
  <2>2. request[c].verdict \in BOOLEAN /\ request[c].age \in 0..CheckTime
        /\ Life(c) = TTL - request[c].age
    BY <2>1, RequestFields, LifeLasts
  <2>3. /\ cache' = [cache EXCEPT ![r] = [allowed |-> request[c].verdict, life |-> Life(c)]]
        /\ request' = [request EXCEPT ![c].at = "checking", ![c].todo = Tail(@),
                          ![c].allowed = IF request[c].verdict THEN @ \cup {r} ELSE @,
                          ![c].age = 0, ![c].verdict = FALSE]
        /\ UNCHANGED <<denied, grants, granted>>
    BY <1>7 DEF StoreVerdict, worldVars
  <2> DEFINE allowed == IF request[c].verdict THEN request[c].allowed \cup {r}
                                              ELSE request[c].allowed
             x == [request[c] EXCEPT !.at = "checking", !.todo = Tail(@), !.allowed = allowed,
                                     !.age = 0, !.verdict = FALSE]
  <2>4. /\ x.at = "checking" /\ x.todo = Tail(request[c].todo) /\ x.allowed = allowed
        /\ request' = [request EXCEPT ![c] = x]
    BY <2>1, <2>3 DEF Request
  <2> HIDE DEF x
  <2>5. request'[c] = x /\ Same
    BY <1>1, <2>4 DEF IsMap
  <2>6. Check(c)'
    BY <2>1, <2>4, <2>5, PassedCheck
  <2>7. Sooner
    BY <1>2, <2>3, AgentToolsAssumption
  <2>8. (IF request[c].verdict THEN granted[r] ELSE denied[r]) <= request[c].age
    BY <1>1, <2>1 DEF Check
  <2> HIDE DEF r
  <2>9. \A q \in GitHubRepos :
          cache'[q] = IF q = r THEN [allowed |-> request[c].verdict, life |-> Life(c)] ELSE cache[q]
    BY <2>3 DEF TypeOK
  <2>10. (IF request[c].verdict THEN granted[r] ELSE denied[r]) + Life(c) <= TTL
    BY <1>2, <2>1, <2>2, <2>8, AgentToolsAssumption
  <2>11. Verdicts'
    BY <2>3, <2>9, <2>10 DEF Verdicts
  <2> QED
    BY <1>3, <2>5, <2>6, <2>7, <2>11
<1>8. CASE Gate(c) \/ ListRepo(c) \/ Search(c) \/ RunTool(c)
  <2>1. UNCHANGED <<cache, denied, grants, granted>>
    BY <1>8, DecisionMoves
  <2>2. PICK x : /\ request' = [request EXCEPT ![c] = x]
                 /\ \/ x = None
                    \/ Decided(c) /\ x = [request[c] EXCEPT !.at = "running", !.plan = <<>>]
                    \/ Decided(c) /\ x = NextDecision(c)
                    \/ Decided(c) /\ \E repo \in Repos : x = [NextDecision(c) EXCEPT !.repo = repo]
    BY <1>8, DecisionMoves
  <2>3. Decided(c) => request[c] \in Request
    BY <1>1, RequestShape DEF Decided
  <2>4. request'[c] = x /\ Same
    BY <1>1, <2>2 DEF IsMap
  <2>5. ASSUME x = None PROVE Check(c)'
    <3>1. request'[c] = None
      BY <2>4, <2>5
    <3> QED
      BY <3>1, NothingToCheck
  <2>6. ASSUME Decided(c), x = [request[c] EXCEPT !.at = "running", !.plan = <<>>]
        PROVE  Check(c)'
    <3>1. request[c] \in Request /\ request[c].todo = <<>>
      BY <2>3, <2>6 DEF Decided
    <3>2. x.at = "running" /\ x.todo = <<>> /\ x.allowed = request[c].allowed
      BY <2>6, <3>1 DEF Request
    <3>3. IsInjective(request[c].todo) /\ request[c].allowed \cap ToSet(request[c].todo) = {}
      BY <1>1, <3>1, RequestFields DEF Check
    <3>4. /\ request'[c].at = "running" /\ request'[c].todo = <<>>
          /\ IsInjective(request'[c].todo)
          /\ request'[c].allowed \cap ToSet(request'[c].todo) = {}
      BY <2>4, <3>1, <3>2, <3>3
    <3> QED
      BY <3>4, ChecksNothing
  <2>7. ASSUME Decided(c),
               x.at = "checking" /\ x.todo = ToCheck(request[c].auth) /\ x.allowed = {}
        PROVE  Check(c)'
    <3>1. request'[c].at = "checking" /\ request'[c].todo = ToCheck(request[c].auth)
          /\ request'[c].allowed = {}
      BY <2>4, <2>7
    <3>2. IsInjective(ToCheck(request[c].auth))
      BY ToCheckLists
    <3> QED
      BY <3>1, <3>2, FreshDecision
  <2>8. ASSUME Decided(c), x = NextDecision(c) PROVE Check(c)'
    <3>1. x.at = "checking" /\ x.todo = ToCheck(request[c].auth) /\ x.allowed = {}
      BY <2>3, <2>8 DEF Decided, NextDecision, Request
    <3> QED
      BY <2>7, <2>8, <3>1
  <2>9. ASSUME Decided(c), NEW repo \in Repos, x = [NextDecision(c) EXCEPT !.repo = repo]
        PROVE  Check(c)'
    <3>1. x.at = "checking" /\ x.todo = ToCheck(request[c].auth) /\ x.allowed = {}
      BY <2>3, <2>9 DEF Decided, NextDecision, Request
    <3> QED
      BY <2>7, <2>9, <3>1
  <2>10. Check(c)'
    BY <2>2, <2>5, <2>6, <2>8, <2>9
  <2>11. Sooner
    BY <1>2, <2>1, AgentToolsAssumption
  <2>12. Verdicts'
    BY <2>1 DEF Verdicts
  <2> QED
    BY <1>3, <2>4, <2>10, <2>11, <2>12
<1> QED
  BY <1>4, <1>5, <1>6, <1>7, <1>8 DEF RequestStep

(* Whatever happened gets older by one, and a verdict lives one less.      *)
LEMMA TickAges ==
  ASSUME TypeOK, Tick, NEW q \in GitHubRepos
  PROVE  /\ granted'[q] <= granted[q] + 1 /\ denied'[q] <= denied[q] + 1
         /\ IF q \in grants' THEN granted'[q] = 0 ELSE denied'[q] = 0
         /\ cache'[q].allowed = cache[q].allowed
         /\ cache'[q].life > 0 => cache'[q].life = cache[q].life - 1
<1>1. /\ cache[q] \in [allowed : BOOLEAN, life : 0..TTL] /\ cache[q].life \in Nat
      /\ granted[q] \in Nat /\ denied[q] \in Nat
  BY AgentToolsAssumption DEF TypeOK
<1>2. /\ cache'[q] = [cache[q] EXCEPT !.life = Spent(cache[q].life)]
      /\ granted'[q] = (IF q \in grants THEN 0 ELSE Older(granted[q]))
      /\ denied'[q] = (IF q \in grants THEN Older(denied[q]) ELSE 0)
      /\ grants' = grants
  BY DEF Tick
<1>3. \A n \in Nat : /\ Older(n) <= n + 1
                     /\ Spent(n) > 0 => Spent(n) = n - 1
  BY AgentToolsAssumption DEF Older, Spent, Smaller, Larger
<1>4. cache'[q].allowed = cache[q].allowed /\ cache'[q].life = Spent(cache[q].life)
  BY <1>1, <1>2
<1>5. granted'[q] <= granted[q] + 1 /\ denied'[q] <= denied[q] + 1
  BY <1>1, <1>2, <1>3
<1> QED
  BY <1>1, <1>2, <1>3, <1>4, <1>5

LEMMA TickFresh ==
  ASSUME TypeOK, TypeOK', Verdicts, Checks, Tick
  PROVE  Verdicts' /\ Checks'
<1>1. \A q \in GitHubRepos :
        /\ cache[q].life \in Nat /\ cache'[q].life \in Nat
        /\ granted[q] \in Nat /\ denied[q] \in Nat /\ granted'[q] \in Nat /\ denied'[q] \in Nat
  BY AgentToolsAssumption DEF TypeOK
<1>2. Verdicts'
  <2> SUFFICES ASSUME NEW q \in GitHubRepos
               PROVE  /\ IF q \in grants' THEN granted'[q] = 0 ELSE denied'[q] = 0
                      /\ cache'[q].life > 0 =>
                           (IF cache'[q].allowed THEN granted'[q] ELSE denied'[q]) + cache'[q].life <= TTL
    BY DEF Verdicts
  <2>1. /\ granted'[q] <= granted[q] + 1 /\ denied'[q] <= denied[q] + 1
        /\ IF q \in grants' THEN granted'[q] = 0 ELSE denied'[q] = 0
        /\ cache'[q].allowed = cache[q].allowed
        /\ cache'[q].life > 0 => cache'[q].life = cache[q].life - 1
    BY TickAges
  <2>2. cache[q].life > 0 =>
          (IF cache[q].allowed THEN granted[q] ELSE denied[q]) + cache[q].life <= TTL
    BY DEF Verdicts
  <2>3. TTL \in Nat
    BY AgentToolsAssumption
  <2>4. ASSUME cache'[q].life > 0
        PROVE  (IF cache'[q].allowed THEN granted'[q] ELSE denied'[q]) + cache'[q].life <= TTL
    <3>1. cache[q].life = cache'[q].life + 1 /\ cache[q].life > 0
      BY <1>1, <2>1, <2>4
    <3>2. CASE cache[q].allowed
      <4>1. granted[q] + cache[q].life <= TTL
        BY <2>2, <3>1, <3>2
      <4>2. granted'[q] + cache'[q].life <= TTL
        BY <1>1, <2>1, <2>3, <3>1, <4>1
      <4> QED
        BY <2>1, <3>2, <4>2
    <3>3. CASE ~cache[q].allowed
      <4>1. denied[q] + cache[q].life <= TTL
        BY <2>2, <3>1, <3>3
      <4>2. denied'[q] + cache'[q].life <= TTL
        BY <1>1, <2>1, <2>3, <3>1, <4>1
      <4> QED
        BY <2>1, <3>3, <4>2
    <3> QED
      BY <3>2, <3>3
  <2> QED
    BY <2>1, <2>4
<1>3. ASSUME NEW c \in Calls \cup Web
      PROVE  Check(c)'
  <2> DEFINE r == Head(request[c].todo)
  <2>1. RequestsOK /\ RequestOK(request[c]) /\ Check(c)
    BY TypeParts DEF RequestsOK, Checks
  <2>2. CASE AtGitHub(c)
    <3>1. /\ request'[c] = [request[c] EXCEPT !.age = request[c].age + 1]
          /\ request[c] \in Request /\ request[c].todo # <<>> /\ r \in GitHubRepos
          /\ request[c].age \in Nat /\ request[c].verdict \in BOOLEAN
      <4>1. request[c] \in Request /\ request[c].todo # <<>>
        BY <2>1, <2>2, RequestShape DEF AtGitHub, RequestOK
      <4>2. r \in GitHubRepos /\ request[c].age \in Nat /\ request[c].verdict \in BOOLEAN
        BY <4>1, NextToCheck, RequestFields, AgentToolsAssumption
      <4> QED
        BY <2>1, <2>2, <4>1, <4>2, TickRequests DEF RequestsOK
    <3>2. /\ request'[c].at = request[c].at /\ request'[c].todo = request[c].todo
          /\ request'[c].allowed = request[c].allowed /\ request'[c].verdict = request[c].verdict
          /\ request'[c].age = request[c].age + 1
      BY <3>1 DEF Request
    <3>3. request[c].at # "running" /\ request[c] # None
      BY <2>2, <3>1, RequestFields DEF AtGitHub
    <3>4. request[c].at = "storing" =>
            (IF request[c].verdict THEN granted[r] ELSE denied[r]) <= request[c].age
      BY <2>1 DEF Check
    <3>5. granted'[r] <= granted[r] + 1 /\ denied'[r] <= denied[r] + 1
      BY <3>1, TickAges
    <3>6. request[c].at = "storing" =>
            (IF request[c].verdict THEN granted'[r] ELSE denied'[r]) <= request[c].age + 1
      <4>1. /\ granted[r] \in Nat /\ denied[r] \in Nat
            /\ granted'[r] \in Nat /\ denied'[r] \in Nat /\ request[c].age \in Nat
        BY <1>1, <3>1
      <4> HIDE DEF r
      <4>2. request[c].at = "storing" /\ request[c].verdict => granted'[r] <= request[c].age + 1
        BY <3>4, <3>5, <4>1
      <4>3. request[c].at = "storing" /\ ~request[c].verdict => denied'[r] <= request[c].age + 1
        BY <3>4, <3>5, <4>1
      <4> QED
        BY <4>2, <4>3
    <3> QED
      BY <2>1, <3>2, <3>3, <3>6 DEF Check
  <2>3. CASE ~AtGitHub(c)
    <3>1. request'[c] = request[c] /\ request[c].at # "storing"
      BY <2>1, <2>3, TickRequests DEF AtGitHub, RequestsOK
    <3> QED
      BY <2>1, <3>1 DEF Check
  <2> QED
    BY <2>2, <2>3
<1> QED
  BY <1>2, <1>3 DEF Checks

(* A new request has checked nothing yet.                                  *)
LEMMA ArrivalFresh ==
  ASSUME TypeOK, Checks, NEW c \in Calls \cup Web, Arrive(c) \/ WebAsks(c)
  PROVE  /\ Check(c)'
         /\ \A d \in (Calls \cup Web) \ {c} : request'[d] = request[d]
<1>1. RequestsOK
  BY TypeParts
<1>2. PICK kind \in McpKinds \cup Searches, auth \in Auths :
        request' = [request EXCEPT ![c] = Fresh(kind, auth)]
  BY <1>1, ArrivalTypes
<1>3. /\ Fresh(kind, auth).at = "checking" /\ Fresh(kind, auth).todo = ToCheck(auth)
      /\ Fresh(kind, auth).allowed = {}
  BY DEF Fresh
<1>4. request'[c] = Fresh(kind, auth)
      /\ \A d \in (Calls \cup Web) \ {c} : request'[d] = request[d]
  BY <1>1, <1>2 DEF RequestsOK, IsMap
<1>5. request'[c].at = "checking" /\ request'[c].todo = ToCheck(auth) /\ request'[c].allowed = {}
  BY <1>3, <1>4
<1>6. IsInjective(ToCheck(auth))
  BY ToCheckLists
<1>7. Check(c)'
  BY <1>5, <1>6, FreshDecision
<1> QED
  BY <1>4, <1>7

LEMMA StepFresh ==
  ASSUME TypeOK, TypeOK', Verdicts, Checks, [Next]_vars
  PROVE  Verdicts' /\ Checks'
<1>1. ASSUME UNCHANGED <<cache, denied, grants, granted>>
      PROVE  Verdicts' /\ \A r \in GitHubRepos : granted'[r] <= granted[r] /\ denied'[r] <= denied[r]
  <2>1. \A r \in GitHubRepos : granted[r] \in Nat /\ denied[r] \in Nat
    BY AgentToolsAssumption DEF TypeOK
  <2> QED
    BY <1>1, <2>1 DEF Verdicts
<1>2. ASSUME UNCHANGED <<cache, denied, grants, granted, request>>
      PROVE  Verdicts' /\ Checks'
  BY <1>1, <1>2, ChecksElsewhere DEF Checks
<1>3. ASSUME NEW c \in Calls \cup Web, Arrive(c) \/ WebAsks(c),
             UNCHANGED <<cache, denied, grants, granted>>
      PROVE  Verdicts' /\ Checks'
  <2>1. Check(c)' /\ \A d \in (Calls \cup Web) \ {c} : request'[d] = request[d]
    BY <1>3, ArrivalFresh
  <2> QED
    BY <1>1, <1>3, <2>1, ChecksElsewhere DEF Checks
<1>4. CASE UNCHANGED vars
  BY <1>2, <1>4 DEF vars, gateVars, worldVars
<1>5. CASE Submit
  BY <1>2, <1>5 DEF Submit, gateVars, worldVars
<1>6. CASE Tick
  BY <1>6, TickFresh
<1>7. ASSUME NEW c \in Calls, CallStep(c)
      PROVE  Verdicts' /\ Checks'
  <2>1. UNCHANGED <<cache, denied, grants, granted>>
    BY <1>7, CallMoves
  <2>2. CASE UNCHANGED request
    BY <1>2, <2>1, <2>2
  <2>3. CASE Arrive(c)
    BY <1>3, <2>1, <2>3
  <2> QED
    BY <1>7, <2>2, <2>3, CallMoves
<1>8. ASSUME NEW w \in Web, WebAsks(w)
      PROVE  Verdicts' /\ Checks'
  <2>1. UNCHANGED <<cache, denied, grants, granted>>
    BY <1>8 DEF WebAsks, gateVars, worldVars
  <2> QED
    BY <1>3, <1>8, <2>1
<1>9. ASSUME NEW c \in Calls \cup Web, RequestStep(c)
      PROVE  Verdicts' /\ Checks'
  BY <1>9, GateSteps
<1>10. ASSUME NEW r \in GitHubRepos, ChangeAccess(r)
       PROVE  Verdicts' /\ Checks'
  <2>1. /\ UNCHANGED <<request, cache>>
        /\ granted' = [granted EXCEPT ![r] = 0] /\ denied' = [denied EXCEPT ![r] = 0]
        /\ \A q \in GitHubRepos : q # r => (q \in grants' <=> q \in grants)
    BY <1>10 DEF ChangeAccess
  <2>2. \A q \in GitHubRepos :
          /\ granted'[q] = (IF q = r THEN 0 ELSE granted[q])
          /\ denied'[q] = (IF q = r THEN 0 ELSE denied[q])
          /\ granted[q] \in Nat /\ denied[q] \in Nat /\ cache[q].life \in 0..TTL
    BY <2>1, AgentToolsAssumption DEF TypeOK
  <2>3. Checks'
    BY <2>1, <2>2, ChecksElsewhere DEF Checks
  <2>4. Verdicts'
    <3> SUFFICES ASSUME NEW q \in GitHubRepos
                 PROVE  /\ IF q \in grants' THEN granted'[q] = 0 ELSE denied'[q] = 0
                        /\ cache[q].life > 0 =>
                             (IF cache[q].allowed THEN granted'[q] ELSE denied'[q]) + cache[q].life <= TTL
      BY <2>1 DEF Verdicts
    <3>1. CASE q = r
      BY <2>2, <3>1, AgentToolsAssumption
    <3>2. CASE q # r
      BY <2>1, <2>2, <3>2 DEF Verdicts
    <3> QED
      BY <3>1, <3>2
  <2> QED
    BY <2>3, <2>4
<1> QED
  BY <1>4, <1>5, <1>6, <1>7, <1>8, <1>9, <1>10 DEF Next

(* No verdict in the cache lives longer than TTL from when GitHub gave it, *)
(* and none is stored that is older than its check (github.py:33-57).      *)
THEOREM VerdictsExpire == Spec => [](TypeOK /\ Verdicts /\ Checks)
<1>1. Init => TypeOK /\ Verdicts /\ Checks
  BY InitTypes, InitFresh
<1>2. TypeOK /\ Verdicts /\ Checks /\ [Next]_vars => TypeOK' /\ Verdicts' /\ Checks'
  BY StepTypes, StepFresh
<1> QED
  BY <1>1, <1>2, PTL DEF Spec

(* Only from the cache, or with GitHub's answer, does a request go past a  *)
(* repository.                                                             *)
LEMMA DecidesByVerdict ==
  ASSUME TypeOK, Checks, [Next]_vars, NEW c \in Calls \cup Web, NEW r \in GitHubRepos, Decides(c, r)
  PROVE  Cached(c) \/ StoreVerdict(c)
<1> SUFFICES ASSUME ~Cached(c), ~StoreVerdict(c)
             PROVE  FALSE
  OBVIOUS
<1>1. RequestsOK /\ RequestOK(request[c]) /\ IsMap(request, Calls \cup Web) /\ Check(c)
  BY TypeParts DEF RequestsOK, Checks
<1>2. request[c] # None /\ request[c] \in Request /\ request[c].todo # <<>>
      /\ request'[c].todo # request[c].todo /\ request'[c] # request[c]
  BY <1>1, RequestShape DEF Decides
<1>3. \A d \in Calls \cup Web : \A x : request' = [request EXCEPT ![d] = x] => d = c
  BY <1>1, <1>2 DEF IsMap
<1>4. CASE UNCHANGED request
  BY <1>2, <1>4
<1>5. CASE Submit \/ UNCHANGED vars \/ \E q \in GitHubRepos : ChangeAccess(q)
  BY <1>4, <1>5 DEF Submit, vars, ChangeAccess
<1>6. CASE Tick
  <2>1. request'[c] = IF AtGitHub(c) THEN [request[c] EXCEPT !.age = @ + 1] ELSE request[c]
    BY <1>1, <1>6, TickRequests
  <2>2. [request[c] EXCEPT !.age = @ + 1].todo = request[c].todo
    BY <1>2 DEF Request
  <2> QED
    BY <1>2, <2>1, <2>2
<1>7. ASSUME NEW d \in Calls \cup Web, (d \in Calls /\ Arrive(d)) \/ WebAsks(d)
      PROVE  FALSE
  <2>1. request[d] = None
    BY <1>7 DEF Arrive, WebAsks
  <2>2. d = c
    BY <1>1, <1>3, <1>7, ArrivalTypes
  <2> QED
    BY <1>2, <2>1, <2>2
<1>8. ASSUME NEW d \in Calls, CallStep(d)
      PROVE  FALSE
  BY <1>4, <1>7, <1>8, CallMoves
<1>9. ASSUME NEW d \in Calls \cup Web, RequestStep(d)
      PROVE  FALSE
  <2>1. \E x : request' = [request EXCEPT ![d] = x]
    <3>1. CASE Cached(d) \/ AskGitHub(d)
      BY <3>1 DEF Cached, AskGitHub
    <3>2. CASE GitHubAnswers(d)
      BY <3>2 DEF GitHubAnswers
    <3>3. CASE StoreVerdict(d)
      BY <3>3 DEF StoreVerdict
    <3>4. CASE Gate(d) \/ ListRepo(d) \/ Search(d) \/ RunTool(d)
      BY <3>4, DecisionMoves
    <3> QED
      BY <1>9, <3>1, <3>2, <3>3, <3>4 DEF RequestStep
  <2>2. d = c
    BY <1>3, <2>1
  <2>3. CASE AskGitHub(c)
    <3>1. request'[c] = [request[c] EXCEPT !.at = "asking"]
      BY <1>1, <2>3 DEF AskGitHub, IsMap
    <3> QED
      BY <1>2, <3>1 DEF Request
  <2>4. CASE GitHubAnswers(c)
    <3>1. PICK v \in BOOLEAN : request'[c] = [request[c] EXCEPT !.at = "storing", !.verdict = v]
      BY <1>1, <2>4 DEF GitHubAnswers, IsMap
    <3> QED
      BY <1>2, <3>1 DEF Request
  <2>5. CASE RunTool(c)
    BY <1>1, <1>2, <2>5 DEF RunTool, Check
  <2>6. CASE Gate(c) \/ ListRepo(c) \/ Search(c)
    BY <1>2, <2>6 DEF Gate, ListRepo, Search, Decided
  <2> QED
    BY <1>9, <2>2, <2>3, <2>4, <2>5, <2>6 DEF RequestStep
<1> QED
  BY <1>5, <1>6, <1>7, <1>8, <1>9 DEF Next

LEMMA DecisionIsFresh ==
  ASSUME TypeOK, Verdicts, Checks, [Next]_vars,
         NEW c \in Calls \cup Web, NEW r \in GitHubRepos, Decides(c, r)
  PROVE  (IF r \in request'[c].allowed THEN granted[r] ELSE denied[r]) < TTL
<1>1. RequestsOK /\ RequestOK(request[c]) /\ IsMap(request, Calls \cup Web) /\ Check(c)
  BY TypeParts DEF RequestsOK, Checks
<1>2. /\ request[c] \in Request /\ request[c].todo # <<>> /\ r = Head(request[c].todo)
      /\ r \notin request[c].allowed
  <2>1. request[c] \in Request /\ request[c].todo # <<>> /\ r = Head(request[c].todo)
    BY <1>1, RequestShape DEF Decides
  <2>2. r \in ToSet(request[c].todo)
    BY <2>1, RequestFields, EmptySeq DEF ToSet
  <2>3. request[c].allowed \cap ToSet(request[c].todo) = {}
    BY <1>1, <2>1, RequestFields DEF Check
  <2> QED
    BY <2>1, <2>2, <2>3
<1>3. TTL \in Nat /\ CheckTime \in Nat /\ CheckTime < TTL
  BY AgentToolsAssumption
<1>4. granted[r] \in Nat /\ denied[r] \in Nat /\ cache[r] \in [allowed : BOOLEAN, life : 0..TTL]
  BY <1>3 DEF TypeOK
<1>5. CASE Cached(c)
  <2>1. /\ cache[r].life > 0
        /\ request' = [request EXCEPT ![c].todo = Tail(@),
                         ![c].allowed = IF cache[r].allowed THEN @ \cup {r} ELSE @]
    BY <1>2, <1>5 DEF Cached
  <2>2. r \in request'[c].allowed <=> cache[r].allowed
    BY <1>1, <1>2, <2>1 DEF IsMap, Request
  <2>3. (IF cache[r].allowed THEN granted[r] ELSE denied[r]) + cache[r].life <= TTL
    BY <2>1 DEF Verdicts
  <2>4. (IF cache[r].allowed THEN granted[r] ELSE denied[r]) < TTL
    BY <1>3, <1>4, <2>1, <2>3
  <2> QED
    BY <2>2, <2>4
<1>6. CASE StoreVerdict(c)
  <2>1. /\ request[c].at = "storing"
        /\ request' = [request EXCEPT ![c].at = "checking", ![c].todo = Tail(@),
                         ![c].allowed = IF request[c].verdict THEN @ \cup {r} ELSE @,
                         ![c].age = 0, ![c].verdict = FALSE]
    BY <1>2, <1>6 DEF StoreVerdict
  <2>2. r \in request'[c].allowed <=> request[c].verdict
    BY <1>1, <1>2, <2>1 DEF IsMap, Request
  <2>3. (IF request[c].verdict THEN granted[r] ELSE denied[r]) <= request[c].age
    BY <1>1, <1>2, <2>1 DEF Check
  <2>4. request[c].age \in 0..CheckTime
    BY <1>2, RequestFields
  <2>5. (IF request[c].verdict THEN granted[r] ELSE denied[r]) < TTL
    BY <1>3, <1>4, <2>3, <2>4
  <2> QED
    BY <2>2, <2>5
<1> QED
  BY <1>5, <1>6, DecidesByVerdict

(* Whatever the cache holds and however slowly GitHub answers, who decides *)
(* on a repository decides as GitHub did less than TTL ago                 *)
(* (github.py:33-41).                                                      *)
THEOREM GateDecidesFresh == Spec => GateIsFresh
<1>1. TypeOK /\ Verdicts /\ Checks /\ [Next]_vars =>
        [\A c \in Calls \cup Web, r \in GitHubRepos :
           Decides(c, r) =>
             (IF r \in request'[c].allowed THEN granted[r] ELSE denied[r]) < TTL]_vars
  BY DecisionIsFresh
<1> QED
  BY <1>1, VerdictsExpire, PTL DEF Spec, GateIsFresh

-----------------------------------------------------------------------------
(* Searches of tools.                                                      *)

(* What servers offer exists for every number of them: were there a least  *)
(* one for which it does not, it would exist for one server less.          *)
LEMMA OfferedIs ==
  ASSUME NEW a, NEW f, Len(a) \in Nat
  PROVE  /\ Offered(a, f)[0] = <<>>
         /\ \A n \in 1..Len(a) :
              Offered(a, f)[n] = IF a[n] \in f THEN Offered(a, f)[n - 1]
                                 ELSE Offered(a, f)[n - 1] \o Scored(a[n], Offer[a[n]])
<1> DEFINE Step(old, n) == IF a[n] \in f THEN old ELSE old \o Scored(a[n], Offer[a[n]])
           Is(g, n) == g = [m \in 0..n |-> IF m = 0 THEN <<>> ELSE Step(g[m - 1], m)]
           none == {n \in Nat : ~\E g : Is(g, n)}
<1> SUFFICES /\ Offered(a, f)[0] = <<>>
             /\ \A n \in 1..Len(a) : Offered(a, f)[n] = Step(Offered(a, f)[n - 1], n)
  OBVIOUS
<1>0. Offered(a, f) = CHOOSE g : Is(g, Len(a))
  BY DEF Offered
<1> HIDE DEF Step
<1>1. none = {}
  <2> SUFFICES ASSUME none # {} PROVE FALSE
    OBVIOUS
  <2>1. PICK n \in none : \A k \in none : n <= k
    <3>1. none \in SUBSET Nat
      OBVIOUS
    <3> HIDE DEF none
    <3> QED
      BY <3>1, LeastNumber
  <2>2. CASE n = 0
    <3> DEFINE g == [m \in 0..0 |-> <<>>]
    <3>1. Is(g, 0)
      OBVIOUS
    <3> QED
      BY <2>2, <3>1
  <2>3. CASE n # 0
    <3>1. n - 1 \in Nat /\ n \in Nat
      BY <2>3
    <3>2. n - 1 \notin none
      <4> HIDE DEF none
      <4> QED
        BY <2>1, <3>1
    <3>3. PICK g : Is(g, n - 1)
      BY <3>1, <3>2
    <3> DEFINE h == [m \in 0..n |-> IF m < n THEN g[m] ELSE Step(g[n - 1], n)]
    <3>4. ASSUME NEW m \in 0..n
          PROVE  h[m] = IF m = 0 THEN <<>> ELSE Step(h[m - 1], m)
      <4>1. CASE m = 0
        BY <2>3, <3>1, <3>3, <4>1
      <4>2. CASE m # 0 /\ m < n
        <5>1. h[m] = g[m] /\ h[m - 1] = g[m - 1] /\ m \in 0..(n - 1)
          BY <3>1, <4>2
        <5> HIDE DEF h
        <5> QED
          BY <3>1, <3>3, <4>2, <5>1
      <4>3. CASE m = n
        <5>1. h[m] = Step(g[n - 1], n) /\ h[m - 1] = g[n - 1]
          BY <3>1, <4>3
        <5> HIDE DEF h
        <5> QED
          BY <2>3, <4>3, <5>1
      <4> QED
        BY <4>1, <4>2, <4>3
    <3>5. Is(h, n)
      <4>1. h = [m \in 0..n |-> h[m]]
        OBVIOUS
      <4> HIDE DEF h
      <4> QED
        BY <3>4, <4>1
    <3> QED
      BY <3>5
  <2> QED
    BY <2>2, <2>3
<1>2. \E g : Is(g, Len(a))
  BY <1>1
<1> DEFINE g == Offered(a, f)
<1>4. g = [m \in 0..Len(a) |-> IF m = 0 THEN <<>> ELSE Step(g[m - 1], m)]
  BY <1>0, <1>2
<1> HIDE DEF g
<1>5. g[0] = <<>>
  BY <1>4
<1>6. ASSUME NEW n \in 1..Len(a) PROVE g[n] = Step(g[n - 1], n)
  BY <1>4
<1> QED
  BY <1>5, <1>6 DEF g

LEMMA OfferedStep ==
  ASSUME NEW a, NEW f, Len(a) \in Nat, NEW n \in Nat, n + 1 \in 1..Len(a)
  PROVE  Offered(a, f)[n + 1] = IF a[n + 1] \in f THEN Offered(a, f)[n]
                                ELSE Offered(a, f)[n] \o Scored(a[n + 1], Offer[a[n + 1]])
<1>1. (n + 1) - 1 = n
  OBVIOUS
<1> QED
  BY <1>1, OfferedIs

(* It depends on which of those servers failed.                            *)
LEMMA OfferedAgree ==
  ASSUME NEW a, NEW f, NEW g, Len(a) \in Nat, NEW m \in 0..Len(a),
         \A i \in 1..m : a[i] \in f <=> a[i] \in g
  PROVE  Offered(a, f)[m] = Offered(a, g)[m]
<1> DEFINE bad == {n \in 0..m : Offered(a, f)[n] # Offered(a, g)[n]}
<1> SUFFICES ASSUME bad # {} PROVE FALSE
  OBVIOUS
<1>1. PICK n \in bad : \A k \in bad : n <= k
  <2>1. bad \in SUBSET Nat
    OBVIOUS
  <2> HIDE DEF bad
  <2> QED
    BY <2>1, LeastNumber
<1>2. n # 0
  BY OfferedIs
<1>3. n \in 1..m /\ n \in 1..Len(a) /\ n - 1 \in 0..m /\ ~(n <= n - 1)
  BY <1>2
<1>4. n - 1 \notin bad
  <2> HIDE DEF bad
  <2> QED
    BY <1>1, <1>3
<1>5. Offered(a, f)[n - 1] = Offered(a, g)[n - 1]
  BY <1>3, <1>4
<1>6. Offered(a, f)[n] = Offered(a, g)[n]
  BY <1>3, <1>5, OfferedIs
<1> QED
  BY <1>6

(* The fields of a search, and its next server.                            *)
LEMMA SearchFields ==
  ASSUME NEW x \in SearchCall, IsInjective(x.asked), NEW n \in Nat, GatheredTo(x, n)
  PROVE  /\ x.asked \in Seq(DOMAIN Offer) /\ x.todo \in Seq(DOMAIN Offer)
         /\ Len(x.asked) \in Nat /\ Len(x.todo) \in Nat /\ n <= Len(x.asked)
         /\ DOMAIN x = {"at", "asked", "todo", "failed", "found"}
         /\ x.todo # <<>> =>
              /\ n + 1 \in 1..Len(x.asked) /\ Head(x.todo) = x.asked[n + 1]
              /\ Head(x.todo) \notin x.failed
              /\ Len(Tail(x.todo)) = Len(x.todo) - 1
              /\ \A i \in DOMAIN Tail(x.todo) : Tail(x.todo)[i] = x.asked[n + 1 + i]
<1>1. /\ x.asked \in Seq(DOMAIN Offer) /\ x.todo \in Seq(DOMAIN Offer)
      /\ DOMAIN x = {"at", "asked", "todo", "failed", "found"}
  BY DEF SearchCall
<1>2. Len(x.asked) \in Nat /\ Len(x.todo) \in Nat /\ n <= Len(x.asked)
  BY <1>1 DEF GatheredTo
<1>3. ASSUME x.todo # <<>>
      PROVE  /\ n + 1 \in 1..Len(x.asked) /\ Head(x.todo) = x.asked[n + 1]
             /\ Head(x.todo) \notin x.failed
             /\ Len(Tail(x.todo)) = Len(x.todo) - 1
             /\ \A i \in DOMAIN Tail(x.todo) : Tail(x.todo)[i] = x.asked[n + 1 + i]
  <2>1. /\ Len(x.todo) > 0 /\ Head(x.todo) = x.todo[1] /\ 1 \in DOMAIN x.todo
    BY <1>1, <1>3, EmptySeq
  <2>2. n + 1 \in 1..Len(x.asked) /\ Head(x.todo) = x.asked[n + 1]
    BY <1>2, <2>1 DEF GatheredTo
  <2>3. Head(x.todo) \notin x.failed
    <3>1. \A i \in 1..n : x.asked[i] # x.asked[n + 1]
      <4>1. \A i \in 1..n : i \in DOMAIN x.asked /\ i # n + 1
        BY <1>1, <1>2
      <4>2. n + 1 \in DOMAIN x.asked
        BY <1>1, <2>2
      <4> QED
        BY <4>1, <4>2 DEF IsInjective
    <3> QED
      BY <2>2, <3>1 DEF GatheredTo
  <2>4. /\ Len(Tail(x.todo)) = Len(x.todo) - 1
        /\ \A i \in DOMAIN Tail(x.todo) :
             Tail(x.todo)[i] = x.todo[i + 1] /\ i + 1 \in DOMAIN x.todo /\ i \in Nat
    BY <1>1, <1>3, HeadTailProperties
  <2>5. \A i \in DOMAIN Tail(x.todo) : Tail(x.todo)[i] = x.asked[n + 1 + i]
    <3>1. \A i \in Nat : n + (i + 1) = n + 1 + i
      BY <1>2
    <3> QED
      BY <2>4, <3>1 DEF GatheredTo
  <2> QED
    BY <2>2, <2>3, <2>4, <2>5
<1> QED
  BY <1>1, <1>2, <1>3

(* A server more, with what it offers ...                                  *)
LEMMA GatheredAdd ==
  ASSUME NEW x \in SearchCall, Gathered(x), x.todo # <<>>,
         NEW y, y.asked = x.asked, y.todo = Tail(x.todo), y.failed = x.failed,
         y.found = x.found \o Scored(Head(x.todo), Offer[Head(x.todo)])
  PROVE  Gathered(y)
<1>0. PICK n \in Nat : GatheredTo(x, n)
  BY DEF Gathered
<1>1. /\ Len(x.asked) \in Nat /\ Len(x.todo) \in Nat /\ n <= Len(x.asked)
      /\ n + 1 \in 1..Len(x.asked) /\ Head(x.todo) = x.asked[n + 1]
      /\ Head(x.todo) \notin x.failed /\ Len(Tail(x.todo)) = Len(x.todo) - 1
      /\ \A i \in DOMAIN Tail(x.todo) : Tail(x.todo)[i] = x.asked[n + 1 + i]
  BY <1>0, SearchFields DEF Gathered
<1>2. n + 1 \in Nat /\ (n + 1) - 1 = n /\ Len(y.todo) = Len(y.asked) - (n + 1)
  BY <1>0, <1>1 DEF GatheredTo
<1>3. Offered(x.asked, x.failed)[n + 1]
        = Offered(x.asked, x.failed)[n] \o Scored(x.asked[n + 1], Offer[x.asked[n + 1]])
  <2>1. x.asked[n + 1] \notin x.failed
    BY <1>1
  <2>2. PICK a, f : a = x.asked /\ f = x.failed
    OBVIOUS
  <2>3. Offered(a, f)[n + 1] = Offered(a, f)[n] \o Scored(a[n + 1], Offer[a[n + 1]])
    <3>1. Len(a) \in Nat /\ n \in Nat /\ n + 1 \in 1..Len(a) /\ a[n + 1] \notin f
      BY <1>1, <2>1, <2>2
    <3>2. Offered(a, f)[n + 1] = IF a[n + 1] \in f THEN Offered(a, f)[n]
                                 ELSE Offered(a, f)[n] \o Scored(a[n + 1], Offer[a[n + 1]])
      <4>1. Len(a) \in Nat /\ n \in Nat /\ n + 1 \in 1..Len(a)
        BY <3>1
      <4> QED
        BY <4>1, OfferedStep
    <3> QED
      BY <3>1, <3>2
  <2> QED
    BY <2>2, <2>3
<1>4. x.found = Offered(x.asked, x.failed)[n] /\ IsInjective(x.asked)
      /\ \A s \in x.failed : \E i \in 1..n : x.asked[i] = s
  BY <1>0 DEF Gathered, GatheredTo
<1>5. \A s \in y.failed : \E i \in 1..(n + 1) : y.asked[i] = s
  <2>1. \A i \in 1..n : i \in 1..(n + 1)
    BY <1>1
  <2> QED
    BY <1>4, <2>1
<1>6. y.found = Offered(y.asked, y.failed)[n + 1]
  BY <1>1, <1>3, <1>4
<1>7. GatheredTo(y, n + 1)
  <2>1. \A i \in DOMAIN y.todo : y.todo[i] = y.asked[n + 1 + i]
    BY <1>1
  <2>2. n + 1 \in 0..Len(y.asked)
    BY <1>1
  <2> QED
    BY <1>2, <1>5, <1>6, <2>1, <2>2 DEF GatheredTo
<1> QED
  BY <1>2, <1>4, <1>7 DEF Gathered

(* ... or without, when it failed.                                         *)
LEMMA GatheredSkip ==
  ASSUME NEW x \in SearchCall, Gathered(x), x.todo # <<>>,
         NEW y, y.asked = x.asked, y.todo = Tail(x.todo), y.found = x.found,
         y.failed = x.failed \cup {Head(x.todo)}
  PROVE  Gathered(y)
<1>0. PICK n \in Nat : GatheredTo(x, n)
  BY DEF Gathered
<1>1. /\ Len(x.asked) \in Nat /\ Len(x.todo) \in Nat /\ n <= Len(x.asked)
      /\ n + 1 \in 1..Len(x.asked) /\ Head(x.todo) = x.asked[n + 1]
      /\ Len(Tail(x.todo)) = Len(x.todo) - 1
      /\ \A i \in DOMAIN Tail(x.todo) : Tail(x.todo)[i] = x.asked[n + 1 + i]
      /\ DOMAIN x.asked = 1..Len(x.asked)
  BY <1>0, SearchFields DEF Gathered
<1>2. n + 1 \in Nat /\ (n + 1) - 1 = n /\ Len(y.todo) = Len(y.asked) - (n + 1)
  BY <1>0, <1>1 DEF GatheredTo
<1>3. x.found = Offered(x.asked, x.failed)[n] /\ IsInjective(x.asked)
      /\ \A s \in x.failed : \E i \in 1..n : x.asked[i] = s
  BY <1>0 DEF Gathered, GatheredTo
<1>4. \A i \in 1..n : x.asked[i] # x.asked[n + 1]
  <2>1. n <= Len(x.asked) /\ n + 1 \in DOMAIN x.asked
    BY <1>1
  <2>2. \A i \in 1..n : i \in DOMAIN x.asked /\ i # n + 1
    BY <1>1, <2>1
  <2> QED
    BY <1>3, <2>1, <2>2 DEF IsInjective
<1>5. Offered(x.asked, y.failed)[n] = Offered(x.asked, x.failed)[n]
  <2>1. \A i \in 1..n : x.asked[i] \in y.failed <=> x.asked[i] \in x.failed
    BY <1>1, <1>4
  <2>2. PICK a, f, g : a = x.asked /\ f = y.failed /\ g = x.failed
    OBVIOUS
  <2>3. Len(a) \in Nat /\ n \in 0..Len(a) /\ \A i \in 1..n : a[i] \in f <=> a[i] \in g
    BY <1>1, <2>1, <2>2
  <2>4. Offered(a, f)[n] = Offered(a, g)[n]
    BY <2>3, OfferedAgree
  <2> QED
    BY <2>2, <2>4
<1>6. Offered(x.asked, y.failed)[n + 1] = Offered(x.asked, y.failed)[n]
  <2>1. x.asked[n + 1] \in y.failed
    BY <1>1
  <2> QED
    BY <1>1, <2>1, OfferedStep
<1>7. \A s \in y.failed : \E i \in 1..(n + 1) : y.asked[i] = s
  <2>1. \A i \in 1..n : i \in 1..(n + 1)
    BY <1>1
  <2>2. n + 1 \in 1..(n + 1)
    BY <1>1
  <2> QED
    BY <1>1, <1>3, <2>1, <2>2
<1>8. GatheredTo(y, n + 1)
  <2>1. \A i \in DOMAIN y.todo : y.todo[i] = y.asked[n + 1 + i]
    BY <1>1
  <2>2. n + 1 \in 0..Len(y.asked)
    BY <1>1
  <2>3. y.found = Offered(y.asked, y.failed)[n + 1]
    BY <1>3, <1>5, <1>6
  <2> QED
    BY <1>2, <1>7, <2>1, <2>2, <2>3 DEF GatheredTo
<1> QED
  BY <1>2, <1>3, <1>8 DEF Gathered

(* A search that begins.                                                   *)
LEMMA GatheredFirst ==
  ASSUME NEW asked \in Seq(DOMAIN Offer), IsInjective(asked),
         NEW y, y.asked = asked, y.todo = asked, y.failed = {}, y.found = <<>>
  PROVE  Gathered(y)
<1>1. Len(asked) \in Nat /\ 0 \in 0..Len(asked) /\ Len(asked) - 0 = Len(asked)
  OBVIOUS
<1>2. \A i \in DOMAIN asked : i = 0 + i
  OBVIOUS
<1>3. Offered(asked, {})[0] = <<>>
  BY <1>1, OfferedIs
<1>4. GatheredTo(y, 0)
  BY <1>1, <1>2, <1>3 DEF GatheredTo
<1> QED
  BY <1>4 DEF Gathered

(* Where a search is in the router does not matter.                        *)
LEMMA GatheredOn ==
  ASSUME NEW x, Gathered(x), NEW y, y.asked = x.asked, y.todo = x.todo, y.failed = x.failed,
         y.found = x.found
  PROVE  Gathered(y)
<1>1. PICK n \in Nat : GatheredTo(x, n)
  BY DEF Gathered
<1>2. GatheredTo(y, n)
  BY <1>1 DEF GatheredTo
<1> QED
  BY <1>2 DEF Gathered

(* It is over when nobody is left to ask.                                  *)
LEMMA GatheredAll ==
  ASSUME NEW x \in SearchCall, Gathered(x), x.todo = <<>>
  PROVE  x.found = Offered(x.asked, x.failed)[Len(x.asked)]
<1>1. PICK n \in Nat : GatheredTo(x, n)
  BY DEF Gathered
<1>2. Len(x.asked) \in Nat /\ Len(x.todo) = 0
  BY DEF SearchCall
<1>3. n = Len(x.asked)
  BY <1>1, <1>2 DEF GatheredTo
<1> QED
  BY <1>1, <1>3 DEF GatheredTo

Searching(x) == x.at \in {"searching", "connecting", "listing"} => Gathered(x)

(* The call that moves is what matters.                                    *)
LEMMA GatheringMoves ==
  ASSUME CallsOK, Gathering, UNCHANGED session, NEW c \in Calls, NEW x, Searching(x),
         call' = [call EXCEPT ![c] = x]
  PROVE  Gathering'
<1>1. \A d \in Calls : call'[d] = IF d = c THEN x ELSE call[d]
  BY DEF CallsOK, IsMap
<1>2. \A d \in Calls : Searching(call'[d])
  BY <1>1 DEF Gathering, Searching
<1>3. \A d \in Calls :
        call'[d].at \in {"searching", "connecting", "listing"} => Gathered(call'[d])
  BY <1>2 DEF Searching
<1> QED
  BY <1>3 DEF Gathering

LEMMA CallGathers ==
  ASSUME TypeOK, Gathering, NEW c \in Calls, CallStep(c)
  PROVE  Gathering'
<1>0. CallsOK /\ CatalogOK /\ session \in Session /\ UNCHANGED session
  BY TypeParts, CallMoves
<1>1. ASSUME UNCHANGED call PROVE Gathering'
  BY <1>0, <1>1 DEF Gathering
<1>2. ASSUME NEW o, EndCall(c, o) PROVE Gathering'
  <2>1. call' = [call EXCEPT ![c] = Idle] /\ Searching(Idle)
    BY <1>2 DEF EndCall, Searching, Idle
  <2> QED
    BY <1>0, <2>1, GatheringMoves
<1>3. ASSUME NEW x, Searching(x), call' = [call EXCEPT ![c] = x]
      PROVE  Gathering'
  BY <1>0, <1>3, GatheringMoves
<1>4. ASSUME call[c].at \in {"searching", "connecting", "listing"}
      PROVE  /\ call[c] \in SearchCall /\ Gathered(call[c])
             /\ DOMAIN call[c] = {"at", "asked", "todo", "failed", "found"}
             /\ call[c].at \in {"connecting", "listing"} => call[c].todo # <<>>
  <2>1. /\ call[c] \in SearchCall
        /\ call[c].at \in {"connecting", "listing"} => call[c].todo # <<>>
    BY <1>0, <1>4, CallShape DEF CallsOK, CallOK
  <2>2. DOMAIN call[c] = {"at", "asked", "todo", "failed", "found"}
    BY <1>0, <1>4, CallShape DEF CallsOK, SearchCall
  <2> QED
    BY <1>0, <1>4, <2>1, <2>2, CallShape DEF Gathering, CallsOK
<1>5. CASE ListServers(c) \/ UseWorkspace(c) \/ Arrive(c)
  BY <1>1, <1>5 DEF ListServers, UseWorkspace, Arrive
<1>6. CASE SearchTools(c)
  <2>1. PICK asked \in {session.deferred} \cup {<<s>> : s \in DOMAIN Offer} :
          \/ EndCall(c, Error)
          \/ call' = [call EXCEPT ![c] = [at |-> "searching", asked |-> asked, todo |-> asked,
                                          failed |-> {}, found |-> <<>>]]
    BY <1>6 DEF SearchTools
  <2>2. asked \in Seq(DOMAIN Offer) /\ IsInjective(asked)
    <3>1. CASE asked = session.deferred
      BY <1>0, <3>1 DEF Session, Gathering
    <3>2. CASE \E s \in DOMAIN Offer : asked = <<s>>
      BY <3>2 DEF IsInjective
    <3> QED
      BY <3>1, <3>2
  <2>3. PICK y : y = [at |-> "searching", asked |-> asked, todo |-> asked,
                      failed |-> {}, found |-> <<>>]
    OBVIOUS
  <2>4. Searching(y)
    <3>1. y.asked = asked /\ y.todo = asked /\ y.failed = {} /\ y.found = <<>>
      BY <2>3
    <3> QED
      BY <2>2, <3>1, GatheredFirst DEF Searching
  <2> QED
    BY <1>0, <1>2, <2>1, <2>3, <2>4, GatheringMoves
<1>7. CASE FromCatalog(c) \/ ListTools(c)
  <2>1. /\ call[c] \in SearchCall /\ Gathered(call[c]) /\ call[c].todo # <<>>
        /\ DOMAIN call[c] = {"at", "asked", "todo", "failed", "found"}
    BY <1>4, <1>7 DEF FromCatalog, ListTools
  <2>2. PICK x, s : x = call[c] /\ s = Head(call[c].todo)
    OBVIOUS
  <2>3. s \in DOMAIN Offer
    BY <2>1, <2>2, HeadTailProperties DEF SearchCall
  <2>4. call' = [call EXCEPT ![c] = Add(c, Offer[s])]
    BY <1>0, <1>7, <2>2, <2>3 DEF FromCatalog, ListTools, CatalogOK
  <2>5. PICK y : y = Add(c, Offer[s])
    OBVIOUS
  <2>6. /\ y.asked = x.asked /\ y.todo = Tail(x.todo) /\ y.failed = x.failed
        /\ y.found = x.found \o Scored(Head(x.todo), Offer[Head(x.todo)])
    BY <2>1, <2>2, <2>5 DEF Add
  <2>7. Gathered(y)
    BY <2>1, <2>2, <2>6, GatheredAdd
  <2> QED
    BY <1>0, <2>4, <2>5, <2>7, GatheringMoves DEF Searching
<1>8. CASE Connect(c) \/ Connected(c)
  <2>1. /\ Gathered(call[c]) /\ DOMAIN call[c] = {"at", "asked", "todo", "failed", "found"}
    BY <1>4, <1>8 DEF Connect, Connected
  <2>2. PICK at : call' = [call EXCEPT ![c].at = at]
    BY <1>8 DEF Connect, Connected
  <2>3. PICK x, y : x = call[c] /\ y = [call[c] EXCEPT !.at = at]
    OBVIOUS
  <2>4. y.asked = x.asked /\ y.todo = x.todo /\ y.failed = x.failed /\ y.found = x.found
    BY <2>1, <2>3
  <2>5. Gathered(y)
    BY <2>1, <2>3, <2>4, GatheredOn
  <2> QED
    BY <1>0, <2>2, <2>3, <2>5, GatheringMoves DEF Searching
<1>9. ASSUME Skip(c), call[c].at \in {"connecting", "listing"} PROVE Gathering'
  <2>1. /\ call[c] \in SearchCall /\ Gathered(call[c]) /\ call[c].todo # <<>>
        /\ DOMAIN call[c] = {"at", "asked", "todo", "failed", "found"}
    BY <1>4, <1>9
  <2>2. PICK x, y : x = call[c] /\ y = [call[c] EXCEPT !.at = "searching", !.todo = Tail(@),
                                          !.failed = @ \cup {Head(call[c].todo)}]
    OBVIOUS
  <2>3. call' = [call EXCEPT ![c] = y]
    BY <1>9, <2>2 DEF Skip
  <2>4. /\ y.asked = x.asked /\ y.todo = Tail(x.todo) /\ y.found = x.found
        /\ y.failed = x.failed \cup {Head(x.todo)}
    BY <2>1, <2>2
  <2>5. Gathered(y)
    BY <2>1, <2>2, <2>4, GatheredSkip
  <2> QED
    BY <1>0, <2>3, <2>5, GatheringMoves DEF Searching
<1>10. CASE Timeout(c) \/ Fails(c)
  BY <1>2, <1>9, <1>10 DEF Timeout, Fails
<1>11. CASE Found(c) \/ Answered(c)
  BY <1>2, <1>11 DEF Found, Answered
<1>12. CASE CallTool(c)
  <2>1. EndCall(c, Error) \/ \E s : call' = [call EXCEPT ![c] = [at |-> "dialing", server |-> s]]
    BY <1>12 DEF CallTool
  <2>2. CASE EndCall(c, Error)
    BY <1>2, <2>2
  <2>3. CASE \E s : call' = [call EXCEPT ![c] = [at |-> "dialing", server |-> s]]
    <3>1. PICK s : call' = [call EXCEPT ![c] = [at |-> "dialing", server |-> s]]
      BY <2>3
    <3>2. PICK x : x = [at |-> "dialing", server |-> s]
      OBVIOUS
    <3>3. Searching(x)
      BY <3>2 DEF Searching
    <3>4. call' = [call EXCEPT ![c] = x]
      BY <3>1, <3>2
    <3> QED
      BY <1>3, <3>3, <3>4
  <2> QED
    BY <2>1, <2>2, <2>3
<1>13. CASE CallNative(c)
  <2>1. PICK s : call' = [call EXCEPT ![c] = [at |-> "native", server |-> s]]
    BY <1>13 DEF CallNative
  <2>2. PICK x : x = [at |-> "native", server |-> s]
    OBVIOUS
  <2>3. Searching(x)
    BY <2>2 DEF Searching
  <2>4. call' = [call EXCEPT ![c] = x]
    BY <2>1, <2>2
  <2> QED
    BY <1>3, <2>3, <2>4
<1>14. CASE Dialed(c)
  <2>1. call[c] \in ToolCall /\ call' = [call EXCEPT ![c].at = "calling"]
    BY <1>0, <1>14, CallShape DEF Dialed, CallsOK
  <2>2. PICK x : x = [call[c] EXCEPT !.at = "calling"]
    OBVIOUS
  <2>3. x.at = "calling"
    BY <2>1, <2>2 DEF ToolCall
  <2>4. Searching(x)
    BY <2>3 DEF Searching
  <2>5. call' = [call EXCEPT ![c] = x]
    BY <2>1, <2>2
  <2> QED
    BY <1>3, <2>4, <2>5
<1> QED
  BY <1>5, <1>6, <1>7, <1>8, <1>10, <1>11, <1>12, <1>13, <1>14 DEF CallStep, RouterStep

-----------------------------------------------------------------------------
(* What a request leaves alone, and whose call it ends.                    *)
LEMMA RequestKeeps ==
  ASSUME NEW c \in Calls \cup Web, RequestStep(c)
  PROVE  /\ UNCHANGED session
         /\ UNCHANGED call \/ (c \in Calls /\ call' = [call EXCEPT ![c] = Idle])
<1>1. CASE Cached(c) \/ AskGitHub(c) \/ GitHubAnswers(c) \/ StoreVerdict(c)
  BY <1>1 DEF Cached, AskGitHub, GitHubAnswers, StoreVerdict
<1>2. ASSUME NEW o, Respond(c, o)
      PROVE  UNCHANGED call \/ (c \in Calls /\ call' = [call EXCEPT ![c] = Idle])
  BY <1>2 DEF Respond, EndCall
<1>3. CASE Gate(c)
  <2>1. UNCHANGED session /\ (Respond(c, Error) \/ UNCHANGED call)
    BY <1>3 DEF Gate
  <2> QED
    BY <1>2, <2>1
<1>4. CASE ListRepo(c)
  <2>1. UNCHANGED session /\ (Respond(c, Answer) \/ UNCHANGED call)
    BY <1>4 DEF ListRepo
  <2> QED
    BY <1>2, <2>1
<1>5. CASE Search(c)
  <2>1. UNCHANGED session /\ \E o : Respond(c, o)
    BY <1>5 DEF Search
  <2> QED
    BY <1>2, <2>1
<1>6. CASE RunTool(c)
  <2>1. UNCHANGED session /\ \E o : Respond(c, o)
    BY <1>6 DEF RunTool
  <2> QED
    BY <1>2, <2>1
<1> QED
  BY <1>1, <1>3, <1>4, <1>5, <1>6 DEF RequestStep

LEMMA StepGathers ==
  ASSUME TypeOK, Gathering, [Next]_vars
  PROVE  Gathering'
<1>1. ASSUME UNCHANGED <<session, call>> PROVE Gathering'
  BY <1>1 DEF Gathering
<1>2. CASE UNCHANGED vars
  BY <1>1, <1>2 DEF vars
<1>3. CASE Submit
  <2>1. UNCHANGED call
    BY <1>3 DEF Submit
  <2>2. PICK s \in SetUps : session' = s.session
    BY <1>3 DEF Submit
  <2>3. PICK j \in Jobs : s.session.deferred = ServerNames(j)
    BY <2>2 DEF SetUps
  <2>4. IsInjective(session'.deferred)
    BY <2>2, <2>3, RegistryIs, AgentToolsAssumption
  <2> QED
    BY <2>1, <2>4 DEF Gathering
<1>4. CASE Tick
  BY <1>1, <1>4 DEF Tick
<1>5. ASSUME NEW c \in Calls, CallStep(c) PROVE Gathering'
  BY <1>5, CallGathers
<1>6. ASSUME NEW w \in Web, WebAsks(w) PROVE Gathering'
  BY <1>1, <1>6 DEF WebAsks
<1>7. ASSUME NEW r \in GitHubRepos, ChangeAccess(r) PROVE Gathering'
  BY <1>1, <1>7 DEF ChangeAccess
<1>8. ASSUME NEW c \in Calls \cup Web, RequestStep(c) PROVE Gathering'
  <2>1. UNCHANGED session
    BY <1>8, RequestKeeps
  <2>2. CASE UNCHANGED call
    BY <1>1, <2>1, <2>2
  <2>3. CASE c \in Calls /\ call' = [call EXCEPT ![c] = Idle]
    <3>1. CallsOK /\ Searching(Idle)
      BY TypeParts DEF Searching, Idle
    <3> QED
      BY <2>1, <2>3, <3>1, GatheringMoves
  <2> QED
    BY <1>8, <2>2, <2>3, RequestKeeps
<1> QED
  BY <1>2, <1>3, <1>4, <1>5, <1>6, <1>7, <1>8 DEF Next

(* Only a search of tools that is over answers with tools.                 *)
LEMMA StepFinds ==
  ASSUME TypeOK, Gathering, BestAreFound, [Next]_vars
  PROVE  BestAreFound'
<1>1. CASE UNCHANGED vars
  BY <1>1 DEF vars, BestAreFound
<1>2. ASSUME NEW c \in Calls, Found(c) PROVE BestAreFound'
  <2>1. call[c] \in SearchCall /\ Gathered(call[c]) /\ call[c].todo = <<>>
    <3>1. CallOK(call[c])
      BY TypeParts DEF CallsOK
    <3> QED
      BY <1>2, <3>1, CallShape DEF Found, Gathering
  <2>2. call[c].found = Offered(call[c].asked, call[c].failed)[Len(call[c].asked)]
    <3>1. PICK x : x = call[c]
      OBVIOUS
    <3> QED
      BY <2>1, <3>1, GatheredAll
  <2>3. out' = [kind |-> "tools", asked |-> call[c].asked, failed |-> call[c].failed,
                tools |-> Ranked(call[c].found)]
    BY <1>2 DEF Found, EndCall
  <2>4. out'.tools = Ranked(Offered(out'.asked, out'.failed)[Len(out'.asked)])
    BY <2>2, <2>3
  <2> QED
    BY <2>4 DEF BestAreFound
<1>3. CASE Next /\ ~\E c \in Calls : Found(c)
  <2>1. \A kind \in {"session", "tools"} :
          /\ \A c \in Calls : CallStep(c) /\ (Found(c) => kind # "tools") => out'.kind # kind
          /\ \A c \in Calls \cup Web : RequestStep(c) => out'.kind # kind
          /\ \A w \in Web : WebAsks(w) => out'.kind # kind
          /\ \A r \in GitHubRepos : ChangeAccess(r) => out'.kind # kind
          /\ Tick => out'.kind # kind
    BY AnswersMove
  <2>2. out'.kind # "tools"
    <3>1. CASE Submit
      BY <3>1 DEF Submit
    <3>2. CASE Next /\ ~Submit
      BY <1>3, <2>1, <3>2 DEF Next
    <3> QED
      BY <1>3, <3>1, <3>2
  <2> QED
    BY <2>2 DEF BestAreFound
<1> QED
  BY <1>1, <1>2, <1>3

(* A search of tools answers with the best of what the servers asked offer *)
(* that did not fail during it, whether it listed their tools itself or an *)
(* earlier search did, and whatever goes on beside it                      *)
(* (mcp_router.py:93-149).                                                 *)
THEOREM SearchesFindTheBest == Spec => []BestAreFound
<1>1. Init => TypeOK /\ Gathering /\ BestAreFound
  <2>1. Init => Gathering
    BY DEF Init, Gathering, Idle, NoSession, IsInjective
  <2>2. Init => BestAreFound
    BY DEF Init, BestAreFound, Nothing
  <2> QED
    BY <2>1, <2>2, InitTypes
<1>2. TypeOK /\ Gathering /\ BestAreFound /\ [Next]_vars => (TypeOK /\ Gathering /\ BestAreFound)'
  BY StepTypes, StepGathers, StepFinds
<1> QED
  BY <1>1, <1>2, PTL DEF Spec


-----------------------------------------------------------------------------
(* Answers are whole.                                                      *)

(* A search of any of the repositories, whatever they hold and whatever is *)
(* asked, shows what it should of them.                                    *)
LEMMA SearchesAreWhole ==
  ASSUME NEW tool \in {"semantic_search", "search_json"}, NEW found \in RepoLists,
         NEW repos, ToSet(found) \subseteq repos,
         NEW content \in [repos -> Contents], NEW q \in Queries
  PROVE  SearchIsWhole(tool, found, found, content, q)
<1>1. Registered \in Seq(STRING) /\ IsInjective(Registered) /\ q \in Query
  BY AgentToolsAssumption
<1>2. Contents \subseteq ParsedFiles
  BY AgentToolsAssumption DEF ParsedFiles
<1>3. found \in Seq(STRING) /\ IsInjective(found)
  <2>1. PICK places \in SUBSET DOMAIN Registered : found = Sublist(Registered, places)
    BY DEF RepoLists
  <2>2. places \subseteq 1..Len(Registered)
    BY <1>1, <2>1
  <2> QED
    BY <1>1, <2>1, <2>2, SublistIs
<1>4. PICK holds : holds = [i \in DOMAIN found |-> content[found[i]]]
  OBVIOUS
<1>5. holds \in [DOMAIN found -> ParsedFiles] /\ \A i \in DOMAIN found : holds[i] = content[found[i]]
  <2>1. \A i \in DOMAIN found : found[i] \in repos
    BY DEF ToSet
  <2>2. \A i \in DOMAIN found : content[found[i]] \in ParsedFiles
    BY <1>2, <2>1
  <2> QED
    BY <1>4, <2>2
<1>6. PICK lists : lists = [i \in DOMAIN found |-> Points(found[i], holds[i])]
  OBVIOUS
<1>7. Collections(lists, STRING)
  BY <1>3, <1>5, <1>6, CollectionsAre
<1>8. PICK rows : rows = Shown(tool, lists, q).rows
  OBVIOUS
<1>9. rows \in {Semantic(lists, q).rows, SearchJson(lists, q).rows}
  BY <1>8 DEF Shown
<1>10. NothingIsMissed(lists, q, rows)
  BY <1>1, <1>7, <1>9, NothingMissed
<1>11. PointLists(found, content) = lists
  BY <1>5, <1>6 DEF PointLists
<1> QED
  BY <1>8, <1>10, <1>11 DEF SearchIsWhole

(* The workspace's own lists.                                              *)
LEMMA WorkspaceTells ==
  ASSUME NEW content \in Contents, NEW q \in Queries
  PROVE  /\ Told(WorkspaceGlob(content, q), Selected(content, q))
         /\ Told(WorkspaceGrep(content, q), MatchingLines(content, q))
<1>1. content \in Seq(File) /\ q \in Query /\ MaxGlob \in Nat
  BY AgentToolsAssumption
<1>2. Told(WorkspaceGlob(content, q), Selected(content, q))
  <2>1. PICK files, list : files = Selected(content, q) /\ list = WorkspaceGlob(content, q)
    OBVIOUS
  <2>2. files \in Seq(Nat)
    BY <1>1, <2>1, ListsAre
  <2>3. /\ list.rows = SubSeq(files, 1, Smaller(MaxGlob, Len(files)))
        /\ list.truncated <=> Len(files) >= MaxGlob
    BY <2>1 DEF WorkspaceGlob
  <2>4. CASE Len(files) >= MaxGlob
    BY <2>1, <2>3, <2>4 DEF Told
  <2>5. CASE ~(Len(files) >= MaxGlob)
    <3>1. Smaller(MaxGlob, Len(files)) = Len(files)
      BY <1>1, <2>2, <2>5 DEF Smaller
    <3>2. list.rows = files
      BY <2>2, <2>3, <3>1, SubSeqFull
    <3> QED
      BY <2>1, <3>2 DEF Told
  <2> QED
    BY <2>4, <2>5
<1>3. Told(WorkspaceGrep(content, q), MatchingLines(content, q))
  <2>1. SubSeq(content, 1, Len(content)) = content
    BY <1>1, SubSeqFull
  <2>2. PICK list : list = WorkspaceGrep(content, q)
    OBVIOUS
  <2>3. list.truncated \/ list.rows = MatchingLines(content, q)
    BY <2>1, <2>2 DEF WorkspaceGrep
  <2> QED
    BY <2>2, <2>3 DEF Told
<1> QED
  BY <1>2, <1>3

(* An answer is right by what was looked through, and by all that was      *)
(* asked for unless an error was swallowed.                                *)
Whole(a) == a.ofSearched /\ (a.ofAsked \/ a.swallowed)

LEMMA WorkspaceIsWhole ==
  ASSUME NEW a \in WorkspaceAnswers
  PROVE  Whole(a)
<1>1. ASSUME NEW q \in Queries
      PROVE  PagesAreWhole(q)
  <2>1. PICK limit \in Nat \ {0} : limit = q.limit
    BY AgentToolsAssumption DEF Query
  <2>2. \A n, offset \in Nat : PageIsWhole(n, offset, limit)
    BY PagesShow
  <2>3. 0..(2 * limit) \subseteq Nat /\ 0..(2 * limit + 1) \subseteq Nat
    OBVIOUS
  <2> QED
    BY <2>1, <2>2, <2>3 DEF PagesAreWhole
<1>2. CASE \E q \in Queries : a = NoError("Read", PagesAreWhole(q))
  <2>1. PICK q \in Queries : a = NoError("Read", PagesAreWhole(q))
    BY <1>2
  <2>2. PagesAreWhole(q)
    BY <1>1
  <2> QED
    BY <2>1, <2>2 DEF Whole, NoError
<1>3. CASE \E content \in Contents : \E q \in Queries :
             \/ a = NoError("Glob", Told(WorkspaceGlob(content, q), Selected(content, q)))
             \/ a = NoError("Grep", Told(WorkspaceGrep(content, q), MatchingLines(content, q)))
  <2>1. PICK content \in Contents : \E q \in Queries :
             \/ a = NoError("Glob", Told(WorkspaceGlob(content, q), Selected(content, q)))
             \/ a = NoError("Grep", Told(WorkspaceGrep(content, q), MatchingLines(content, q)))
    BY <1>3
  <2>2. PICK q \in Queries :
             \/ a = NoError("Glob", Told(WorkspaceGlob(content, q), Selected(content, q)))
             \/ a = NoError("Grep", Told(WorkspaceGrep(content, q), MatchingLines(content, q)))
    BY <2>1
  <2>3. /\ Told(WorkspaceGlob(content, q), Selected(content, q))
        /\ Told(WorkspaceGrep(content, q), MatchingLines(content, q))
    BY WorkspaceTells
  <2> QED
    BY <2>2, <2>3 DEF Whole, NoError
<1> QED
  BY <1>2, <1>3 DEF WorkspaceAnswers

LEMMA SearchIsRight ==
  ASSUME NEW a \in SearchAnswers
  PROVE  Whole(a)
<1>1. PICK p \in {"semantic_search", "search_json"} \X RepoLists \X RepoLists :
         ToSet(p[2]) \subseteq ToSet(p[3]) /\ a = SearchAnswer(p[1], p[2], p[3])
  BY DEF SearchAnswers
<1>2. PICK tool \in {"semantic_search", "search_json"} : tool = p[1]
  OBVIOUS
<1>3. PICK found \in RepoLists : found = p[2]
  OBVIOUS
<1>4. PICK asked : asked = p[3]
  OBVIOUS
<1>5. ToSet(found) \subseteq ToSet(asked) /\ a = SearchAnswer(tool, found, asked)
  BY <1>1, <1>2, <1>3, <1>4
<1>6. \A content \in [ToSet(asked) -> Contents], q \in Queries :
        SearchIsWhole(tool, found, found, content, q)
  BY <1>5, SearchesAreWhole
<1>7. \A content \in Contents : LinesAreFound(content)
  BY AgentToolsAssumption, LinesFound DEF ParsedFiles
<1>8. a.ofSearched
  BY <1>5, <1>6, <1>7 DEF SearchAnswer
<1>9. CASE found = asked
  <2>1. a.ofAsked
    BY <1>5, <1>6, <1>7, <1>9 DEF SearchAnswer
  <2> QED
    BY <1>8, <2>1 DEF Whole
<1>10. CASE found # asked
  <2>1. a.swallowed
    BY <1>5, <1>10 DEF SearchAnswer
  <2> QED
    BY <1>8, <2>1 DEF Whole
<1> QED
  BY <1>9, <1>10

LEMMA ToolIsRight ==
  ASSUME NEW a \in ToolAnswers
  PROVE  Whole(a)
<1>1. ASSUME NEW content \in Contents, NEW q \in Queries
      PROVE  /\ Told(LexicalSearch(content, q, TRUE), MatchingLines(content, q))
             /\ Told(LexicalSearch(content, q, FALSE), <<>>)
             /\ Told(Glob(content, q), Selected(content, q))
             /\ Told(Explore(content, q), Entries(content))
             /\ Told(GetDocs(content, q), SymbolsOf(content, q))
  <2>1. content \in Seq(File) /\ q \in Query
    BY AgentToolsAssumption
  <2> QED
    BY <2>1, ListingsTell DEF Tells, Told
<1>2. ASSUME NEW tool \in ListingTools, NEW content \in Contents, NEW q \in Queries
      PROVE  ListingIsWhole(tool, content, q)
  BY <1>1 DEF ListingIsWhole, ListingTools
<1>3. ASSUME NEW tool \in CountedTools, NEW q \in Queries, NEW n \in 0..(q.limit + q.budget + 1)
      PROVE  CountedIsWhole(tool, n, q)
  <2>1. q \in Query
    BY AgentToolsAssumption
  <2>2. PICK m \in Nat : m = n
    OBVIOUS
  <2>3. /\ Told(GitLog(m, q), Numbered(m)) \/ Len(GitLog(m, q).rows) = q.limit
        /\ Told(GitBranches(m, q), Numbered(m))
        /\ Told(DomainDocs(m, q), Numbered(m))
    BY <2>1, CountsTell DEF Tells, Told
  <2> QED
    BY <2>2, <2>3 DEF CountedIsWhole, CountedTools
<1>4. ASSUME NEW tool \in TextTools, NEW q \in Queries, NEW n \in 0..(2 * TextBudget(q))
      PROVE  TextIsWhole(tool, n, q)
  <2>1. q \in Query
    BY AgentToolsAssumption
  <2>2. PICK m \in Nat : m = n
    OBVIOUS
  <2>3. /\ GitText(tool, m, q).length <= TextBudget(q)
        /\ GitText(tool, m, q).truncated \/ GitText(tool, m, q).length = m
    BY <2>1, TextsTell
  <2> QED
    BY <2>2, <2>3 DEF TextIsWhole
<1>5. ASSUME NEW q \in Queries
      PROVE  PagesAreWhole(q)
  <2>1. PICK limit \in Nat \ {0} : limit = q.limit
    BY AgentToolsAssumption DEF Query
  <2>2. \A n, offset \in Nat : PageIsWhole(n, offset, limit)
    BY PagesShow
  <2>3. 0..(2 * limit) \subseteq Nat /\ 0..(2 * limit + 1) \subseteq Nat
    OBVIOUS
  <2> QED
    BY <2>1, <2>2, <2>3 DEF PagesAreWhole
<1>6. CASE a = LexicalAnswer(TRUE)
  <2>1. a.ofSearched /\ a.ofAsked
    BY <1>1, <1>6 DEF LexicalAnswer
  <2> QED
    BY <2>1 DEF Whole
<1>7. CASE a = LexicalAnswer(FALSE)
  <2>1. a.ofSearched /\ a.swallowed
    BY <1>1, <1>7 DEF LexicalAnswer
  <2> QED
    BY <2>1 DEF Whole
<1>8. CASE \E tool \in ListingTools :
             a = NoError(tool, \A content \in Contents, q \in Queries :
                                 ListingIsWhole(tool, content, q))
  BY <1>2, <1>8 DEF Whole, NoError
<1>9. CASE \E tool \in CountedTools :
             a = NoError(tool, \A q \in Queries : \A n \in 0..(q.limit + q.budget + 1) :
                                 CountedIsWhole(tool, n, q))
  BY <1>3, <1>9 DEF Whole, NoError
<1>10. CASE \E tool \in TextTools :
             a = NoError(tool, \A q \in Queries : \A n \in 0..(2 * TextBudget(q)) :
                                 TextIsWhole(tool, n, q))
  BY <1>4, <1>10 DEF Whole, NoError
<1>11. CASE \E tool \in PageTools : a = NoError(tool, \A q \in Queries : PagesAreWhole(q))
  BY <1>5, <1>11 DEF Whole, NoError
<1>12. \/ a = LexicalAnswer(TRUE) \/ a = LexicalAnswer(FALSE)
       \/ \E tool \in ListingTools :
             a = NoError(tool, \A content \in Contents, q \in Queries :
                                 ListingIsWhole(tool, content, q))
       \/ \E tool \in CountedTools :
             a = NoError(tool, \A q \in Queries : \A n \in 0..(q.limit + q.budget + 1) :
                                 CountedIsWhole(tool, n, q))
       \/ \E tool \in TextTools :
             a = NoError(tool, \A q \in Queries : \A n \in 0..(2 * TextBudget(q)) :
                                 TextIsWhole(tool, n, q))
       \/ \E tool \in PageTools : a = NoError(tool, \A q \in Queries : PagesAreWhole(q))
  BY DEF ToolAnswers
<1> QED
  BY <1>6, <1>7, <1>8, <1>9, <1>10, <1>11, <1>12

(* Every answer that shows rows or a text.                                 *)
LEMMA AllAreWhole ==
  ASSUME NEW a \in WorkspaceAnswers \cup SearchAnswers \cup ToolAnswers
  PROVE  Whole(a)
BY WorkspaceIsWhole, SearchIsRight, ToolIsRight

(* What out says of rows.                                                  *)
RowsAreWhole == out.kind = "rows" => Whole(out)

LEMMA StepIsWhole == RowsAreWhole /\ [Next]_vars => RowsAreWhole'
<1> SUFFICES ASSUME RowsAreWhole, [Next]_vars PROVE RowsAreWhole'
  OBVIOUS
<1>1. CASE UNCHANGED vars
  BY <1>1 DEF vars, RowsAreWhole, Whole
<1>2. ASSUME NEW a \in WorkspaceAnswers \cup SearchAnswers \cup ToolAnswers, NEW o,
             o = Rows(a), out' = o
      PROVE  RowsAreWhole'
  <2>1. Whole(a)
    BY AllAreWhole
  <2>2. Whole(o)
    BY <1>2, <2>1 DEF Rows, Whole
  <2> QED
    BY <1>2, <2>2 DEF RowsAreWhole, Whole
<1>3. ASSUME out'.kind # "rows" PROVE RowsAreWhole'
  BY <1>3 DEF RowsAreWhole
<1>4. ASSUME NEW c \in Calls \cup Web, NEW o, Respond(c, o)
      PROVE  out' = o \/ out' = Nothing
  BY <1>4 DEF Respond, EndCall
<1>5. Nothing.kind # "rows" /\ Error.kind # "rows" /\ Answer.kind # "rows"
  BY DEF Nothing, Error, Answer
<1>6. ASSUME NEW c \in Calls, UseWorkspace(c) PROVE RowsAreWhole'
  <2>1. PICK a \in WorkspaceAnswers : out' = Rows(a)
    BY <1>6 DEF UseWorkspace
  <2> QED
    BY <1>2, <2>1
<1>7. ASSUME NEW c \in Calls \cup Web, Search(c) \/ RunTool(c) PROVE RowsAreWhole'
  <2>1. CASE Respond(c, Error) \/ Respond(c, Answer)
    BY <1>3, <1>4, <1>5, <2>1
  <2>2. CASE \E a \in SearchAnswers \cup ToolAnswers : Respond(c, Rows(a))
    <3>1. PICK a \in SearchAnswers \cup ToolAnswers : Respond(c, Rows(a))
      BY <2>2
    <3> QED
      BY <1>2, <1>3, <1>4, <1>5, <3>1
  <2>3. Search(c) => (Respond(c, Error)
                       \/ \E a \in SearchAnswers : Respond(c, Rows(a)))
    BY DEF Search
  <2>4. RunTool(c) => (Respond(c, Error) \/ Respond(c, Answer)
                        \/ \E a \in ToolAnswers : Respond(c, Rows(a)))
    BY DEF RunTool
  <2> QED
    BY <1>7, <2>1, <2>2, <2>3, <2>4
<1>8. CASE Submit
  <2>1. out'.kind # "rows"
    BY <1>8 DEF Submit
  <2> QED
    BY <1>3, <2>1
<1>9. CASE /\ Next /\ ~Submit /\ \A c \in Calls : ~UseWorkspace(c)
           /\ \A c \in Calls \cup Web : ~Search(c) /\ ~RunTool(c)
  <2>1. PICK kind \in {"session", "tools", "rows"} : kind = "rows"
    OBVIOUS
  <2>2. /\ \A c \in Calls :
             CallStep(c) /\ (Found(c) => kind # "tools") /\ (UseWorkspace(c) => kind # "rows")
               => out'.kind # kind
        /\ \A c \in Calls \cup Web :
             RequestStep(c) /\ (Search(c) \/ RunTool(c) => kind # "rows") => out'.kind # kind
        /\ \A w \in Web : WebAsks(w) => out'.kind # kind
        /\ \A r \in GitHubRepos : ChangeAccess(r) => out'.kind # kind
        /\ Tick => out'.kind # kind
    BY AnswersMove
  <2>3. out'.kind # "rows"
    BY <1>9, <2>1, <2>2 DEF Next
  <2> QED
    BY <1>3, <2>3
<1> QED
  BY <1>1, <1>6, <1>7, <1>8, <1>9

(* Whatever is asked, of whatever the repositories hold and whichever of   *)
(* them fail, an answer leaves out nothing of what was looked through      *)
(* without saying so: a search of tools has the best, a search of code     *)
(* finds what it should (tools.py:123-185), a list or text that is cut     *)
(* tells (formatting.py:114-152, tools.py:327-342, workspace.py:129-204),  *)
(* but for the commits beyond git_log's limit (tools.py:297-300), and a    *)
(* page is full or the last (tools.py:88-97, workspace.py:115-127).  What  *)
(* was asked for and not looked through was of git grep or of a repository *)
(* in a search of all (repo.py:105-107, tools.py:167-173).                 *)
THEOREM AnswersAreWhole == Spec => []AnswersAreComplete
<1>1. Init => RowsAreWhole
  BY DEF Init, Nothing, RowsAreWhole
<1>2. BestAreFound /\ RowsAreWhole => AnswersAreComplete
  BY DEF AnswersAreComplete, RowsAreWhole, Whole
<1> QED
  BY <1>1, <1>2, StepIsWhole, SearchesFindTheBest, PTL DEF Spec
=============================================================================
