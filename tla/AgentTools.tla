----------------------------- MODULE AgentTools -----------------------------
(***************************************************************************)
(* The tools an agent run calls: those the engine sets up for a job        *)
(* (EngineSetup), the router to deferred MCP servers                       *)
(* (engine/engine_core/capabilities/mcp_router.py), and the indexer's      *)
(* server with its check of the caller's repositories against GitHub       *)
(* (indexer/indexer/mcp/tools.py, access.py, github.py), which the web     *)
(* interface asks at the same time (indexer/indexer/app.py).               *)
(*                                                                         *)
(* A call of the agent is served by the engine's event loop and may be     *)
(* given up; the request it sent to the indexer runs on.  The indexer's    *)
(* event loop serves one MCP request at a time, as has_access blocks it;   *)
(* requests of the web interface run in threads.                           *)
(***************************************************************************)
EXTENDS EngineSetup, IndexSearch

CONSTANTS
  Jobs,             (* the jobs that may come                              *)
  Indexer,          (* the name of the indexer's MCP server                *)
  Offer,            (* server name -> how well each of its tools matches   *)
  MaxResults,       (* mcp_search_max_results                              *)
  Calls, Web,       (* calls a run makes at once, requests of the web      *)
  Registered,       (* the indexer's repositories, in their order          *)
  GitHubRepos,      (* those with the URL of a GitHub repository           *)
  Contents,         (* what a repository may hold                          *)
  Queries,
  MaxGlob, MaxGrep, (* caps of the workspace tools                         *)
  TTL, CheckTime    (* 300 s and 8 s                                       *)

ASSUME AgentToolsAssumption ==
  /\ Jobs \subseteq Job
  /\ \A j \in Jobs : \A i \in Deferred(j) : j.servers[i].name \in DOMAIN Offer
  /\ Offer \in [DOMAIN Offer -> Seq(Nat)]
  /\ Registered \in Seq(STRING) /\ IsInjective(Registered)
  /\ GitHubRepos \subseteq ToSet(Registered)
  /\ Contents \subseteq Seq(File) /\ Queries \subseteq Query
  /\ \A content \in Contents : \A f \in DOMAIN content : Parsed(content[f])
  /\ MaxGlob \in Nat /\ MaxGrep \in Nat
  /\ TTL \in Nat /\ CheckTime \in Nat /\ CheckTime < TTL
  /\ MaxResults \in Nat \ {0}
  /\ Indexer \in DOMAIN Offer
  /\ Calls \cap Web = {}

VARIABLES
  session,   (* what the run has got: [tools, remote, deferred]            *)
  catalog,   (* RemoteMcpRouter._catalog                                   *)
  call,      (* where each call of the agent is                            *)
  request,   (* where each request to the indexer is                       *)
  cache,     (* github._cache, for one token                               *)
  grants,    (* the repositories GitHub shows that token                   *)
  granted, denied,  (* history: how long ago GitHub last granted, denied   *)
  out        (* what the last step answered to a caller                    *)

gateVars   == <<cache, denied>>
worldVars  == <<grants, granted>>
vars == <<session, catalog, call, request, gateVars, worldVars, out>>

NoSession  == [tools |-> {}, remote |-> {}, deferred |-> <<>>]
NotFetched == <<-1>>
Idle       == [at |-> "idle"]
None       == [at |-> "none"]
Nothing    == [kind |-> "nothing"]
Error      == [kind |-> "error"]
Answer     == [kind |-> "answer"]

Repos == ToSet(Registered)

(* Times are kept relative to now: how long ago something was, up to TTL,  *)
(* or how long a verdict still lives.                                      *)
Older(age)  == Smaller(age + 1, TTL)
Spent(life) == Larger(life - 1, 0)

Init ==
  /\ session = NoSession
  /\ catalog = [s \in DOMAIN Offer |-> NotFetched]
  /\ call = [c \in Calls |-> Idle]
  /\ request = [c \in Calls \cup Web |-> None]
  /\ cache = [r \in GitHubRepos |-> [allowed |-> FALSE, life |-> 0]]
  /\ grants \in SUBSET GitHubRepos
  /\ granted = [r \in GitHubRepos |-> IF r \in grants THEN 0 ELSE TTL]
  /\ denied  = [r \in GitHubRepos |-> IF r \in grants THEN TTL ELSE 0]
  /\ out = Nothing

-----------------------------------------------------------------------------
(* A run begins: run_job builds the capabilities and asks the SDK.  Of a   *)
(* job the model keeps what the agent gets, and whether it serves the job. *)

SetUps ==
  {[session |-> [tools |-> Workspace(j), remote |-> Names(j, Remote(j)),
                 deferred |-> ServerNames(j)],
    serves  |-> AttachmentsReach(j) /\ ServersReach(j)] : j \in {j \in Jobs : Accepts(j)}}

Submit ==
  /\ session = NoSession
  /\ \E s \in SetUps :
       session' = s.session /\ out' = [kind |-> "session", serves |-> s.serves]
  /\ UNCHANGED <<catalog, call, request, gateVars, worldVars>>

-----------------------------------------------------------------------------
(* The router.                                                             *)

(* Call c is over and the agent gets o.                                    *)
EndCall(c, o) == call' = [call EXCEPT ![c] = Idle] /\ out' = o

(* The model does not reuse c for a new call while the indexer still works *)
(* on a request that was given up.                                         *)
Free(c) == call[c] = Idle /\ request[c] = None

ListServers(c) ==
  /\ Free(c) /\ session.deferred # <<>>
  /\ out' = Answer
  /\ UNCHANGED <<session, catalog, call, request, gateVars, worldVars>>

(* search_tools over all servers or one of a name the agent gives; a wrong *)
(* name is answered with an error.                                         *)
SearchTools(c) ==
  /\ Free(c) /\ session.deferred # <<>>
  /\ \E asked \in {session.deferred} \cup {<<s>> : s \in DOMAIN Offer} :
       IF ToSet(asked) \subseteq ToSet(session.deferred)
         THEN /\ call' = [call EXCEPT ![c] = [at |-> "searching", asked |-> asked,
                            todo |-> asked, failed |-> {}, found |-> <<>>]]
              /\ out' = Nothing
         ELSE EndCall(c, Error)
  /\ UNCHANGED <<session, catalog, request, gateVars, worldVars>>

(* Each tool found is the server's name and the tool's score.              *)
Scored(s, tools) == [i \in DOMAIN tools |-> <<s, tools[i]>>]

Add(c, tools) ==
  LET s == Head(call[c].todo) IN
  [call[c] EXCEPT !.at = "searching", !.todo = Tail(@), !.found = @ \o Scored(s, tools)]

(* _ensure_catalog, when the list is there ...                             *)
FromCatalog(c) ==
  /\ call[c].at = "searching" /\ call[c].todo # <<>>
  /\ catalog[Head(call[c].todo)] # NotFetched
  /\ call' = [call EXCEPT ![c] = Add(c, catalog[Head(call[c].todo)])]
  /\ out' = Nothing
  /\ UNCHANGED <<session, catalog, request, gateVars, worldVars>>

(* ... and when it is not: the router connects, ...                        *)
Connect(c) ==
  /\ call[c].at = "searching" /\ call[c].todo # <<>>
  /\ catalog[Head(call[c].todo)] = NotFetched
  /\ call' = [call EXCEPT ![c].at = "connecting"]
  /\ out' = Nothing
  /\ UNCHANGED <<session, catalog, request, gateVars, worldVars>>

(* ... asks for the list ...                                               *)
Connected(c) ==
  /\ call[c].at = "connecting"
  /\ call' = [call EXCEPT ![c].at = "listing"]
  /\ out' = Nothing
  /\ UNCHANGED <<session, catalog, request, gateVars, worldVars>>

(* ... and keeps it.                                                       *)
ListTools(c) ==
  /\ call[c].at = "listing"
  /\ LET s == Head(call[c].todo) IN
       /\ catalog' = [catalog EXCEPT ![s] = Offer[s]]
       /\ call' = [call EXCEPT ![c] = Add(c, Offer[s])]
  /\ out' = Nothing
  /\ UNCHANGED <<session, request, gateVars, worldVars>>

(* MUTANT of Skip: a server that failed once is not asked again.           *)
SkipForGood(c) ==
  LET s == Head(call[c].todo) IN
  /\ catalog' = [catalog EXCEPT ![s] = <<>>]
  /\ call' = [call EXCEPT ![c].at = "searching", ![c].todo = Tail(@), ![c].failed = @ \cup {s}]

(* One bad server must not sink the search.                                *)
Skip(c) ==
  /\ call' = [call EXCEPT ![c].at = "searching", ![c].todo = Tail(@),
                          ![c].failed = @ \cup {Head(call[c].todo)}]
  /\ UNCHANGED catalog

(* MUTANT of Timeout: waiting is not limited.                              *)
TimeoutNever(c) == FALSE /\ UNCHANGED vars

(* wait_for gives up a server that does not answer within the timeout.     *)
Timeout(c) ==
  /\ \/ call[c].at = "listing" /\ Skip(c) /\ out' = Nothing
     \/ call[c].at = "calling" /\ EndCall(c, Error) /\ UNCHANGED catalog
  /\ UNCHANGED <<session, request, gateVars, worldVars>>

(* Connecting, listing or calling raises.                                  *)
Fails(c) ==
  /\ \/ call[c].at \in {"connecting", "listing"} /\ Skip(c) /\ out' = Nothing
     \/ call[c].at \in {"dialing", "calling"} /\ EndCall(c, Error) /\ UNCHANGED catalog
  /\ UNCHANGED <<session, request, gateVars, worldVars>>

(* The MaxResults best tools, in the order of discovery where they tie.    *)
Ranked(found) == Best(found, [i \in DOMAIN found |-> found[i][2]], MaxResults)

Found(c) ==
  /\ call[c].at = "searching" /\ call[c].todo = <<>>
  /\ EndCall(c, [kind |-> "tools", asked |-> call[c].asked, failed |-> call[c].failed,
                 tools |-> Ranked(call[c].found)])
  /\ UNCHANGED <<session, catalog, request, gateVars, worldVars>>

(* call_tool: the router connects to a deferred server and passes on.      *)
CallTool(c) ==
  /\ Free(c) /\ session.deferred # <<>>
  /\ \E s \in DOMAIN Offer :
       IF s \in ToSet(session.deferred)
         THEN /\ call' = [call EXCEPT ![c] = [at |-> "dialing", server |-> s]]
              /\ out' = Nothing
         ELSE EndCall(c, Error)
  /\ UNCHANGED <<session, catalog, request, gateVars, worldVars>>

(* A native server is called by the SDK, without a timeout of the engine.  *)
CallNative(c) ==
  /\ Free(c)
  /\ \E s \in session.remote \cap DOMAIN Offer :
       call' = [call EXCEPT ![c] = [at |-> "native", server |-> s]]
  /\ out' = Nothing
  /\ UNCHANGED <<session, catalog, request, gateVars, worldVars>>

Dialed(c) ==
  /\ call[c].at = "dialing"
  /\ call' = [call EXCEPT ![c].at = "calling"]
  /\ out' = Nothing
  /\ UNCHANGED <<session, catalog, request, gateVars, worldVars>>

(* A server other than the indexer answers, with isError or without.       *)
Answered(c) ==
  /\ call[c].at \in {"calling", "native"} /\ call[c].server # Indexer
  /\ \E o \in {Answer, Error} : EndCall(c, o)
  /\ UNCHANGED <<session, catalog, request, gateVars, worldVars>>

(* The workspace's own tools answer at once; the model lets them read the  *)
(* contents the mirrors of the indexer hold.                               *)
WorkspaceGlob(content, q) ==
  LET files == Selected(content, q) IN
  [rows |-> SubSeq(files, 1, Smaller(MaxGlob, Len(files))), truncated |-> Len(files) >= MaxGlob]

(* Grep counts after each file, and shows all lines of the file it stops at. *)
WorkspaceGrep(content, q) ==
  LET lines(n) == MatchingLines(SubSeq(content, 1, n), q)
      stops == {n \in DOMAIN content : Len(lines(n)) >= MaxGrep} IN
  IF stops = {} THEN [rows |-> lines(Len(content)), truncated |-> FALSE]
  ELSE [rows |-> lines(CHOOSE n \in stops : \A m \in stops : n <= m), truncated |-> TRUE]

(* A list is whole, or says that it is cut.                                *)
Told(list, all) == list.truncated \/ list.rows = all

(* Of an answer is kept whether it is right by what was looked through,    *)
(* whether by all that was asked for, and whether the two differ because   *)
(* an error was swallowed.  NoError is an answer without such an error.    *)
NoError(t, right) == [tool |-> t, ofSearched |-> right, ofAsked |-> right, swallowed |-> FALSE]

Rows(a) == [kind |-> "rows", ofSearched |-> a.ofSearched, ofAsked |-> a.ofAsked,
            swallowed |-> a.swallowed]

(* Pages around the end of a file of n lines.                              *)
PagesAreWhole(q) ==
  \A n \in 0..(2 * q.limit), offset \in 0..(2 * q.limit + 1) : PageIsWhole(n, offset, q.limit)

(* What of a workspace the tools show; a content is what can be read of it. *)
WorkspaceAnswers ==
  {NoError("Read", PagesAreWhole(q)) : q \in Queries}
  \cup {NoError("Glob", Told(WorkspaceGlob(content, q), Selected(content, q))) :
          content \in Contents, q \in Queries}
  \cup {NoError("Grep", Told(WorkspaceGrep(content, q), MatchingLines(content, q))) :
          content \in Contents, q \in Queries}

UseWorkspace(c) ==
  /\ Free(c)
  /\ \E a \in WorkspaceAnswers : a.tool \in session.tools /\ out' = Rows(a)
  /\ UNCHANGED <<session, catalog, call, request, gateVars, worldVars>>

-----------------------------------------------------------------------------
(* A request to the indexer.                                               *)

(* The tools of its server and the arguments each requires.                *)
IndexerTools ==
  [semantic_search |-> {"query"},       get_chunk       |-> {"repo"},
   lexical_search  |-> {"pattern", "repo"}, glob        |-> {"pattern", "repo"},
   read_range      |-> {"path", "repo"}, explore        |-> {"repo"},
   git_log         |-> {"repo"},         git_branches   |-> {"repo"},
   git_blame       |-> {"repo", "path"}, git_diff       |-> {"repo", "from_rev", "to_rev"},
   git_show        |-> {"repo", "rev"},  git_file_at_rev |-> {"repo", "path", "rev"},
   get_overview    |-> {"repo"},         get_docs       |-> {"repo"},
   get_domain_docs |-> {"repo"},         list_repos     |-> {}]

OfOneRepo == {t \in DOMAIN IndexerTools : "repo" \in IndexerTools[t]}
ListingTools == {"glob", "explore", "get_docs"}
CountedTools == {"git_log", "git_branches", "get_domain_docs"}
TextTools == {"git_blame", "git_diff", "git_show", "git_file_at_rev"}
PageTools == {"read_range", "get_chunk"}

(* What a request is for: a search of all repositories or of some named,   *)
(* the list of repositories, or a tool for one of them.  Which of them, and *)
(* which tool, matters only once it is decided.                            *)
McpKinds == {"search_all", "search_repo", "list_repos", "one_repo"}
Searches == {"search_all", "search_repo", "search_json"}

AllRepos == "all repositories"
Named    == "the repository named"
Filter   == "the repositories searched"

(* repos_for_token looks at the repositories of GitHub in their order.     *)
ToCheck(auth) ==
  LET places == {i \in DOMAIN Registered : Registered[i] \in GitHubRepos} IN
  IF auth = "token"
    THEN Sublist(Registered, places)
    ELSE <<>>

(* What has to be decided before the tool runs: dispatch asks for the      *)
(* repository named, a search filters what it looks in, and list_repos     *)
(* asks for each repository anew.                                          *)
Plan(kind) ==
  (IF kind \in {"search_repo", "one_repo"} THEN <<Named>> ELSE <<>>)
  \o (IF kind \in Searches THEN <<Filter>> ELSE <<>>)
  \o (IF kind = "list_repos" THEN Registered ELSE <<>>)

Fresh(kind, auth) ==
  [at |-> "checking", kind |-> kind, repo |-> AllRepos, auth |-> auth,
   plan |-> Plan(kind), todo |-> ToCheck(auth), allowed |-> {},
   age |-> 0, verdict |-> FALSE]

Auths == {"all", "token", "none"}

(* dispatch takes the request; the event loop is free for it.              *)
Arrive(c) ==
  /\ call[c].at \in {"calling", "native"} /\ call[c].server = Indexer
  /\ \A other \in Calls : request[other] = None
  /\ \E kind \in McpKinds, auth \in Auths :
       request' = [request EXCEPT ![c] = Fresh(kind, auth)]
  /\ out' = Nothing
  /\ UNCHANGED <<session, catalog, call, gateVars, worldVars>>

(* POST /v1/search                                                         *)
WebAsks(w) ==
  /\ request[w] = None
  /\ \E auth \in Auths : request' = [request EXCEPT ![w] = Fresh("search_json", auth)]
  /\ out' = Nothing
  /\ UNCHANGED <<session, catalog, call, gateVars, worldVars>>

(* has_access, when the cache knows ...                                    *)
Cached(c) ==
  /\ request[c].at = "checking" /\ request[c].todo # <<>>
  /\ LET r == Head(request[c].todo) IN
       /\ cache[r].life > 0
       /\ request' = [request EXCEPT ![c].todo = Tail(@),
                        ![c].allowed = IF cache[r].allowed THEN @ \cup {r} ELSE @]
  /\ out' = Nothing
  /\ UNCHANGED <<session, catalog, call, gateVars, worldVars>>

(* ... and when it does not: GitHub is asked, ...                          *)
AskGitHub(c) ==
  /\ request[c].at = "checking" /\ request[c].todo # <<>>
  /\ cache[Head(request[c].todo)].life = 0
  /\ request' = [request EXCEPT ![c].at = "asking"]
  /\ out' = Nothing
  /\ UNCHANGED <<session, catalog, call, gateVars, worldVars>>

(* ... it answers, or there is an error or timeout, which counts as no; ... *)
GitHubAnswers(c) ==
  /\ request[c].at = "asking"
  /\ LET r == Head(request[c].todo) IN
       \E verdict \in BOOLEAN :
         /\ verdict => r \in grants
         /\ request' = [request EXCEPT ![c].at = "storing", ![c].verdict = verdict]
         /\ denied' = IF verdict THEN denied ELSE [denied EXCEPT ![r] = 0]
  /\ out' = Nothing
  /\ UNCHANGED <<session, catalog, call, cache, worldVars>>

(* MUTANT of Life: the verdict lives from when it is stored.             *)
LifeFromNow(c) == TTL

(* The verdict lives from when GitHub is asked.                            *)
Life(c) == Larger(0, TTL - request[c].age)

(* ... and the verdict is kept.                                            *)
StoreVerdict(c) ==
  /\ request[c].at = "storing"
  /\ LET r == Head(request[c].todo)
         v == request[c].verdict IN
       /\ cache' = [cache EXCEPT ![r] = [allowed |-> v, life |-> Life(c)]]
       /\ request' = [request EXCEPT ![c].at = "checking", ![c].todo = Tail(@),
                        ![c].allowed = IF v THEN @ \cup {r} ELSE @,
                        ![c].age = 0, ![c].verdict = FALSE]
  /\ out' = Nothing
  /\ UNCHANGED <<session, catalog, call, denied, worldVars>>

-----------------------------------------------------------------------------
(* Its answer.                                                             *)

(* allowed_repo_ids                                                        *)
MayRead(c) == IF request[c].auth = "all" THEN Repos ELSE request[c].allowed

Decided(c) ==
  request[c].at = "checking" /\ request[c].todo = <<>> /\ request[c].plan # <<>>

(* The request is answered with o; who has given up does not hear it.      *)
Respond(c, o) ==
  /\ request' = [request EXCEPT ![c] = None]
  /\ IF c \in Web THEN out' = o /\ UNCHANGED call
     ELSE IF call[c].at \in {"calling", "native"} THEN EndCall(c, o)
     ELSE out' = Nothing /\ UNCHANGED call

NextDecision(c) ==
  [request[c] EXCEPT !.plan = Tail(@), !.todo = ToCheck(request[c].auth), !.allowed = {}]

(* dispatch refuses a repository the caller may not read.                  *)
Gate(c) ==
  /\ Decided(c) /\ Head(request[c].plan) = Named
  /\ \E repo \in Repos :
       IF repo \notin MayRead(c) THEN Respond(c, Error)
       ELSE /\ request' = [request EXCEPT ![c] =
                 IF request[c].kind = "one_repo"
                   THEN [request[c] EXCEPT !.at = "running", !.plan = <<>>]
                   ELSE [NextDecision(c) EXCEPT !.repo = repo]]
            /\ out' = Nothing /\ UNCHANGED call
  /\ UNCHANGED <<session, catalog, gateVars, worldVars>>

(* list_repos shows a repository if the caller may read it, and goes on    *)
(* with the next.                                                          *)
ListRepo(c) ==
  /\ Decided(c) /\ Head(request[c].plan) \in Repos
  /\ IF Len(request[c].plan) > 1
       THEN request' = [request EXCEPT ![c] = NextDecision(c)] /\ out' = Nothing /\ UNCHANGED call
       ELSE Respond(c, Answer)
  /\ UNCHANGED <<session, catalog, gateVars, worldVars>>

(* The repositories a search looks in; the caller names those it wants, or *)
(* none, and those it may not read are left out.                           *)
Wanted(c) ==
  IF request[c].kind = "search_all" THEN {AllRepos}
  ELSE IF request[c].kind = "search_repo" THEN {request[c].repo}
  ELSE Repos \cup {AllRepos}

Targets(c, repo) ==
  IF repo = AllRepos
    THEN Sublist(Registered, {i \in DOMAIN Registered : Registered[i] \in MayRead(c)})
    ELSE IF repo \in MayRead(c) THEN <<repo>> ELSE <<>>

(* _search_hits and its callers: each collection that is there, with its   *)
(* content, is searched.                                                   *)
Shown(tool, lists, q) ==
  IF tool = "search_json" THEN SearchJson(lists, q) ELSE Semantic(lists, q)

PointLists(repos, content) == [i \in DOMAIN repos |-> Points(repos[i], content[repos[i]])]

(* A search that looks in the repositories `found` and should have in      *)
(* `asked` shows what it should of the latter.                             *)
SearchIsWhole(tool, found, asked, content, q) ==
  NothingIsMissed(PointLists(asked, content), q, Shown(tool, PointLists(found, content), q).rows)

RepoLists == {Sublist(Registered, places) : places \in SUBSET DOMAIN Registered}

SearchAnswer(tool, found, asked) ==
  LET isWhole(repos) ==
        /\ \A content \in Contents : LinesAreFound(content)
        /\ \A content \in [ToSet(asked) -> Contents], q \in Queries :
             SearchIsWhole(tool, found, repos, content, q) IN
  [tool |-> tool, found |-> found, asked |-> asked, ofSearched |-> isWhole(found),
   ofAsked |-> isWhole(asked), swallowed |-> found # asked]

SearchAnswers ==
  {SearchAnswer(p[1], p[2], p[3]) :
     p \in {p \in {"semantic_search", "search_json"} \X RepoLists \X RepoLists :
              ToSet(p[2]) \subseteq ToSet(p[3])}}

(* The query is embedded, which may fail.  A repository that raises an     *)
(* error, such as that it has no collection, is skipped and no one is      *)
(* told, unless the caller named it: then that is the answer.              *)
Search(c) ==
  /\ Decided(c) /\ Head(request[c].plan) = Filter
  /\ \/ Respond(c, Error)
     \/ \E a \in SearchAnswers, repo \in Wanted(c) :
          /\ a.tool = "search_json" <=> c \in Web
          /\ a.asked = Targets(c, repo)
          /\ repo # AllRepos => a.found = a.asked
          /\ Respond(c, Rows(a))
  /\ UNCHANGED <<session, catalog, gateVars, worldVars>>

(* The tools that read one repository's mirror or its documents: each      *)
(* lists something, shows a page of a file, or a text of n characters of   *)
(* which the budget may cut the end.                                       *)
ListingIsWhole(tool, content, q) ==
  CASE tool = "glob"     -> Told(Glob(content, q), Selected(content, q))
    [] tool = "explore"  -> Told(Explore(content, q), Entries(content))
    [] tool = "get_docs" -> Told(GetDocs(content, q), SymbolsOf(content, q))

(* git_log does not tell that there are more commits than the limit.       *)
CountedIsWhole(tool, n, q) ==
  CASE tool = "git_log"         -> Told(GitLog(n, q), Numbered(n)) \/ Len(GitLog(n, q).rows) = q.limit
    [] tool = "git_branches"    -> Told(GitBranches(n, q), Numbered(n))
    [] tool = "get_domain_docs" -> Told(DomainDocs(n, q), Numbered(n))

TextIsWhole(tool, n, q) ==
  LET text == GitText(tool, n, q) IN
  text.length <= TextBudget(q) /\ (text.truncated \/ text.length = n)

(* Where git grep fails nothing was looked through.                        *)
LexicalAnswer(ok) ==
  LET isWhole(fails) == \A content \in Contents, q \in Queries :
        Told(LexicalSearch(content, q, ok), IF fails THEN <<>> ELSE MatchingLines(content, q)) IN
  [tool |-> "lexical_search", ofSearched |-> isWhole(~ok), ofAsked |-> isWhole(FALSE),
   swallowed |-> ~ok]

ToolAnswers ==
  {LexicalAnswer(ok) : ok \in BOOLEAN}
  \cup {NoError(tool, \A content \in Contents, q \in Queries : ListingIsWhole(tool, content, q)) :
          tool \in ListingTools}
  \cup {NoError(tool, \A q \in Queries : \A n \in 0..(q.limit + q.budget + 1) :
                       CountedIsWhole(tool, n, q)) : tool \in CountedTools}
  \cup {NoError(tool, \A q \in Queries : \A n \in 0..(2 * TextBudget(q)) : TextIsWhole(tool, n, q)) :
          tool \in TextTools}
  \cup {NoError(tool, \A q \in Queries : PagesAreWhole(q)) : tool \in PageTools}

(* It answers with an error when the mirror or the documents are missing,  *)
(* an argument is, or git fails; get_overview with an object.              *)
RunTool(c) ==
  /\ request[c].at = "running"
  /\ \E o \in {Error, Answer} \cup {Rows(a) : a \in ToolAnswers} : Respond(c, o)
  /\ UNCHANGED <<session, catalog, gateVars, worldVars>>

-----------------------------------------------------------------------------
(* The world.                                                              *)

(* Time passes, but a check of GitHub takes at most CheckTime.             *)
AtGitHub(c) == request[c].at \in {"asking", "storing"}

Tick ==
  /\ \A c \in DOMAIN request : AtGitHub(c) => request[c].age < CheckTime
  /\ request' = [c \in DOMAIN request |->
                   IF AtGitHub(c) THEN [request[c] EXCEPT !.age = @ + 1] ELSE request[c]]
  /\ cache'   = [r \in GitHubRepos |-> [cache[r] EXCEPT !.life = Spent(@)]]
  /\ granted' = [r \in GitHubRepos |-> IF r \in grants THEN 0 ELSE Older(granted[r])]
  /\ denied'  = [r \in GitHubRepos |-> IF r \in grants THEN Older(denied[r]) ELSE 0]
  /\ out' = Nothing
  /\ UNCHANGED <<session, catalog, call, grants>>

(* A repository is shared with the user, or no longer.                     *)
ChangeAccess(r) ==
  /\ grants' = IF r \in grants THEN grants \ {r} ELSE grants \cup {r}
  /\ granted' = [granted EXCEPT ![r] = 0]
  /\ denied'  = [denied EXCEPT ![r] = 0]
  /\ out' = Nothing
  /\ UNCHANGED <<session, catalog, call, request, cache>>

RouterStep(c) ==
  \/ FromCatalog(c) \/ Connect(c) \/ Connected(c) \/ ListTools(c)
  \/ Timeout(c) \/ Fails(c) \/ Found(c) \/ Dialed(c) \/ Answered(c)

CallStep(c) ==
  \/ ListServers(c) \/ SearchTools(c) \/ CallTool(c) \/ CallNative(c) \/ UseWorkspace(c)
  \/ RouterStep(c) \/ Arrive(c)

RequestStep(c) ==
  \/ Cached(c) \/ AskGitHub(c) \/ GitHubAnswers(c) \/ StoreVerdict(c)
  \/ Gate(c) \/ ListRepo(c) \/ Search(c) \/ RunTool(c)

Next ==
  \/ Submit \/ Tick
  \/ \E c \in Calls : CallStep(c)
  \/ \E w \in Web : WebAsks(w)
  \/ \E c \in Calls \cup Web : RequestStep(c)
  \/ \E r \in GitHubRepos : ChangeAccess(r)

(* The engine and the indexer go on with what they have; connecting to a   *)
(* server ends; a native server answers; nothing makes a deferred one      *)
(* answer, but the timeout.  The indexer takes requests in turn.           *)
Fairness ==
  /\ \A c \in Calls :
       /\ WF_vars(FromCatalog(c)) /\ WF_vars(Connect(c)) /\ WF_vars(Found(c))
       /\ WF_vars(call[c].at \in {"connecting", "dialing"} /\ (Connected(c) \/ Dialed(c) \/ Fails(c)))
       /\ WF_vars(Timeout(c))
       /\ WF_vars(call[c].at = "native" /\ Answered(c))
       /\ SF_vars(Arrive(c))
  /\ \A c \in Calls \cup Web : WF_vars(RequestStep(c))

Spec == Init /\ [][Next]_vars /\ Fairness

-----------------------------------------------------------------------------
(* Properties.                                                             *)

Session == [tools : SUBSET WorkspaceTools, remote : SUBSET STRING,
            deferred : Seq(DOMAIN Offer)]

SearchCall == [at : {"searching", "connecting", "listing"}, asked : Seq(DOMAIN Offer),
               todo : Seq(DOMAIN Offer), failed : SUBSET DOMAIN Offer,
               found : Seq((DOMAIN Offer) \X Nat)]
ToolCall   == [at : {"dialing", "calling", "native"}, server : DOMAIN Offer]

Request ==
  [at : {"checking", "asking", "storing", "running"}, kind : McpKinds \cup Searches,
   repo : Repos \cup {AllRepos}, auth : Auths, plan : Seq(Repos \cup {Named, Filter}),
   todo : Seq(GitHubRepos), allowed : SUBSET GitHubRepos, age : 0..CheckTime,
   verdict : BOOLEAN]

(* Every variable keeps its type; a call that lists or connects has a      *)
(* server left to ask, and a request that asks GitHub has a repository.    *)
TypeOK ==
  /\ session \in Session
  /\ catalog \in [DOMAIN Offer -> {NotFetched} \cup Seq(Nat)]
  /\ \A s \in DOMAIN Offer : catalog[s] \in {NotFetched, Offer[s]}
  /\ call \in [Calls -> {Idle} \cup SearchCall \cup ToolCall]
  /\ \A c \in Calls : call[c].at \in {"connecting", "listing"} => call[c].todo # <<>>
  /\ request \in [Calls \cup Web -> {None} \cup Request]
  /\ \A c \in Calls \cup Web :
       request[c].at \in {"asking", "storing"} => request[c].todo # <<>>
  /\ cache \in [GitHubRepos -> [allowed : BOOLEAN, life : 0..TTL]]
  /\ grants \subseteq GitHubRepos
  /\ granted \in [GitHubRepos -> 0..TTL] /\ denied \in [GitHubRepos -> 0..TTL]

(* What the engine sets up for any job it accepts lets the agent open each *)
(* attachment of the message it sends, the last, and reach each server of  *)
(* the job by its own name, but one whose name is a server's of the engine *)
(* or of another one that is reached; and never replaces or forgets a      *)
(* server of the engine's (runner.py:85-113, runtime.py:103-131,           *)
(* sdk_adapters.py:48-68, mcp_router.py:50-59).                            *)
SetupServesJob == out.kind = "session" => out.serves

(* Request c goes past repository r, allowed or not.                       *)
Decides(c, r) ==
  /\ request[c] # None /\ request[c].todo # <<>> /\ Head(request[c].todo) = r
  /\ request'[c].todo # request[c].todo

(* Whoever decides on a repository for a token, from the cache or from     *)
(* GitHub's answer, decides as GitHub did less than TTL ago, however long  *)
(* the check took and whoever else asked meanwhile (github.py:33-41).      *)
GateIsFresh ==
  [][\A c \in Calls \cup Web, r \in GitHubRepos :
       Decides(c, r) => (IF r \in request'[c].allowed THEN granted[r] ELSE denied[r]) < TTL]_vars

(* What the first n of the servers asked offer, one after the other, if    *)
(* those that failed offer nothing.                                        *)
Offered(asked, failed) ==
  LET offered[n \in 0..Len(asked)] ==
        IF n = 0 THEN <<>>
        ELSE IF asked[n] \in failed THEN offered[n - 1]
        ELSE offered[n - 1] \o Scored(asked[n], Offer[asked[n]]) IN
  offered

(* A search of tools has the best of every server asked that did not fail  *)
(* during it (mcp_router.py:127-149).                                      *)
BestAreFound ==
  out.kind = "tools" =>
    out.tools = Ranked(Offered(out.asked, out.failed)[Len(out.asked)])

(* An answer leaves out nothing of what was looked through without saying  *)
(* so: a search of tools has the best, a search of code finds what it      *)
(* should (tools.py:123-185), a list or text that is cut tells             *)
(* (formatting.py:114-152, tools.py:327-342, workspace.py:129-204), but    *)
(* for git_log, which at its limit does not (tools.py:297-300), and a page *)
(* of a file is full or the last (tools.py:88-97, workspace.py:115-127).   *)
(* And all that was asked for was looked through, unless an error was      *)
(* swallowed: of git grep (repo.py:105-107) or of a repository in a search *)
(* of all (tools.py:167-173).                                              *)
AnswersAreComplete ==
  /\ BestAreFound
  /\ out.kind = "rows" => out.ofSearched /\ (out.ofAsked \/ out.swallowed)

(* Every call of the agent ends, though a deferred server or GitHub never  *)
(* answers, and so does every request of the web interface                 *)
(* (mcp_router.py:97,174-180, github.py:50-57, tools.py:487-494).          *)
CallsAreAnswered ==
  /\ \A c \in Calls : call[c] # Idle ~> call[c] = Idle
  /\ \A w \in Web : request[w] # None ~> request[w] = None
=============================================================================
