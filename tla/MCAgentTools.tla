---------------------------- MODULE MCAgentTools ----------------------------
(* Instance of AgentTools for TLC: jobs with each kind of attachment and   *)
(* server name, one GitHub and one local repository, and files around the  *)
(* size of a window, a batch and an over-fetch.                            *)
EXTENDS AgentTools

MCRoot == <<"workspace">>

In(name)  == [abs |-> TRUE, parts |-> <<"workspace", name>>]
Attach    == [kind : {"image", "file"},
              path : {In("a"), [abs |-> TRUE, parts |-> <<"etc">>]},
              there : BOOLEAN, small : {FALSE}]
             \cup {[kind |-> "image", path |-> In("b"), there |-> TRUE, small |-> TRUE]}
Texts     == [text |-> TRUE, attachments |-> <<>>]
Blank     == [text |-> FALSE, attachments |-> <<>>]
With(a)   == [text |-> FALSE, attachments |-> <<a>>]
Messages  == {<<Texts>>, <<Blank>>} \cup {<<Texts, With(a)>> : a \in Attach}
             \cup {<<With(a), Texts>> : a \in Attach}
Server(n, d) == [name |-> n, deferred |-> d]
Servers   == {<<Server("workspace", FALSE), Server("index", FALSE),
                Server("web", TRUE), Server("index", FALSE), Server("mcp_router", FALSE)>>,
              <<Server("index", TRUE), Server("web", FALSE), Server("web", TRUE),
                Server("index", TRUE)>>}
JobOf(m, t, mode, s) == [messages |-> m, tools |-> t, mode |-> mode, servers |-> s]
MCJobs ==
  {JobOf(m, {"Read", "Glob", "Grep", "AskChoice"}, "dontAsk", s) : m \in Messages, s \in Servers}
  \cup {JobOf(m, {"Read"}, "default", CHOOSE s \in Servers : ~Head(s).deferred) : m \in Messages}
  \cup {JobOf(m, {}, "default", CHOOSE s \in Servers : ~Head(s).deferred) : m \in Messages}

MCOffer == [index |-> <<2, 1>>, web |-> <<2>>]

MCRegistered == <<"g1", "l1">>

FileOf(n, symbols, code, under) ==
  [lines |-> n, symbols |-> symbols, code |-> code, under |-> under]
MCContents ==
  {<<FileOf(0, <<>>, TRUE, TRUE), FileOf(5, <<>>, FALSE, TRUE), FileOf(3, <<>>, TRUE, FALSE)>>,
   <<FileOf(6, <<[from |-> 1, to |-> 4], [from |-> 6, to |-> 6]>>, TRUE, TRUE),
     FileOf(1, <<>>, TRUE, TRUE)>>,
   <<FileOf(1, <<[from |-> 1, to |-> 1], [from |-> 1, to |-> 1]>>, FALSE, FALSE),
     FileOf(2, <<>>, FALSE, FALSE), FileOf(4, <<>>, TRUE, TRUE)>>}
QueryOf(limit, budget, codeOnly, prefix) ==
  [limit |-> limit, budget |-> budget, codeOnly |-> codeOnly, prefix |-> prefix]
MCQueries == {QueryOf(1, 3, TRUE, FALSE), QueryOf(2, 4, FALSE, TRUE), QueryOf(3, 9, TRUE, TRUE)}
=============================================================================
