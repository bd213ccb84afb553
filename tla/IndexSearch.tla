---------------------------- MODULE IndexSearch ----------------------------
(***************************************************************************)
(* From a file to a search result, as the indexer computes it: chunks      *)
(* (indexer/indexer/chunking/chunker.py), batches of embedding requests    *)
(* (embedding/_batching.py), points (pipeline/indexer.py), the query of a  *)
(* collection (store/qdrant.py), the fan-out over repositories and the     *)
(* rows of an answer (mcp/tools.py, mcp/formatting.py).                    *)
(*                                                                         *)
(* The content of a repository is a sequence of files, best match first:   *)
(* the similarity of vectors is the embedding's business.  Of the filters  *)
(* of a query there are the prefix and code_only; those by language,       *)
(* symbol_kind, content_type and min_score (0 unless asked for) are left   *)
(* out, and so are generated documents, which code_only never drops.       *)
(***************************************************************************)
EXTENDS Lists

CONSTANTS
  WindowLines, Overlap,               (* _MAX_LINES and _OVERLAP           *)
  BatchItems, BatchTokens, InputMax,  (* caps of an embedding request      *)
  FetchFactor, FetchFloor, FetchCap,  (* over-fetching: 4, 40 and 200      *)
  TextFloor                           (* least budget of a text: 200       *)

ASSUME IndexSearchAssumption ==
  /\ WindowLines \in Nat \ {0} /\ Overlap \in Nat
  /\ BatchItems \in Nat \ {0} /\ InputMax \in Nat \ {0}
  /\ BatchTokens \in Nat /\ InputMax <= BatchTokens
  /\ FetchFactor \in Nat \ {0} /\ FetchFloor \in Nat \ {0} /\ FetchCap \in Nat \ {0}
  /\ TextFloor \in Nat

(* A file: its lines, its top-level symbols if a grammar knows its         *)
(* language, whether its language is code, and whether its path has the    *)
(* prefix that queries ask for.                                            *)
Symbol == [from : Nat \ {0}, to : Nat \ {0}]
File   == [lines : Nat, symbols : Seq(Symbol), code : BOOLEAN, under : BOOLEAN]

(* The symbols are nodes of a tree one beside the other: they lie in the   *)
(* file, and one may begin on the line where the one before it ends.       *)
Parsed(file) ==
  \A i \in DOMAIN file.symbols :
    LET s == file.symbols[i] IN
    s.from <= s.to /\ s.to <= file.lines /\ (i > 1 => file.symbols[i - 1].to <= s.from)

(* What is asked: how many rows, of how many tokens, whether only of code, *)
(* and whether only below the prefix.                                      *)
Query == [limit : Nat \ {0}, budget : Nat, codeOnly : BOOLEAN, prefix : BOOLEAN]

(* _line_windows over the lines from..to: windows start every Stride       *)
(* lines, and the first that reaches the end is the last.                  *)
Stride == Larger(1, WindowLines - Overlap)

Windows(from, to) ==
  LET reaches(k) == from + (k - 1) * Stride + WindowLines > to
      count == CHOOSE k \in 1..Larger(1, to) :
                 reaches(k) /\ \A m \in 1..(k - 1) : ~reaches(m) IN
  IF to < from THEN <<>>
  ELSE [k \in 1..count |->
          [from |-> from + (k - 1) * Stride,
           to   |-> Smaller(to, from + (k - 1) * Stride + WindowLines - 1)]]

(* walk_symbols: a symbol is a chunk, an oversized one is cut in windows.  *)
(* Windows does both: it leaves what fits in one piece.                    *)
SymbolChunks(symbols) ==
  FlattenSeq([i \in DOMAIN symbols |-> Windows(symbols[i].from, symbols[i].to)])

(* chunk_blob                                                              *)
Chunks(file) ==
  IF file.symbols # <<>> THEN SymbolChunks(file.symbols) ELSE Windows(1, file.lines)

(* prepare_batches, a token for each line of a chunk.                      *)
Tokens(chunk)    == Smaller(chunk.to - chunk.from + 1, InputMax)
TokensOf(chunks) ==
  SumTo([i \in DOMAIN chunks |-> Tokens(chunks[i])])[Len(chunks)]

Pack(done, c) ==
  IF done # <<>> /\ Len(Last(done)) < BatchItems
       /\ TokensOf(Last(done)) + Tokens(c) <= BatchTokens
    THEN Append(Front(done), Append(Last(done), c))
    ELSE Append(done, <<c>>)

Packed(chunks) ==
  LET packed[n \in 0..Len(chunks)] ==
        IF n = 0 THEN <<>> ELSE Pack(packed[n - 1], chunks[n]) IN
  packed

Batches(chunks) == Packed(chunks)[Len(chunks)]

(* embed_documents: the vectors of the batches, one after the other.       *)
Vectors(chunks) == FlattenSeq(Batches(chunks))

(* The points of repository r: chunk and vector, best match first.         *)
Pieces(content) ==
  FlattenSeq([f \in DOMAIN content |-> [k \in DOMAIN Chunks(content[f]) |-> <<f, k>>]])

Points(r, content) ==
  [n \in DOMAIN Pieces(content) |->
     LET file == content[Pieces(content)[n][1]]
         k    == Pieces(content)[n][2] IN
     [repo |-> r, rank |-> n, lines |-> Chunks(file)[k], vector |-> Vectors(Chunks(file))[k],
      code |-> file.code, under |-> file.under]]

-----------------------------------------------------------------------------
(* A query of some repositories.                                           *)

(* MUTANT of FetchK: as many as are asked for.                             *)
Fetch1(limit) == limit

FetchK(limit) == Smaller(Larger(limit * FetchFactor, FetchFloor), FetchCap)

Matches(p, q) == (q.prefix => p.under) /\ (q.codeOnly => p.code)

(* QdrantStore.search: the best points, of which those under the prefix.   *)
StoreSearch(points, q, k) ==
  Sublist(points, {n \in 1..Smaller(k, Len(points)) : q.prefix => points[n].under})

(* The k best of a list by their scores; equals stay in order.             *)
Best(list, scores, k) ==
  LET before(i, j) == scores[i] > scores[j] \/ (scores[i] = scores[j] /\ i < j)
      place(i) == 1 + Cardinality({j \in DOMAIN list : before(j, i)}) IN
  [n \in 1..Smaller(k, Len(list)) |->
     list[CHOOSE i \in DOMAIN list : place(i) = n]]

(* The vectors' scores: repositories take turns.                           *)
Score(p) == -p.rank

(* _search_hits over the points of some repositories.                      *)
Hits(pointLists, q) ==
  LET found == FlattenSeq([i \in DOMAIN pointLists |->
                             StoreSearch(pointLists[i], q, FetchK(q.limit))])
      kept == Sublist(found, {n \in DOMAIN found : q.codeOnly => found[n].code}) IN
  Best(kept, [i \in DOMAIN kept |-> Score(kept[i])], Len(kept))

(* fit_rows: rows of the limit until the budget is spent, at least one;    *)
(* and whether rows were left out.                                         *)
Fit(rows, costs, limit, budget) ==
  LET fits == {n \in 1..Smaller(limit, Len(rows)) :
                 \A m \in 2..n : SumTo(costs)[m] <= budget} IN
  [rows |-> SubSeq(rows, 1, Cardinality(fits)), truncated |-> Cardinality(fits) < Len(rows)]

OneToken(rows) == [i \in DOMAIN rows |-> 1]

(* semantic_search shows what fits, search_json as many as are asked for.  *)
Semantic(pointLists, q) ==
  LET hits == Hits(pointLists, q) IN
  Fit(hits, [i \in DOMAIN hits |-> Tokens(hits[i].lines)], q.limit, q.budget)

SearchJson(pointLists, q) ==
  LET hits == Hits(pointLists, q) IN
  [rows |-> SubSeq(hits, 1, Smaller(q.limit, Len(hits))), truncated |-> FALSE]

-----------------------------------------------------------------------------
(* The other tools list files, lines or symbols of a mirror; every file    *)
(* matches the pattern of a query, or only those under its prefix.         *)

Selected(content, q) ==
  Ascending({f \in DOMAIN content : q.prefix => content[f].under})

MatchingLines(content, q) ==
  LET files == Selected(content, q) IN
  FlattenSeq([i \in DOMAIN files |->
                [n \in 1..content[files[i]].lines |-> <<files[i], n>>]])

(* lexical_search: git grep stops after five times the limit; where it     *)
(* fails, as where nothing matches, the list is empty.                     *)
LexicalSearch(content, q, ok) ==
  LET lines == IF ok THEN MatchingLines(content, q) ELSE <<>>
      shown == SubSeq(lines, 1, Smaller(5 * q.limit, Len(lines))) IN
  Fit(shown, OneToken(shown), q.limit, q.budget)

Glob(content, q) ==
  LET files == Selected(content, q) IN Fit(files, OneToken(files), q.limit, q.budget)

(* explore: the directories of the level, then its files.                  *)
Entries(content) ==
  LET below == {f \in DOMAIN content : content[f].under} IN
  (IF below = {} THEN <<>> ELSE <<"dir">>) \o Ascending(DOMAIN content \ below)

Explore(content, q) ==
  LET entries == Entries(content) IN Fit(entries, OneToken(entries), q.limit, q.budget)

(* get_docs: the symbols the skeleton lists.                               *)
SymbolsOf(content, q) ==
  LET files == Selected(content, q) IN
  FlattenSeq([i \in DOMAIN files |-> content[files[i]].symbols])

GetDocs(content, q) ==
  LET symbols == SymbolsOf(content, q) IN Fit(symbols, OneToken(symbols), q.limit, q.budget)

(* Commits, branches and documents are numbered.  git_log asks git for as  *)
(* many as the limit; git_branches shows all that its budget allows.       *)
Numbered(n) == [i \in 1..n |-> i]

GitLog(n, q) ==
  LET shown == Numbered(Smaller(q.limit, n)) IN Fit(shown, OneToken(shown), q.limit, q.budget)

GitBranches(n, q) ==
  Fit(Numbered(n), OneToken(Numbered(n)), Larger(n, 1), q.budget)

DomainDocs(n, q) == Fit(Numbered(n), OneToken(Numbered(n)), q.limit, q.budget)

(* _cap: a text of n characters, cut to the budget with a note of it.      *)
TextBudget(q) == 4 * Larger(q.budget, TextFloor)

Cap(n, q) == [length |-> Smaller(n, TextBudget(q)), truncated |-> n > TextBudget(q)]

(* git_diff shows a summary of n \div 2 characters, and says so, where the *)
(* patch is too long; the other git tools cut.                             *)
GitText(tool, n, q) ==
  IF tool = "git_diff" /\ n > TextBudget(q)
    THEN [Cap(n \div 2, q) EXCEPT !.truncated = TRUE]
    ELSE Cap(n, q)

(* Reading: read_range and the workspace's Read show `limit` lines of a    *)
(* file of n lines from line `offset` on.                                  *)
ReadLines(n, offset, limit) ==
  LET start == Larger(1, offset) IN start..Smaller(n, start - 1 + limit)

-----------------------------------------------------------------------------
(* What search owes its caller.                                            *)

(* Every line of a file, or of its symbols, lies in a chunk which can be   *)
(* read back exactly; a chunk starts and ends after the one before, or     *)
(* starts with its last line; no request exceeds the caps; and the vector  *)
(* of a point is that of its own chunk.                                    *)
LinesAreFound(content) ==
  /\ \A f \in DOMAIN content :
       LET file   == content[f]
           chunks == Chunks(file) IN
       /\ UNION {c.from..c.to : c \in ToSet(chunks)}
            = IF file.symbols = <<>> THEN 1..file.lines
              ELSE UNION {s.from..s.to : s \in ToSet(file.symbols)}
       /\ \A k \in DOMAIN chunks : k > 1 =>
            \/ chunks[k].from > chunks[k - 1].from /\ chunks[k].to > chunks[k - 1].to
            \/ chunks[k].from = chunks[k - 1].to
       /\ \A c \in ToSet(chunks) :
            ReadLines(file.lines, c.from, c.to - c.from + 1) = c.from..c.to
       /\ \A b \in ToSet(Batches(chunks)) :
            Len(b) <= BatchItems /\ TokensOf(b) <= BatchTokens
  /\ \A p \in ToSet(Points("any", content)) : p.vector = p.lines

(* Every line of the file from the offset on is shown, or the page is full *)
(* and the line comes after it.                                            *)
PageIsWhole(n, offset, limit) ==
  LET shown == ReadLines(n, offset, limit) IN
  \A line \in Larger(1, offset)..n :
    \/ line \in shown
    \/ Cardinality(shown) = limit /\ \A s \in shown : s < line

(* A point that matches and is not among the rows is outranked, by as many *)
(* points of its repository as are fetched at least or by all rows when    *)
(* they fill the limit or the budget (tools.py:155 "so score/code          *)
(* filtering doesn't starve the final cap").                               *)
NothingIsMissed(pointLists, q, rows) ==
  LET atLeast == Smaller(q.limit * FetchFactor, FetchCap)
      wanted  == UNION {{p \in ToSet(pointLists[i]) : Matches(p, q)} : i \in DOMAIN pointLists} IN
  /\ ToSet(rows) \subseteq wanted
  /\ \A p \in wanted \ ToSet(rows) :
       \/ \E i \in DOMAIN pointLists :
            /\ p \in ToSet(pointLists[i])
            /\ Cardinality({o \in ToSet(pointLists[i]) : Score(o) > Score(p)}) >= atLeast
       \/ /\ rows # <<>> /\ \A i \in DOMAIN rows : Score(rows[i]) >= Score(p)
          /\ \/ Len(rows) = q.limit
             \/ \E o \in wanted \ ToSet(rows) :
                  /\ Score(o) >= Score(p)
                  /\ TokensOf([i \in DOMAIN rows |-> rows[i].lines]) + Tokens(o.lines) > q.budget
=============================================================================
