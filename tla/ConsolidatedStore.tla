------------------------- MODULE ConsolidatedStore -------------------------
(***************************************************************************)
(* The consolidated memory of one scope                                    *)
(* (memory/internal/store/consolidated.go, atomic.go, fsutil.go): a tree   *)
(* of topics and entries, their archive, and INDEX.md.                     *)
(*                                                                         *)
(* The requests of the REST interface and the tool calls of dreams change  *)
(* it without a lock, one file operation after the other.  A file          *)
(* operation may fail, which most calls ignore, and the process may die    *)
(* between any two.  The audit trail LOG.md is left out.                   *)
(***************************************************************************)
EXTENDS Integers, FiniteSets

CONSTANTS
  Topics, Names,
  Entries,     (* the entries that there may be: pairs of topic and name   *)
  Texts,       (* what may be written into an entry                        *)
  Blank,       (* the empty text                                           *)
  NoFile,      (* there is no such entry                                   *)
  Calls,       (* calls served at a time                                   *)
  MaxCalls,    (* bound: calls begun                                       *)
  MaxMishaps   (* bound: failing file operations and deaths of the process *)

ASSUME StoreAssumption ==
  /\ Entries \subseteq Topics \X Names /\ Entries # {}
  /\ Blank \notin Texts /\ NoFile \notin Texts \cup {Blank}
  /\ MaxCalls \in Nat /\ MaxMishaps \in Nat

Places == {"active", "archive"}

VARIABLES
  files,       (* files[place][e]: the text of entry e                     *)
  dirs,        (* the topic directories that exist, as <<place, topic>>    *)
  litter,      (* those in which a dead call left a temporary file         *)
  index,       (* the entries that INDEX.md lists                          *)
  pc, op,      (* where a call stands, and which it is                     *)
  topic,       (* the topic it is at                                       *)
  entry, text, (* the entry it has in hand, and the text it will write     *)
  topics,      (* a sweep: the topics ahead of it                          *)
  names,       (* ... and the entries of the present one                   *)
  unseen,      (* a rebuild: the topics not yet listed                     *)
  seen,        (* ... and the entries found so far                         *)
  late,        (* history: another rebuild finished during this one        *)
  loose,       (* history: entries whose move overlapped or read nothing   *)
  blurred,     (* history: the index was last written late, or not at all  *)
  begun, mishaps

tree    == <<files, dirs, litter>>
hand    == <<op, topic, entry, text>>
sweep   == <<topics, names>>
rebuild == <<unseen, seen, late>>
vars    == <<tree, index, pc, hand, sweep, rebuild, loose, blurred, begun, mishaps>>

TopicOf(e)  == e[1]
There(place, e) == files[place][e] # NoFile
Listed(place, t) == {e \in Entries : TopicOf(e) = t /\ There(place, e)}
TopicsOf(place)  == {t \in Topics : <<place, t>> \in dirs}

Writes == {"create", "update"}
Moves  == {"archive", "restore", "stale"}
Sweeps == {"purge", "stale"}

(* A move takes the entry from one place to the other.                     *)
Target(c) == IF op[c] \in {"archive", "stale"} THEN "archive" ELSE "active"
Source(c) == IF op[c] \in {"archive", "stale"} THEN "active" ELSE "archive"

(* Where a call has an entry in hand.                                      *)
Handling == {"read", "mkdir", "tmp", "rename", "unlink", "remove"}
Standing == Handling \cup {"idle", "sweep", "names", "rmdir", "list", "scan"}

TypeOK ==
  /\ files \in [Places -> [Entries -> Texts \cup {Blank, NoFile}]]
  /\ dirs \subseteq Places \X Topics /\ litter \subseteq dirs
  /\ \A place \in Places, e \in Entries : There(place, e) => <<place, TopicOf(e)>> \in dirs
  /\ index \subseteq Entries
  /\ pc \in [Calls -> Standing]
  /\ op \in [Calls -> Writes \cup Moves \cup Sweeps]
  /\ topic \in [Calls -> Topics] /\ entry \in [Calls -> Entries]
  /\ text \in [Calls -> Texts \cup {Blank}]
  /\ topics \in [Calls -> SUBSET Topics] /\ names \in [Calls -> SUBSET Entries]
  /\ unseen \in [Calls -> SUBSET Topics] /\ seen \in [Calls -> SUBSET Entries]
  /\ late \in [Calls -> BOOLEAN]
  /\ \A c \in Calls :
       /\ pc[c] \in Handling => topic[c] = TopicOf(entry[c])
       /\ pc[c] \in {"sweep", "names", "remove"} => op[c] \in Sweeps
       /\ pc[c] # "idle" /\ op[c] \in Sweeps => \A e \in names[c] : topic[c] = TopicOf(e)
  /\ \A c \in Calls : pc[c] = "rename" => <<Target(c), topic[c]>> \in dirs
  /\ loose \subseteq Entries /\ blurred \in BOOLEAN
  /\ begun \in 0..MaxCalls /\ mishaps \in 0..MaxMishaps

AnyEntry == CHOOSE e \in Entries : TRUE

Init ==
  /\ files = [place \in Places |-> [e \in Entries |-> NoFile]]
  /\ dirs = {} /\ litter = {} /\ index = {}
  /\ pc = [c \in Calls |-> "idle"] /\ op = [c \in Calls |-> "create"]
  /\ topic = [c \in Calls |-> TopicOf(AnyEntry)]
  /\ entry = [c \in Calls |-> AnyEntry] /\ text = [c \in Calls |-> Blank]
  /\ topics = [c \in Calls |-> {}] /\ names = [c \in Calls |-> {}]
  /\ unseen = [c \in Calls |-> {}] /\ seen = [c \in Calls |-> {}]
  /\ late = [c \in Calls |-> FALSE]
  /\ loose = {} /\ blurred = FALSE /\ begun = 0 /\ mishaps = 0

Goto(c, place) == pc' = [pc EXCEPT ![c] = place]

-----------------------------------------------------------------------------
(* A call begins.                                                          *)

(* Entries become loose when they are taken in hand by a move or a purge   *)
(* while another call has them, or the other way round.                    *)
TakeInHand(c, o, e) ==
  /\ entry' = [entry EXCEPT ![c] = e]
  /\ loose' = IF \E d \in Calls \ {c} : /\ pc[d] \in Handling /\ entry[d] = e
                                        /\ ~({o, op[d]} \subseteq Writes)
                THEN loose \cup {e} ELSE loose

(* Create, Update, Archive (which Delete is) and Restore return at once    *)
(* when there is an entry in the way, or none to work on.                  *)
MayBegin(o, e) ==
  CASE o = "create"  -> ~There("active", e)
    [] o = "restore" -> There("archive", e)
    [] OTHER         -> There("active", e)

Begins(c) ==
  /\ pc[c] = "idle" /\ begun < MaxCalls
  /\ begun' = begun + 1

Begin(c, o, e) ==
  /\ Begins(c)
  /\ MayBegin(o, e)
  /\ op' = [op EXCEPT ![c] = o] /\ topic' = [topic EXCEPT ![c] = TopicOf(e)]
  /\ TakeInHand(c, o, e)
  /\ IF o \in Writes
       THEN Goto(c, "mkdir") /\ \E x \in Texts : text' = [text EXCEPT ![c] = x]
       ELSE Goto(c, "read") /\ UNCHANGED text
  /\ UNCHANGED <<tree, index, sweep, rebuild, blurred, mishaps>>

(* PurgeArchive, ArchiveStale: the topics are listed.                      *)
BeginSweep(c, o) ==
  /\ Begins(c)
  /\ op' = [op EXCEPT ![c] = o]
  /\ topics' = [topics EXCEPT ![c] = TopicsOf(IF o = "purge" THEN "archive" ELSE "active")]
  /\ names' = [names EXCEPT ![c] = {}]
  /\ Goto(c, "sweep")
  /\ UNCHANGED <<tree, index, topic, entry, text, rebuild, loose, blurred, mishaps>>

-----------------------------------------------------------------------------
(* A sweep.                                                                *)

SweepTopic(c) ==
  /\ pc[c] = "sweep"
  /\ \E t \in topics[c] :
       /\ topics' = [topics EXCEPT ![c] = @ \ {t}]
       /\ topic' = [topic EXCEPT ![c] = t]
       /\ names' = [names EXCEPT ![c] = Listed(Source(c), t)]
  /\ Goto(c, "names")
  /\ UNCHANGED <<tree, index, op, entry, text, rebuild, loose, blurred, begun, mishaps>>

(* The next entry: it is gone, or not older than the cutoff that the       *)
(* caller gave, or it is purged or archived.                               *)
SweepEntry(c) ==
  /\ pc[c] = "names"
  /\ \E e \in names[c] :
       /\ names' = [names EXCEPT ![c] = @ \ {e}]
       /\ \/ UNCHANGED <<pc, entry, loose>>
          \/ /\ There(Source(c), e)
             /\ TakeInHand(c, op[c], e)
             /\ Goto(c, IF op[c] = "purge" THEN "remove" ELSE "read")
  /\ UNCHANGED <<tree, index, op, topic, text, topics, rebuild, blurred, begun, mishaps>>

TopicDone(c) ==
  /\ pc[c] = "names" /\ names[c] = {}
  /\ Goto(c, IF op[c] = "purge" THEN "rmdir" ELSE "sweep")
  /\ UNCHANGED <<tree, index, hand, sweep, rebuild, loose, blurred, begun, mishaps>>

SweepEnds(c) ==
  /\ pc[c] = "sweep" /\ topics[c] = {}
  /\ Goto(c, "idle")
  /\ UNCHANGED <<tree, index, hand, sweep, rebuild, loose, blurred, begun, mishaps>>

Remove(c) ==
  /\ pc[c] = "remove"
  /\ files' = [files EXCEPT !["archive"][entry[c]] = NoFile]
  /\ Goto(c, "names")
  /\ UNCHANGED <<dirs, litter, index, hand, sweep, rebuild, loose, blurred, begun, mishaps>>

-----------------------------------------------------------------------------
(* One entry is written or moved.                                          *)

(* The call returns; ArchiveStale goes on to the next entry.               *)
Over(c) == IF op[c] = "stale" THEN "names" ELSE "idle"

(* readText: a file that cannot be read counts as empty.                   *)
Read(c) ==
  /\ pc[c] = "read"
  /\ text' = [text EXCEPT ![c] = IF There(Source(c), entry[c])
                                   THEN files[Source(c)][entry[c]] ELSE Blank]
  /\ Goto(c, "mkdir")
  /\ UNCHANGED <<tree, index, op, topic, entry, sweep, rebuild, loose, blurred, begun, mishaps>>

(* MkdirAll, by the call and again by AtomicWrite.                         *)
MkDir(c) ==
  /\ pc[c] = "mkdir"
  /\ dirs' = dirs \cup {<<Target(c), topic[c]>>}
  /\ Goto(c, "tmp")
  /\ UNCHANGED <<files, litter, index, hand, sweep, rebuild, loose, blurred, begun, mishaps>>

(* AtomicWrite: the temporary file, of a name of its own, is written into  *)
(* the directory, which another call may have removed, ...                 *)
WriteTmp(c) ==
  /\ pc[c] = "tmp"
  /\ Goto(c, IF <<Target(c), topic[c]>> \in dirs THEN "rename" ELSE Over(c))
  /\ UNCHANGED <<tree, index, hand, sweep, rebuild, loose, blurred, begun, mishaps>>

(* ... and renamed.                                                        *)
Rename(c) ==
  /\ pc[c] = "rename"
  /\ files' = [files EXCEPT ![Target(c)][entry[c]] = text[c]]
  /\ text' = [text EXCEPT ![c] = Blank]
  /\ Goto(c, IF op[c] \in Moves THEN "unlink" ELSE "list")
  /\ UNCHANGED <<dirs, litter, index, op, topic, entry, sweep, rebuild, loose, blurred, begun, mishaps>>

Unlink(c) ==
  /\ pc[c] = "unlink"
  /\ files' = [files EXCEPT ![Source(c)][entry[c]] = NoFile]
  /\ Goto(c, "rmdir")
  /\ UNCHANGED <<dirs, litter, index, hand, sweep, rebuild, loose, blurred, begun, mishaps>>

(* MUTANT of Empty: temporary files are not looked for.                    *)
EmptyOfEntries(place, t) == Listed(place, t) = {}

(* dirEmpty; os.Remove would not remove it otherwise.                      *)
Empty(place, t) ==
  /\ Listed(place, t) = {} /\ <<place, t>> \notin litter
  /\ ~\E c \in Calls : pc[c] = "rename" /\ Target(c) = place /\ topic[c] = t

(* MUTANT of AfterMove: the index is left as it is.                        *)
AfterMoveReturn(c) == Over(c)

AfterMove(c) == "list"

RmDir(c) ==
  /\ pc[c] = "rmdir"
  /\ dirs' = IF Empty(Source(c), topic[c]) THEN dirs \ {<<Source(c), topic[c]>>} ELSE dirs
  /\ Goto(c, IF op[c] = "purge" THEN "sweep" ELSE AfterMove(c))
  /\ UNCHANGED <<files, litter, index, hand, sweep, rebuild, loose, blurred, begun, mishaps>>

-----------------------------------------------------------------------------
(* rebuildIndex.                                                           *)

ListTopics(c) ==
  /\ pc[c] = "list"
  /\ unseen' = [unseen EXCEPT ![c] = TopicsOf("active")]
  /\ seen' = [seen EXCEPT ![c] = {}] /\ late' = [late EXCEPT ![c] = FALSE]
  /\ Goto(c, "scan")
  /\ UNCHANGED <<tree, index, hand, sweep, loose, blurred, begun, mishaps>>

ScanTopic(c) ==
  /\ pc[c] = "scan"
  /\ \E t \in unseen[c] :
       /\ unseen' = [unseen EXCEPT ![c] = @ \ {t}]
       /\ seen' = [seen EXCEPT ![c] = @ \cup Listed("active", t)]
  /\ UNCHANGED <<tree, index, pc, hand, sweep, late, loose, blurred, begun, mishaps>>

(* The other rebuilds may have missed what this one has seen.              *)
RebuildEnds(c) ==
  /\ pc[c] = "scan" /\ unseen[c] = {}
  /\ late' = [d \in Calls |-> late[d] \/ (d # c /\ pc[d] = "scan")]
  /\ seen' = [seen EXCEPT ![c] = {}]
  /\ Goto(c, Over(c))

WriteIndex(c) ==
  /\ RebuildEnds(c)
  /\ index' = seen[c]
  /\ blurred' = late[c]
  /\ UNCHANGED <<tree, hand, sweep, unseen, loose, begun, mishaps>>

-----------------------------------------------------------------------------
(* Mishaps.                                                                *)

(* MUTANT of AfterFailure: the error of AtomicWrite is not looked at.      *)
AfterFailureGoOn(c) == IF op[c] \in Moves THEN "unlink" ELSE "list"

(* MkdirAll or AtomicWrite fails: the call returns an error.               *)
AfterFailure(c) == Over(c)

WriteFails(c) ==
  /\ pc[c] \in {"mkdir", "tmp", "rename"}
  /\ Goto(c, AfterFailure(c))
  /\ UNCHANGED <<text, unseen, seen, late, loose, blurred>>

ReadFails(c) ==
  /\ pc[c] = "read"
  /\ text' = [text EXCEPT ![c] = Blank] /\ loose' = loose \cup {entry[c]}
  /\ Goto(c, "mkdir")
  /\ UNCHANGED <<unseen, seen, late, blurred>>

(* What cannot be removed stays, and the call goes on.                     *)
RemovalFails(c) ==
  /\ \/ pc[c] = "unlink" /\ Goto(c, "rmdir")
     \/ pc[c] = "rmdir" /\ Goto(c, IF op[c] = "purge" THEN "sweep" ELSE AfterMove(c))
     \/ pc[c] = "remove" /\ Goto(c, "names")
  /\ UNCHANGED <<text, unseen, seen, late, loose, blurred>>

(* A directory that cannot be listed counts as empty, an index that cannot *)
(* be written stays as it is.                                              *)
RebuildFails(c) ==
  /\ \/ /\ pc[c] = "list" /\ Goto(c, "scan")
        /\ unseen' = [unseen EXCEPT ![c] = {}] /\ seen' = [seen EXCEPT ![c] = {}]
        /\ late' = [late EXCEPT ![c] = TRUE] /\ UNCHANGED blurred
     \/ /\ pc[c] = "scan"
        /\ \E t \in unseen[c] : unseen' = [unseen EXCEPT ![c] = @ \ {t}]
        /\ late' = [late EXCEPT ![c] = TRUE] /\ UNCHANGED <<pc, seen, blurred>>
     \/ RebuildEnds(c) /\ blurred' = TRUE /\ UNCHANGED unseen
  /\ UNCHANGED <<text, loose>>

Fails(c) ==
  /\ mishaps < MaxMishaps /\ mishaps' = mishaps + 1
  /\ WriteFails(c) \/ ReadFails(c) \/ RemovalFails(c) \/ RebuildFails(c)
  /\ UNCHANGED <<tree, index, op, topic, entry, sweep, begun>>

(* A changed tree awaits its index.                                        *)
Awaited == {"unlink", "rmdir", "list", "scan"}

Crash ==
  /\ mishaps < MaxMishaps /\ mishaps' = mishaps + 1
  /\ pc' = [c \in Calls |-> "idle"]
  /\ litter' = litter \cup {<<Target(c), topic[c]>> : c \in {d \in Calls : pc[d] = "rename"}}
  /\ blurred' = (blurred \/ \E c \in Calls : pc[c] \in Awaited /\ op[c] # "purge")
  /\ UNCHANGED <<files, dirs, index, hand, sweep, rebuild, loose, begun>>

-----------------------------------------------------------------------------
Step(c) ==
  \/ SweepTopic(c) \/ SweepEntry(c) \/ TopicDone(c) \/ SweepEnds(c) \/ Remove(c)
  \/ Read(c) \/ MkDir(c) \/ WriteTmp(c) \/ Rename(c) \/ Unlink(c) \/ RmDir(c)
  \/ ListTopics(c) \/ ScanTopic(c) \/ WriteIndex(c) \/ Fails(c)

Next ==
  \/ \E c \in Calls :
       \/ \E o \in Writes \cup {"archive", "restore"}, e \in Entries : Begin(c, o, e)
       \/ \E o \in Sweeps : BeginSweep(c, o)
       \/ Step(c)
  \/ Crash

Spec == Init /\ [][Next]_vars

-----------------------------------------------------------------------------
(* What holds.                                                             *)

(* The entries as a caller may think of them: an entry that is being moved *)
(* has left its old place as soon as its copy is in the new one.           *)
Leaving(place, e) ==
  \E c \in Calls : pc[c] = "unlink" /\ entry[c] = e /\ Source(c) = place

Shown(place) ==
  [e \in Entries |-> IF e \notin loose /\ Leaving(place, e) THEN NoFile ELSE files[place][e]]

Promise == INSTANCE MemoryEntries WITH active <- Shown("active"), archive <- Shown("archive")

(* Each call acts on an entry at one moment, as MemoryEntries promises,    *)
(* whatever calls act on other entries of its topic, whatever fails and    *)
(* whenever the process dies (consolidated.go:237-424).                    *)
ImplementsEntries == Promise!Spec

AtRest == \A c \in Calls : pc[c] = "idle"

(* INDEX.md, from which the digest of every prompt is made, lists exactly  *)
(* the active entries when no call is in progress, unless the last rebuild *)
(* overlapped with another or did not finish; the next one makes up for    *)
(* all that (consolidated.go:496-524, digest.go:63).                       *)
IndexIsCurrent ==
  AtRest /\ ~blurred => index = {e \in Entries : There("active", e)}
=============================================================================
