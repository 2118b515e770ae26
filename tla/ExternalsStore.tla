--------------------------- MODULE ExternalsStore ----------------------------
(***************************************************************************)
(* externals.txt under concurrent requests                                 *)
(* (crates/server/src/persistence/externals_store.rs and its callers in    *)
(* project_service.rs).  Every edit reads the file, writes the new text to *)
(* externals.txt.tmp (one name for everybody) and renames that over the    *)
(* original; nothing is locked.  As in the file system, a name leads to an *)
(* inode, a writer keeps the inode it opened, and opening the temporary    *)
(* file truncates the inode whoever else is writing to it.                 *)
(*                                                                         *)
(* Lines are taken to be equally long: text written over longer text       *)
(* leaves the last lines of the old one standing.                          *)
(***************************************************************************)
EXTENDS ExternalsData

CONSTANTS
  Client,      \* request threads
  MaxId,       \* bound on the ids of rules
  EditedKind   \* bound: the kinds of rules the requests are about

ASSUME BoundAssumption == MaxId \in Nat /\ EditedKind \subseteq RuleKind

VARIABLES
  main,     \* the inode externals.txt leads to, 0 when there is none
  tmp,      \* likewise externals.txt.tmp
  content,  \* the lines in each inode
  legacy,   \* project.db still has the tables of an older version
  client,   \* where each request is
  decided   \* history: what the last acknowledged edit decided of each usr

vars == <<main, tmp, content, legacy, client, decided>>

Inode == 1 .. Cardinality(Client) + 2
Idle == [pc |-> "idle", todo |-> <<>>, draft |-> NoData, fd |-> 0]

Data == IF main = 0 THEN NoData ELSE Parse(content[main])
Undecided == "undecided"
Word(external) == IF external THEN "include" ELSE "exclude"

TypeOK ==
  /\ main \in {0} \cup Inode
  /\ tmp \in {0} \cup Inode
  /\ DOMAIN content = Inode
  /\ legacy \in BOOLEAN
  /\ \A c \in Client :
       /\ client[c].pc \in {"idle", "read", "create", "write", "rename", "drop"}
       /\ client[c].fd \in {0} \cup Inode
       /\ client[c].pc # "idle" => Head(client[c].todo) \in Edit
  /\ decided \in [Usr -> {"include", "exclude", Undecided}]
  /\ \A k \in RuleKind : {rule.id : rule \in ToSet(Data.rules[k])} \subseteq 1 .. MaxId

Init ==
  /\ main = 0
  /\ tmp = 0
  /\ content = [i \in Inode |-> <<>>]
  /\ legacy \in BOOLEAN
  /\ client = [c \in Client |-> Idle]
  /\ decided = [u \in Usr |-> Undecided]

-----------------------------------------------------------------------------
(* Requests, as the edits they consist of.                                 *)

Mark(usr, external) == [op |-> "mark", usr |-> usr, external |-> external]

\* A type and the methods it owns, sorted.
ExpandTypeMark(type, methods) == SortBy([u \in Usr |-> u], SetToSeq({type} \cup methods))

\* They are looked up once, and marked one by one.
MarkType(type, methods) ==
  LET usrs == ExpandTypeMark(type, methods)
  IN [i \in DOMAIN usrs |-> Mark(usrs[i], TRUE)]
PruneAll(usrs, files) ==
  <<[op |-> "pruneMarks", valid |-> usrs], [op |-> "pruneFiles", valid |-> files]>>
Open == <<[op |-> "migrate"]>>

MayAdd(kind) ==
  NextId(Data.rules[kind]) + Cardinality({c \in Client : \E i \in DOMAIN client[c].todo :
    client[c].todo[i] \in [op : {"add"}, kind : {kind}, pattern : Pattern]}) <= MaxId

Request ==
  {<<Mark(u, x)>> : u \in Usr, x \in BOOLEAN}
    \cup {MarkType(type, methods) : type \in Usr, methods \in SUBSET Usr}
    \cup {<<e>> : e \in [op : {"file"}, file : File, external : BOOLEAN]}
    \cup {<<e>> : e \in [op : {"add"}, kind : {k \in EditedKind : MayAdd(k)}, pattern : Pattern]}
    \cup {<<e>> : e \in [op : {"remove"}, kind : EditedKind, id : 1 .. MaxId]}
    \cup {PruneAll(us, fs) : us \in SUBSET Usr, fs \in SUBSET File}

\* A client works on a project it has opened, which migrates the old tables.
Begin(c) ==
  /\ client[c].pc = "idle"
  /\ \E r \in IF legacy THEN {Open} ELSE Request :
       client' = [client EXCEPT ![c] = [Idle EXCEPT !.pc = "read", !.todo = r]]
  /\ UNCHANGED <<main, tmp, content, legacy, decided>>

\* The client with its current edit done: on to the next, or finished; the
\* migration goes on to drop the old tables.
AfterEdit(c) ==
  LET todo == client[c].todo
  IN CASE Head(todo).op = "migrate" -> [Idle EXCEPT !.pc = "drop", !.todo = todo]
       [] Len(todo) > 1 -> [Idle EXCEPT !.pc = "read", !.todo = Tail(todo)]
       [] OTHER -> Idle

-----------------------------------------------------------------------------
(* One edit.                                                               *)

\* Slip: the test for the file is the wrong way round.
NothingToWriteYet(e) ==
  \/ e.op \in {"pruneMarks", "pruneFiles"} /\ Apply(Data, e) = Data
  \/ e.op = "migrate" /\ (main = 0 \/ Legacy = NoData)

\* Pruning writes only when it dropped something, and the migration only
\* when there is no file yet and something to move.
NothingToWrite(e) ==
  \/ e.op \in {"pruneMarks", "pruneFiles"} /\ Apply(Data, e) = Data
  \/ e.op = "migrate" /\ (main # 0 \/ Legacy = NoData)

Read(c) ==
  /\ client[c].pc = "read"
  /\ LET e == Head(client[c].todo)
     IN client' = [client EXCEPT ![c] =
          IF NothingToWrite(e) THEN AfterEdit(c)
          ELSE [@ EXCEPT !.pc = "create", !.draft = Apply(Data, e)]]
  /\ UNCHANGED <<main, tmp, content, legacy, decided>>

\* fs::write, first half: open the temporary file and truncate it.
InUse == {main, tmp} \cup {client[c].fd : c \in Client}
\* Slip: the file itself is opened and truncated.
CreateInPlace(c) ==
  /\ client[c].pc = "create"
  /\ LET i == IF main # 0 THEN main ELSE CHOOSE n \in Inode : n \notin {main, tmp}
     IN /\ main' = i
        /\ content' = [content EXCEPT ![i] = <<>>]
        /\ client' = [client EXCEPT ![c].pc = "write", ![c].fd = i]
  /\ UNCHANGED <<tmp, legacy, decided>>

CreateTmp(c) ==
  /\ client[c].pc = "create"
  /\ LET i == IF tmp # 0 THEN tmp ELSE CHOOSE n \in Inode : n \notin InUse
     IN /\ tmp' = i
        /\ content' = [content EXCEPT ![i] = <<>>]
        /\ client' = [client EXCEPT ![c].pc = "write", ![c].fd = i]
  /\ UNCHANGED <<main, legacy, decided>>

\* fs::write, second half: from the first byte, whatever is there by now.
Overwrite(new, old) == new \o SubSeq(old, Len(new) + 1, Len(old))
WriteTmp(c) ==
  /\ client[c].pc = "write"
  /\ content' = [content EXCEPT ![client[c].fd] = Overwrite(Serialize(client[c].draft), @)]
  /\ client' = [client EXCEPT ![c].pc = "rename", ![c].fd = 0]
  /\ UNCHANGED <<main, tmp, legacy, decided>>

Acknowledge(e) ==
  decided' = CASE e.op = "mark" -> [decided EXCEPT ![e.usr] = Word(e.external)]
               [] e.op = "pruneMarks" ->
                    [u \in Usr |-> IF u \in e.valid THEN decided[u] ELSE Undecided]
               [] OTHER -> decided

\* fs::rename: an error when somebody else has renamed the file away; the
\* inode it replaces is gone.
Rename(c) ==
  /\ client[c].pc = "rename"
  /\ IF tmp = 0
       THEN /\ client' = [client EXCEPT ![c] = Idle]
            /\ UNCHANGED <<main, tmp, content, decided>>
       ELSE /\ main' = tmp
            /\ content' = [i \in Inode |-> IF i = main THEN <<>> ELSE content[i]]
            /\ tmp' = 0
            /\ client' = [client EXCEPT ![c] = AfterEdit(c)]
            /\ Acknowledge(Head(client[c].todo))
  /\ UNCHANGED legacy

DropOldTables(c) ==
  /\ client[c].pc = "drop"
  /\ legacy' = FALSE
  /\ client' = [client EXCEPT ![c] = Idle]
  /\ UNCHANGED <<main, tmp, content, decided>>

\* The usrs a request under way decides on.
Deciding(u) ==
  \E c \in Client : \E i \in DOMAIN client[c].todo :
    LET e == client[c].todo[i]
    IN \/ e.op = "mark" /\ e.usr = u
       \/ e.op = "pruneMarks" /\ u \notin e.valid

(* The server dies; what it was deciding is anybody's guess afterwards. *)
Crash ==
  /\ client' = [c \in Client |-> Idle]
  /\ decided' = [u \in Usr |-> IF Deciding(u) THEN Undecided ELSE decided[u]]
  /\ UNCHANGED <<main, tmp, content, legacy>>

Next ==
  \/ \E c \in Client : Begin(c) \/ Read(c) \/ CreateTmp(c) \/ WriteTmp(c)
                       \/ Rename(c) \/ DropOldTables(c)
  \/ Crash

Spec == Init /\ [][Next]_vars

-----------------------------------------------------------------------------
(* With one writer at a time the file behaves as a list edited atomically: *)
(* at any moment, also after a crash in the middle of a write, a reader    *)
(* finds the list before the edit or after it.                             *)
Atomic == INSTANCE AtomicExternals WITH data <- Data
EditsAreAtomic == Atomic!AtomicSpec

(* A mark whose request was answered with success is in the file, and says *)
(* what the user last decided, until somebody is deciding it anew.         *)
DecisionsKept ==
  \A u \in Usr : decided[u] # Undecided /\ ~Deciding(u) =>
    \E m \in ToSet(Data.marks) : m.usr = u /\ Word(m.external) = decided[u]

(* There is one mark per declaration and one rule per id, so a later edit  *)
(* or removal reaches the entry it means.                                  *)
KeysUnique ==
  UniqueKeys(Data)

(* The old tables are dropped only once their rows are in the file, also   *)
(* if the server dies between the write and the drop.                      *)
MigrationMovesAll == [][legacy /\ ~legacy' => Data' = Legacy]_vars
=============================================================================
