--------------------------- MODULE ExternalListing ---------------------------
(***************************************************************************)
(* The listing of the externals beside the requests that change them       *)
(* (crates/server/src/project_service.rs, list_externals and the marking   *)
(* requests).  A listing reads project.db in three statements and          *)
(* externals.txt four times, with nothing locked in between; here an edit  *)
(* of the list is one step, as ExternalsStore shows it is for one writer.  *)
(***************************************************************************)
EXTENDS ExternalSet

CONSTANTS
  Catalogs,   \* what successive analyses may find
  MaxRule,    \* bound on the ids of rules
  MaxChanges  \* bound on the versions of list and catalogs one listing meets

VARIABLES
  catalog,   \* the catalogs in project.db
  data,      \* the lists in externals.txt
  lister,    \* the next read of the listing, or "idle", "done"
  got,       \* what it read so far
  since,     \* history: the versions of the list since the listing began
  analysed   \* history: the catalogs since then

listVars == <<catalog, data, lister, got, since, analysed>>

Nothing == [types |-> {}, functions |-> {}, calls |-> {},
            names |-> <<>>, paths |-> <<>>, files |-> <<>>, marks |-> <<>>]

ListInit ==
  /\ catalog \in Catalogs
  /\ data = NoData
  /\ lister = "idle" /\ got = Nothing /\ since = {} /\ analysed = {}

Listing == lister \notin {"idle", "done"}

-----------------------------------------------------------------------------
(* The edits, and the analyses.                                            *)

Declared == {d.usr : d \in Declarations(catalog.types, catalog.functions)}
Files == {d.file : d \in Declarations(catalog.types, catalog.functions)}

MayChange == Cardinality(since) + Cardinality(analysed) <= MaxChanges + 1

\* The list becomes new; a listing under way is one version further.
Write(new) ==
  /\ MayChange
  /\ data' = new
  /\ since' = IF Listing THEN since \cup {new} ELSE since
  /\ UNCHANGED <<catalog, lister, got, analysed>>

MarkExternal ==
  /\ \E u \in Usr, external \in BOOLEAN : Write(SetMark(data, u, external))

MarkFile ==
  /\ \E f \in Files, external \in BOOLEAN : Write(SetFileMark(data, f, external))

ChangeRules ==
  /\ \E k \in RuleKind :
       \/ \E p \in Pattern :
            NextId(data.rules[k]) <= MaxRule /\ Write(AddRule(data, k, p))
       \/ \E id \in 1 .. MaxRule : Write(RemoveRule(data, k, id))

\* An analysis replaces the three tables in one transaction, then prunes.
Analyse ==
  /\ MayChange
  /\ catalog' \in Catalogs \ {catalog}
  /\ analysed' = IF Listing THEN analysed \cup {catalog'} ELSE analysed
  /\ UNCHANGED <<data, lister, got, since>>

PruneList ==
  /\ \/ Write(PruneMarks(data, Declared))
     \/ Write(PruneFileMarks(data, Files))

-----------------------------------------------------------------------------
(* list_externals.                                                         *)

BeginListing ==
  /\ lister = "idle"
  /\ lister' = "types"
  /\ since' = {data} /\ analysed' = {catalog}
  /\ UNCHANGED <<catalog, data, got>>

\* The read that comes next, and what it finds.
ReadNext(now, found, then) ==
  /\ lister = now
  /\ got' = [got EXCEPT ![now] = found]
  /\ lister' = then
  /\ UNCHANGED <<catalog, data, since, analysed>>

ReadTypes == ReadNext("types", catalog.types, "functions")
ReadFunctions == ReadNext("functions", catalog.functions, "calls")
ReadCalls == ReadNext("calls", catalog.calls, "names")
ReadNames == ReadNext("names", data.rules["name"], "paths")
ReadPaths == ReadNext("paths", data.rules["path"], "files")
ReadFiles == ReadNext("files", data.files, "marks")
ReadMarks == ReadNext("marks", data.marks, "done")

\* The answer is sent, and the next request may come.
Answered ==
  /\ lister = "done"
  /\ lister' = "idle" /\ got' = Nothing /\ since' = {} /\ analysed' = {}
  /\ UNCHANGED <<catalog, data>>

ListNext ==
  \/ MarkExternal \/ MarkFile \/ ChangeRules
  \/ Analyse \/ PruneList
  \/ BeginListing \/ ReadTypes \/ ReadFunctions \/ ReadCalls
  \/ ReadNames \/ ReadPaths \/ ReadFiles \/ ReadMarks \/ Answered

ListSpec == ListInit /\ [][ListNext]_listVars

-----------------------------------------------------------------------------
(* What a version of the list says of u, in a catalog.                     *)

Decided(u, d) ==
  IF \E m \in ToSet(d.marks) : m.usr = u
    THEN IF \E m \in ToSet(d.marks) : m.usr = u /\ m.external THEN "include" ELSE "exclude"
    ELSE "undecided"

\* An entry of one of the lists: a rule, by kind and pattern, or a file mark.
Entries(d) ==
  (UNION {{[kind |-> k, by |-> rule.pattern] : rule \in ToSet(d.rules[k])} : k \in RuleKind})
    \cup {[kind |-> "file", by |-> m.file] : m \in ToSet(d.files)}

Covers(e, u, c) ==
  \E row \in Row(u, c) :
    \/ e.kind = "name" /\ <<e.by, QualifiedName(row, c.types)>> \in NameMatches
    \/ e.kind = "path" /\ <<e.by, row.file>> \in PathMatches
    \/ e.kind = "file" /\ e.by = row.file

ListedExternal == {s.usr : s \in {x \in Statuses(got) : x.effective}}

\* The catalogs as a listing may have found them, each table for itself.
Mixed == {[types |-> p[1].types, functions |-> p[2].functions, calls |-> p[3].calls] :
            p \in analysed \X analysed \X analysed}

Undefined(u, c) == u \in AutoUndefined(c.functions, c.calls)

(* A listing may mix several versions of the list and of the catalogs, but *)
(* what stood from its beginning to its end is in the answer: a manual     *)
(* decision as taken, and a declaration that one rule or file mark covered *)
(* all along, and that nobody excluded in between, as external.  And       *)
(* nothing is listed as external that no version gave a reason for.        *)
StandingEntriesListed ==
  lister = "done" =>
    LET listed == ListedExternal IN
    \A u \in UNION {{d.usr : d \in Declarations(c.types, c.functions)} \cup c.calls : c \in analysed} :
      /\ (\A d \in since : Decided(u, d) = "include") => u \in listed
      /\ (\A d \in since : Decided(u, d) = "exclude") => u \notin listed
      /\ /\ \A d \in since : Decided(u, d) # "exclude"
         /\ \/ \A c \in Mixed : Undefined(u, c)
            \/ \E e \in UNION {Entries(d) : d \in since} :
                 /\ \A c \in Mixed : Covers(e, u, c)
                 /\ \A d \in since : e \in Entries(d)
         => u \in listed
      /\ u \in listed =>
           \/ \E c \in Mixed : Undefined(u, c)
           \/ \E d \in since : Decided(u, d) = "include"
           \/ \E d \in since, c \in Mixed : \E e \in Entries(d) : Covers(e, u, c)
=============================================================================
