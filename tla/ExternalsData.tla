---------------------------- MODULE ExternalsData ----------------------------
(***************************************************************************)
(* The contents of externals.txt and the edits made to them                *)
(* (crates/server/src/persistence/externals_store.rs): manual marks,       *)
(* regex rules on names and on paths, file marks.  A line of the file is a *)
(* record; timestamps are left out.                                        *)
(***************************************************************************)
EXTENDS Vectors, FiniteSets

CONSTANTS
  Usr,       \* declarations, as numbers: the order of their names
  File,      \* source files, likewise
  RuleKind,  \* "name", "path"
  Pattern,   \* regular expressions
  Legacy     \* what an old project.db held before externals.txt existed

ASSUME DataAssumption ==
  /\ IsFiniteSet(Usr) /\ Usr \cup File \subseteq Nat
  /\ RuleKind \subseteq {"name", "path"}

ManualMark == [usr : Usr, external : BOOLEAN]
FileMark == [file : File]
OldPattern == UNION {{rule.pattern : rule \in ToSet(Legacy.rules[k])} : k \in RuleKind}
Rule == [id : Nat, pattern : Pattern \cup OldPattern]

Lists == [marks : Seq(ManualMark), rules : [RuleKind -> Seq(Rule)], files : Seq(FileMark)]
NoData == [marks |-> <<>>, rules |-> [k \in RuleKind |-> <<>>], files |-> <<>>]

UniqueKeys(d) ==
  /\ IsInjective([i \in DOMAIN d.marks |-> d.marks[i].usr])
  /\ \A k \in RuleKind : IsInjective([i \in DOMAIN d.rules[k] |-> d.rules[k][i].id])

\* The old tables have usr and id for primary keys, and no file marks.
ASSUME LegacyAssumption == Legacy \in Lists /\ UniqueKeys(Legacy) /\ Legacy.files = <<>>

-----------------------------------------------------------------------------
(* parse and serialize: every line goes to the list of its kind.  A        *)
(* truncated file has no line at all.                                      *)

Lines(kind, entries) == [i \in DOMAIN entries |-> [kind |-> kind, entry |-> entries[i]]]

RulesOf(d, k) == IF k \in RuleKind THEN d.rules[k] ELSE <<>>

Serialize(d) ==
  Lines("mark", d.marks)
    \o Lines("name", RulesOf(d, "name"))
    \o Lines("path", RulesOf(d, "path"))
    \o Lines("file", d.files)

AddLine(data, line) ==
  CASE line.kind = "mark" -> [data EXCEPT !.marks = Append(@, line.entry)]
    [] line.kind \in {"name", "path"} -> [data EXCEPT !.rules[line.kind] = Append(@, line.entry)]
    [] line.kind = "file" -> [data EXCEPT !.files = Append(@, line.entry)]

Parse(lines) == FoldLeft(AddLine, NoData, lines)

-----------------------------------------------------------------------------
(* The edits: each reads the whole file, changes it in memory and writes   *)
(* the whole file back.                                                    *)

\* Slip: the list is replaced by the new mark.
SetMarkOnly(d, usr, external) == [d EXCEPT !.marks = <<[usr |-> usr, external |-> external]>>]

SetMark(d, usr, external) ==
  LET others == Keep(d.marks, {m \in ToSet(d.marks) : m.usr # usr})
  IN [d EXCEPT !.marks = SortBy([m \in ManualMark |-> m.usr],
                                Append(others, [usr |-> usr, external |-> external]))]

\* For a file presence in the list is the mark.
SetFileMark(d, file, external) ==
  LET others == Keep(d.files, {m \in ToSet(d.files) : m.file # file})
  IN [d EXCEPT !.files = IF external
        THEN SortBy([m \in FileMark |-> m.file], Append(others, [file |-> file]))
        ELSE others]

\* Slip: the highest id there is.
NextIdSame(rules) == Max({0} \cup {rules[i].id : i \in DOMAIN rules})

NextId(rules) == Max({0} \cup {rules[i].id : i \in DOMAIN rules}) + 1

AddRule(d, kind, pattern) ==
  [d EXCEPT !.rules[kind] = Append(@, [id |-> NextId(@), pattern |-> pattern])]

RemoveRule(d, kind, id) ==
  [d EXCEPT !.rules[kind] = Keep(@, {rule \in ToSet(@) : rule.id # id})]

PruneMarks(d, valid) == [d EXCEPT !.marks = Keep(@, {m \in ToSet(@) : m.usr \in valid})]
PruneFileMarks(d, valid) == [d EXCEPT !.files = Keep(@, {m \in ToSet(@) : m.file \in valid})]

Edit ==
  [op : {"mark"}, usr : Usr, external : BOOLEAN]
    \cup [op : {"file"}, file : File, external : BOOLEAN]
    \cup [op : {"add"}, kind : RuleKind, pattern : Pattern]
    \cup [op : {"remove"}, kind : RuleKind, id : Nat]
    \cup [op : {"pruneMarks"}, valid : SUBSET Usr]
    \cup [op : {"pruneFiles"}, valid : SUBSET File]
    \cup [op : {"migrate"}]

Apply(d, e) ==
  CASE e.op = "mark" -> SetMark(d, e.usr, e.external)
    [] e.op = "file" -> SetFileMark(d, e.file, e.external)
    [] e.op = "add" -> AddRule(d, e.kind, e.pattern)
    [] e.op = "remove" -> RemoveRule(d, e.kind, e.id)
    [] e.op = "pruneMarks" -> PruneMarks(d, e.valid)
    [] e.op = "pruneFiles" -> PruneFileMarks(d, e.valid)
    [] e.op = "migrate" -> Legacy
=============================================================================
