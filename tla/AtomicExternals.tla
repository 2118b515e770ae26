--------------------------- MODULE AtomicExternals ---------------------------
(***************************************************************************)
(* What the users of externals.txt rely on: the list changes by one whole  *)
(* edit at a time, each applied to what is there.  Data of an older        *)
(* project.db is only ever moved in before anything else.                  *)
(***************************************************************************)
EXTENDS ExternalsData

CONSTANT MaxId   \* bound on the ids a client asks to remove

VARIABLE data

AtomicInit == data = NoData

\* What may be asked for.
Asked ==
  [op : {"mark"}, usr : Usr, external : BOOLEAN]
    \cup [op : {"file"}, file : File, external : BOOLEAN]
    \cup [op : {"add"}, kind : RuleKind, pattern : Pattern]
    \cup [op : {"remove"}, kind : RuleKind, id : 1 .. MaxId]
    \cup [op : {"pruneMarks"}, valid : SUBSET Usr]
    \cup [op : {"pruneFiles"}, valid : SUBSET File]

\* An edit that leaves the list as it was is no step here.
AtomicNext ==
  /\ data' # data
  /\ \/ \E e \in Asked : data' = Apply(data, e)
     \/ data = NoData /\ data' = Legacy

AtomicSpec == AtomicInit /\ [][AtomicNext]_data
=============================================================================
