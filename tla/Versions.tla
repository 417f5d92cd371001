------------------------------ MODULE Versions -------------------------------
(***************************************************************************)
(* Versions, registered runtimes, selectors, and the choice of a runtime   *)
(* by a selector (version.rs, runtime.rs, selector.rs, state.rs).          *)
(*                                                                         *)
(* A registered version is stable, so it is <<major, minor, patch>>; a     *)
(* runtime's id adds its installation, 0 for the canonical managed one.    *)
(***************************************************************************)
EXTENDS Naturals, Sequences, FiniteSets

\* Numeric, component by component.
Older(v, w) == \E i \in 1..3 : v[i] < w[i] /\ \A j \in 1..i-1 : v[j] = w[j]

Version(r) == SubSeq(r.id, 1, 3)

\* What a selection file holds: nothing, a tombstone, something that is no
\* selector, or a selector.
Absent == [kind |-> "absent", of |-> <<>>]
Cleared == [kind |-> "cleared", of |-> <<>>]
Corrupt == [kind |-> "corrupt", of |-> <<>>]
System == [kind |-> "system", of |-> <<>>]
ById(id) == [kind |-> "runtime", of |-> id]

Matches(selector, r) ==
    CASE selector.kind = "minor" -> SubSeq(r.id, 1, 2) = selector.of
      [] selector.kind = "exact" -> Version(r) = selector.of
      [] selector.kind = "runtime" -> r.id = selector.of
      [] selector.kind = "alias" -> selector.of[1] \in r.aliases
      [] OTHER -> FALSE

\* A short version means the newest patch, however it fares.
Candidates(selector, runtimes) ==
    LET matching == {r \in runtimes : Matches(selector, r)}
    IN  IF selector.kind # "minor" THEN matching
        ELSE {r \in matching : \A s \in matching : ~Older(Version(r), Version(s))}

\* The runtime selected, or nothing: none registered, more than one, or not ready.
Select(selector, runtimes) ==
    LET candidates == Candidates(selector, runtimes)
    IN  IF Cardinality(candidates) = 1 THEN {r \in candidates : r.ready} ELSE {}

\* Mutant: the choice is written as it was typed.
PinnedAsTyped(selector, runtimes) ==
    IF Select(selector, runtimes) = {} THEN {} ELSE {selector}

\* The exact choice write_selection_file puts on disk, or nothing.  System is
\* refused, no caller allows it.
Pinned(selector, runtimes) == {ById(r.id) : r \in Select(selector, runtimes)}
=============================================================================
