---------------------------- MODULE RoutingIndex ----------------------------
(***************************************************************************)
(* What shim publication promises to the programs the shims route to,      *)
(* stated without journals, locks, temporary files or cleanup.             *)
(*                                                                         *)
(* `index' is the committed routing table (file name -> digest of the      *)
(* image that may answer under that name) and `answering' the names whose  *)
(* file in the shims directory is that very image, so that a call through  *)
(* it is routed.  A new table is exposed in one step, and at that step     *)
(* every name of it answers, except a name somebody else interfered with   *)
(* while the table was being prepared.                                     *)
(***************************************************************************)
EXTENDS Naturals

CONSTANTS
    File,       \* file names of the shims directory
    Digest,     \* digests of the images PyRudder publishes
    Absent      \* no entry

VARIABLES
    generation, \* number of tables exposed so far
    index,      \* the committed table
    answering,  \* names whose file matches the committed table
    disturbed   \* names changed from outside while a table is prepared

absvars == <<generation, index, answering, disturbed>>

Tables == [File -> Digest \cup {Absent}]

Names(table) == {f \in File : table[f] # Absent}

AbsInit ==
    /\ generation = 0
    /\ index = [f \in File |-> Absent]
    /\ answering = {}
    /\ disturbed = {}

\* A new table replaces the old one as a whole.
Expose ==
    /\ generation' = generation + 1
    /\ index' \in Tables
    /\ answering' \subseteq Names(index')
    /\ Names(index') \ disturbed \subseteq answering'
    /\ disturbed' = {}

\* The table is saved again unchanged (cleanup of stale entries).
Resave ==
    /\ generation' = generation + 1
    /\ UNCHANGED <<index, answering, disturbed>>

\* Files change while the table stands: what no longer matches stops
\* answering, what matches again answers; nothing outside the table answers.
\* A preparation that is given up forgets who interfered with it.
Drift ==
    /\ answering' \subseteq Names(index)
    /\ disturbed' \in {disturbed, {}}
    /\ UNCHANGED <<generation, index>>

\* Somebody else changes the file f.
Interfere(f) ==
    /\ answering' = answering \ {f}
    /\ disturbed' \in {disturbed, disturbed \cup {f}}
    /\ UNCHANGED <<generation, index>>

AbsNext == Expose \/ Resave \/ Drift \/ \E f \in File : Interfere(f)

AbsSpec == AbsInit /\ [][AbsNext]_absvars
=============================================================================
