---------------------------- MODULE MCPathEdits -----------------------------
(* A new installation, with the Store entry between two others; and one that   *)
(* follows an older version, with an entry of PyRudder's that the user wrote   *)
(* into the machine's PATH himself.                                            *)
EXTENDS PathEdits, TLC

CONSTANTS a, b

MCInitial == {[machine |-> <<a, Store, b>>, user |-> <<>>],
              [machine |-> <<Store, Bin, a>>, user |-> <<Bin, Shims>>]}

\* The processes are alike.
Symmetry == Permutations(Proc)
=============================================================================
