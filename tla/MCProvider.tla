----------------------------- MODULE MCProvider -----------------------------
(* Generations of an index of two pages.  The second one replaces an archive, *)
(* so pages of the first two conflict; in the third one the first page links  *)
(* to itself, and the second has an entry that cannot be trusted and leads    *)
(* away from python.org.                                                      *)
EXTENDS Provider

CONSTANTS page1, page2, version, small, large

MCLength == [b \in Body |-> IF b = small THEN 1 ELSE 2]

Artifact(v, b) == [kind |-> "artifact", version |-> v, body |-> b]

MCDocument ==
    << [page \in Page |-> IF page = page1
          THEN [entries |-> {Artifact(version, small)}, next |-> page2]
          ELSE [entries |-> {Artifact(version, small)}, next |-> None]],
       [page \in Page |-> IF page = page1
          THEN [entries |-> {Artifact(version, large)}, next |-> page2]
          ELSE [entries |-> {Artifact(version, large)}, next |-> None]],
       [page \in Page |-> IF page = page1
          THEN [entries |-> {[Artifact(version, small) EXCEPT !.kind = "skipped"]}, next |-> page1]
          ELSE [entries |-> {[Artifact(version, large) EXCEPT !.kind = "invalid"]}, next |-> Elsewhere]] >>
=============================================================================
