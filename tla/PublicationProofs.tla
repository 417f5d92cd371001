-------------------------- MODULE PublicationProofs --------------------------
(***************************************************************************)
(* Theorems about Publication, for any number of processes, files, digests *)
(* and generations.                                                        *)
(***************************************************************************)
EXTENDS Publication, TLAPS

-----------------------------------------------------------------------------
(* Types *)

LEMMA EmptyType == Empty \in Index /\ EmptySnapshot \in Snapshot
BY PublicationAssumption DEF Empty, Index, EmptySnapshot, Snapshot

LEMMA ListingType == \A index \in Index : Listing(index) \in Ownership
BY DEF Index, Listing, Ownership, Entries, Named

LEMMA ExtendType == \A a, b \in Ownership : Extend(a, b) \in Ownership
BY DEF Index, Extend, Ownership

LEMMA OwnedByType ==
    \A snapshot \in Snapshot, recorded \in Ownership : OwnedBy(snapshot, recorded) \in Ownership
BY ListingType, ExtendType DEF OwnedBy, Snapshot

LEMMA StaleType == \A owned \in Ownership, want \in Index : Stale(owned, want) \in Index
BY DEF Stale, Ownership, Index

LEMMA NoTransactionType == NoTransaction \in Transaction
BY EmptyType, ListingType DEF NoTransaction, Transaction

\* Every variable keeps its type (publication.rs, registry.rs: the shapes of
\* registry.json, of the journal and of a process's transaction).
THEOREM TypeCorrect == Spec => []TypeOK
<1>1. Init => TypeOK
  BY EmptyType, ListingType, NoTransactionType, PublicationAssumption
  DEF Init, TypeOK, Steps
<1>2. TypeOK /\ [Next]_vars => TypeOK'
  <2> SUFFICES ASSUME TypeOK, [Next]_vars PROVE TypeOK'
    OBVIOUS
  <2> USE DEF TypeOK
  <2>1. ASSUME NEW p \in Proc, Abandon(p) PROVE TypeOK'
    BY <2>1, NoTransactionType DEF Abandon, Steps
  <2>2. ASSUME NEW p \in Proc, Begin(p) PROVE TypeOK'
    <3>1. PICK want \in Index :
            txn' = [txn EXCEPT ![p] = [NoTransaction EXCEPT !.base = registry, !.want = want]]
      BY <2>2 DEF Begin
    <3>2. [NoTransaction EXCEPT !.base = registry, !.want = want] \in Transaction
      BY NoTransactionType DEF Transaction
    <3> QED
      BY <2>2, <3>1, <3>2 DEF Begin, Steps
  <2>3. ASSUME NEW p \in Proc, WriteJournal(p) PROVE TypeOK'
    <3> DEFINE claimed == Extend(OwnedBy(txn[p].base, journal), Listing(txn[p].want))
    <3>1. txn[p] \in Transaction
      OBVIOUS
    <3>2. claimed \in Ownership
      BY <3>1, OwnedByType, ListingType, ExtendType DEF Transaction
    <3>3. [txn[p] EXCEPT !.owned = claimed, !.todo = Named(txn[p].want)] \in Transaction
      BY <3>1, <3>2 DEF Transaction, Named
    <3> QED
      BY <2>3, <3>2, <3>3 DEF WriteJournal, Steps
  <2>4. ASSUME NEW p \in Proc, NEW f \in File, Install(p, f) PROVE TypeOK'
    <3>1. txn[p] \in Transaction /\ txn[p].want[f] \in Digest \cup {Absent}
      BY DEF Transaction, Index
    <3>2. [txn[p] EXCEPT !.todo = @ \ {f}] \in Transaction
      BY <3>1 DEF Transaction
    <3> QED
      BY <2>4, <3>1, <3>2 DEF Install
  <2>5. ASSUME NEW p \in Proc, Commit(p) PROVE TypeOK'
    <3>1. txn[p] \in Transaction
      OBVIOUS
    <3>2. Stale(txn[p].owned, txn[p].want) \in Index
      BY <3>1, StaleType DEF Transaction
    <3>3. registry' \in Snapshot
      BY <2>5, <3>1, <3>2, PublicationAssumption DEF Commit, Committed, Snapshot, Transaction
    <3> QED
      BY <2>5, <3>3, NoTransactionType DEF Commit, Committed, Steps
  <2>6. ASSUME NEW p \in Proc, BeginCleanup(p) PROVE TypeOK'
    <3>1. [NoTransaction EXCEPT !.base = registry, !.todo = Named(registry.pending)]
            \in Transaction
      BY NoTransactionType DEF Transaction, Named
    <3> QED
      BY <2>6, <3>1 DEF BeginCleanup, Steps
  <2>7. ASSUME NEW p \in Proc, NEW f \in File, CleanFile(p, f) PROVE TypeOK'
    <3>1. txn[p] \in Transaction
      OBVIOUS
    <3>2. [txn[p] EXCEPT !.todo = @ \ {f}, !.base.pending[f] = Absent] \in Transaction
      BY <3>1 DEF Transaction, Snapshot, Index
    <3>3. /\ [txn[p] EXCEPT !.todo = @ \ {f}] \in Transaction
          /\ [txn[p] EXCEPT !.todo = @ \ {f}, !.doomed = {f}] \in Transaction
      BY <3>1 DEF Transaction
    <3> QED
      BY <2>7, <3>2, <3>3 DEF CleanFile
  <2>15. ASSUME NEW p \in Proc, NEW f \in File, RemoveFile(p, f) PROVE TypeOK'
    <3>1. txn[p] \in Transaction
      OBVIOUS
    <3>2. /\ [txn[p] EXCEPT !.doomed = {}, !.base.pending[f] = Absent] \in Transaction
          /\ [txn[p] EXCEPT !.doomed = {}] \in Transaction
      BY <3>1 DEF Transaction, Snapshot, Index
    <3> QED
      BY <2>15, <3>2 DEF RemoveFile
  <2>8. ASSUME NEW p \in Proc, RecordCleanup(p) PROVE TypeOK'
    <3>1. journal' \in Ownership
      BY <2>8, ListingType, ExtendType DEF RecordCleanup, Transaction, Snapshot
    <3> QED
      BY <2>8, <3>1 DEF RecordCleanup, Steps
  <2>9. ASSUME NEW p \in Proc, CommitCleanup(p) PROVE TypeOK'
    <3>1. registry' \in Snapshot
      BY <2>9, PublicationAssumption DEF CommitCleanup, Snapshot, Transaction
    <3> QED
      BY <2>9, <3>1, NoTransactionType DEF CommitCleanup, Steps
  <2>10. ASSUME NEW p \in Proc, SkipCleanup(p) PROVE TypeOK'
    BY <2>10 DEF SkipCleanup, Steps
  <2>11. ASSUME NEW f \in File, Outsider(f) PROVE TypeOK'
    BY <2>11 DEF Outsider
  <2>13. ASSUME NEW p \in Proc, NEW f \in File, LinkMismatch(p, f) PROVE TypeOK'
    BY <2>13, NoTransactionType DEF LinkMismatch, Steps
  <2>14. ASSUME NEW p \in Proc, CommitRecord(p) PROVE TypeOK'
    <3>1. registry' \in Snapshot
      BY <2>14, PublicationAssumption DEF CommitRecord, Snapshot, Transaction
    <3> QED
      BY <2>14, <3>1, NoTransactionType DEF CommitRecord, Steps
  <2>12. CASE UNCHANGED vars
    BY <2>12 DEF vars
  <2> QED
    BY <2>1, <2>2, <2>3, <2>4, <2>5, <2>6, <2>7, <2>8, <2>9, <2>10, <2>11, <2>12,
       <2>13, <2>14, <2>15
    DEF Next, Publish, Cleanup, Stop, Refuse
<1> QED
  BY <1>1, <1>2, PTL DEF Spec

-----------------------------------------------------------------------------
(* The lock *)

\* A process is inside a transaction exactly while it holds registry.lock, and
\* what it read when it took the lock is still what the registry contains.
Discipline ==
    /\ \A p \in Proc : Writing(p) <=> lock = p
    /\ \A p \in Proc : pc[p] \in {"begun", "journaled"} => txn[p].base = registry
    /\ \A p \in Proc : pc[p] \in {"cleaning", "recorded"} =>
         /\ txn[p].base.generation = registry.generation
         /\ txn[p].base.shims = registry.shims

LEMMA DisciplineInit == Init => Discipline
BY PublicationAssumption DEF Init, Discipline, Writing

LEMMA DisciplineStep == TypeOK /\ Discipline /\ [Next]_vars => Discipline'
<1> SUFFICES ASSUME TypeOK, Discipline, [Next]_vars PROVE Discipline'
  OBVIOUS
<1> USE PublicationAssumption DEF TypeOK, Discipline, Writing
<1>1. ASSUME NEW p \in Proc, Abandon(p) PROVE Discipline'
  BY <1>1 DEF Abandon
<1>2. ASSUME NEW p \in Proc, Begin(p) PROVE Discipline'
  <2>1. PICK want \in Index :
          txn' = [txn EXCEPT ![p] = [NoTransaction EXCEPT !.base = registry, !.want = want]]
    BY <1>2 DEF Begin
  <2>2. txn'[p].base = registry
    BY <2>1, NoTransactionType DEF Transaction
  <2> QED
    BY <1>2, <2>1, <2>2 DEF Begin
<1>3. ASSUME NEW p \in Proc, WriteJournal(p) PROVE Discipline'
  <2>1. txn[p] \in Transaction
    OBVIOUS
  <2>2. txn'[p].base = txn[p].base
    BY <1>3, <2>1 DEF WriteJournal, Transaction
  <2> QED
    BY <1>3, <2>2 DEF WriteJournal
<1>4. ASSUME NEW p \in Proc, NEW f \in File, Install(p, f) PROVE Discipline'
  <2>1. txn[p] \in Transaction
    OBVIOUS
  <2>2. txn'[p].base = txn[p].base
    BY <1>4, <2>1 DEF Install, Transaction
  <2> QED
    BY <1>4, <2>2 DEF Install
<1>5. ASSUME NEW p \in Proc, Commit(p) PROVE Discipline'
  BY <1>5 DEF Commit, Committed
<1>6. ASSUME NEW p \in Proc, BeginCleanup(p) PROVE Discipline'
  <2>1. txn'[p].base = registry
    BY <1>6, NoTransactionType DEF BeginCleanup, Transaction
  <2> QED
    BY <1>6, <2>1 DEF BeginCleanup
<1>7. ASSUME NEW p \in Proc, NEW f \in File, CleanFile(p, f) PROVE Discipline'
  <2>1. txn[p] \in Transaction
    OBVIOUS
  <2>2. /\ txn'[p].base.generation = txn[p].base.generation
        /\ txn'[p].base.shims = txn[p].base.shims
    BY <1>7, <2>1 DEF CleanFile, Transaction, Snapshot
  <2> QED
    BY <1>7, <2>2 DEF CleanFile
<1>15. ASSUME NEW p \in Proc, NEW f \in File, RemoveFile(p, f) PROVE Discipline'
  <2>1. txn[p] \in Transaction
    OBVIOUS
  <2>2. /\ txn'[p].base.generation = txn[p].base.generation
        /\ txn'[p].base.shims = txn[p].base.shims
    BY <1>15, <2>1 DEF RemoveFile, Transaction, Snapshot
  <2> QED
    BY <1>15, <2>2 DEF RemoveFile
<1>8. ASSUME NEW p \in Proc, RecordCleanup(p) PROVE Discipline'
  BY <1>8 DEF RecordCleanup
<1>9. ASSUME NEW p \in Proc, CommitCleanup(p) PROVE Discipline'
  BY <1>9 DEF CommitCleanup
<1>10. ASSUME NEW p \in Proc, SkipCleanup(p) PROVE Discipline'
  BY <1>10 DEF SkipCleanup
<1>11. ASSUME NEW f \in File, Outsider(f) PROVE Discipline'
  BY <1>11 DEF Outsider
<1>13. ASSUME NEW p \in Proc, NEW f \in File, LinkMismatch(p, f) PROVE Discipline'
  BY <1>13 DEF LinkMismatch
<1>14. ASSUME NEW p \in Proc, CommitRecord(p) PROVE Discipline'
  BY <1>14 DEF CommitRecord
<1>12. CASE UNCHANGED vars
  BY <1>12 DEF vars
<1> QED
  BY <1>1, <1>2, <1>3, <1>4, <1>5, <1>6, <1>7, <1>8, <1>9, <1>10, <1>11, <1>12,
     <1>13, <1>14, <1>15
  DEF Next, Publish, Cleanup, Stop, Refuse

LEMMA LockDiscipline == Spec => [](TypeOK /\ Discipline)
<1>1. TypeOK /\ Discipline /\ [Next]_vars => Discipline'
  BY DisciplineStep
<1> QED
  BY <1>1, DisciplineInit, TypeCorrect, PTL DEF Spec

\* A process that may still commit works on the registry as it is now: no
\* commit undoes another one (Registry::transaction to Transaction::commit).
THEOREM CommitsAreCurrent == Spec => []SnapshotIsCurrent
<1>1. Discipline => SnapshotIsCurrent
  BY DEF Discipline, SnapshotIsCurrent, Writing
<1> QED
  BY <1>1, LockDiscipline, PTL

-----------------------------------------------------------------------------
(* The journal *)

LEMMA ClaimedEntries ==
    ASSUME NEW snapshot \in Snapshot, NEW recorded \in Ownership, NEW want \in Index
    PROVE  LET claimed == Extend(OwnedBy(snapshot, recorded), Listing(want))
           IN  claimed.entries = Entries(want) \cup Entries(snapshot.shims)
                                   \cup Entries(snapshot.pending) \cup recorded.entries
BY DEF Extend, OwnedBy, Listing

LEMMA WriteAheadStep ==
    TypeOK /\ Discipline /\ WriteAhead /\ [Next]_vars => WriteAhead'
<1> SUFFICES ASSUME TypeOK, Discipline, WriteAhead, [Next]_vars PROVE WriteAhead'
  OBVIOUS
<1> USE PublicationAssumption DEF TypeOK, WriteAhead
<1>1. ASSUME NEW p \in Proc, Abandon(p) PROVE WriteAhead'
  BY <1>1 DEF Abandon
<1>2. ASSUME NEW p \in Proc, Begin(p) PROVE WriteAhead'
  BY <1>2 DEF Begin
<1>3. ASSUME NEW p \in Proc, WriteJournal(p) PROVE WriteAhead'
  <2>1. txn[p] \in Transaction /\ txn[p].base = registry
    BY <1>3 DEF WriteJournal, Discipline
  <2>2. \A q \in Proc : pc'[q] = "journaled" => q = p
    BY <1>3 DEF WriteJournal, Discipline, Writing
  <2>3. txn'[p].want = txn[p].want
    BY <1>3, <2>1 DEF WriteJournal, Transaction
  <2>4. journal'.entries = Entries(txn[p].want) \cup Entries(registry.shims)
                             \cup Entries(registry.pending) \cup journal.entries
    BY <1>3, <2>1, ClaimedEntries DEF WriteJournal, Transaction
  <2> QED
    BY <1>3, <2>2, <2>3, <2>4 DEF WriteJournal
<1>4. ASSUME NEW p \in Proc, NEW f \in File, Install(p, f) PROVE WriteAhead'
  <2>1. txn[p] \in Transaction
    OBVIOUS
  <2>2. txn'[p].want = txn[p].want
    BY <1>4, <2>1 DEF Install, Transaction
  <2> QED
    BY <1>4, <2>2 DEF Install
<1>5. ASSUME NEW p \in Proc, Commit(p) PROVE WriteAhead'
  BY <1>5 DEF Commit, Committed, Discipline, Writing
<1>6. ASSUME NEW p \in Proc, BeginCleanup(p) PROVE WriteAhead'
  BY <1>6 DEF BeginCleanup
<1>7. ASSUME NEW p \in Proc, NEW f \in File, CleanFile(p, f) PROVE WriteAhead'
  BY <1>7 DEF CleanFile
<1>15. ASSUME NEW p \in Proc, NEW f \in File, RemoveFile(p, f) PROVE WriteAhead'
  BY <1>15 DEF RemoveFile
<1>8. ASSUME NEW p \in Proc, RecordCleanup(p) PROVE WriteAhead'
  BY <1>8 DEF RecordCleanup, Discipline, Writing
<1>9. ASSUME NEW p \in Proc, CommitCleanup(p) PROVE WriteAhead'
  BY <1>9 DEF CommitCleanup, Discipline, Writing
<1>10. ASSUME NEW p \in Proc, SkipCleanup(p) PROVE WriteAhead'
  BY <1>10 DEF SkipCleanup
<1>11. ASSUME NEW f \in File, Outsider(f) PROVE WriteAhead'
  BY <1>11 DEF Outsider
<1>13. ASSUME NEW p \in Proc, NEW f \in File, LinkMismatch(p, f) PROVE WriteAhead'
  BY <1>13 DEF LinkMismatch, Discipline, Writing
<1>14. ASSUME NEW p \in Proc, CommitRecord(p) PROVE WriteAhead'
  BY <1>14 DEF CommitRecord, Discipline, Writing
<1>12. CASE UNCHANGED vars
  BY <1>12 DEF vars
<1> QED
  BY <1>1, <1>2, <1>3, <1>4, <1>5, <1>6, <1>7, <1>8, <1>9, <1>10, <1>11, <1>12,
     <1>13, <1>14, <1>15
  DEF Next, Publish, Cleanup, Stop, Refuse

\* While files are replaced, the journal on disk names every file PyRudder may
\* own: those of the new index, of the old one and of pending cleanup.
THEOREM JournalAhead == Spec => []WriteAhead
<1>1. Init => WriteAhead
  BY DEF Init, WriteAhead
<1> QED
  BY <1>1, WriteAheadStep, LockDiscipline, PTL DEF Spec

-----------------------------------------------------------------------------
(* Cleanup and the committed index *)

\* What is pending removal is never named by the index it stands beside, and
\* cleanup removes nothing else.
Disjoint ==
    /\ Named(registry.shims) \cap Named(registry.pending) = {}
    /\ \A p \in Proc : pc[p] \in {"cleaning", "recorded"} =>
         Named(registry.shims) \cap Named(txn[p].base.pending) = {}
    /\ \A p \in Proc : txn[p].doomed \subseteq Named(txn[p].base.pending)

LEMMA DoomedNowhere == NoTransaction.doomed = {}
BY DEF NoTransaction

LEMMA DisjointStep == TypeOK /\ Discipline /\ Disjoint /\ [Next]_vars => Disjoint'
<1> SUFFICES ASSUME TypeOK, Discipline, Disjoint, [Next]_vars PROVE Disjoint'
  OBVIOUS
<1> USE PublicationAssumption DEF TypeOK, Disjoint
<1>1. ASSUME NEW p \in Proc, Abandon(p) PROVE Disjoint'
  BY <1>1, DoomedNowhere DEF Abandon
<1>2. ASSUME NEW p \in Proc, Begin(p) PROVE Disjoint'
  <2>1. txn'[p].doomed = {} /\ \A q \in Proc \ {p} : txn'[q] = txn[q]
    BY <1>2 DEF Begin, NoTransaction
  <2> QED
    BY <1>2, <2>1 DEF Begin
<1>3. ASSUME NEW p \in Proc, WriteJournal(p) PROVE Disjoint'
  <2>1. txn[p] \in Transaction
    OBVIOUS
  <2>2. txn'[p].base = txn[p].base /\ txn'[p].doomed = txn[p].doomed
    BY <1>3, <2>1 DEF WriteJournal, Transaction
  <2> QED
    BY <1>3, <2>2 DEF WriteJournal
<1>4. ASSUME NEW p \in Proc, NEW f \in File, Install(p, f) PROVE Disjoint'
  <2>1. txn[p] \in Transaction
    OBVIOUS
  <2>2. txn'[p].base = txn[p].base /\ txn'[p].doomed = txn[p].doomed
    BY <1>4, <2>1 DEF Install, Transaction
  <2> QED
    BY <1>4, <2>2 DEF Install
<1>5. ASSUME NEW p \in Proc, Commit(p) PROVE Disjoint'
  <2>1. Named(registry'.shims) \cap Named(registry'.pending) = {}
    BY <1>5 DEF Commit, Committed, Stale, Named
  <2>2. \A q \in Proc : pc'[q] \notin {"cleaning", "recorded"}
    BY <1>5 DEF Commit, Committed, Discipline, Writing
  <2> QED
    BY <1>5, <2>1, <2>2, DoomedNowhere DEF Commit, Committed
<1>6. ASSUME NEW p \in Proc, BeginCleanup(p) PROVE Disjoint'
  <2>1. txn'[p].base = registry /\ txn'[p].doomed = {}
    BY <1>6, NoTransactionType, DoomedNowhere DEF BeginCleanup, Transaction
  <2> QED
    BY <1>6, <2>1 DEF BeginCleanup
<1>7. ASSUME NEW p \in Proc, NEW f \in File, CleanFile(p, f) PROVE Disjoint'
  <2>1. txn[p] \in Transaction /\ txn[p].base.pending \in Index /\ txn[p].doomed = {}
    BY <1>7 DEF CleanFile, Transaction, Snapshot
  <2>2. \/ /\ txn'[p].base.pending = [txn[p].base.pending EXCEPT ![f] = Absent]
           /\ txn'[p].doomed = {}
        \/ /\ txn'[p].base.pending = txn[p].base.pending
           /\ txn'[p].doomed \subseteq Named(txn[p].base.pending)
    BY <1>7, <2>1 DEF CleanFile, Transaction, Snapshot, Named
  <2>3. Named(txn'[p].base.pending) \subseteq Named(txn[p].base.pending)
    BY <2>1, <2>2 DEF Named, Index
  <2> QED
    BY <1>7, <2>2, <2>3 DEF CleanFile
<1>15. ASSUME NEW p \in Proc, NEW f \in File, RemoveFile(p, f) PROVE Disjoint'
  <2>1. txn[p] \in Transaction /\ txn[p].base.pending \in Index
    BY DEF Transaction, Snapshot
  <2>2. /\ \/ txn'[p].base.pending = [txn[p].base.pending EXCEPT ![f] = Absent]
           \/ txn'[p].base.pending = txn[p].base.pending
        /\ txn'[p].doomed = {}
    BY <1>15, <2>1 DEF RemoveFile, Transaction, Snapshot
  <2>3. Named(txn'[p].base.pending) \subseteq Named(txn[p].base.pending)
    BY <2>1, <2>2 DEF Named, Index
  <2> QED
    BY <1>15, <2>2, <2>3 DEF RemoveFile
<1>8. ASSUME NEW p \in Proc, RecordCleanup(p) PROVE Disjoint'
  BY <1>8 DEF RecordCleanup
<1>9. ASSUME NEW p \in Proc, CommitCleanup(p) PROVE Disjoint'
  <2>1. txn[p] \in Transaction /\ txn[p].base.shims = registry.shims
    BY <1>9 DEF CommitCleanup, Discipline
  <2>2. /\ registry'.shims = registry.shims
        /\ registry'.pending = txn[p].base.pending
    BY <1>9, <2>1 DEF CommitCleanup, Transaction, Snapshot
  <2> QED
    BY <1>9, <2>2, DoomedNowhere DEF CommitCleanup, Discipline, Writing
<1>10. ASSUME NEW p \in Proc, SkipCleanup(p) PROVE Disjoint'
  BY <1>10 DEF SkipCleanup
<1>11. ASSUME NEW f \in File, Outsider(f) PROVE Disjoint'
  BY <1>11 DEF Outsider
<1>13. ASSUME NEW p \in Proc, NEW f \in File, LinkMismatch(p, f) PROVE Disjoint'
  BY <1>13, DoomedNowhere DEF LinkMismatch
<1>14. ASSUME NEW p \in Proc, CommitRecord(p) PROVE Disjoint'
  <2>1. txn[p] \in Transaction /\ txn[p].base = registry
    BY <1>14 DEF CommitRecord, Discipline
  <2>2. UNCHANGED <<registry.shims, registry.pending>>
    BY <1>14, <2>1 DEF CommitRecord, Transaction, Snapshot
  <2> QED
    BY <1>14, <2>2, DoomedNowhere DEF CommitRecord, Discipline, Writing
<1>12. CASE UNCHANGED vars
  BY <1>12 DEF vars
<1> QED
  BY <1>1, <1>2, <1>3, <1>4, <1>5, <1>6, <1>7, <1>8, <1>9, <1>10, <1>11, <1>12,
     <1>13, <1>14, <1>15
  DEF Next, Publish, Cleanup, Stop, Refuse

LEMMA PendingIsUnrouted == Spec => []Disjoint
<1>1. Init => Disjoint
  BY DoomedNowhere DEF Init, Disjoint, Named, Empty, EmptySnapshot
<1> QED
  BY <1>1, DisjointStep, LockDiscipline, PTL DEF Spec

\* Cleanup, which runs in a transaction of its own after the commit, never
\* touches a file the index committed by then routes through.
THEOREM CleanupIsSafe == Spec => CleanupSparesRouted
<1> DEFINE Cleaned(p) == pc[p] = "cleaning" /\ pc'[p] = "cleaning" /\ txn'[p] # txn[p]
           Spared == \A p \in Proc : Cleaned(p) =>
                       \A f \in Named(registry.shims) : disk'[f] = disk[f]
<1>1. TypeOK /\ Discipline /\ Disjoint /\ [Next]_vars => Spared
  <2> SUFFICES ASSUME TypeOK, Discipline, Disjoint, [Next]_vars,
                      NEW p \in Proc, Cleaned(p),
                      NEW f \in Named(registry.shims)
               PROVE  disk'[f] = disk[f]
    OBVIOUS
  <2>1. PICK g \in File : CleanFile(p, g) \/ RemoveFile(p, g)
    <3>1. lock = p
      BY DEF Discipline, Writing
    <3>2. ~\E q \in Proc : Begin(q) \/ BeginCleanup(q)
      BY <3>1, PublicationAssumption DEF Begin, BeginCleanup
    <3>3. \A q \in Proc : pc[q] \in {"begun", "journaled", "recorded"} => q # p
      BY DEF TypeOK
    <3>4. \A q \in Proc : pc[q] \in {"begun", "journaled", "recorded", "cleaning"} => q = p
      BY <3>1 DEF Discipline, Writing
    <3>5. \A q \in Proc : Abandon(q) => ~Cleaned(p)
      BY DEF Abandon, TypeOK
    <3>6. \A q \in Proc : RecordCleanup(q) \/ SkipCleanup(q) => ~Cleaned(p)
      BY DEF RecordCleanup, SkipCleanup, TypeOK
    <3>7. ~UNCHANGED vars /\ \A h \in File : ~Outsider(h)
      BY DEF vars, Outsider
    <3>8. \A q \in Proc : /\ ~WriteJournal(q) /\ ~Commit(q) /\ ~CommitCleanup(q) /\ ~Refuse(q)
                          /\ ~CommitRecord(q)
                          /\ \A h \in File : ~Install(q, h) /\ ~LinkMismatch(q, h)
      BY <3>3, <3>4 DEF WriteJournal, Commit, CommitCleanup, Refuse, Install, CommitRecord,
                        LinkMismatch
    <3>9. \A q \in Proc, h \in File : CleanFile(q, h) \/ RemoveFile(q, h) => q = p
      BY <3>4 DEF CleanFile, RemoveFile
    <3> QED
      BY <3>2, <3>5, <3>6, <3>7, <3>8, <3>9 DEF Next, Publish, Cleanup, Stop
  <2>2. f \in File /\ f \notin txn[p].doomed
    BY DEF Disjoint, Named
  <2> QED
    BY <2>1, <2>2 DEF CleanFile, RemoveFile, TypeOK
<1> QED
  BY <1>1, PendingIsUnrouted, LockDiscipline, PTL DEF Spec, CleanupSparesRouted

-----------------------------------------------------------------------------
(* Foreign files *)

\* Once the destinations are checked, a planned file that nobody raced for is
\* not foreign, and is the planned image as soon as it is installed; and a stale
\* file about to be removed is not foreign, unless somebody raced for it.
Checked ==
    \A p \in Proc : pc[p] = "journaled" =>
        /\ txn[p].todo \subseteq Named(txn[p].want)
        /\ \A f \in Named(txn[p].want) \ raced : disk[f] # Foreign
        /\ \A f \in Named(txn[p].want) \ (txn[p].todo \cup raced) : disk[f] = txn[p].want[f]

RemovalChecked ==
    \A p \in Proc : pc[p] = "cleaning" => \A f \in txn[p].doomed \ raced : disk[f] # Foreign

LEMMA CheckedStep == TypeOK /\ Discipline /\ Checked /\ [Next]_vars => Checked'
<1> SUFFICES ASSUME TypeOK, Discipline, Checked, [Next]_vars PROVE Checked'
  OBVIOUS
<1> USE PublicationAssumption DEF TypeOK, Checked
<1>1. ASSUME NEW p \in Proc, Abandon(p) PROVE Checked'
  BY <1>1 DEF Abandon, Discipline, Writing
<1>2. ASSUME NEW p \in Proc, Begin(p) PROVE Checked'
  BY <1>2 DEF Begin
<1>3. ASSUME NEW p \in Proc, WriteJournal(p) PROVE Checked'
  <2> DEFINE owned == OwnedBy(txn[p].base, journal)
  <2>1. txn[p] \in Transaction
    OBVIOUS
  <2>2. /\ txn'[p].want = txn[p].want
        /\ txn'[p].todo = Named(txn[p].want)
    BY <1>3, <2>1 DEF WriteJournal, Transaction
  <2>3. \A q \in Proc : pc'[q] = "journaled" => q = p
    BY <1>3 DEF WriteJournal, Discipline, Writing
  <2>4. owned \in Ownership
    BY <2>1, OwnedByType DEF Transaction
  <2>5. ASSUME NEW f \in Named(txn[p].want) PROVE disk[f] # Foreign
    <3>1. disk[f] = Absent \/ <<f, disk[f]>> \in owned.entries
      BY <1>3, <2>5 DEF WriteJournal, Replaceable
    <3>2. owned.entries \subseteq File \X Digest
      BY <2>4 DEF Ownership
    <3> QED
      BY <3>1, <3>2
  <2> QED
    BY <1>3, <2>2, <2>3, <2>5 DEF WriteJournal
<1>4. ASSUME NEW p \in Proc, NEW f \in File, Install(p, f) PROVE Checked'
  <2>1. txn[p] \in Transaction
    OBVIOUS
  <2>2. /\ txn'[p].want = txn[p].want
        /\ txn'[p].todo = txn[p].todo \ {f}
        /\ \A q \in Proc \ {p} : txn'[q] = txn[q]
    BY <1>4, <2>1 DEF Install, Transaction
  <2>3. \A q \in Proc : pc[q] = "journaled" => q = p
    BY <1>4 DEF Install, Discipline, Writing
  <2>4. txn[p].want[f] # Foreign
    BY <2>1 DEF Transaction, Index
  <2> QED
    BY <1>4, <2>2, <2>3, <2>4 DEF Install
<1>5. ASSUME NEW p \in Proc, Commit(p) PROVE Checked'
  BY <1>5 DEF Commit, Committed, Discipline, Writing
<1>6. ASSUME NEW p \in Proc, BeginCleanup(p) PROVE Checked'
  BY <1>6 DEF BeginCleanup
<1>7. ASSUME NEW p \in Proc, NEW f \in File, CleanFile(p, f) PROVE Checked'
  BY <1>7 DEF CleanFile, Discipline, Writing
<1>15. ASSUME NEW p \in Proc, NEW f \in File, RemoveFile(p, f) PROVE Checked'
  BY <1>15 DEF RemoveFile, Discipline, Writing
<1>8. ASSUME NEW p \in Proc, RecordCleanup(p) PROVE Checked'
  BY <1>8 DEF RecordCleanup
<1>9. ASSUME NEW p \in Proc, CommitCleanup(p) PROVE Checked'
  BY <1>9 DEF CommitCleanup
<1>10. ASSUME NEW p \in Proc, SkipCleanup(p) PROVE Checked'
  BY <1>10 DEF SkipCleanup
<1>11. ASSUME NEW f \in File, Outsider(f) PROVE Checked'
  <2>1. /\ UNCHANGED <<pc, txn>>
        /\ \A g \in File \ {f} : disk'[g] = disk[g]
        /\ \A q \in Proc : pc[q] = "journaled" => raced' = raced \cup {f}
    BY <1>11 DEF Outsider
  <2>2. \A q \in Proc : Named(txn[q].want) \subseteq File
    BY DEF Named
  <2> QED
    BY <2>1, <2>2
<1>13. ASSUME NEW p \in Proc, NEW f \in File, LinkMismatch(p, f) PROVE Checked'
  BY <1>13 DEF LinkMismatch, Discipline, Writing
<1>14. ASSUME NEW p \in Proc, CommitRecord(p) PROVE Checked'
  BY <1>14 DEF CommitRecord, Discipline, Writing
<1>12. CASE UNCHANGED vars
  BY <1>12 DEF vars
<1> QED
  BY <1>1, <1>2, <1>3, <1>4, <1>5, <1>6, <1>7, <1>8, <1>9, <1>10, <1>11, <1>12,
     <1>13, <1>14, <1>15
  DEF Next, Publish, Cleanup, Stop, Refuse

LEMMA RemovalStep ==
    TypeOK /\ TypeOK' /\ Discipline /\ RemovalChecked /\ [Next]_vars => RemovalChecked'
<1> SUFFICES ASSUME TypeOK, TypeOK', Discipline, RemovalChecked, [Next]_vars,
                    NEW q \in Proc, pc'[q] = "cleaning", NEW g \in txn'[q].doomed \ raced'
             PROVE  disk'[g] # Foreign
  BY DEF RemovalChecked
<1> USE PublicationAssumption DEF TypeOK, RemovalChecked
<1>1. ASSUME NEW p \in Proc, CleanFile(p, g) PROVE disk'[g] # Foreign
  <2>1. p = q
    BY <1>1 DEF CleanFile, Discipline, Writing
  <2>2. txn[q] \in Transaction /\ txn[q].base.pending[g] # Foreign /\ txn[q].doomed = {}
    BY <1>1, <2>1 DEF CleanFile, Transaction, Snapshot, Index
  <2> QED
    BY <1>1, <2>1, <2>2 DEF CleanFile, Transaction
<1>2. ASSUME NEW p \in Proc, NEW f \in File \ {g}, CleanFile(p, f) PROVE FALSE
  <2>1. p = q
    BY <1>2 DEF CleanFile, Discipline, Writing
  <2>2. txn[q] \in Transaction /\ txn[q].doomed = {}
    BY <1>2, <2>1 DEF CleanFile
  <2> QED
    BY <1>2, <2>1, <2>2 DEF CleanFile, Transaction
<1>3. ASSUME NEW p \in Proc, NEW f \in File, RemoveFile(p, f) PROVE FALSE
  <2>1. p = q
    BY <1>3 DEF RemoveFile, Discipline, Writing
  <2>2. txn'[q].doomed = {}
    BY <1>3, <2>1 DEF RemoveFile, Transaction
  <2> QED
    BY <2>2
<1>4. ASSUME NEW f \in File, Outsider(f) PROVE disk'[g] # Foreign
  <2>1. /\ UNCHANGED <<pc, txn>> /\ g # f
        /\ disk'[g] = disk[g] /\ raced \subseteq raced'
    BY <1>4 DEF Outsider
  <2> QED
    BY <2>1
<1>5. ASSUME NEW p \in Proc, BeginCleanup(p) PROVE disk'[g] # Foreign
  <2>1. txn'[p].doomed = {} /\ \A r \in Proc \ {p} : pc'[r] = pc[r] /\ pc[r] # "cleaning"
    BY <1>5, DoomedNowhere, NoTransactionType
    DEF BeginCleanup, Transaction, Discipline, Writing
  <2> QED
    BY <2>1
<1>6. ASSUME NEW p \in Proc,
             \/ Abandon(p) \/ Begin(p) \/ WriteJournal(p) \/ Commit(p) \/ CommitRecord(p)
             \/ SkipCleanup(p) \/ RecordCleanup(p) \/ CommitCleanup(p)
             \/ \E f \in File : Install(p, f) \/ LinkMismatch(p, f)
      PROVE  disk'[g] # Foreign
  <2>1. p # q
    BY <1>6 DEF Abandon, Begin, WriteJournal, Commit, Committed, CommitRecord, SkipCleanup,
                RecordCleanup, CommitCleanup, Install, LinkMismatch
  <2>2. pc[q] = "cleaning" /\ txn'[q] = txn[q] /\ lock = q
    BY <1>6, <2>1 DEF Abandon, Begin, WriteJournal, Commit, Committed, CommitRecord,
       SkipCleanup, RecordCleanup, CommitCleanup, Install, LinkMismatch, Discipline, Writing
  <2>3. \/ Abandon(p) /\ pc[p] \notin {"journaled", "cleaning"}
        \/ SkipCleanup(p)
    BY <1>6, <2>1, <2>2 DEF Begin, WriteJournal, Commit, CommitRecord, RecordCleanup,
       CommitCleanup, Install, LinkMismatch, Discipline, Writing
  <2> QED
    BY <2>2, <2>3 DEF Abandon, SkipCleanup
<1>7. CASE UNCHANGED vars
  BY <1>7 DEF vars
<1>8. g \in File
  BY DEF Transaction
<1> QED
  BY <1>1, <1>2, <1>3, <1>4, <1>5, <1>6, <1>7, <1>8 DEF Next, Publish, Cleanup, Stop, Refuse

LEMMA RemovalsChecked == Spec => []RemovalChecked
<1>1. Init => RemovalChecked
  BY DEF Init, RemovalChecked
<1> QED
  BY <1>1, RemovalStep, LockDiscipline, PTL DEF Spec

LEMMA DestinationsChecked == Spec => []Checked
<1>1. Init => Checked
  BY DEF Init, Checked
<1> QED
  BY <1>1, CheckedStep, LockDiscipline, PTL DEF Spec

\* No step of PyRudder changes a file whose content PyRudder never wrote, save one
\* that appeared in one of the two windows `raced' stands for: from the check of
\* the destinations to the end of the publication, and from the digest of a stale
\* file to its removal (publication.rs:212-262, 276-277).
THEOREM ForeignIsSafe == Spec => ForeignSurvives
<1> DEFINE Survives == PyRudderStep =>
                         \A f \in File \ raced : disk[f] = Foreign => disk'[f] = Foreign
<1>1. TypeOK /\ Checked /\ RemovalChecked /\ [Next]_vars => Survives
  <2> SUFFICES ASSUME TypeOK, Checked, RemovalChecked, [Next]_vars, PyRudderStep,
                      NEW f \in File \ raced, disk[f] = Foreign
               PROVE  disk'[f] = Foreign
    OBVIOUS
  <2>1. ASSUME NEW p \in Proc, NEW g \in File, Install(p, g) PROVE disk'[f] = Foreign
    <3>1. f # g
      BY <2>1 DEF Install, Checked
    <3> QED
      BY <2>1, <3>1 DEF Install, TypeOK
  <2>2. ASSUME NEW p \in Proc, NEW g \in File, RemoveFile(p, g) PROVE disk'[f] = Foreign
    <3>1. f # g
      BY <2>2 DEF RemoveFile, RemovalChecked
    <3> QED
      BY <2>2, <3>1 DEF RemoveFile, TypeOK
  <2>3. ASSUME NEW g \in File, Outsider(g) PROVE FALSE
    BY <2>3 DEF Outsider, PyRudderStep
  <2>4. ASSUME NEW p \in Proc,
               \/ Abandon(p) \/ Begin(p) \/ WriteJournal(p) \/ Commit(p) \/ SkipCleanup(p)
               \/ BeginCleanup(p) \/ RecordCleanup(p) \/ CommitCleanup(p) \/ CommitRecord(p)
               \/ \E g \in File : CleanFile(p, g)
        PROVE  disk'[f] = Foreign
    BY <2>4 DEF Abandon, Begin, WriteJournal, Commit, Committed, SkipCleanup,
                BeginCleanup, CleanFile, RecordCleanup, CommitCleanup, CommitRecord
  <2>5. ASSUME NEW p \in Proc, NEW g \in File, LinkMismatch(p, g) PROVE disk'[f] = Foreign
    BY <2>5 DEF LinkMismatch, TypeOK
  <2>6. CASE UNCHANGED vars
    BY <2>6 DEF vars
  <2> QED
    BY <2>1, <2>2, <2>3, <2>4, <2>5, <2>6 DEF Next, Publish, Cleanup, Stop, Refuse
<1> QED
  BY <1>1, TypeCorrect, DestinationsChecked, RemovalsChecked, PTL DEF Spec, ForeignSurvives

-----------------------------------------------------------------------------
(* Evidence *)

\* While cleanup works, its transaction and the registry list the same files as
\* pending, except those cleanup has already found gone or removed: what stands
\* there since is not PyRudder's, for PyRudder writes only under registry.lock.
Forgotten ==
    \A p \in Proc : pc[p] \in {"cleaning", "recorded"} =>
        \A f \in File : \/ txn[p].base.pending[f] = registry.pending[f]
                        \/ disk[f] \in {Absent, Foreign}

LEMMA ForgottenStep == TypeOK /\ Discipline /\ Forgotten /\ [Next]_vars => Forgotten'
<1> SUFFICES ASSUME TypeOK, Discipline, Forgotten, [Next]_vars PROVE Forgotten'
  OBVIOUS
<1> USE PublicationAssumption DEF TypeOK, Forgotten
<1>1. ASSUME NEW p \in Proc, Abandon(p) PROVE Forgotten'
  BY <1>1 DEF Abandon
<1>2. ASSUME NEW p \in Proc, Begin(p) PROVE Forgotten'
  BY <1>2 DEF Begin
<1>3. ASSUME NEW p \in Proc, WriteJournal(p) PROVE Forgotten'
  BY <1>3 DEF WriteJournal
<1>4. ASSUME NEW p \in Proc, NEW f \in File, Install(p, f) PROVE Forgotten'
  BY <1>4 DEF Install, Discipline, Writing
<1>5. ASSUME NEW p \in Proc, Commit(p) PROVE Forgotten'
  BY <1>5 DEF Commit, Committed, Discipline, Writing
<1>6. ASSUME NEW p \in Proc, BeginCleanup(p) PROVE Forgotten'
  <2>1. txn'[p].base = registry
    BY <1>6, NoTransactionType DEF BeginCleanup, Transaction
  <2> QED
    BY <1>6, <2>1 DEF BeginCleanup
<1>7. ASSUME NEW p \in Proc, NEW f \in File, CleanFile(p, f) PROVE Forgotten'
  <2>1. txn[p] \in Transaction
    OBVIOUS
  <2>2. \A q \in Proc : pc'[q] \in {"cleaning", "recorded"} => q = p
    BY <1>7 DEF CleanFile, Discipline, Writing
  <2>3. /\ \A g \in File \ {f} : txn'[p].base.pending[g] = txn[p].base.pending[g]
        /\ disk[f] = Absent \/ txn'[p].base.pending[f] = txn[p].base.pending[f]
    BY <1>7, <2>1 DEF CleanFile, Transaction, Snapshot, Index
  <2> QED
    BY <1>7, <2>2, <2>3 DEF CleanFile
<1>15. ASSUME NEW p \in Proc, NEW f \in File, RemoveFile(p, f) PROVE Forgotten'
  <2>1. txn[p] \in Transaction
    OBVIOUS
  <2>2. \A q \in Proc : pc'[q] \in {"cleaning", "recorded"} => q = p
    BY <1>15 DEF RemoveFile, Discipline, Writing
  <2>3. /\ \A g \in File \ {f} : /\ disk'[g] = disk[g]
                                 /\ txn'[p].base.pending[g] = txn[p].base.pending[g]
        /\ \/ disk'[f] = Absent
           \/ /\ disk' = disk
              /\ txn'[p].base.pending[f] = txn[p].base.pending[f]
    BY <1>15, <2>1 DEF RemoveFile, Transaction, Snapshot, Index
  <2> QED
    BY <1>15, <2>2, <2>3 DEF RemoveFile
<1>8. ASSUME NEW p \in Proc, RecordCleanup(p) PROVE Forgotten'
  BY <1>8 DEF RecordCleanup
<1>9. ASSUME NEW p \in Proc, CommitCleanup(p) PROVE Forgotten'
  BY <1>9 DEF CommitCleanup, Discipline, Writing
<1>10. ASSUME NEW p \in Proc, SkipCleanup(p) PROVE Forgotten'
  BY <1>10 DEF SkipCleanup
<1>11. ASSUME NEW f \in File, Outsider(f) PROVE Forgotten'
  <2>1. /\ disk'[f] \in {Absent, Foreign}
        /\ \A g \in File \ {f} : disk'[g] = disk[g]
    BY <1>11 DEF Outsider
  <2> QED
    BY <1>11, <2>1 DEF Outsider
<1>13. ASSUME NEW p \in Proc, NEW f \in File, LinkMismatch(p, f) PROVE Forgotten'
  BY <1>13 DEF LinkMismatch, Discipline, Writing
<1>14. ASSUME NEW p \in Proc, CommitRecord(p) PROVE Forgotten'
  BY <1>14 DEF CommitRecord, Discipline, Writing
<1>12. CASE UNCHANGED vars
  BY <1>12 DEF vars
<1> QED
  BY <1>1, <1>2, <1>3, <1>4, <1>5, <1>6, <1>7, <1>8, <1>9, <1>10, <1>11, <1>12,
     <1>13, <1>14, <1>15
  DEF Next, Publish, Cleanup, Stop, Refuse

LEMMA CleanedIsForgotten == Spec => []Forgotten
<1>1. Init => Forgotten
  BY DEF Init, Forgotten
<1> QED
  BY <1>1, ForgottenStep, LockDiscipline, PTL DEF Spec

\* However publications and cleanups interleave, fail and are killed, evidence
\* that PyRudder wrote a file which stays in place is lost by one step of the
\* code only: the rewrite of the journal in finish_cleanup (publication.rs:282-296).
THEOREM EvidenceIsKept == Spec => EvidenceLostOnlyByRewrite
<1> DEFINE Rewritten == \E p \in Proc : pc[p] = "cleaning" /\ pc'[p] = "recorded"
           Lost(f) == /\ disk[f] \in Digest /\ Evidence(f, disk[f]) /\ disk'[f] = disk[f]
                      /\ ~Evidence(f, disk[f])'
           Kept == \A f \in File : disk[f] \in Digest /\ Evidence(f, disk[f]) /\ disk'[f] = disk[f]
                       /\ ~Evidence(f, disk[f])'
                       => \E p \in Proc : pc[p] = "cleaning" /\ pc'[p] = "recorded"
<1>1. TypeOK /\ Discipline /\ WriteAhead /\ Forgotten /\ [Next]_vars => Kept
  <2> SUFFICES ASSUME TypeOK, Discipline, WriteAhead, Forgotten, [Next]_vars,
                      NEW f \in File, Lost(f)
               PROVE  Rewritten
    OBVIOUS
  <2> DEFINE entry == <<f, disk[f]>>
  <2>1. /\ disk[f] \in Digest
        /\ entry \in Entries(registry.shims) \cup Entries(registry.pending) \cup journal.entries
        /\ entry \notin Entries(registry'.shims) \cup Entries(registry'.pending)
                          \cup journal'.entries
    BY DEF Evidence
  <2>2. ASSUME NEW p \in Proc, WriteJournal(p) PROVE FALSE
    <3>1. txn[p] \in Transaction
      BY DEF TypeOK
    <3>2. journal.entries \subseteq journal'.entries /\ registry' = registry
      BY <2>2, <3>1, ClaimedEntries DEF WriteJournal, Transaction, TypeOK
    <3> QED
      BY <2>1, <3>2
  <2>3. ASSUME NEW p \in Proc, Commit(p) PROVE FALSE
    <3>1. entry \in journal.entries
      BY <2>1, <2>3 DEF Commit, WriteAhead
    <3> QED
      BY <2>1, <2>3, <3>1 DEF Commit, Committed
  <2>4. ASSUME NEW p \in Proc, CommitRecord(p) PROVE FALSE
    <3>1. /\ registry'.shims = registry.shims /\ registry'.pending = registry.pending
          /\ journal' = journal
      BY <2>4 DEF CommitRecord, Discipline, TypeOK, Snapshot
    <3> QED
      BY <2>1, <3>1
  <2>5. ASSUME NEW p \in Proc, CommitCleanup(p) PROVE FALSE
    <3>1. txn[p] \in Transaction
      BY DEF TypeOK
    <3>2. /\ registry'.shims = registry.shims /\ journal' = journal
          /\ registry'.pending = txn[p].base.pending
      BY <2>5, <3>1 DEF CommitCleanup, Discipline, Transaction, Snapshot
    <3>3. txn[p].base.pending[f] = registry.pending[f]
      BY <2>1, <2>5, PublicationAssumption DEF CommitCleanup, Forgotten
    <3>4. entry \in Entries(registry.pending) => entry \in Entries(txn[p].base.pending)
      BY <3>3 DEF Entries, Named
    <3> QED
      BY <2>1, <3>2, <3>4
  <2>6. ASSUME NEW p \in Proc, RecordCleanup(p) PROVE Rewritten
    BY <2>6 DEF RecordCleanup, TypeOK
  <2>7. ASSUME UNCHANGED <<registry, journal>> PROVE FALSE
    BY <2>1, <2>7
  <2>8. ASSUME NEW p \in Proc, Publish(p) PROVE FALSE
    BY <2>2, <2>3, <2>4, <2>7, <2>8 DEF Publish, Begin, Refuse, Abandon, Install, LinkMismatch
  <2>9. ASSUME NEW p \in Proc, Cleanup(p) PROVE Rewritten
    BY <2>5, <2>6, <2>7, <2>9 DEF Cleanup, SkipCleanup, BeginCleanup, CleanFile, RemoveFile
  <2> QED
    BY <2>7, <2>8, <2>9 DEF Next, Stop, Abandon, Outsider, vars
<1> QED
  BY <1>1, LockDiscipline, JournalAhead, CleanedIsForgotten, PTL
  DEF Spec, EvidenceLostOnlyByRewrite

-----------------------------------------------------------------------------
(* Publication implements RoutingIndex *)

Answering == {f \in Named(registry.shims) : disk[f] = registry.shims[f]}

LEMMA ImplementsInit == Init => Promise!AbsInit
BY DEF Init, EmptySnapshot, Empty, Named, Promise!AbsInit

LEMMA ImplementsStep ==
    TypeOK /\ Discipline /\ Checked /\ Disjoint /\ [Next]_vars
        => [Promise!AbsNext]_(Promise!absvars)
<1> SUFFICES ASSUME TypeOK, Discipline, Checked, Disjoint, [Next]_vars
             PROVE  [Promise!AbsNext]_(Promise!absvars)
  OBVIOUS
<1> USE PublicationAssumption DEF TypeOK, Promise!Names
<1>1. ASSUME UNCHANGED registry, raced' \in {raced, {}} PROVE Promise!Drift
  BY <1>1 DEF Promise!Drift, Named
<1>2. ASSUME NEW p \in Proc, Abandon(p) PROVE Promise!AbsNext
  BY <1>1, <1>2 DEF Abandon, Promise!AbsNext
<1>3. ASSUME NEW p \in Proc,
             \/ Begin(p) \/ WriteJournal(p) \/ SkipCleanup(p) \/ BeginCleanup(p)
             \/ RecordCleanup(p)
             \/ \E f \in File : \/ Install(p, f) \/ LinkMismatch(p, f)
                              \/ CleanFile(p, f) \/ RemoveFile(p, f)
      PROVE  Promise!AbsNext
  <2>1. UNCHANGED registry /\ raced' \in {raced, {}}
    BY <1>3 DEF Begin, WriteJournal, SkipCleanup, BeginCleanup, RecordCleanup, Install,
                LinkMismatch, CleanFile, RemoveFile
  <2> QED
    BY <1>1, <2>1 DEF Promise!AbsNext
<1>4. ASSUME NEW p \in Proc, Commit(p) PROVE Promise!AbsNext
  <2>1. txn[p] \in Transaction /\ txn[p].base = registry /\ txn[p].todo = {}
    BY <1>4 DEF Commit, Discipline
  <2>2. registry'.generation = registry.generation + 1
    BY <1>4, <2>1 DEF Commit, Committed
  <2>3. registry'.shims = txn[p].want /\ disk' = disk /\ raced' = {}
    BY <1>4 DEF Commit, Committed
  <2>4. registry'.shims \in Promise!Tables
    BY <2>1, <2>3 DEF Transaction, Index, Promise!Tables
  <2>5. \A f \in Named(registry'.shims) \ raced : disk'[f] = registry'.shims[f]
    BY <1>4, <2>1, <2>3 DEF Commit, Checked
  <2> QED
    BY <2>2, <2>3, <2>4, <2>5 DEF Promise!AbsNext, Promise!Expose, Named
<1>5. ASSUME NEW p \in Proc, CommitCleanup(p) \/ CommitRecord(p) PROVE Promise!AbsNext
  <2>1. txn[p] \in Transaction
    OBVIOUS
  <2>2. /\ registry'.generation = registry.generation + 1
        /\ registry'.shims = registry.shims
    BY <1>5, <2>1 DEF CommitCleanup, CommitRecord, Discipline, Transaction, Snapshot
  <2> QED
    BY <1>5, <2>2 DEF CommitCleanup, CommitRecord, Promise!AbsNext, Promise!Resave
<1>6. ASSUME NEW f \in File, Outsider(f) PROVE Promise!AbsNext
  <2>1. registry.shims \in Index
    BY DEF Snapshot
  <2>2. /\ UNCHANGED registry
        /\ disk'[f] # disk[f]
        /\ disk'[f] \in {Absent, Foreign}
        /\ \A g \in File \ {f} : disk'[g] = disk[g]
        /\ raced' \in {raced, raced \cup {f}}
    BY <1>6 DEF Outsider
  <2>3. f \in Named(registry.shims) => disk'[f] # registry.shims[f]
    BY <2>1, <2>2 DEF Index, Named
  <2> QED
    BY <2>2, <2>3 DEF Promise!AbsNext, Promise!Interfere, Named
<1>7. CASE UNCHANGED vars
  BY <1>7 DEF vars, Promise!absvars, Named
<1> QED
  BY <1>2, <1>3, <1>4, <1>5, <1>6, <1>7 DEF Next, Publish, Cleanup, Stop, Refuse

\* What publish and finish_cleanup do, with every failure and every other
\* process in between, is what RoutingIndex promises: a table is exposed in one
\* step, and answers under all its names at once.
THEOREM PublicationImplementsRoutingIndex == Spec => ImplementsRoutingIndex
<1> QED
  BY ImplementsInit, ImplementsStep, LockDiscipline, PendingIsUnrouted,
     DestinationsChecked, PTL DEF Spec, ImplementsRoutingIndex, Promise!AbsSpec
=============================================================================
