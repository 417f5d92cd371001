----------------------------- MODULE Publication -----------------------------
(***************************************************************************)
(* Shim publication: publication.rs on top of the registry transaction of  *)
(* registry.rs.  Several PyRudder processes share one registry             *)
(* (registry.json under registry.lock), one shims directory and one        *)
(* ownership journal (pyrudder-publication.json in that directory).  A     *)
(* process publishes the command set of the snapshot it edited, then tries *)
(* to clean up what the new routing table no longer names; it may fail or  *)
(* be killed between any two file operations.  Other programs may write or *)
(* delete files of the shims directory at any time.                        *)
(*                                                                         *)
(* A file's content is its digest.  A Vec<PublishedShim> is abstracted to  *)
(* the set of its entries and, per file name, the last entry: the only     *)
(* two things the code asks of it.                                         *)
(***************************************************************************)
EXTENDS Naturals

CONSTANTS
    Proc,           \* PyRudder processes
    File,           \* file names in the shims directory
    Digest,         \* digests of images PyRudder may publish
    Absent,         \* no file, no entry
    Foreign,        \* content PyRudder never wrote
    NoProc,         \* registry.lock is free
    MaxGeneration   \* stands for u64::MAX, the last generation

ASSUME PublicationAssumption ==
    /\ Absent \notin Digest
    /\ Foreign \notin Digest \cup {Absent}
    /\ NoProc \notin Proc
    /\ MaxGeneration \in Nat

VARIABLES
    registry,   \* registry.json: [generation, shims, pending]
    journal,    \* pyrudder-publication.json
    disk,       \* content of the shims directory
    lock,       \* holder of registry.lock
    pc,         \* where each process is
    txn,        \* each process's transaction
    raced       \* ghost: files changed by others since the lock holder checked them

vars == <<registry, journal, disk, lock, pc, txn, raced>>

-----------------------------------------------------------------------------
(* Data. *)

\* One Vec<PublishedShim> with distinct file names.
Index == [File -> Digest \cup {Absent}]
Empty == [f \in File |-> Absent]
Named(index) == {f \in File : index[f] # Absent}
Entries(index) == {<<f, index[f]>> : f \in Named(index)}

\* A Vec<PublishedShim> that may repeat file names.
Ownership == [entries : SUBSET (File \X Digest), last : Index]
Listing(index) == [entries |-> Entries(index), last |-> index]
Extend(a, b) ==
    [entries |-> a.entries \cup b.entries,
     last |-> [f \in File |-> IF b.last[f] # Absent THEN b.last[f] ELSE a.last[f]]]

Snapshot == [generation : 0..MaxGeneration, shims : Index, pending : Index]

\* `doomed' is the file whose digest cleanup has just found to be its own.
Transaction ==
    [base : Snapshot, want : Index, owned : Ownership, todo : SUBSET File, doomed : SUBSET File]

EmptySnapshot == [generation |-> 0, shims |-> Empty, pending |-> Empty]
NoTransaction ==
    [base |-> EmptySnapshot, want |-> Empty, owned |-> Listing(Empty), todo |-> {}, doomed |-> {}]

Steps == {"idle", "begun", "journaled", "committed", "cleaning", "recorded"}

TypeOK ==
    /\ registry \in Snapshot
    /\ journal \in Ownership
    /\ disk \in [File -> Digest \cup {Absent, Foreign}]
    /\ lock \in Proc \cup {NoProc}
    /\ pc \in [Proc -> Steps]
    /\ txn \in [Proc -> Transaction]
    /\ raced \subseteq File

Init ==
    /\ registry = EmptySnapshot
    /\ journal = Listing(Empty)
    /\ disk \in [File -> {Absent, Foreign}]
    /\ lock = NoProc
    /\ pc = [p \in Proc |-> "idle"]
    /\ txn = [p \in Proc |-> NoTransaction]
    /\ raced = {}

-----------------------------------------------------------------------------
(* publish *)

\* Dropping an uncommitted Transaction, or the death of its process, keeps the
\* old snapshot and closes the handle on registry.lock.
Abandon(p) ==
    /\ pc' = [pc EXCEPT ![p] = "idle"]
    /\ txn' = [txn EXCEPT ![p] = NoTransaction]
    /\ lock' = IF lock = p THEN NoProc ELSE lock
    /\ raced' = IF pc[p] \in {"journaled", "cleaning"} THEN {} ELSE raced
    /\ UNCHANGED <<registry, journal, disk>>

\* Registry::transaction, the caller's edit of the snapshot and plan(): `want'
\* is the index planned for the edited manifests and the current templates.
Begin(p) ==
    /\ pc[p] = "idle"
    /\ lock = NoProc
    /\ lock' = p
    /\ \E want \in Index :
         txn' = [txn EXCEPT ![p] = [NoTransaction EXCEPT !.base = registry, !.want = want]]
    /\ pc' = [pc EXCEPT ![p] = "begun"]
    /\ UNCHANGED <<registry, journal, disk, raced>>

\* Mutant: what a failed publication recorded is forgotten.
OwnedByRegistry(snapshot, recorded) ==
    Extend(Listing(snapshot.shims), Listing(snapshot.pending))

\* Everything PyRudder may claim to have written.
OwnedBy(snapshot, recorded) ==
    Extend(Extend(Listing(snapshot.shims), Listing(snapshot.pending)), recorded)

\* Mutant: destinations are not checked.
ReplaceableAlways(f, owned) == TRUE

\* A destination that exists must hold content PyRudder owns.
Replaceable(f, owned) == disk[f] = Absent \/ <<f, disk[f]>> \in owned.entries

\* Mutant: the journal does not yet name the files about to be created.
WriteJournalLate(p) ==
    LET owned == OwnedBy(txn[p].base, journal)
    IN  /\ pc[p] = "begun"
        /\ \A f \in Named(txn[p].want) : Replaceable(f, owned)
        /\ journal' = owned
        /\ txn' = [txn EXCEPT ![p].owned = Extend(owned, Listing(txn[p].want)),
                             ![p].todo = Named(txn[p].want)]
        /\ pc' = [pc EXCEPT ![p] = "journaled"]
        /\ raced' = {}
        /\ UNCHANGED <<registry, disk, lock>>

WriteJournal(p) ==
    LET owned == OwnedBy(txn[p].base, journal)
        claimed == Extend(owned, Listing(txn[p].want))
    IN  /\ pc[p] = "begun"
        /\ \A f \in Named(txn[p].want) : Replaceable(f, owned)
        /\ journal' = claimed
        /\ txn' = [txn EXCEPT ![p] =
                       [@ EXCEPT !.owned = claimed, !.todo = Named(txn[p].want)]]
        /\ pc' = [pc EXCEPT ![p] = "journaled"]
        /\ raced' = {}
        /\ UNCHANGED <<registry, disk, lock>>

\* "Shim destination contains a foreign or modified file; it was not overwritten"
Refuse(p) ==
    /\ pc[p] = "begun"
    /\ \E f \in Named(txn[p].want) : ~Replaceable(f, OwnedBy(txn[p].base, journal))
    /\ Abandon(p)

\* install_artifact for one planned file: kept when already right, else replaced.
Install(p, f) ==
    /\ pc[p] = "journaled"
    /\ f \in txn[p].todo
    /\ disk' = [disk EXCEPT ![f] = txn[p].want[f]]
    /\ txn' = [txn EXCEPT ![p].todo = @ \ {f}]
    /\ UNCHANGED <<registry, journal, lock, pc, raced>>

\* "Template changed during publication": the hard link is already in place.
LinkMismatch(p, f) ==
    /\ pc[p] = "journaled"
    /\ f \in txn[p].todo
    /\ disk[f] = Absent
    /\ disk' = [disk EXCEPT ![f] = Foreign]
    /\ pc' = [pc EXCEPT ![p] = "idle"]
    /\ txn' = [txn EXCEPT ![p] = NoTransaction]
    /\ lock' = NoProc
    /\ raced' = {}
    /\ UNCHANGED <<registry, journal>>

\* Mutant: files that stay are listed for cleanup too.
StaleOrNot(owned, want) == owned.last

\* Owned entries the new index does not name, one per file name.
Stale(owned, want) == [f \in File |-> IF want[f] = Absent THEN owned.last[f] ELSE Absent]

Committed(p) ==
    /\ registry' = [generation |-> txn[p].base.generation + 1,
                    shims |-> txn[p].want,
                    pending |-> Stale(txn[p].owned, txn[p].want)]
    /\ lock' = NoProc
    /\ pc' = [pc EXCEPT ![p] = "committed"]
    /\ txn' = [txn EXCEPT ![p] = NoTransaction]
    /\ raced' = {}
    /\ UNCHANGED <<journal, disk>>

\* Mutant: the generation is not checked for overflow.
CommitPastLimit(p) ==
    pc[p] = "journaled" /\ txn[p].todo = {} /\ Committed(p)

\* Mutant: the index is committed before the last file is installed.
CommitEarly(p) ==
    pc[p] = "journaled" /\ txn[p].base.generation < MaxGeneration /\ Committed(p)

\* Transaction::commit; the lock is dropped with the transaction.
Commit(p) ==
    /\ pc[p] = "journaled"
    /\ txn[p].todo = {}
    /\ txn[p].base.generation < MaxGeneration
    /\ Committed(p)

\* install_release saves a pending record with Transaction::commit alone.
CommitRecord(p) ==
    /\ pc[p] = "begun"
    /\ txn[p].base.generation < MaxGeneration
    /\ registry' = [txn[p].base EXCEPT !.generation = @ + 1]
    /\ lock' = NoProc
    /\ pc' = [pc EXCEPT ![p] = "idle"]
    /\ txn' = [txn EXCEPT ![p] = NoTransaction]
    /\ UNCHANGED <<journal, disk, raced>>

-----------------------------------------------------------------------------
(* finish_cleanup *)

\* Another writer holds the registry: cleanup is left to a later publication.
SkipCleanup(p) ==
    /\ pc[p] = "committed"
    /\ lock # NoProc
    /\ pc' = [pc EXCEPT ![p] = "idle"]
    /\ UNCHANGED <<registry, journal, disk, lock, txn, raced>>

\* Mutant: cleanup reads the registry without waiting for its lock.
BeginCleanupUnlocked(p) ==
    /\ pc[p] = "committed"
    /\ lock' = p
    /\ txn' = [txn EXCEPT ![p] = [NoTransaction EXCEPT !.base = registry,
                                                       !.todo = Named(registry.pending)]]
    /\ pc' = [pc EXCEPT ![p] = "cleaning"]
    /\ UNCHANGED <<registry, journal, disk, raced>>

BeginCleanup(p) ==
    /\ pc[p] = "committed"
    /\ lock = NoProc
    /\ lock' = p
    /\ txn' = [txn EXCEPT ![p] = [NoTransaction EXCEPT !.base = registry,
                                                       !.todo = Named(registry.pending)]]
    /\ pc' = [pc EXCEPT ![p] = "cleaning"]
    /\ UNCHANGED <<registry, journal, disk, raced>>

\* One entry of pending_cleanup.retain, up to its digest: a missing file is
\* forgotten, an owned one is to be removed, any other is retained, and so is
\* one that cannot be read.
CleanFile(p, f) ==
    /\ pc[p] = "cleaning" /\ txn[p].doomed = {}
    /\ f \in txn[p].todo
    /\ \/ /\ disk[f] = Absent
          /\ txn' = [txn EXCEPT ![p].todo = @ \ {f}, ![p].base.pending[f] = Absent]
       \/ /\ disk[f] = txn[p].base.pending[f] /\ disk[f] # Absent
          /\ txn' = [txn EXCEPT ![p].todo = @ \ {f}, ![p].doomed = {f}]
       \/ /\ disk[f] # Absent
          /\ txn' = [txn EXCEPT ![p].todo = @ \ {f}]
    /\ UNCHANGED <<registry, journal, disk, lock, pc, raced>>

\* remove_file, by path and after sha256_file has closed its handle: whatever is
\* there by now goes, and the entry is forgotten, unless it is in use or gone.
RemoveFile(p, f) ==
    /\ pc[p] = "cleaning"
    /\ f \in txn[p].doomed
    /\ \/ /\ disk[f] # Absent
          /\ disk' = [disk EXCEPT ![f] = Absent]
          /\ txn' = [txn EXCEPT ![p].doomed = {}, ![p].base.pending[f] = Absent]
       \/ /\ txn' = [txn EXCEPT ![p].doomed = {}]
          /\ UNCHANGED disk
    /\ raced' = {}
    /\ UNCHANGED <<registry, journal, lock, pc>>

\* The journal is rewritten from the registry alone.
RecordCleanup(p) ==
    /\ pc[p] = "cleaning"
    /\ txn[p].todo = {} /\ txn[p].doomed = {}
    /\ journal' = Extend(Listing(txn[p].base.shims), Listing(txn[p].base.pending))
    /\ pc' = [pc EXCEPT ![p] = "recorded"]
    /\ UNCHANGED <<registry, disk, lock, txn, raced>>

CommitCleanup(p) ==
    /\ pc[p] = "recorded"
    /\ txn[p].base.generation < MaxGeneration
    /\ registry' = [txn[p].base EXCEPT !.generation = @ + 1]
    /\ lock' = NoProc
    /\ pc' = [pc EXCEPT ![p] = "idle"]
    /\ txn' = [txn EXCEPT ![p] = NoTransaction]
    /\ UNCHANGED <<journal, disk, raced>>

-----------------------------------------------------------------------------
(* Failure of a process, and everybody else. *)

\* An operation fails, the generation overflows, or the process is killed.
Stop(p) == pc[p] # "idle" /\ Abandon(p)

\* Another program creates, replaces or deletes a file of the shims directory.
Outsider(f) ==
    /\ \E content \in {Absent, Foreign} :
         /\ disk[f] # content
         /\ disk' = [disk EXCEPT ![f] = content]
    /\ raced' = IF \E p \in Proc : pc[p] = "journaled" \/ f \in txn[p].doomed
                THEN raced \cup {f} ELSE raced
    /\ UNCHANGED <<registry, journal, lock, pc, txn>>

Publish(p) ==
    \/ Begin(p) \/ WriteJournal(p) \/ Refuse(p) \/ Commit(p) \/ CommitRecord(p)
    \/ \E f \in File : Install(p, f) \/ LinkMismatch(p, f)

Cleanup(p) ==
    \/ SkipCleanup(p) \/ BeginCleanup(p) \/ RecordCleanup(p) \/ CommitCleanup(p)
    \/ \E f \in File : CleanFile(p, f) \/ RemoveFile(p, f)

Next ==
    \/ \E p \in Proc : Publish(p) \/ Cleanup(p) \/ Stop(p)
    \/ \E f \in File : Outsider(f)

Spec == Init /\ [][Next]_vars

-----------------------------------------------------------------------------
(* Properties *)

Writing(p) == pc[p] \in {"begun", "journaled", "cleaning", "recorded"}

\* No lost update: whoever may still commit works on the registry as it is now,
\* so a commit never undoes another process's commit (registry.rs:274-319, and
\* the second transaction that finish_cleanup starts in publication.rs:273).
SnapshotIsCurrent ==
    \A p \in Proc : Writing(p) =>
        /\ txn[p].base.generation = registry.generation
        /\ txn[p].base.shims = registry.shims

\* Write-ahead ownership: while files are being replaced, the journal on disk
\* already names every file the publication may create and every one the
\* registry owned, whatever cleanup other processes had pending
\* (publication.rs:231-244).
WriteAhead ==
    \A p \in Proc : pc[p] = "journaled" =>
        Entries(txn[p].want) \cup Entries(registry.shims) \cup Entries(registry.pending)
            \subseteq journal.entries

\* A step of PyRudder, as opposed to one of another program.
PyRudderStep == <<pc, txn>>' # <<pc, txn>>

\* Cleanup never removes a file the committed index routes through, although it
\* runs after the lock was released and others may have published since
\* (publication.rs:271-280).
CleanupSparesRouted ==
    [][\A p \in Proc : pc[p] = "cleaning" /\ pc'[p] = "cleaning" /\ txn'[p] # txn[p]
           => \A f \in Named(registry.shims) : disk'[f] = disk[f]]_vars

\* A file PyRudder did not write is neither overwritten nor removed, unless it
\* appeared in one of two windows the code leaves open: between the destination
\* check of the publication under way and its end (publication.rs:212-262), and
\* between the digest of a stale file and its removal by path
\* (publication.rs:276-277).  `raced' holds the files that changed in them.
ForeignSurvives ==
    [][PyRudderStep => \A f \in File \ raced : disk[f] = Foreign => disk'[f] = Foreign]_vars

\* PyRudder can prove that it wrote this content of f.
Evidence(f, d) ==
    <<f, d>> \in Entries(registry.shims) \cup Entries(registry.pending) \cup journal.entries

\* Evidence about a file that stays in place is given up at no step of a
\* publication, finished, failed or killed: only the rewrite of the journal by
\* finish_cleanup can drop it (publication.rs:195-262 against 282-296).
EvidenceLostOnlyByRewrite ==
    [][\A f \in File : disk[f] \in Digest /\ Evidence(f, disk[f]) /\ disk'[f] = disk[f]
           /\ ~Evidence(f, disk[f])'
           => \E p \in Proc : pc[p] = "cleaning" /\ pc'[p] = "recorded"]_vars

\* "Persist stale ownership first; a crash during cleanup must not lose recovery
\* evidence" (publication.rs:260): every file PyRudder wrote into the shims
\* directory stays provably its own.
OwnershipEvidence == \A f \in File : disk[f] \in Digest => Evidence(f, disk[f])

\* Publication implements RoutingIndex: a table is exposed in one step with all
\* its files in place, and what does not match the table does not answer.
Promise ==
    INSTANCE RoutingIndex WITH
        generation <- registry.generation,
        index <- registry.shims,
        answering <- {f \in Named(registry.shims) : disk[f] = registry.shims[f]},
        disturbed <- raced

ImplementsRoutingIndex == Promise!AbsSpec
=============================================================================
