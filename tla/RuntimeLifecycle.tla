-------------------------- MODULE RuntimeLifecycle --------------------------
(***************************************************************************)
(* The life of a registered runtime: install, uninstall and staging        *)
(* recovery of managed runtimes (managed.rs), registration of external     *)
(* ones and the global selection (app.rs), and the dispatch of commands    *)
(* under a runtime lease (router.rs).                                      *)
(*                                                                         *)
(* Any number of PyRudder processes work at once.  They are kept apart by  *)
(* managed-install.lock, registry.lock and one lease file per runtime, all *)
(* of them try-locks: a caller that finds one taken reports Busy, which    *)
(* changes nothing and is not a step here.  A process may fail or be       *)
(* killed between any two steps.  Publishing the registry is one step; the *)
(* module Publication is about what happens inside it.                     *)
(***************************************************************************)
EXTENDS Naturals

CONSTANTS
    Proc,           \* PyRudder processes
    Managed,        \* versions python.org serves, one installation each
    External,       \* identities of external registrations, never reused
    None,           \* no process, no runtime
    MaxMinted,      \* random identities drawn, at most
    MaxFaults       \* failures and kills, at most

Runtime == Managed \cup External

ASSUME LifecycleAssumption ==
    /\ Managed \cap External = {}
    /\ None \notin Proc \cup Runtime
    /\ MaxMinted \in Nat /\ MaxFaults \in Nat

VARIABLES
    records,        \* registry.json: health and ownership of each runtime
    trees,          \* the directory at each managed root
    stagings,       \* .pyrudder-staging-<attempt> and install-<id>-<attempt>.json
    global,         \* global-version
    install_lock,   \* holder of managed-install.lock
    registry_lock,  \* holder of registry.lock across several steps
    pc, job,        \* what each process does, and on what
    minted,         \* identities drawn so far
    faults          \* failures so far

vars == <<records, trees, stagings, global, install_lock, registry_lock, pc, job, minted, faults>>

-----------------------------------------------------------------------------
(* Data. *)

Identity == 0..MaxMinted    \* 0: none

Health == {"absent", "Unchecked", "Ready", "PendingRemoval", "retired"}

Record == [health : Health, owner : Identity]

\* `kind' is a ghost that says who made the directory: the code sees whether it
\* exists, its sentinel and its files.
Tree == [kind : {"absent", "owned", "foreign"}, sentinel : Identity,
         files : {"none", "some", "all"}, pip : BOOLEAN]
NoTree == [kind |-> "absent", sentinel |-> 0, files |-> "none", pip |-> FALSE]
ForeignTree == [kind |-> "foreign", sentinel |-> 0, files |-> "all", pip |-> FALSE]

\* The journal outlives the staging directory.
Staging == [exists : BOOLEAN, journaled : BOOLEAN, sealed : BOOLEAN,
            id : Managed \cup {None}, owner : Identity]
NoStaging == [exists |-> FALSE, journaled |-> FALSE, sealed |-> FALSE,
              id |-> None, owner |-> 0]

Job == [id : Runtime \cup {None}, attempt : Identity, force : BOOLEAN, present : BOOLEAN]
NoJob == [id |-> None, attempt |-> 0, force |-> FALSE, present |-> FALSE]

\* Steps under an exclusive lease of the runtime.
Installing == {"recording", "staging", "journaling", "extracting", "sealing", "renaming",
               "checking", "publishing"}
Removing == {"marking", "removing", "unsealed", "forgetting", "unregistering"}
Exclusive == Installing \cup Removing
Shared == {"leased", "running"}

TypeOK ==
    /\ records \in [Runtime -> Record]
    /\ trees \in [Managed -> Tree]
    /\ stagings \in [1..MaxMinted -> Staging]
    /\ global \in Runtime \cup {None}
    /\ install_lock \in Proc \cup {None}
    /\ registry_lock \in Proc \cup {None}
    /\ \A p \in {install_lock, registry_lock} \ {None} : pc[p] # "idle"
    /\ pc \in [Proc -> Exclusive \cup Shared \cup
                       {"idle", "resolved", "selecting", "discarding", "orphaned"}]
    /\ job \in [Proc -> Job]
    /\ minted \in 0..MaxMinted /\ faults \in 0..MaxFaults

Init ==
    /\ records = [r \in Runtime |-> [health |-> "absent", owner |-> 0]]
    /\ trees \in [Managed -> {NoTree, ForeignTree}]
    /\ stagings = [a \in 1..MaxMinted |-> NoStaging]
    /\ global = None
    /\ install_lock = None /\ registry_lock = None
    /\ pc = [p \in Proc |-> "idle"] /\ job = [p \in Proc |-> NoJob]
    /\ minted = 0 /\ faults = 0

-----------------------------------------------------------------------------
(* Locks. *)

Leased(id, steps) == \E p \in Proc : pc[p] \in steps /\ job[p].id = id
Unleased(id) == ~Leased(id, Exclusive \cup Shared)

Moves(p, step) == pc' = [pc EXCEPT ![p] = step] /\ UNCHANGED job

\* Mutant: managed-install.lock is not released.
LeavesLocked(p) ==
    /\ pc' = [pc EXCEPT ![p] = "idle"]
    /\ job' = [job EXCEPT ![p] = NoJob]
    /\ registry_lock' = IF registry_lock = p THEN None ELSE registry_lock
    /\ UNCHANGED install_lock

\* The process ends, and Windows closes its handles.
Leaves(p) ==
    /\ pc' = [pc EXCEPT ![p] = "idle"]
    /\ job' = [job EXCEPT ![p] = NoJob]
    /\ install_lock' = IF install_lock = p THEN None ELSE install_lock
    /\ registry_lock' = IF registry_lock = p THEN None ELSE registry_lock

Starts(p, step, what) ==
    /\ pc[p] = "idle"
    /\ pc' = [pc EXCEPT ![p] = step]
    /\ job' = [job EXCEPT ![p] = what]

Locks == <<install_lock, registry_lock>>
Files == <<records, trees, stagings, global>>
Counters == <<minted, faults>>

\* A handler reports an error after it found the world not as it must be.
Refuse(p) == Leaves(p) /\ UNCHANGED <<Files, Counters>>

-----------------------------------------------------------------------------
(* install_release and stage_release *)

InstallBegin(p, id) ==
    /\ install_lock = None /\ registry_lock = None /\ Unleased(id)
    /\ \/ records[id].health = "absent" /\ trees[id].kind = "absent"
       \/ records[id].health = "Unchecked"
    /\ Starts(p, "recording", [NoJob EXCEPT !.id = id])
    /\ install_lock' = p /\ registry_lock' = p
    /\ UNCHANGED <<Files, Counters>>

\* A new runtime is registered before anything of it exists.
RecordPending(p) ==
    LET id == job[p].id
    IN  /\ pc[p] = "recording"
        /\ IF records[id].health = "Unchecked" THEN UNCHANGED <<records, minted>>
           ELSE /\ minted < MaxMinted
                /\ minted' = minted + 1
                /\ records' = [records EXCEPT ![id] = [health |-> "Unchecked", owner |-> minted']]
        /\ registry_lock' = None
        /\ Moves(p, "staging")
        /\ UNCHANGED <<trees, stagings, global, install_lock, faults>>

\* Mutant: whatever is at the root is taken for an interrupted attempt.
ResumeTreeBlindly(p) ==
    /\ pc[p] = "staging"
    /\ trees[job[p].id].kind # "absent"
    /\ Moves(p, "checking")
    /\ UNCHANGED <<Files, Locks, Counters>>

\* An interrupted attempt that got as far as the rename is taken up again.
ResumeTree(p) ==
    LET id == job[p].id
    IN  /\ pc[p] = "staging"
        /\ trees[id].kind # "absent"
        /\ IF trees[id].sentinel = records[id].owner
           THEN Moves(p, "checking") /\ UNCHANGED Locks
           ELSE Leaves(p)
        /\ UNCHANGED <<Files, Counters>>

CreateStaging(p) ==
    LET id == job[p].id
    IN  /\ pc[p] = "staging"
        /\ trees[id].kind = "absent"
        /\ minted < MaxMinted
        /\ minted' = minted + 1
        /\ stagings' = [stagings EXCEPT ![minted'] =
             [NoStaging EXCEPT !.exists = TRUE, !.id = id, !.owner = records[id].owner]]
        /\ pc' = [pc EXCEPT ![p] = "journaling"]
        /\ job' = [job EXCEPT ![p].attempt = minted']
        /\ UNCHANGED <<records, trees, global, Locks, faults>>

WriteInstallJournal(p) ==
    /\ pc[p] = "journaling"
    /\ stagings' = [stagings EXCEPT ![job[p].attempt].journaled = TRUE]
    /\ Moves(p, "extracting")
    /\ UNCHANGED <<records, trees, global, Locks, Counters>>

\* Mutant: the tree is renamed without its sentinel.
ExtractUnsealed(p) ==
    /\ pc[p] = "extracting"
    /\ Moves(p, "renaming")
    /\ UNCHANGED <<Files, Locks, Counters>>

Extract(p) ==
    /\ pc[p] = "extracting"
    /\ Moves(p, "sealing")
    /\ UNCHANGED <<Files, Locks, Counters>>

WriteSentinel(p) ==
    /\ pc[p] = "sealing"
    /\ stagings' = [stagings EXCEPT ![job[p].attempt].sealed = TRUE]
    /\ Moves(p, "renaming")
    /\ UNCHANGED <<records, trees, global, Locks, Counters>>

\* fs::rename of the staging directory to the root, which must be free.
RenameStaging(p) ==
    LET id == job[p].id
        a == job[p].attempt
    IN  /\ pc[p] = "renaming"
        /\ trees[id].kind = "absent"
        /\ trees' = [trees EXCEPT ![id] =
             [kind |-> "owned", sentinel |-> IF stagings[a].sealed THEN stagings[a].owner ELSE 0,
              files |-> "all", pip |-> FALSE]]
        /\ stagings' = [stagings EXCEPT ![a].exists = FALSE]
        /\ Moves(p, "checking")
        /\ UNCHANGED <<records, global, Locks, Counters>>

RenameRefused(p) ==
    /\ pc[p] = "renaming"
    /\ trees[job[p].id].kind # "absent"
    /\ Refuse(p)

\* probe, bootstrap_pip, probe.
Check(p) ==
    /\ pc[p] = "checking"
    /\ trees' = [trees EXCEPT ![job[p].id].pip = TRUE]
    /\ Moves(p, "publishing")
    /\ UNCHANGED <<records, stagings, global, Locks, Counters>>

PublishReady(p) ==
    /\ pc[p] = "publishing"
    /\ registry_lock = None
    /\ records' = [records EXCEPT ![job[p].id].health = "Ready"]
    /\ Leaves(p)
    /\ UNCHANGED <<trees, stagings, global, Counters>>

-----------------------------------------------------------------------------
(* uninstall and remove_owned_tree *)

\* Mutant: the global selection is not asked.
UninstallUnchecked(p, id, force) ==
    /\ install_lock = None /\ registry_lock = None
    /\ records[id].health # "absent"
    /\ Unleased(id)
    /\ trees[id].kind = "absent" \/ trees[id].sentinel = records[id].owner
    /\ Starts(p, "marking", [NoJob EXCEPT !.id = id, !.force = force,
                                          !.present = trees[id].kind # "absent"])
    /\ install_lock' = p /\ registry_lock' = p
    /\ UNCHANGED <<Files, Counters>>

\* find_any, check_active, the exclusive lease and validate_owner, all under
\* registry.lock.
UninstallBegin(p, id, force) ==
    /\ install_lock = None /\ registry_lock = None
    /\ records[id].health # "absent"
    /\ force \/ global # id
    /\ Unleased(id)
    /\ trees[id].kind = "absent" \/ trees[id].sentinel = records[id].owner
    /\ Starts(p, "marking", [NoJob EXCEPT !.id = id, !.force = force,
                                          !.present = trees[id].kind # "absent"])
    /\ install_lock' = p /\ registry_lock' = p
    /\ UNCHANGED <<Files, Counters>>

\* Mutant: files go while the runtime is still published.
PublishPendingLate(p) ==
    /\ pc[p] = "marking"
    /\ registry_lock' = None
    /\ Moves(p, IF job[p].present THEN "removing" ELSE "forgetting")
    /\ UNCHANGED <<Files, install_lock, Counters>>

\* The runtime is unpublished before its first file goes.
PublishPending(p) ==
    /\ pc[p] = "marking"
    /\ records' = [records EXCEPT ![job[p].id].health = "PendingRemoval"]
    /\ registry_lock' = None
    /\ Moves(p, IF job[p].present THEN "removing" ELSE "forgetting")
    /\ UNCHANGED <<trees, stagings, global, install_lock, Counters>>

RemoveFiles(p) ==
    /\ pc[p] = "removing"
    /\ \E left \in {"some", "none"} :
         /\ trees[job[p].id].files # left /\ trees[job[p].id].files # "none"
         /\ trees' = [trees EXCEPT ![job[p].id].files = left, ![job[p].id].pip = FALSE]
    /\ UNCHANGED <<records, stagings, global, Locks, pc, job, Counters>>

\* The sentinel is the last entry to go.
RemoveSentinel(p) ==
    /\ pc[p] = "removing"
    /\ trees[job[p].id].files = "none"
    /\ trees' = [trees EXCEPT ![job[p].id].sentinel = 0]
    /\ Moves(p, "unsealed")
    /\ UNCHANGED <<records, stagings, global, Locks, Counters>>

RemoveRoot(p) ==
    /\ pc[p] = "unsealed"
    /\ trees' = [trees EXCEPT ![job[p].id] = NoTree]
    /\ Moves(p, "forgetting")
    /\ UNCHANGED <<records, stagings, global, Locks, Counters>>

\* Mutant: the registration is dropped although the directory stays.
RootHeldForgets(p) ==
    /\ pc[p] = "unsealed"
    /\ faults < MaxFaults
    /\ faults' = faults + 1
    /\ trees' = [trees EXCEPT ![job[p].id].sentinel = records[job[p].id].owner]
    /\ Moves(p, "forgetting")
    /\ UNCHANGED <<records, stagings, global, Locks, minted>>

\* The empty directory is held open by somebody: the sentinel is put back.
RootHeld(p) ==
    /\ pc[p] = "unsealed"
    /\ faults < MaxFaults
    /\ faults' = faults + 1
    /\ trees' = [trees EXCEPT ![job[p].id].sentinel = records[job[p].id].owner]
    /\ Leaves(p)
    /\ UNCHANGED <<records, stagings, global, minted>>

PublishRemoval(p) ==
    /\ pc[p] = "forgetting"
    /\ registry_lock = None
    /\ records' = [records EXCEPT ![job[p].id] = [health |-> "absent", owner |-> 0]]
    /\ Leaves(p)
    /\ UNCHANGED <<trees, stagings, global, Counters>>

-----------------------------------------------------------------------------
(* recover --discard-staging *)

\* Mutant: recovery does not wait for installations.
DiscardUnlocked(p, a) ==
    /\ stagings[a].exists /\ stagings[a].journaled
    /\ LET record == records[stagings[a].id]
       IN  record.health # "absent" /\ record.owner = stagings[a].owner
    /\ Starts(p, "discarding", [NoJob EXCEPT !.attempt = a])
    /\ UNCHANGED <<Files, Locks, Counters>>

DiscardBegin(p, a) ==
    /\ install_lock = None
    /\ stagings[a].exists /\ stagings[a].journaled
    /\ LET record == records[stagings[a].id]
       IN  record.health # "absent" /\ record.owner = stagings[a].owner
    /\ Starts(p, "discarding", [NoJob EXCEPT !.attempt = a])
    /\ install_lock' = p
    /\ UNCHANGED <<Files, registry_lock, Counters>>

DiscardStaging(p) ==
    /\ pc[p] = "discarding"
    /\ stagings' = [stagings EXCEPT ![job[p].attempt].exists = FALSE]
    /\ Leaves(p)
    /\ UNCHANGED <<records, trees, global, Counters>>

-----------------------------------------------------------------------------
(* register, unregister and the global selection *)

Register(p, id) ==
    /\ pc[p] = "idle" /\ registry_lock = None
    /\ records[id].health = "absent"
    /\ records' = [records EXCEPT ![id].health = "Ready"]
    /\ UNCHANGED <<trees, stagings, global, Locks, pc, job, Counters>>

UnregisterBegin(p, id, force) ==
    /\ registry_lock = None
    /\ records[id].health = "Ready"
    /\ force \/ global # id
    /\ Unleased(id)
    /\ Starts(p, "unregistering", [NoJob EXCEPT !.id = id, !.force = force])
    /\ registry_lock' = p
    /\ UNCHANGED <<Files, install_lock, Counters>>

Unregister(p) ==
    /\ pc[p] = "unregistering"
    /\ records' = [records EXCEPT ![job[p].id].health = "retired"]
    /\ Leaves(p)
    /\ UNCHANGED <<trees, stagings, global, Counters>>

\* Only a Ready runtime can be selected; registry.lock is held until the file
\* is written.
SelectBegin(p, id) ==
    /\ registry_lock = None
    /\ records[id].health = "Ready"
    /\ Starts(p, "selecting", [NoJob EXCEPT !.id = id])
    /\ registry_lock' = p
    /\ UNCHANGED <<Files, install_lock, Counters>>

WriteSelection(p) ==
    /\ pc[p] = "selecting"
    /\ global' = job[p].id
    /\ Leaves(p)
    /\ UNCHANGED <<records, trees, stagings, Counters>>

\* --unset takes no lock.
Unset(p) ==
    /\ pc[p] = "idle"
    /\ global # None
    /\ global' = None
    /\ UNCHANGED <<records, trees, stagings, Locks, pc, job, Counters>>

-----------------------------------------------------------------------------
(* execute *)

Resolve(p, id) ==
    /\ records[id].health = "Ready"
    /\ Starts(p, "resolved", [NoJob EXCEPT !.id = id])
    /\ UNCHANGED <<Files, Locks, Counters>>

AcquireLease(p) ==
    /\ pc[p] = "resolved"
    /\ IF Leased(job[p].id, Exclusive) THEN Leaves(p) ELSE Moves(p, "leased") /\ UNCHANGED Locks
    /\ UNCHANGED <<Files, Counters>>

\* Mutant: the registry read before the lease is trusted.
DispatchBlindly(p) ==
    /\ pc[p] = "leased"
    /\ Moves(p, "running")
    /\ UNCHANGED <<Files, Locks, Counters>>

\* The registry is read again under the lease.
Dispatch(p) ==
    /\ pc[p] = "leased"
    /\ IF records[job[p].id].health = "Ready"
       THEN Moves(p, "running") /\ UNCHANGED Locks
       ELSE Leaves(p)
    /\ UNCHANGED <<Files, Counters>>

\* The child exits; refresh_after, if the dispatcher lives, only replaces manifests.
Exit(p) == pc[p] \in {"running", "orphaned"} /\ Refuse(p)

\* The dispatcher is killed while its child runs.  No job object ends the child, and
\* it has not inherited the lease: it runs on, and nobody knows.
KillDispatcher(p) ==
    /\ pc[p] = "running"
    /\ faults < MaxFaults
    /\ faults' = faults + 1
    /\ Moves(p, "orphaned")
    /\ UNCHANGED <<Files, Locks, minted>>

-----------------------------------------------------------------------------
(* Failures and other programs *)

\* An operation fails, the registry is busy, or the process is killed.  A dispatcher
\* that cannot wait for its child terminates it.
Stop(p) ==
    /\ pc[p] \notin {"idle", "orphaned"}
    /\ faults < MaxFaults
    /\ faults' = faults + 1
    /\ Leaves(p)
    /\ UNCHANGED <<Files, minted>>

\* Somebody keeps a directory of their own, with files in it, at a managed root.
Outsider(id) ==
    /\ \/ trees[id] = NoTree /\ trees' = [trees EXCEPT ![id] = ForeignTree]
       \/ trees[id] = ForeignTree /\ trees' = [trees EXCEPT ![id] = NoTree]
    /\ UNCHANGED <<records, stagings, global, Locks, pc, job, Counters>>

Install(p) ==
    \/ \E id \in Managed : InstallBegin(p, id)
    \/ RecordPending(p) \/ ResumeTree(p) \/ CreateStaging(p) \/ WriteInstallJournal(p)
    \/ Extract(p) \/ WriteSentinel(p) \/ RenameStaging(p) \/ RenameRefused(p)
    \/ Check(p) \/ PublishReady(p)

Uninstall(p) ==
    \/ \E id \in Managed, force \in BOOLEAN : UninstallBegin(p, id, force)
    \/ PublishPending(p) \/ RemoveFiles(p) \/ RemoveSentinel(p) \/ RemoveRoot(p)
    \/ RootHeld(p) \/ PublishRemoval(p)

Discard(p) == DiscardStaging(p) \/ \E a \in 1..MaxMinted : DiscardBegin(p, a)

Registration(p) ==
    \/ \E id \in External : Register(p, id)
    \/ \E id \in External, force \in BOOLEAN : UnregisterBegin(p, id, force)
    \/ \E id \in Runtime : SelectBegin(p, id)
    \/ Unregister(p) \/ WriteSelection(p) \/ Unset(p)

Execute(p) ==
    \/ \E id \in Runtime : Resolve(p, id)
    \/ AcquireLease(p) \/ Dispatch(p) \/ Exit(p) \/ KillDispatcher(p)

Next ==
    \/ \E p \in Proc :
         Install(p) \/ Uninstall(p) \/ Discard(p) \/ Registration(p) \/ Execute(p) \/ Stop(p)
    \/ \E id \in Managed : Outsider(id)

Spec == Init /\ [][Next]_vars

-----------------------------------------------------------------------------
(* Properties *)

Complete(tree) == tree.kind = "owned" /\ tree.files = "all" /\ tree.pip /\ tree.sentinel # 0

\* A runtime that may be selected is whole: every removal unpublishes it before
\* its first file goes and every installation publishes it last, however either
\* is interrupted (managed.rs:265-267, 377-390).
ReadyIsComplete == \A id \in Managed : records[id].health = "Ready" => Complete(trees[id])

\* A dispatched command has its runtime, whole and registered, as long as its
\* dispatcher waits for it, although it was resolved before the lease was taken
\* (router.rs:141-163): no removal starts under it and none that had started goes on.
\* A command whose dispatcher was killed ("orphaned") runs on without that: its
\* lease ended with the dispatcher (native_process.rs:285-319).
RunsComplete ==
    \A p \in Proc : pc[p] = "running" =>
        /\ records[job[p].id].health = "Ready"
        /\ job[p].id \in Managed => Complete(trees[job[p].id])

\* A tree that carries a sentinel belongs to the runtime registered at its root,
\* so it can be resumed or removed; none is ever left behind unregistered.
SealedIsRegistered ==
    \A id \in Managed : trees[id].sentinel # 0 =>
        records[id].health # "absent" /\ records[id].owner = trees[id].sentinel

\* An interrupted installation can be retried: whatever PyRudder left at the root
\* of an Unchecked runtime passes validate_owner (managed.rs:281-286).
UncheckedIsResumable ==
    \A id \in Managed : records[id].health = "Unchecked" /\ trees[id].kind = "owned" =>
        trees[id].sentinel = records[id].owner /\ trees[id].files = "all"

\* A running installation keeps its staging directory: recovery, which deletes
\* such directories, never takes one that is in use (managed.rs:62-66).
StagingIsKept ==
    \A p \in Proc : pc[p] \in {"journaling", "extracting", "sealing", "renaming"} =>
        stagings[job[p].attempt].exists

\* A directory PyRudder did not make is neither deleted nor changed, wherever it
\* appears (managed.rs:204-210, 281-286, 372-376): it only goes when its owner,
\* and no process of PyRudder, takes it away.
ForeignUntouched ==
    [][\A id \in Managed : trees[id].kind = "foreign" =>
         \/ trees'[id] = trees[id]
         \/ trees'[id] = NoTree /\ UNCHANGED <<pc, job>>]_vars

\* The global selection never comes to name a runtime that is not Ready, unless
\* the user forces the removal: the check in uninstall and unregister and the
\* selection itself exclude each other (app.rs:421-441, 443-483).
SelectionStaysReady ==
    [][global' # None /\ records'[global'].health # "Ready" =>
         \/ global' = global /\ records[global].health # "Ready"
         \/ \E p \in Proc : pc[p] \in Removing /\ job[p].id = global /\ job[p].force]_vars

\* "Unique journals preserve every interrupted attempt rather than losing prior
\* ownership" (managed.rs:300): every staging directory nobody works on is named
\* by a journal, where recover finds it.
StagingIsRecorded ==
    \A a \in 1..MaxMinted :
        stagings[a].exists /\ (\A p \in Proc : job[p].attempt # a) => stagings[a].journaled

\* "Pending registration and ownership retained for retry" (managed.rs:767) and
\* "retry uninstall <id> --yes for PendingRemoval" (managed.rs:138): what is left
\* at the root of a runtime pending removal passes validate_owner.
PendingIsRemovable ==
    \A id \in Managed :
        records[id].health = "PendingRemoval" /\ trees[id].kind = "owned" /\ Unleased(id) =>
            trees[id].sentinel = records[id].owner
=============================================================================
