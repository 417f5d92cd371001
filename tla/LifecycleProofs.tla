--------------------------- MODULE LifecycleProofs ---------------------------
(***************************************************************************)
(* Theorems about RuntimeLifecycle, for any number of processes, runtimes, *)
(* identities and failures.                                                *)
(***************************************************************************)
EXTENDS RuntimeLifecycle, TLAPS

-----------------------------------------------------------------------------
(* The inductive invariant *)

\* Steps of a managed runtime's installation or removal.
Changing == Exclusive \ {"unregistering"}
\* Steps that hold a staging directory.
Building == {"journaling", "extracting", "sealing", "renaming"}

\* Who holds which lock at which step.
LocksHeld ==
    \A p \in Proc :
      /\ pc[p] \in Changing \cup {"discarding"} => install_lock = p
      /\ pc[p] \in {"recording", "marking", "unregistering", "selecting"} => registry_lock = p

\* Nobody shares a runtime with the holder of its exclusive lease.
LeasesHeld ==
    \A p, q \in Proc :
      p # q /\ pc[p] \in Exclusive /\ pc[q] \in Exclusive \cup Shared => job[p].id # job[q].id

\* What a step works on.
JobsNamed ==
    \A p \in Proc :
      /\ pc[p] \in Changing => job[p].id \in Managed
      /\ pc[p] = "unregistering" => job[p].id \in External
      /\ pc[p] \in Shared \cup {"resolved", "selecting"} => job[p].id \in Runtime
      /\ pc[p] \in Building \cup {"discarding"} => job[p].attempt # 0

\* The staging directory an installation is about to rename is its own.
StagingMatches ==
    \A p \in Proc : pc[p] \in Building =>
      LET s == stagings[job[p].attempt]
      IN  /\ s.exists
          /\ s.owner = records[job[p].id].owner
          /\ pc[p] = "renaming" => s.sealed

\* Records and directories agree, whatever the processes do.
TreesAgree ==
    \A id \in Managed :
      LET tree == trees[id]
          record == records[id]
      IN  /\ record.health # "retired"
          /\ record.health = "absent" <=> record.owner = 0
          /\ tree.kind # "owned" => tree \in {NoTree, ForeignTree}
          /\ tree.kind = "owned" => record.health # "absent"
          /\ tree.sentinel \in {0, record.owner}
          /\ record.health = "Unchecked" /\ tree.kind = "owned" =>
               tree.sentinel = record.owner /\ tree.files = "all"
          /\ record.health = "Ready" => Complete(tree)

\* What a process knows of its runtime while it changes it.
Progress ==
    \A p \in Proc :
      LET id == job[p].id
      IN  /\ pc[p] = "recording" => records[id].health \in {"absent", "Unchecked"}
          /\ pc[p] \in Installing \ {"recording"} => records[id].health = "Unchecked"
          /\ pc[p] \in {"checking", "publishing", "removing", "unsealed"} =>
               trees[id].kind = "owned"
          /\ pc[p] = "publishing" => trees[id].pip
          /\ pc[p] = "marking" =>
               /\ records[id].health # "absent"
               /\ job[p].present <=> trees[id].kind = "owned"
          /\ pc[p] \in {"removing", "unsealed", "forgetting"} =>
               records[id].health = "PendingRemoval"
          /\ pc[p] = "forgetting" => trees[id].kind # "owned"

\* What a command and a change of the selection rely on.
Chosen ==
    \A p \in Proc :
      /\ pc[p] \in {"running", "selecting"} => records[job[p].id].health = "Ready"
      /\ pc[p] \in {"marking", "unregistering"} => job[p].force \/ global # job[p].id

IInv ==
    /\ TypeOK /\ LocksHeld /\ LeasesHeld /\ JobsNamed /\ StagingMatches /\ TreesAgree
    /\ Progress /\ Chosen

LEMMA ExclusionStep == IInv /\ [Next]_vars => LocksHeld' /\ LeasesHeld' /\ JobsNamed'
<1> DEFINE Exclusion == LocksHeld /\ LeasesHeld /\ JobsNamed
<1> SUFFICES ASSUME IInv, [Next]_vars PROVE Exclusion'
  OBVIOUS
<1> USE LifecycleAssumption DEF IInv, TypeOK, LocksHeld, LeasesHeld, JobsNamed, Runtime,
        Changing, Building, Exclusive, Installing, Removing, Shared, Job, NoJob, Identity
<1>35. ASSUME NEW p \in Proc, Leaves(p) PROVE Exclusion'
  BY <1>35 DEF Leaves
<1>1. ASSUME NEW p \in Proc, NEW id \in Managed, InstallBegin(p, id) PROVE Exclusion'
  BY <1>1 DEF InstallBegin, Starts, Unleased, Leased, Locks, Files, Counters
<1>2. ASSUME NEW p \in Proc, RecordPending(p) PROVE Exclusion'
  BY <1>2 DEF RecordPending, Moves, Locks, Files, Counters
<1>3. ASSUME NEW p \in Proc, ResumeTree(p) PROVE Exclusion'
  <2>1. CASE Leaves(p)
    BY <1>35, <2>1
  <2>2. CASE Moves(p, "checking") /\ UNCHANGED Locks
    BY <1>3, <2>2 DEF ResumeTree, Moves, Locks
  <2> QED
    BY <1>3, <2>1, <2>2 DEF ResumeTree
<1>4. ASSUME NEW p \in Proc, CreateStaging(p) PROVE Exclusion'
  BY <1>4 DEF CreateStaging, Locks, Files, Counters
<1>5. ASSUME NEW p \in Proc, WriteInstallJournal(p) PROVE Exclusion'
  BY <1>5 DEF WriteInstallJournal, Moves, Locks, Files, Counters
<1>6. ASSUME NEW p \in Proc, Extract(p) PROVE Exclusion'
  BY <1>6 DEF Extract, Moves, Locks, Files, Counters
<1>7. ASSUME NEW p \in Proc, WriteSentinel(p) PROVE Exclusion'
  BY <1>7 DEF WriteSentinel, Moves, Locks, Files, Counters
<1>8. ASSUME NEW p \in Proc, RenameStaging(p) PROVE Exclusion'
  BY <1>8 DEF RenameStaging, Moves, Locks, Files, Counters
<1>9. ASSUME NEW p \in Proc, RenameRefused(p) PROVE Exclusion'
  BY <1>9 DEF RenameRefused, Refuse, Leaves, Locks, Files, Counters
<1>10. ASSUME NEW p \in Proc, Check(p) PROVE Exclusion'
  BY <1>10 DEF Check, Moves, Locks, Files, Counters
<1>11. ASSUME NEW p \in Proc, PublishReady(p) PROVE Exclusion'
  BY <1>11 DEF PublishReady, Leaves, Locks, Files, Counters
<1>12. ASSUME NEW p \in Proc, NEW id \in Managed, NEW force \in BOOLEAN,
              UninstallBegin(p, id, force)
       PROVE  Exclusion'
  BY <1>12 DEF UninstallBegin, Starts, Unleased, Leased, Locks, Files, Counters
<1>13. ASSUME NEW p \in Proc, PublishPending(p) PROVE Exclusion'
  BY <1>13 DEF PublishPending, Moves, Locks, Files, Counters
<1>14. ASSUME NEW p \in Proc, RemoveFiles(p) PROVE Exclusion'
  BY <1>14 DEF RemoveFiles, Locks, Files, Counters
<1>15. ASSUME NEW p \in Proc, RemoveSentinel(p) PROVE Exclusion'
  BY <1>15 DEF RemoveSentinel, Moves, Locks, Files, Counters
<1>16. ASSUME NEW p \in Proc, RemoveRoot(p) PROVE Exclusion'
  BY <1>16 DEF RemoveRoot, Moves, Locks, Files, Counters
<1>17. ASSUME NEW p \in Proc, RootHeld(p) PROVE Exclusion'
  BY <1>17 DEF RootHeld, Leaves, Locks, Files, Counters
<1>18. ASSUME NEW p \in Proc, PublishRemoval(p) PROVE Exclusion'
  BY <1>18 DEF PublishRemoval, Leaves, Locks, Files, Counters
<1>19. ASSUME NEW p \in Proc, NEW a \in 1..MaxMinted, DiscardBegin(p, a) PROVE Exclusion'
  BY <1>19 DEF DiscardBegin, Starts, Locks, Files, Counters
<1>20. ASSUME NEW p \in Proc, DiscardStaging(p) PROVE Exclusion'
  BY <1>20 DEF DiscardStaging, Leaves, Locks, Files, Counters
<1>21. ASSUME NEW p \in Proc, NEW id \in External, Register(p, id) PROVE Exclusion'
  BY <1>21 DEF Register, Locks, Files, Counters
<1>22. ASSUME NEW p \in Proc, NEW id \in External, NEW force \in BOOLEAN,
              UnregisterBegin(p, id, force)
       PROVE  Exclusion'
  BY <1>22 DEF UnregisterBegin, Starts, Unleased, Leased, Locks, Files, Counters
<1>23. ASSUME NEW p \in Proc, NEW id \in Runtime, SelectBegin(p, id) PROVE Exclusion'
  BY <1>23 DEF SelectBegin, Starts, Locks, Files, Counters
<1>24. ASSUME NEW p \in Proc, Unregister(p) PROVE Exclusion'
  BY <1>24 DEF Unregister, Leaves, Locks, Files, Counters
<1>25. ASSUME NEW p \in Proc, WriteSelection(p) PROVE Exclusion'
  BY <1>25 DEF WriteSelection, Leaves, Locks, Files, Counters
<1>26. ASSUME NEW p \in Proc, Unset(p) PROVE Exclusion'
  BY <1>26 DEF Unset, Locks, Files, Counters
<1>27. ASSUME NEW p \in Proc, NEW id \in Runtime, Resolve(p, id) PROVE Exclusion'
  BY <1>27 DEF Resolve, Starts, Locks, Files, Counters
<1>28. ASSUME NEW p \in Proc, AcquireLease(p) PROVE Exclusion'
  <2>1. CASE Leased(job[p].id, Exclusive)
    <3>1. Leaves(p)
      BY <1>28, <2>1 DEF AcquireLease
    <3> QED
      BY <1>35, <3>1
  <2>2. CASE ~Leased(job[p].id, Exclusive)
    <3>1. Moves(p, "leased") /\ UNCHANGED Locks
      BY <1>28, <2>2 DEF AcquireLease
    <3>2. \A q \in Proc : pc[q] \in Exclusive => job[q].id # job[p].id
      BY <2>2 DEF Leased
    <3> QED
      BY <1>28, <3>1, <3>2 DEF AcquireLease, Moves, Locks
  <2> QED
    BY <2>1, <2>2
<1>29. ASSUME NEW p \in Proc, Dispatch(p) PROVE Exclusion'
  <2>1. CASE Leaves(p)
    BY <1>35, <2>1
  <2>2. CASE Moves(p, "running") /\ UNCHANGED Locks
    BY <1>29, <2>2 DEF Dispatch, Moves, Locks
  <2> QED
    BY <1>29, <2>1, <2>2 DEF Dispatch
<1>30. ASSUME NEW p \in Proc, Exit(p) PROVE Exclusion'
  BY <1>30 DEF Exit, Refuse, Leaves, Locks, Files, Counters
<1>34. ASSUME NEW p \in Proc, KillDispatcher(p) PROVE Exclusion'
  BY <1>34 DEF KillDispatcher, Moves, Locks, Files, Counters
<1>31. ASSUME NEW p \in Proc, Stop(p) PROVE Exclusion'
  BY <1>31 DEF Stop, Leaves, Locks, Files, Counters
<1>32. ASSUME NEW id \in Managed, Outsider(id) PROVE Exclusion'
  BY <1>32 DEF Outsider, Locks, Files, Counters
<1>33. CASE UNCHANGED vars
  BY <1>33 DEF vars
<1> HIDE LifecycleAssumption
<1> HIDE DEF Exclusion, IInv, TypeOK, LocksHeld, LeasesHeld, JobsNamed, Runtime, Changing,
        Building, Exclusive, Installing, Removing, Shared, Job, NoJob, Identity
<1> QED
  BY <1>1, <1>2, <1>3, <1>4, <1>5, <1>6, <1>7, <1>8, <1>9, <1>10, <1>11, <1>12,
     <1>13, <1>14, <1>15, <1>16, <1>17, <1>18, <1>19, <1>20, <1>21, <1>22, <1>23,
     <1>24, <1>25, <1>26, <1>27, <1>28, <1>29, <1>30, <1>31, <1>32, <1>33, <1>34
  DEF Next, Install, Uninstall, Discard, Registration, Execute

LEMMA NoJobTyped == NoJob \in Job
BY LifecycleAssumption DEF NoJob, Job, Identity

LEMMA TypeStep == IInv /\ [Next]_vars => TypeOK'
<1> SUFFICES ASSUME IInv, [Next]_vars PROVE TypeOK'
  OBVIOUS
<1> USE LifecycleAssumption, NoJobTyped DEF IInv, TypeOK, JobsNamed, Changing, Building,
        Exclusive, Installing, Removing, Shared
<1>1. ASSUME NEW p \in Proc, NEW id \in Managed, InstallBegin(p, id) PROVE TypeOK'
  <2>1. [NoJob EXCEPT !.id = id] \in Job
    BY DEF NoJob, Job, Runtime, Identity
  <2> QED
    BY <1>1, <2>1 DEF InstallBegin, Starts, Locks, Files, Counters
<1>2. ASSUME NEW p \in Proc, RecordPending(p) PROVE TypeOK'
  <2>1. job[p].id \in Managed
    BY <1>2 DEF RecordPending
  <2>2. minted' \in 0..MaxMinted
    BY <1>2 DEF RecordPending
  <2>3. job[p].id \in Runtime /\ [health |-> "Unchecked", owner |-> minted'] \in Record
    BY <2>1, <2>2 DEF Runtime, Record, Health, Identity
  <2>4. records' \in [Runtime -> Record]
    BY <1>2, <2>3 DEF RecordPending
  <2> QED
    BY <1>2, <2>2, <2>4 DEF RecordPending, Moves
<1>3. ASSUME NEW p \in Proc, ResumeTree(p) PROVE TypeOK'
  BY <1>3 DEF ResumeTree, Moves, Leaves, Locks, Files, Counters
<1>4. ASSUME NEW p \in Proc, CreateStaging(p) PROVE TypeOK'
  <2> DEFINE id == job[p].id
  <2>1. id \in Managed /\ id \in Runtime
    BY <1>4 DEF CreateStaging, Runtime
  <2>2. minted' \in 1..MaxMinted
    BY <1>4 DEF CreateStaging
  <2>3. records[id].owner \in Identity
    BY <2>1 DEF Record
  <2>4. [NoStaging EXCEPT !.exists = TRUE, !.id = id, !.owner = records[id].owner] \in Staging
    BY <2>1, <2>3 DEF NoStaging, Staging
  <2>5. stagings' \in [1..MaxMinted -> Staging]
    BY <1>4, <2>2, <2>4 DEF CreateStaging
  <2>6. job[p] \in Job /\ minted' \in Identity
    BY <2>2 DEF Identity
  <2>7. [job[p] EXCEPT !.attempt = minted'] \in Job
    BY <2>6 DEF Job
  <2>8. job' \in [Proc -> Job]
    BY <1>4, <2>7 DEF CreateStaging
  <2> QED
    BY <1>4, <2>2, <2>5, <2>8 DEF CreateStaging, Locks
<1>5. ASSUME NEW p \in Proc, WriteInstallJournal(p) PROVE TypeOK'
  <2>1. stagings' \in [1..MaxMinted -> Staging]
    BY <1>5 DEF WriteInstallJournal, Staging
  <2> QED
    BY <1>5, <2>1 DEF WriteInstallJournal, Moves, Locks, Files, Counters
<1>6. ASSUME NEW p \in Proc, Extract(p) PROVE TypeOK'
  BY <1>6 DEF Extract, Moves, Locks, Files, Counters
<1>7. ASSUME NEW p \in Proc, WriteSentinel(p) PROVE TypeOK'
  <2>1. stagings' \in [1..MaxMinted -> Staging]
    BY <1>7 DEF WriteSentinel, Staging
  <2> QED
    BY <1>7, <2>1 DEF WriteSentinel, Moves, Locks, Files, Counters
<1>8. ASSUME NEW p \in Proc, RenameStaging(p) PROVE TypeOK'
  <2> DEFINE a == job[p].attempt
  <2>1. job[p].id \in Managed
    BY <1>8 DEF RenameStaging
  <2>2. a \in 1..MaxMinted /\ stagings[a] \in Staging
    BY <1>8 DEF RenameStaging, Job, Identity
  <2>3. [kind |-> "owned", sentinel |-> IF stagings[a].sealed THEN stagings[a].owner ELSE 0,
         files |-> "all", pip |-> FALSE] \in Tree
    BY <2>2 DEF Staging, Tree, Identity
  <2>4. trees' \in [Managed -> Tree]
    BY <1>8, <2>1, <2>3 DEF RenameStaging
  <2>5. stagings' \in [1..MaxMinted -> Staging]
    BY <1>8, <2>2 DEF RenameStaging, Staging
  <2> QED
    BY <1>8, <2>4, <2>5 DEF RenameStaging, Moves, Locks, Counters
<1>9. ASSUME NEW p \in Proc, RenameRefused(p) PROVE TypeOK'
  BY <1>9 DEF RenameRefused, Refuse, Leaves, Locks, Files, Counters
<1>10. ASSUME NEW p \in Proc, Check(p) PROVE TypeOK'
  <2>1. job[p].id \in Managed
    BY <1>10 DEF Check
  <2>2. trees' \in [Managed -> Tree]
    BY <1>10, <2>1 DEF Check, Tree
  <2> QED
    BY <1>10, <2>2 DEF Check, Moves, Locks, Files, Counters
<1>11. ASSUME NEW p \in Proc, PublishReady(p) PROVE TypeOK'
  <2>1. job[p].id \in Managed
    BY <1>11 DEF PublishReady
  <2>2. records' \in [Runtime -> Record]
    BY <1>11, <2>1 DEF PublishReady, Runtime, Record, Health, Identity
  <2> QED
    BY <1>11, <2>2 DEF PublishReady, Leaves, Locks, Files, Counters
<1>12. ASSUME NEW p \in Proc, NEW id \in Managed, NEW force \in BOOLEAN,
              UninstallBegin(p, id, force)
       PROVE  TypeOK'
  <2>1. [NoJob EXCEPT !.id = id, !.force = force, !.present = trees[id].kind # "absent"] \in Job
    BY DEF NoJob, Job, Runtime, Identity
  <2> QED
    BY <1>12, <2>1 DEF UninstallBegin, Starts, Locks, Files, Counters
<1>13. ASSUME NEW p \in Proc, PublishPending(p) PROVE TypeOK'
  <2>1. job[p].id \in Managed
    BY <1>13 DEF PublishPending
  <2>2. records' \in [Runtime -> Record]
    BY <1>13, <2>1 DEF PublishPending, Runtime, Record, Health, Identity
  <2> QED
    BY <1>13, <2>2 DEF PublishPending, Moves, Locks, Files, Counters
<1>14. ASSUME NEW p \in Proc, RemoveFiles(p) PROVE TypeOK'
  <2>1. job[p].id \in Managed
    BY <1>14 DEF RemoveFiles
  <2>2. trees' \in [Managed -> Tree]
    BY <1>14, <2>1 DEF RemoveFiles, Tree
  <2> QED
    BY <1>14, <2>2 DEF RemoveFiles, Moves, Locks, Files, Counters
<1>15. ASSUME NEW p \in Proc, RemoveSentinel(p) PROVE TypeOK'
  <2>1. job[p].id \in Managed
    BY <1>15 DEF RemoveSentinel
  <2>2. 0 \in Identity
    BY DEF Identity
  <2>3. [trees[job[p].id] EXCEPT !.sentinel = 0] \in Tree
    <3>1. trees[job[p].id] \in Tree
      BY <2>1
    <3> QED
      BY <2>2, <3>1 DEF Tree
  <2>4. trees' \in [Managed -> Tree]
    BY <1>15, <2>3 DEF RemoveSentinel
  <2> QED
    BY <1>15, <2>4 DEF RemoveSentinel, Moves, Locks, Counters
<1>16. ASSUME NEW p \in Proc, RemoveRoot(p) PROVE TypeOK'
  <2>1. job[p].id \in Managed
    BY <1>16 DEF RemoveRoot
  <2>2. trees' \in [Managed -> Tree]
    BY <1>16, <2>1 DEF RemoveRoot, Tree, NoTree, Identity
  <2> QED
    BY <1>16, <2>2 DEF RemoveRoot, Moves, Locks, Files, Counters
<1>17. ASSUME NEW p \in Proc, RootHeld(p) PROVE TypeOK'
  <2>1. job[p].id \in Managed /\ job[p].id \in Runtime
    BY <1>17 DEF RootHeld, Runtime
  <2>2. records[job[p].id].owner \in Identity
    BY <2>1 DEF Record
  <2>3. trees' \in [Managed -> Tree]
    BY <1>17, <2>1, <2>2 DEF RootHeld, Tree
  <2> QED
    BY <1>17, <2>3 DEF RootHeld, Leaves
<1>18. ASSUME NEW p \in Proc, PublishRemoval(p) PROVE TypeOK'
  <2>1. job[p].id \in Managed
    BY <1>18 DEF PublishRemoval
  <2>2. records' \in [Runtime -> Record]
    BY <1>18, <2>1 DEF PublishRemoval, Runtime, Record, Health, Identity
  <2> QED
    BY <1>18, <2>2 DEF PublishRemoval, Leaves, Locks, Files, Counters
<1>19. ASSUME NEW p \in Proc, NEW a \in 1..MaxMinted, DiscardBegin(p, a) PROVE TypeOK'
  <2>1. a \in Identity
    BY DEF Identity
  <2>2. [NoJob EXCEPT !.attempt = a] \in Job
    BY <2>1 DEF Job
  <2> QED
    BY <1>19, <2>2 DEF DiscardBegin, Starts, Files, Counters
<1>20. ASSUME NEW p \in Proc, DiscardStaging(p) PROVE TypeOK'
  <2>1. stagings' \in [1..MaxMinted -> Staging]
    BY <1>20 DEF DiscardStaging, Staging
  <2> QED
    BY <1>20, <2>1 DEF DiscardStaging, Leaves, Locks, Files, Counters
<1>21. ASSUME NEW p \in Proc, NEW id \in External, Register(p, id) PROVE TypeOK'
  <2>1. records' \in [Runtime -> Record]
    BY <1>21 DEF Register, Runtime, Record, Health
  <2> QED
    BY <1>21, <2>1 DEF Register, Locks, Files, Counters
<1>22. ASSUME NEW p \in Proc, NEW id \in External, NEW force \in BOOLEAN,
              UnregisterBegin(p, id, force)
       PROVE  TypeOK'
  <2>1. [NoJob EXCEPT !.id = id, !.force = force] \in Job
    BY DEF NoJob, Job, Runtime, Identity
  <2> QED
    BY <1>22, <2>1 DEF UnregisterBegin, Starts, Locks, Files, Counters
<1>23. ASSUME NEW p \in Proc, NEW id \in Runtime, SelectBegin(p, id) PROVE TypeOK'
  <2>1. [NoJob EXCEPT !.id = id] \in Job
    BY DEF NoJob, Job, Runtime, Identity
  <2> QED
    BY <1>23, <2>1 DEF SelectBegin, Starts, Locks, Files, Counters
<1>24. ASSUME NEW p \in Proc, Unregister(p) PROVE TypeOK'
  <2>1. job[p].id \in External
    BY <1>24 DEF Unregister
  <2>2. records' \in [Runtime -> Record]
    BY <1>24, <2>1 DEF Unregister, Runtime, Record, Health, Identity
  <2> QED
    BY <1>24, <2>2 DEF Unregister, Leaves, Locks, Files, Counters
<1>25. ASSUME NEW p \in Proc, WriteSelection(p) PROVE TypeOK'
  <2>1. job[p].id \in Runtime
    BY <1>25 DEF WriteSelection
  <2> QED
    BY <1>25, <2>1 DEF WriteSelection, Leaves, Counters
<1>26. ASSUME NEW p \in Proc, Unset(p) PROVE TypeOK'
  BY <1>26 DEF Unset, Locks, Files, Counters
<1>27. ASSUME NEW p \in Proc, NEW id \in Runtime, Resolve(p, id) PROVE TypeOK'
  <2>1. [NoJob EXCEPT !.id = id] \in Job
    BY DEF NoJob, Job, Runtime, Identity
  <2> QED
    BY <1>27, <2>1 DEF Resolve, Starts, Locks, Files, Counters
<1>28. ASSUME NEW p \in Proc, AcquireLease(p) PROVE TypeOK'
  BY <1>28 DEF AcquireLease, Moves, Leaves, Leased, Locks, Files, Counters
<1>29. ASSUME NEW p \in Proc, Dispatch(p) PROVE TypeOK'
  BY <1>29 DEF Dispatch, Moves, Leaves, Locks, Files, Counters
<1>30. ASSUME NEW p \in Proc, Exit(p) PROVE TypeOK'
  BY <1>30 DEF Exit, Refuse, Leaves, Locks, Files, Counters
<1>34. ASSUME NEW p \in Proc, KillDispatcher(p) PROVE TypeOK'
  BY <1>34 DEF KillDispatcher, Moves, Locks, Files
<1>31. ASSUME NEW p \in Proc, Stop(p) PROVE TypeOK'
  BY <1>31 DEF Stop, Leaves, Locks, Files, Counters
<1>32. ASSUME NEW id \in Managed, Outsider(id) PROVE TypeOK'
  <2>1. NoTree \in Tree /\ ForeignTree \in Tree
    BY DEF NoTree, ForeignTree, Tree, Identity
  <2> QED
    BY <1>32, <2>1 DEF Outsider, Locks, Counters
<1>33. CASE UNCHANGED vars
  BY <1>33 DEF vars
<1> HIDE LifecycleAssumption, NoJobTyped
<1> HIDE DEF IInv, TypeOK, JobsNamed, Changing, Building, Exclusive, Installing, Removing,
        Shared
<1> QED
  BY <1>1, <1>2, <1>3, <1>4, <1>5, <1>6, <1>7, <1>8, <1>9, <1>10, <1>11, <1>12,
     <1>13, <1>14, <1>15, <1>16, <1>17, <1>18, <1>19, <1>20, <1>21, <1>22, <1>23,
     <1>24, <1>25, <1>26, <1>27, <1>28, <1>29, <1>30, <1>31, <1>32, <1>33, <1>34
  DEF Next, Install, Uninstall, Discard, Registration, Execute

LEMMA AgreementStep ==
    IInv /\ [Next]_vars => StagingMatches' /\ TreesAgree' /\ Progress' /\ Chosen'
<1> DEFINE Agreement == StagingMatches /\ TreesAgree /\ Progress /\ Chosen
<1> SUFFICES ASSUME IInv, [Next]_vars PROVE Agreement'
  OBVIOUS
<1> USE LifecycleAssumption DEF IInv, TypeOK, LocksHeld, LeasesHeld, JobsNamed, Runtime,
        StagingMatches, TreesAgree, Progress, Chosen, Complete,
        Changing, Building, Exclusive, Installing, Removing, Shared, Job, NoJob, Identity,
        Record, Tree, Staging, Health, NoTree, ForeignTree, NoStaging
<1>1. ASSUME NEW p \in Proc, NEW id \in Managed, InstallBegin(p, id) PROVE Agreement'
  BY <1>1 DEF InstallBegin, Starts, Unleased, Leased, Locks, Files, Counters
<1>2. ASSUME NEW p \in Proc, RecordPending(p) PROVE Agreement'
  <2>1. StagingMatches'
    BY <1>2 DEF RecordPending, Moves
  <2>2. TreesAgree'
    <3> DEFINE id == job[p].id
    <3>1. id \in Managed /\ id \in Runtime
      BY <1>2 DEF RecordPending
    <3>2. CASE records[id].health = "Unchecked"
      BY <1>2, <3>2 DEF RecordPending
    <3>3. CASE records[id].health = "absent"
      <4>1. /\ minted' # 0
            /\ records' = [records EXCEPT ![id] = [health |-> "Unchecked", owner |-> minted']]
        BY <1>2, <3>3 DEF RecordPending
      <4>2. trees[id].kind # "owned" /\ trees[id] \in {NoTree, ForeignTree}
        BY <3>1, <3>3
      <4> QED
        BY <1>2, <3>1, <4>1, <4>2 DEF RecordPending
    <3> QED
      BY <1>2, <3>1, <3>2, <3>3 DEF RecordPending
  <2>3. Progress'
    BY <1>2 DEF RecordPending, Moves
  <2>4. Chosen'
    BY <1>2 DEF RecordPending, Moves
  <2> QED
    BY <2>1, <2>2, <2>3, <2>4
<1>3. ASSUME NEW p \in Proc, ResumeTree(p) PROVE Agreement'
  <2>1. CASE Leaves(p)
    BY <1>3, <2>1 DEF ResumeTree, Leaves, Files
  <2>2. CASE trees[job[p].id].sentinel = records[job[p].id].owner /\ Moves(p, "checking")
    <3>1. trees[job[p].id].kind = "owned"
      BY <1>3, <2>2 DEF ResumeTree
    <3> QED
      BY <1>3, <2>2, <3>1 DEF ResumeTree, Moves, Files
  <2> QED
    BY <1>3, <2>1, <2>2 DEF ResumeTree
<1>4. ASSUME NEW p \in Proc, CreateStaging(p) PROVE Agreement'
  BY <1>4 DEF CreateStaging, Locks, Files, Counters
<1>5. ASSUME NEW p \in Proc, WriteInstallJournal(p) PROVE Agreement'
  BY <1>5 DEF WriteInstallJournal, Moves, Locks, Files, Counters
<1>6. ASSUME NEW p \in Proc, Extract(p) PROVE Agreement'
  BY <1>6 DEF Extract, Moves, Locks, Files, Counters
<1>7. ASSUME NEW p \in Proc, WriteSentinel(p) PROVE Agreement'
  BY <1>7 DEF WriteSentinel, Moves, Locks, Files, Counters
<1>8. ASSUME NEW p \in Proc, RenameStaging(p) PROVE Agreement'
  BY <1>8 DEF RenameStaging, Moves, Locks, Files, Counters
<1>9. ASSUME NEW p \in Proc, RenameRefused(p) PROVE Agreement'
  BY <1>9 DEF RenameRefused, Refuse, Leaves, Locks, Files, Counters
<1>10. ASSUME NEW p \in Proc, Check(p) PROVE Agreement'
  BY <1>10 DEF Check, Moves, Locks, Files, Counters
<1>11. ASSUME NEW p \in Proc, PublishReady(p) PROVE Agreement'
  BY <1>11 DEF PublishReady, Leaves, Locks, Files, Counters
<1>12. ASSUME NEW p \in Proc, NEW id \in Managed, NEW force \in BOOLEAN,
              UninstallBegin(p, id, force)
       PROVE  Agreement'
  <2>1. StagingMatches'
    BY <1>12 DEF UninstallBegin, Starts, Unleased, Leased, Files
  <2>2. TreesAgree'
    BY <1>12 DEF UninstallBegin, Starts, Unleased, Leased, Files
  <2>3. Progress'
    <3>1. trees[id].kind # "absent" <=> trees[id].kind = "owned"
      BY <1>12 DEF UninstallBegin
    <3>2. job'[p].id = id /\ (job'[p].present <=> trees[id].kind = "owned")
      <4>1. job'[p] = [NoJob EXCEPT !.id = id, !.force = force,
                                    !.present = trees[id].kind # "absent"]
        BY <1>12 DEF UninstallBegin, Starts
      <4>2. job'[p].id = id /\ job'[p].present = (trees[id].kind # "absent")
        BY <4>1 DEF NoJob
      <4> QED
        BY <3>1, <4>2
    <3>3. pc'[p] = "marking" /\ \A q \in Proc \ {p} : pc'[q] = pc[q] /\ job'[q] = job[q]
      BY <1>12 DEF UninstallBegin, Starts
    <3> QED
      BY <1>12, <3>2, <3>3 DEF UninstallBegin, Files
  <2>4. Chosen'
    BY <1>12 DEF UninstallBegin, Starts, Unleased, Leased, Files
  <2> QED
    BY <2>1, <2>2, <2>3, <2>4
<1>13. ASSUME NEW p \in Proc, PublishPending(p) PROVE Agreement'
  BY <1>13 DEF PublishPending, Moves, Locks, Files, Counters
<1>14. ASSUME NEW p \in Proc, RemoveFiles(p) PROVE Agreement'
  <2>1. StagingMatches'
    BY <1>14 DEF RemoveFiles, Files
  <2>2. TreesAgree'
    <3>1. PICK left \in {"some", "none"} :
            trees' = [trees EXCEPT ![job[p].id].files = left, ![job[p].id].pip = FALSE]
      BY <1>14 DEF RemoveFiles
    <3>2. records[job[p].id].health = "PendingRemoval" /\ trees[job[p].id].kind = "owned"
      BY <1>14 DEF RemoveFiles
    <3>3. \A id \in Managed :
            /\ trees'[id].kind = trees[id].kind /\ trees'[id].sentinel = trees[id].sentinel
            /\ id # job[p].id => trees'[id] = trees[id]
      BY <3>1
    <3>4. records' = records
      BY <1>14 DEF RemoveFiles, Files
    <3>5. TreesAgree
      OBVIOUS
    <3> HIDE LifecycleAssumption DEF IInv, TypeOK, LocksHeld, LeasesHeld, JobsNamed, Runtime,
             StagingMatches, Progress, Chosen, Changing, Building, Exclusive, Installing,
             Removing, Shared, Job, NoJob, Identity, Record, Tree, Staging, Health, NoStaging
    <3> QED
      BY <3>2, <3>3, <3>4, <3>5
  <2>3. Progress'
    BY <1>14 DEF RemoveFiles, Files
  <2>4. Chosen'
    BY <1>14 DEF RemoveFiles, Files
  <2> QED
    BY <2>1, <2>2, <2>3, <2>4
<1>15. ASSUME NEW p \in Proc, RemoveSentinel(p) PROVE Agreement'
  BY <1>15 DEF RemoveSentinel, Moves, Locks, Files, Counters
<1>16. ASSUME NEW p \in Proc, RemoveRoot(p) PROVE Agreement'
  BY <1>16 DEF RemoveRoot, Moves, Locks, Files, Counters
<1>17. ASSUME NEW p \in Proc, RootHeld(p) PROVE Agreement'
  BY <1>17 DEF RootHeld, Leaves, Locks, Files, Counters
<1>18. ASSUME NEW p \in Proc, PublishRemoval(p) PROVE Agreement'
  BY <1>18 DEF PublishRemoval, Leaves, Locks, Files, Counters
<1>19. ASSUME NEW p \in Proc, NEW a \in 1..MaxMinted, DiscardBegin(p, a) PROVE Agreement'
  BY <1>19 DEF DiscardBegin, Starts, Locks, Files, Counters
<1>20. ASSUME NEW p \in Proc, DiscardStaging(p) PROVE Agreement'
  BY <1>20 DEF DiscardStaging, Leaves, Locks, Files, Counters
<1>21. ASSUME NEW p \in Proc, NEW id \in External, Register(p, id) PROVE Agreement'
  BY <1>21 DEF Register, Locks, Files, Counters
<1>22. ASSUME NEW p \in Proc, NEW id \in External, NEW force \in BOOLEAN,
              UnregisterBegin(p, id, force)
       PROVE  Agreement'
  BY <1>22 DEF UnregisterBegin, Starts, Unleased, Leased, Locks, Files, Counters
<1>23. ASSUME NEW p \in Proc, NEW id \in Runtime, SelectBegin(p, id) PROVE Agreement'
  BY <1>23 DEF SelectBegin, Starts, Locks, Files, Counters
<1>24. ASSUME NEW p \in Proc, Unregister(p) PROVE Agreement'
  BY <1>24 DEF Unregister, Leaves, Locks, Files, Counters
<1>25. ASSUME NEW p \in Proc, WriteSelection(p) PROVE Agreement'
  BY <1>25 DEF WriteSelection, Leaves, Locks, Files, Counters
<1>26. ASSUME NEW p \in Proc, Unset(p) PROVE Agreement'
  BY <1>26 DEF Unset, Locks, Files, Counters
<1>27. ASSUME NEW p \in Proc, NEW id \in Runtime, Resolve(p, id) PROVE Agreement'
  BY <1>27 DEF Resolve, Starts, Locks, Files, Counters
<1>28. ASSUME NEW p \in Proc, AcquireLease(p) PROVE Agreement'
  <2>1. CASE Leaves(p)
    BY <1>28, <2>1 DEF AcquireLease, Leaves, Files
  <2>2. CASE Moves(p, "leased")
    BY <1>28, <2>2 DEF AcquireLease, Moves, Files
  <2> QED
    BY <1>28, <2>1, <2>2 DEF AcquireLease
<1>29. ASSUME NEW p \in Proc, Dispatch(p) PROVE Agreement'
  BY <1>29 DEF Dispatch, Moves, Leaves, Locks, Files, Counters
<1>30. ASSUME NEW p \in Proc, Exit(p) PROVE Agreement'
  BY <1>30 DEF Exit, Refuse, Leaves, Locks, Files, Counters
<1>34. ASSUME NEW p \in Proc, KillDispatcher(p) PROVE Agreement'
  BY <1>34 DEF KillDispatcher, Moves, Locks, Files, Counters
<1>31. ASSUME NEW p \in Proc, Stop(p) PROVE Agreement'
  BY <1>31 DEF Stop, Leaves, Locks, Files, Counters
<1>32. ASSUME NEW id \in Managed, Outsider(id) PROVE Agreement'
  <2>1. trees[id].kind # "owned" /\ trees'[id] \in {NoTree, ForeignTree}
    BY <1>32 DEF Outsider
  <2>2. \A other \in Managed \ {id} : trees'[other] = trees[other]
    BY <1>32 DEF Outsider
  <2>3. StagingMatches'
    BY <1>32 DEF Outsider, Files
  <2>4. TreesAgree'
    <3>1. records' = records
      BY <1>32 DEF Outsider, Files
    <3>2. TreesAgree
      OBVIOUS
    <3> HIDE LifecycleAssumption DEF IInv, TypeOK, LocksHeld, LeasesHeld, JobsNamed, Runtime,
             StagingMatches, Progress, Chosen, Changing, Building, Exclusive, Installing,
             Removing, Shared, Job, NoJob, Identity, Record, Tree, Staging, Health, NoStaging
    <3> QED
      BY <2>1, <2>2, <3>1, <3>2
  <2>5. Progress'
    <3>1. UNCHANGED <<pc, job, records>>
      BY <1>32 DEF Outsider, Files
    <3>2. \A other \in Managed :
            /\ trees[other].kind = "owned" <=> trees'[other].kind = "owned"
            /\ trees[other].kind = "owned" => trees'[other] = trees[other]
      BY <2>1, <2>2
    <3> QED
      BY <3>1, <3>2
  <2>6. Chosen'
    BY <1>32 DEF Outsider, Files
  <2> QED
    BY <2>3, <2>4, <2>5, <2>6
<1>33. CASE UNCHANGED vars
  BY <1>33 DEF vars
<1> HIDE DEF Agreement
<1> HIDE LifecycleAssumption
<1> HIDE DEF IInv, TypeOK, LocksHeld, LeasesHeld, JobsNamed, Runtime, StagingMatches,
        TreesAgree, Progress, Chosen, Complete, Changing, Building, Exclusive, Installing,
        Removing, Shared, Job, NoJob, Identity, Record, Tree, Staging, Health, NoTree,
        ForeignTree, NoStaging
<1> QED
  BY <1>1, <1>2, <1>3, <1>4, <1>5, <1>6, <1>7, <1>8, <1>9, <1>10, <1>11, <1>12,
     <1>13, <1>14, <1>15, <1>16, <1>17, <1>18, <1>19, <1>20, <1>21, <1>22, <1>23,
     <1>24, <1>25, <1>26, <1>27, <1>28, <1>29, <1>30, <1>31, <1>32, <1>33, <1>34
  DEF Next, Install, Uninstall, Discard, Registration, Execute

LEMMA InitInvariant == Init => IInv
<1> SUFFICES ASSUME Init PROVE IInv
  OBVIOUS
<1> USE LifecycleAssumption DEF Init
<1>1. TypeOK
  <2>1. /\ NoTree \in Tree /\ ForeignTree \in Tree /\ NoStaging \in Staging /\ 0 \in Identity
        /\ [health |-> "absent", owner |-> 0] \in Record
    BY DEF Tree, NoTree, ForeignTree, Staging, NoStaging, Record, Health, Identity
  <2> QED
    BY <2>1, NoJobTyped DEF TypeOK
<1>2. LocksHeld /\ LeasesHeld /\ JobsNamed /\ StagingMatches /\ Progress /\ Chosen
  BY DEF LocksHeld, LeasesHeld, JobsNamed, StagingMatches, Progress, Chosen,
         Changing, Building, Exclusive, Installing, Removing, Shared
<1>3. TreesAgree
  BY DEF TreesAgree, Runtime, NoTree, ForeignTree
<1> QED
  BY <1>1, <1>2, <1>3 DEF IInv

\* Every process keeps to the locks and leases it holds, and what it read while it
\* took them stays true until it gives them up (managed.rs, app.rs, router.rs).
THEOREM InvariantHolds == Spec => []IInv
<1>1. IInv /\ [Next]_vars => IInv'
  BY TypeStep, ExclusionStep, AgreementStep DEF IInv
<1> QED
  BY <1>1, InitInvariant, PTL DEF Spec

-----------------------------------------------------------------------------
(* The invariants of the module *)

\* Every variable keeps its type: the shapes of registry.json, of the managed
\* roots, of the install journals and of what a command remembers; a lock has a
\* holder only while that process works.
THEOREM TypeCorrect == Spec => []TypeOK
<1>1. IInv => TypeOK
  BY DEF IInv
<1> QED
  BY <1>1, InvariantHolds, PTL

\* A Ready runtime is whole, wherever an installation or a removal was interrupted
\* (managed.rs:265-267, 377-390).
THEOREM ReadyCorrect == Spec => []ReadyIsComplete
<1>1. IInv => ReadyIsComplete
  BY DEF IInv, TreesAgree, ReadyIsComplete
<1> QED
  BY <1>1, InvariantHolds, PTL

\* A dispatched command keeps its runtime, whole and registered, as long as its
\* dispatcher waits for it (router.rs:141-163); nothing is said of a command whose
\* dispatcher was killed, for the lease has ended (native_process.rs:285-319).
THEOREM RunsCorrect == Spec => []RunsComplete
<1>1. IInv => RunsComplete
  BY DEF IInv, Chosen, TreesAgree, RunsComplete
<1> QED
  BY <1>1, InvariantHolds, PTL

\* A tree with a sentinel belongs to the runtime registered at its root.
THEOREM SealedCorrect == Spec => []SealedIsRegistered
<1>1. IInv => SealedIsRegistered
  <2> SUFFICES ASSUME IInv, NEW id \in Managed, trees[id].sentinel # 0
               PROVE  records[id].health # "absent" /\ records[id].owner = trees[id].sentinel
    BY DEF SealedIsRegistered
  <2> QED
    BY DEF IInv, TreesAgree
<1> QED
  BY <1>1, InvariantHolds, PTL

\* An interrupted installation passes validate_owner when it is tried again
\* (managed.rs:281-286).
THEOREM ResumableCorrect == Spec => []UncheckedIsResumable
<1>1. IInv => UncheckedIsResumable
  BY DEF IInv, TreesAgree, UncheckedIsResumable
<1> QED
  BY <1>1, InvariantHolds, PTL

\* Recovery never deletes the staging directory of a running installation
\* (managed.rs:62-66).
THEOREM StagingCorrect == Spec => []StagingIsKept
<1>1. IInv => StagingIsKept
  BY DEF IInv, StagingMatches, StagingIsKept, Building
<1> QED
  BY <1>1, InvariantHolds, PTL

-----------------------------------------------------------------------------
(* What a step may never do *)

\* The step of ForeignUntouched.
ForeignSpared ==
    \A id \in Managed : trees[id].kind = "foreign" =>
      \/ trees'[id] = trees[id]
      \/ trees'[id] = NoTree /\ UNCHANGED <<pc, job>>

LEMMA ForeignStep == IInv /\ [Next]_vars => ForeignSpared
<1> SUFFICES ASSUME IInv, [Next]_vars PROVE ForeignSpared
  OBVIOUS
<1> USE DEF ForeignSpared
<1>1. ASSUME NEW p \in Proc, RenameStaging(p) PROVE ForeignSpared
  BY <1>1 DEF RenameStaging, IInv, TypeOK
<1>2. ASSUME NEW p \in Proc, \/ Check(p) \/ RemoveFiles(p) \/ RemoveSentinel(p)
                             \/ RemoveRoot(p) \/ RootHeld(p)
      PROVE  ForeignSpared
  <2>1. trees[job[p].id].kind = "owned"
    BY <1>2 DEF Check, RemoveFiles, RemoveSentinel, RemoveRoot, RootHeld, IInv, Progress
  <2>2. \A id \in Managed \ {job[p].id} : trees'[id] = trees[id]
    BY <1>2 DEF Check, RemoveFiles, RemoveSentinel, RemoveRoot, RootHeld, IInv, TypeOK
  <2> QED
    BY <2>1, <2>2
<1>3. ASSUME NEW id \in Managed, Outsider(id) PROVE ForeignSpared
  <2>1. UNCHANGED <<pc, job>>
    BY <1>3 DEF Outsider
  <2>2. \A other \in Managed :
          trees'[other] = trees[other] \/ trees'[other] = NoTree \/ trees[other] = NoTree
    BY <1>3 DEF Outsider, IInv, TypeOK
  <2> QED
    BY <2>1, <2>2 DEF NoTree
<1>4. ASSUME NEW p \in Proc, Install(p) PROVE ForeignSpared
  BY <1>1, <1>2, <1>4
  DEF Install, InstallBegin, RecordPending, ResumeTree, CreateStaging, WriteInstallJournal,
      Extract, WriteSentinel, RenameRefused, PublishReady, Refuse, Files
<1>5. ASSUME NEW p \in Proc, Uninstall(p) PROVE ForeignSpared
  BY <1>2, <1>5 DEF Uninstall, UninstallBegin, PublishPending, PublishRemoval, Files
<1>6. ASSUME NEW p \in Proc, Discard(p) \/ Registration(p) \/ Execute(p) \/ Stop(p)
      PROVE  ForeignSpared
  BY <1>6
  DEF Discard, DiscardStaging, DiscardBegin, Registration, Register, UnregisterBegin,
      SelectBegin, Unregister, WriteSelection, Unset, Execute, Resolve, AcquireLease,
      Dispatch, Exit, KillDispatcher, Refuse, Stop, Files
<1>7. CASE UNCHANGED vars
  BY <1>7 DEF vars
<1> QED
  BY <1>1, <1>2, <1>3, <1>4, <1>5, <1>6, <1>7 DEF Next

\* No step of PyRudder changes or deletes a directory it did not make
\* (managed.rs:204-210, 281-286, 372-376).
THEOREM ForeignSafe == Spec => ForeignUntouched
<1>1. IInv /\ [Next]_vars => [ForeignSpared]_vars
  BY ForeignStep
<1> QED
  BY <1>1, InvariantHolds, PTL DEF Spec, ForeignUntouched, ForeignSpared

\* The step of SelectionStaysReady.
SelectionKept ==
    global' # None /\ records'[global'].health # "Ready" =>
      \/ global' = global /\ records[global].health # "Ready"
      \/ \E p \in Proc : pc[p] \in Removing /\ job[p].id = global /\ job[p].force

LEMMA SelectionStep == IInv /\ [Next]_vars => SelectionKept
<1> SUFFICES ASSUME IInv, [Next]_vars PROVE SelectionKept
  OBVIOUS
<1> USE DEF IInv, TypeOK, SelectionKept, Removing
<1>1. ASSUME NEW p \in Proc, RecordPending(p) PROVE SelectionKept
  BY <1>1 DEF RecordPending, Progress
<1>2. ASSUME NEW p \in Proc, PublishReady(p) PROVE SelectionKept
  BY <1>2 DEF PublishReady
<1>3. ASSUME NEW p \in Proc, PublishPending(p) \/ Unregister(p) PROVE SelectionKept
  <2>1. job[p].force \/ global # job[p].id
    BY <1>3 DEF PublishPending, Unregister, Chosen
  <2>2. global' = global /\ (global \in Runtime \ {job[p].id} => records'[global] = records[global])
    BY <1>3 DEF PublishPending, Unregister
  <2> QED
    BY <1>3, <2>1, <2>2 DEF PublishPending, Unregister
<1>4. ASSUME NEW p \in Proc, PublishRemoval(p) PROVE SelectionKept
  BY <1>4 DEF PublishRemoval, Progress
<1>5. ASSUME NEW p \in Proc, NEW id \in External, Register(p, id) PROVE SelectionKept
  BY <1>5 DEF Register
<1>6. ASSUME NEW p \in Proc, WriteSelection(p) PROVE SelectionKept
  BY <1>6 DEF WriteSelection, Chosen
<1>7. ASSUME NEW p \in Proc, Unset(p) PROVE SelectionKept
  BY <1>7 DEF Unset
<1>8. ASSUME UNCHANGED <<records, global>> PROVE SelectionKept
  BY <1>8
<1>9. ASSUME NEW p \in Proc, Install(p) PROVE SelectionKept
  BY <1>1, <1>2, <1>8, <1>9
  DEF Install, InstallBegin, ResumeTree, CreateStaging, WriteInstallJournal, Extract,
      WriteSentinel, RenameStaging, RenameRefused, Check, Refuse, Files
<1>10. ASSUME NEW p \in Proc, Uninstall(p) PROVE SelectionKept
  BY <1>3, <1>4, <1>8, <1>10
  DEF Uninstall, UninstallBegin, RemoveFiles, RemoveSentinel, RemoveRoot, RootHeld, Files
<1>11. ASSUME NEW p \in Proc, Discard(p) \/ Registration(p) \/ Execute(p) \/ Stop(p)
       PROVE  SelectionKept
  BY <1>3, <1>5, <1>6, <1>7, <1>8, <1>11
  DEF Discard, DiscardStaging, DiscardBegin, Registration, UnregisterBegin, SelectBegin,
      Execute, Resolve, AcquireLease, Dispatch, Exit, KillDispatcher, Refuse, Stop, Files
<1>12. ASSUME NEW id \in Managed, Outsider(id) PROVE SelectionKept
  BY <1>8, <1>12 DEF Outsider
<1>13. CASE UNCHANGED vars
  BY <1>8, <1>13 DEF vars
<1> QED
  BY <1>9, <1>10, <1>11, <1>12, <1>13 DEF Next

\* The global selection comes to name a runtime that is not Ready only when the
\* user forces its removal: a removal asks for the selection under the same lock
\* under which a selection asks for the runtime (app.rs:421-441, 443-483).
THEOREM SelectionCorrect == Spec => SelectionStaysReady
<1>1. IInv /\ [Next]_vars => [SelectionKept]_vars
  BY SelectionStep
<1> QED
  BY <1>1, InvariantHolds, PTL DEF Spec, SelectionStaysReady, SelectionKept
=============================================================================
