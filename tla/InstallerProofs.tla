--------------------------- MODULE InstallerProofs ---------------------------
(***************************************************************************)
(* Theorems about InstallerTransaction, for any sets of files and ordinary *)
(* processes and any number of versions, edits and failures.               *)
(***************************************************************************)
EXTENDS InstallerTransaction, TLAPS

-----------------------------------------------------------------------------
(* The inductive invariant *)

Phase == backup.journal.phase
From == backup.journal.from
Recorded == backup.journal.entries

\* The files are version v's, with the edits the registry among them has.
Uniform(files, v) == \A i \in Item : files[i] = Fresh(v, i, files[Registry].edits)

\* Whoever is inside may be there: locks and phases keep others out.
RunningAdmitted == running # {} => Admitted

\* Without a directory there is no journal and no copy.
BackupShape == ~backup.exists => backup = NoBackup

\* What the journal recorded is one version, with the edits the users had made
\* when it was written; nobody edits before it is settled.
Originals ==
    /\ Phase # "missing" => Recorded[Registry] # Absent /\ Uniform(Recorded, From)
    /\ Phase \in {"preparing", "prepared", "restoring"} =>
         Recorded[Registry].edits = installed[Registry].edits
    /\ Phase = "restoring" => backup.copies = Recorded
    /\ Phase = "prepared" => backup.copies = Recorded \/ Uniform(installed, display)

\* Which version is installed, as far as the phase on disk says.
Installed ==
    /\ Phase \in {"missing", "preparing", "committed"} => Uniform(installed, display)
    /\ Phase = "rolled_back" => Uniform(installed, From)

\* On whose behalf a helper can be at work.
GoalFits ==
    /\ pc \in {"recover", "restoring", "register_old", "acknowledge"} =>
         goal \in {"check", "post", "deinit"}
    /\ pc = "cleanup" /\ goal = "undo_prepared" => Phase = "preparing"

\* What Setup and its helpers have reached.
Reached ==
    /\ pc = "capture" => ~backup.exists
    /\ pc = "copying" =>
         /\ Phase = "preparing" /\ Recorded = installed
         /\ \A i \in Item \ todo : backup.copies[i] = installed[i]
    /\ pc \in {"replacing", "finishing"} => Phase = "prepared" /\ backup.copies = Recorded
    /\ pc = "replacing" =>
         /\ todo \subseteq Program
         /\ \A i \in Program \ todo : installed[i] = Fresh(target, i, 0)
    /\ pc = "finishing" =>
         /\ todo \subseteq Shim \cup {Registry}
         /\ \A i \in Item \ todo : installed[i] = Fresh(target, i, installed[Registry].edits)
    /\ pc = "commit" => display = target /\ Uniform(installed, target)
    /\ pc = "restoring" =>
         /\ Phase = "restoring"
         /\ \A i \in Item \ todo : installed[i] = backup.copies[i]
    /\ pc \in {"register_old", "acknowledge"} => Phase = "rolled_back"
    /\ pc = "cleanup" => Phase \in {"preparing", "committed", "rolled_back"}
    /\ pc \in {"acknowledge", "cleanup"} /\ Phase = "rolled_back" => display = From

IInv ==
    /\ TypeOK /\ RunningAdmitted /\ BackupShape /\ Originals /\ Installed /\ GoalFits
    /\ Reached

-----------------------------------------------------------------------------
(* The files of a version *)

LEMMA FreshType ==
    ASSUME NEW v \in Version, NEW i \in Item, NEW e \in 0..MaxEdits
    PROVE  Fresh(v, i, e) \in Content
BY InstallerAssumption DEF Fresh, Content, Version

LEMMA FreshRegistry ==
    ASSUME NEW v \in Version, NEW e
    PROVE  Fresh(v, Registry, e) = [version |-> v, edits |-> e]
BY InstallerAssumption DEF Fresh

LEMMA FreshOther ==
    ASSUME NEW v \in Version, NEW i \in Item \ {Registry}, NEW d, NEW e
    PROVE  Fresh(v, i, d) = Fresh(v, i, e)
BY DEF Fresh

\* Files that are one version's are that version's release.
LEMMA UniformIsRelease ==
    ASSUME NEW files \in [Item -> Content], NEW v \in Version
    PROVE  Uniform(files, v) <=> files = Release(v, files[Registry].edits)
BY DEF Uniform, Release

LEMMA EditsType ==
    ASSUME NEW c \in Content, c # Absent
    PROVE  c.edits \in 0..MaxEdits /\ c.version \in Version
BY DEF Content

-----------------------------------------------------------------------------
(* Where Setup goes when a helper returns *)

LEMMA ReturnGoes ==
    ASSUME NEW ok \in BOOLEAN, goal \in Goals, Return(ok)
    PROVE  /\ pc' \in {Idle, "check", "recover", "capture"}
           /\ goal' \in Goals /\ todo' = {}
           /\ pc' = "recover" => goal' = "deinit"
           /\ pc' = "capture" => ok
BY DEF Return, Goto, Goals, Idle

LEMMA HelperFailsGoes ==
    ASSUME goal \in Goals, HelperFails
    PROVE  /\ pc' \in {Idle, "check", "recover"}
           /\ goal' \in Goals /\ todo' = {}
           /\ pc' = "recover" => goal' \in {"post", "deinit"}
BY ReturnGoes DEF HelperFails, Goto, Goals, Idle

-----------------------------------------------------------------------------
(* Types *)

LEMMA NoBackupType == NoBackup \in Backup
BY InstallerAssumption
DEF NoBackup, Backup, Unrecorded, Nothing, Content, Version, Phases

LEMMA InitType == Init => TypeOK
<1> SUFFICES ASSUME Init PROVE TypeOK
  OBVIOUS
<1>1. 0 \in Version /\ 0 \in 0..MaxEdits
  BY InstallerAssumption DEF Version
<1>2. installed \in [Item -> Content] /\ installed[Registry] # Absent
  <2>1. installed = [i \in Item |-> Fresh(0, i, 0)]
    BY DEF Init, Release
  <2>2. installed[Registry] = [version |-> 0, edits |-> 0]
    BY <1>1, <2>1, FreshRegistry DEF Item
  <2>3. installed[Registry] \in [version : Version, edits : 0..MaxEdits]
    BY <1>1, <2>2
  <2> QED
    BY <1>1, <2>1, <2>3, FreshType, InstallerAssumption
<1> QED
  BY <1>1, <1>2, NoBackupType, InstallerAssumption
  DEF Init, TypeOK, Activities, Goals, Idle

LEMMA TypeStep == IInv /\ [Next]_vars => TypeOK'
<1> SUFFICES ASSUME IInv, [Next]_vars PROVE TypeOK'
  OBVIOUS
<1> USE InstallerAssumption DEF IInv, TypeOK
<1>1. \A torn \in BOOLEAN : [NoBackup EXCEPT !.exists = TRUE, !.junk = torn] \in Backup
  BY NoBackupType DEF Backup
<1>2. Remains \subseteq Backup
  <2>1. [backup EXCEPT !.junk = TRUE] \in Backup /\ [NoBackup EXCEPT !.exists = TRUE] \in Backup
    BY NoBackupType DEF Backup
  <2> QED
    BY <1>1, <2>1 DEF Remains
<1>3. \A p \in Phases : [backup EXCEPT !.journal.phase = p] \in Backup
  BY DEF Backup
<1>4. Stored \subseteq Item
  BY DEF Stored
<1>5. ASSUME NEW i \in Item, RemoveBackup(i) PROVE TypeOK'
  <2>1. [backup EXCEPT !.copies[i] = Absent] \in Backup
    BY DEF Backup, Content
  <2> QED
    BY <1>5, <2>1 DEF RemoveBackup, Unchanged
<1>6. ASSUME RemoveDirectory PROVE TypeOK'
  BY <1>6, NoBackupType, ReturnGoes DEF RemoveDirectory, Unchanged, Activities, Exclusive
<1>7. ASSUME DirectoryHeld PROVE TypeOK'
  <2>1. backup' \in Backup
    BY <1>3, <1>7 DEF DirectoryHeld, Phases
  <2>2. pc' \in Activities /\ goal' \in Goals /\ todo' = {}
    BY <1>7, ReturnGoes DEF DirectoryHeld, Activities, Exclusive
  <2> QED
    BY <1>7, <2>1, <2>2 DEF DirectoryHeld
<1>8. ASSUME Recover PROVE TypeOK'
  <2>1. backup' \in Backup
    BY <1>3, <1>8 DEF Recover, Phases
  <2>2. pc' \in Activities /\ goal' \in Goals /\ todo' \subseteq Item
    BY <1>4, <1>8, ReturnGoes DEF Recover, EnterCleanup, Goto, Activities, Exclusive
  <2> QED
    BY <1>8, <2>1, <2>2 DEF Recover, Unchanged
<1>9. ASSUME NEW i \in Item, RestoreEntry(i) PROVE TypeOK'
  <2>1. backup.copies = Recorded /\ Recorded[Registry] # Absent /\ backup.copies[i] \in Content
    BY <1>9 DEF RestoreEntry, Reached, Originals, Backup
  <2> QED
    BY <1>9, <2>1 DEF RestoreEntry, Unchanged, Recorded
<1>10. ASSUME FinishRestore PROVE TypeOK'
  BY <1>3, <1>10 DEF FinishRestore, Goto, Unchanged, Phases, Activities
<1>11. ASSUME RegisterOld PROVE TypeOK'
  BY <1>11 DEF RegisterOld, Activities, Backup
<1>12. ASSUME AcknowledgeRecovery PROVE TypeOK'
  BY <1>4, <1>12, ReturnGoes
  DEF AcknowledgeRecovery, EnterCleanup, Goto, Unchanged, Activities, Exclusive
<1>13. ASSUME NEW version \in Version, StartSetup(version) PROVE TypeOK'
  BY <1>13 DEF StartSetup, Goto, Activities, Goals
<1>14. ASSUME Check PROVE TypeOK'
  BY <1>14 DEF Check, Goto, Unchanged, Activities, Goals
<1>15. ASSUME Prepare PROVE TypeOK'
  BY <1>4, <1>15, ReturnGoes
  DEF Prepare, EnterCleanup, Goto, Unchanged, Activities, Goals, Exclusive
<1>16. ASSUME Capture PROVE TypeOK'
  <2>1. [phase |-> "preparing", from |-> display, entries |-> installed]
          \in [phase : Phases \cup {"missing"}, from : Version, entries : [Item -> Content]]
    BY DEF Phases
  <2>2. backup' \in Backup
    BY <1>16, <2>1, NoBackupType DEF Capture, Backup
  <2> QED
    BY <1>16, <2>2 DEF Capture, Goto, Unchanged, Activities, Goals, Exclusive
<1>17. ASSUME NEW i \in Item, CopyBackup(i) PROVE TypeOK'
  <2>1. [backup EXCEPT !.copies[i] = installed[i]] \in Backup
    BY DEF Backup
  <2> QED
    BY <1>17, <2>1 DEF CopyBackup, Unchanged
<1>18. ASSUME MarkPrepared PROVE TypeOK'
  BY <1>3, <1>18 DEF MarkPrepared, Goto, Unchanged, Phases, Activities, Goals, Item
<1>19. ASSUME PreparationFails PROVE TypeOK'
  BY <1>4, <1>19 DEF PreparationFails, EnterCleanup, Goto, Activities, Exclusive, Goals
<1>20. ASSUME NEW i \in Item, InnoWrite(i) PROVE TypeOK'
  <2>1. i # Registry
    BY <1>20 DEF InnoWrite, Reached
  <2>2. Fresh(target, i, 0) \in Content
    BY FreshType
  <2> QED
    BY <1>20, <2>1, <2>2 DEF InnoWrite, Unchanged
<1>21. ASSUME StartFinish PROVE TypeOK'
  BY <1>21 DEF StartFinish, Goto, Unchanged, Activities, Goals, Item, Exclusive
<1>22. ASSUME NEW i \in Item, FinishWrite(i) PROVE TypeOK'
  <2> DEFINE e == installed[Registry].edits
  <2>1. Registry \in Item /\ e \in 0..MaxEdits
    BY EditsType DEF Item
  <2>2. Fresh(target, i, e) \in Content
    BY <2>1, FreshType
  <2>3. Fresh(target, Registry, e) # Absent
    BY <2>1, FreshRegistry
  <2> QED
    BY <1>22, <2>1, <2>2, <2>3 DEF FinishWrite, Unchanged
<1>23. ASSUME InnoAbort PROVE TypeOK'
  <2>1. PICK gone \in SUBSET Program :
          installed' = [i \in Item |-> IF i \in gone \ todo THEN Absent ELSE installed[i]]
    BY <1>23 DEF InnoAbort
  <2>2. installed' \in [Item -> Content]
    BY <2>1 DEF Content
  <2>3. installed'[Registry] # Absent
    BY <2>1 DEF Item
  <2> QED
    BY <1>23, <2>2, <2>3 DEF InnoAbort, Goto, Unchanged, Activities, Goals
<1>24. ASSUME RegisterNew PROVE TypeOK'
  BY <1>24 DEF RegisterNew, Goto, Activities, Goals
<1>25. ASSUME Commit PROVE TypeOK'
  BY <1>3, <1>4, <1>25
  DEF Commit, EnterCleanup, Goto, Unchanged, Phases, Activities, Goals, Exclusive
<1>26. ASSUME HelperDies PROVE TypeOK'
  BY <1>2, <1>26, HelperFailsGoes DEF HelperDies, Goto, Activities, Goals
<1>27. ASSUME SetupDies PROVE TypeOK'
  BY <1>2, <1>27 DEF SetupDies, Goto, Activities, Goals
<1>28. ASSUME NEW c \in Cli, EnterShared(c) \/ LeaveShared(c) PROVE TypeOK'
  BY <1>28 DEF EnterShared, LeaveShared
<1>29. ASSUME NEW c \in Cli, EditRegistry(c) PROVE TypeOK'
  <2>1. installed[Registry] \in [version : Version, edits : 0..MaxEdits] /\ Registry \in Item
    BY DEF Item, Content
  <2>2. [installed[Registry] EXCEPT !.edits = @ + 1] \in [version : Version, edits : 0..MaxEdits]
    BY <1>29, <2>1 DEF EditRegistry
  <2>3. installed' = [installed EXCEPT ![Registry] = [installed[Registry] EXCEPT !.edits = @ + 1]]
    BY <1>29 DEF EditRegistry
  <2> QED
    BY <1>29, <2>1, <2>2, <2>3 DEF EditRegistry, Content
<1>30. CASE UNCHANGED vars
  BY <1>30 DEF vars
<1> QED
  BY <1>5, <1>6, <1>7, <1>8, <1>9, <1>10, <1>11, <1>12, <1>13, <1>14, <1>15, <1>16, <1>17,
     <1>18, <1>19, <1>20, <1>21, <1>22, <1>23, <1>24, <1>25, <1>26, <1>27, <1>28, <1>29, <1>30
  DEF Next, Helper, Inno, Failure

-----------------------------------------------------------------------------
(* What a step makes of the backup *)

LEMMA JournalExists == ASSUME BackupShape, Phase # "missing" PROVE backup.exists
BY DEF BackupShape, Phase, NoBackup, Unrecorded

\* The journal is saved with another phase.
LEMMA PhaseSaved ==
    ASSUME backup \in Backup, NEW p, NEW new, new = [backup EXCEPT !.journal.phase = p]
    PROVE  /\ new.exists = backup.exists /\ new.junk = backup.junk /\ new.copies = backup.copies
           /\ new.journal.phase = p /\ new.journal.from = backup.journal.from
           /\ new.journal.entries = backup.journal.entries
BY DEF Backup

\* One copy is made or removed.
LEMMA CopyChanged ==
    ASSUME backup \in Backup, NEW i \in Item, NEW c, NEW new,
           new = [backup EXCEPT !.copies[i] = c]
    PROVE  /\ new.exists = backup.exists /\ new.junk = backup.junk
           /\ new.journal = backup.journal
           /\ new.copies[i] = c
           /\ \A j \in Item \ {i} : new.copies[j] = backup.copies[j]
BY DEF Backup

\* What a death leaves has the old journal and the old copies, or no journal at all.
LEMMA RemainsShape ==
    ASSUME backup \in Backup, NEW new \in Remains
    PROVE  /\ new.exists \/ new = backup
           /\ \/ /\ new.journal = backup.journal /\ new.copies = backup.copies
                 /\ new.exists = backup.exists
              \/ pc \in {"capture", "cleanup"} /\ new.journal.phase = "missing"
<1>1. CASE new = backup
  BY <1>1
<1>2. CASE backup.exists /\ new = [backup EXCEPT !.junk = TRUE]
  BY <1>2 DEF Backup
<1>3. CASE pc = "capture" /\ \E torn \in BOOLEAN :
             new = [NoBackup EXCEPT !.exists = TRUE, !.junk = torn]
  <2>1. PICK torn \in BOOLEAN : new = [NoBackup EXCEPT !.exists = TRUE, !.junk = torn]
    BY <1>3
  <2>2. new.exists /\ new.journal.phase = "missing"
    BY <2>1 DEF NoBackup, Unrecorded
  <2> QED
    BY <1>3, <2>2
<1>4. CASE pc = "cleanup" /\ new = [NoBackup EXCEPT !.exists = TRUE]
  BY <1>4 DEF NoBackup, Unrecorded
<1> QED
  BY <1>1, <1>2, <1>3, <1>4 DEF Remains

-----------------------------------------------------------------------------
(* The outcomes of the rollback helper *)

RecoverReturns ==
    /\ pc' \in {Idle, "check", "recover"} /\ todo' = {}
    /\ pc' = "recover" => goal' = "deinit"
    /\ UNCHANGED backup

RecoverCleans ==
    /\ running = {} /\ Phase \in {"committed", "preparing"}
    /\ pc' = "cleanup" /\ goal' = goal
    /\ UNCHANGED backup

RecoverRegisters ==
    /\ running = {} /\ Phase = "rolled_back"
    /\ pc' = "register_old" /\ goal' = goal
    /\ UNCHANGED backup

RecoverRestores ==
    /\ running = {} /\ Phase \in {"prepared", "restoring"} /\ backup.copies = Recorded
    /\ backup' = [backup EXCEPT !.journal.phase = "restoring"]
    /\ pc' = "restoring" /\ goal' = goal /\ todo' = Item

LEMMA RecoverGoes ==
    ASSUME TypeOK, GoalFits, Recover
    PROVE  RecoverReturns \/ RecoverCleans \/ RecoverRegisters \/ RecoverRestores
<1>1. ASSUME NEW ok \in BOOLEAN, Return(ok), UNCHANGED backup PROVE RecoverReturns
  BY <1>1 DEF GoalFits, Recover, Return, Goto, RecoverReturns, Idle
<1> QED
  BY <1>1
  DEF Recover, EnterCleanup, Goto, Undoable, Intact, Phase, Recorded, RecoverCleans,
      RecoverRegisters, RecoverRestores

-----------------------------------------------------------------------------
(* Who is admitted, and the shape of the backup *)

\* While a step keeps the phase, or keeps everybody out, nobody is inside who may
\* not be.
LEMMA AdmissionStep == IInv /\ [Next]_vars => RunningAdmitted' /\ BackupShape' /\ GoalFits'
<1> DEFINE Order == RunningAdmitted /\ BackupShape /\ GoalFits
<1> SUFFICES ASSUME IInv, [Next]_vars PROVE Order'
  OBVIOUS
<1> USE DEF IInv, RunningAdmitted, BackupShape, GoalFits, Admitted, Exclusive, Phase, Idle,
        Unchanged, Goto
<1>1. backup \in Backup
  BY DEF TypeOK
<1>2. Phase # "missing" => backup.exists
  BY JournalExists
<1>5. ASSUME NEW i \in Item, RemoveBackup(i) PROVE Order'
  BY <1>1, <1>2, <1>5, CopyChanged DEF RemoveBackup, Reached
<1>6. ASSUME RemoveDirectory PROVE Order'
  BY <1>6, ReturnGoes DEF RemoveDirectory, TypeOK, NoBackup
<1>7. ASSUME DirectoryHeld PROVE Order'
  BY <1>1, <1>2, <1>7, PhaseSaved, ReturnGoes DEF DirectoryHeld, TypeOK, Reached
<1>8. ASSUME Recover PROVE Order'
  <2>1. UNCHANGED running /\ pc = "recover"
    BY <1>8 DEF Recover
  <2>2. CASE RecoverReturns
    BY <2>1, <2>2 DEF RecoverReturns
  <2>3. CASE RecoverCleans
    BY <2>1, <2>3 DEF RecoverCleans
  <2>4. CASE RecoverRegisters
    BY <2>1, <2>4 DEF RecoverRegisters
  <2>5. CASE RecoverRestores
    BY <1>1, <1>2, <2>1, <2>5, PhaseSaved DEF RecoverRestores
  <2> QED
    BY <1>8, <2>2, <2>3, <2>4, <2>5, RecoverGoes
<1>9. ASSUME NEW i \in Item, RestoreEntry(i) PROVE Order'
  BY <1>9 DEF RestoreEntry
<1>10. ASSUME FinishRestore PROVE Order'
  BY <1>1, <1>2, <1>10, PhaseSaved DEF FinishRestore, Reached
<1>11. ASSUME RegisterOld PROVE Order'
  BY <1>11 DEF RegisterOld
<1>12. ASSUME AcknowledgeRecovery PROVE Order'
  BY <1>12, ReturnGoes DEF AcknowledgeRecovery, EnterCleanup, TypeOK
<1>13. ASSUME NEW version \in Version, StartSetup(version) PROVE Order'
  BY <1>13 DEF StartSetup
<1>14. ASSUME Check PROVE Order'
  BY <1>14 DEF Check
<1>15. ASSUME Prepare PROVE Order'
  BY <1>15, ReturnGoes DEF Prepare, EnterCleanup, TypeOK
<1>16. ASSUME Capture PROVE Order'
  BY <1>16 DEF Capture, NoBackup
<1>17. ASSUME NEW i \in Item, CopyBackup(i) PROVE Order'
  BY <1>1, <1>2, <1>17, CopyChanged DEF CopyBackup, Reached
<1>18. ASSUME MarkPrepared PROVE Order'
  BY <1>1, <1>2, <1>18, PhaseSaved DEF MarkPrepared, Reached
<1>19. ASSUME PreparationFails PROVE Order'
  BY <1>19 DEF PreparationFails, EnterCleanup, Reached
<1>20. ASSUME NEW i \in Item, InnoWrite(i) PROVE Order'
  BY <1>20 DEF InnoWrite
<1>21. ASSUME StartFinish PROVE Order'
  BY <1>1, <1>2, <1>21 DEF StartFinish, Reached
<1>22. ASSUME NEW i \in Item, FinishWrite(i) PROVE Order'
  BY <1>22 DEF FinishWrite
<1>23. ASSUME InnoAbort PROVE Order'
  BY <1>23 DEF InnoAbort
<1>24. ASSUME RegisterNew PROVE Order'
  BY <1>24 DEF RegisterNew
<1>25. ASSUME Commit PROVE Order'
  BY <1>1, <1>2, <1>25, PhaseSaved DEF Commit, EnterCleanup
<1>26. ASSUME HelperDies PROVE Order'
  BY <1>1, <1>2, <1>26, RemainsShape, HelperFailsGoes DEF HelperDies, TypeOK
<1>27. ASSUME SetupDies PROVE Order'
  BY <1>1, <1>2, <1>27, RemainsShape DEF SetupDies
<1>28. ASSUME NEW c \in Cli, EnterShared(c) \/ EditRegistry(c) \/ LeaveShared(c) PROVE Order'
  BY <1>28 DEF EnterShared, EditRegistry, LeaveShared
<1>30. CASE UNCHANGED vars
  BY <1>30 DEF vars
<1> HIDE DEF Order
<1> QED
  BY <1>5, <1>6, <1>7, <1>8, <1>9, <1>10, <1>11, <1>12, <1>13, <1>14, <1>15, <1>16, <1>17,
     <1>18, <1>19, <1>20, <1>21, <1>22, <1>23, <1>24, <1>25, <1>26, <1>27, <1>28, <1>30
  DEF Next, Helper, Inno, Failure

-----------------------------------------------------------------------------
(* What is installed and what was recorded *)

\* Before a backup is removed its outcome is installed and shown.
LEMMA CleanupSettled == IInv /\ pc = "cleanup" => Uniform(installed, display)
BY DEF IInv, Installed, Reached

LEMMA EditsKeepUniform ==
    ASSUME TypeOK, NEW c \in Cli, EditRegistry(c), NEW v \in Version, Uniform(installed, v)
    PROVE  Uniform(installed, v)'
<1> DEFINE e == installed[Registry].edits
<1>1. Registry \in Item /\ installed[Registry] = [version |-> v, edits |-> e]
  BY FreshRegistry DEF Item, Uniform
<1>2. installed' = [installed EXCEPT ![Registry] = [version |-> v, edits |-> e + 1]]
  <2>1. installed' = [installed EXCEPT ![Registry] = [installed[Registry] EXCEPT !.edits = @ + 1]]
    BY DEF EditRegistry
  <2>2. [installed[Registry] EXCEPT !.edits = @ + 1] = [version |-> v, edits |-> e + 1]
    BY <1>1
  <2> QED
    BY <2>1, <2>2
<1>3. installed'[Registry].edits = e + 1
  BY <1>1, <1>2 DEF TypeOK
<1>4. installed'[Registry] = Fresh(v, Registry, e + 1)
  BY <1>1, <1>2, FreshRegistry DEF TypeOK
<1>5. \A i \in Item \ {Registry} : installed'[i] = Fresh(v, i, e + 1)
  BY <1>2, FreshOther DEF Uniform, TypeOK
<1> QED
  BY <1>3, <1>4, <1>5 DEF Uniform

LEMMA AgreementStep == IInv /\ [Next]_vars => Originals' /\ Installed' /\ Reached'
<1> DEFINE Agreement == Originals /\ Installed /\ Reached
<1> SUFFICES ASSUME IInv, [Next]_vars PROVE Agreement'
  OBVIOUS
<1> USE DEF IInv, Originals, Installed, Reached, Phase, From, Recorded, Idle, Unchanged, Goto
<1>1. backup \in Backup /\ installed \in [Item -> Content] /\ installed[Registry] # Absent
      /\ Registry \in Item
  BY DEF TypeOK, Item
<1>2. ASSUME UNCHANGED <<installed, display, backup>>, pc' \in {Idle, "check", "recover", "prepare"}
      PROVE  Agreement'
  BY <1>2 DEF Uniform
<1>5. ASSUME NEW i \in Item, RemoveBackup(i) PROVE Agreement'
  <2>1. /\ backup'.journal = backup.journal /\ backup'.exists = backup.exists
        /\ UNCHANGED <<installed, display, pc>> /\ pc = "cleanup"
    BY <1>1, <1>5, CopyChanged DEF RemoveBackup
  <2> QED
    BY <2>1 DEF Uniform
<1>6. ASSUME RemoveDirectory PROVE Agreement'
  <2>1. Uniform(installed, display)
    BY <1>6, CleanupSettled DEF RemoveDirectory
  <2>2. pc' \in {Idle, "check", "recover", "capture"} /\ UNCHANGED <<installed, display>>
    BY <1>6, ReturnGoes DEF RemoveDirectory, TypeOK
  <2>3. backup'.journal.phase = "missing" /\ ~backup'.exists
    BY <1>6 DEF RemoveDirectory, NoBackup, Unrecorded
  <2> QED
    BY <2>1, <2>2, <2>3 DEF Uniform
<1>7. ASSUME DirectoryHeld PROVE Agreement'
  <2>1. Uniform(installed, display) /\ pc = "cleanup" /\ UNCHANGED <<installed, display>>
    BY <1>7, CleanupSettled DEF DirectoryHeld
  <2>2. pc' \in {Idle, "check", "recover"}
    BY <1>7, ReturnGoes DEF DirectoryHeld, TypeOK
  <2>3. CASE goal = "undo_prepared"
    <3>1. Phase = "preparing"
      BY <2>1, <2>3 DEF GoalFits
    <3>2. /\ backup'.journal.phase = "prepared" /\ backup'.journal.from = From
          /\ backup'.journal.entries = Recorded
      BY <1>1, <1>7, <2>3, PhaseSaved DEF DirectoryHeld
    <3> QED
      BY <2>1, <2>2, <3>1, <3>2 DEF Uniform
  <2>4. CASE goal # "undo_prepared"
    BY <1>2, <1>7, <2>1, <2>2, <2>4 DEF DirectoryHeld
  <2> QED
    BY <2>3, <2>4
<1>8. ASSUME Recover PROVE Agreement'
  <2>1. UNCHANGED <<installed, display>> /\ pc = "recover"
    BY <1>8 DEF Recover
  <2>2. CASE RecoverReturns
    BY <1>2, <2>1, <2>2 DEF RecoverReturns
  <2>3. CASE RecoverCleans
    BY <2>1, <2>3 DEF RecoverCleans, Uniform
  <2>4. CASE RecoverRegisters
    BY <2>1, <2>4 DEF RecoverRegisters, Uniform
  <2>5. CASE RecoverRestores
    <3>1. /\ backup'.journal.phase = "restoring" /\ backup'.journal.from = From
          /\ backup'.journal.entries = Recorded /\ backup'.copies = Recorded
      BY <1>1, <2>5, PhaseSaved DEF RecoverRestores
    <3> QED
      BY <2>1, <2>5, <3>1 DEF RecoverRestores, Uniform
  <2> QED
    BY <1>8, <2>2, <2>3, <2>4, <2>5, RecoverGoes
<1>9. ASSUME NEW i \in Item, RestoreEntry(i) PROVE Agreement'
  <2>1. pc = "restoring" /\ Phase = "restoring" /\ backup.copies = Recorded
    BY <1>9 DEF RestoreEntry
  <2>2. /\ installed' = [installed EXCEPT ![i] = Recorded[i]] /\ todo' = todo \ {i}
        /\ UNCHANGED <<pc, backup, display>>
    BY <1>9, <2>1 DEF RestoreEntry
  <2>3. installed'[Registry].edits = Recorded[Registry].edits
    BY <1>1, <2>1, <2>2
  <2>4. \A j \in Item \ todo' : installed'[j] = Recorded[j]
    BY <1>1, <2>1, <2>2
  <2> QED
    BY <2>1, <2>2, <2>3, <2>4 DEF Uniform
<1>10. ASSUME FinishRestore PROVE Agreement'
  <2>1. \A i \in Item : installed[i] = Recorded[i]
    BY <1>10 DEF FinishRestore
  <2>2. Uniform(installed, From)
    BY <1>1, <1>10, <2>1 DEF FinishRestore, Uniform
  <2>3. /\ backup'.journal.phase = "rolled_back" /\ backup'.journal.from = From
        /\ backup'.journal.entries = Recorded
        /\ pc' = "register_old" /\ UNCHANGED <<installed, display>>
    BY <1>1, <1>10, PhaseSaved DEF FinishRestore
  <2> QED
    BY <1>10, <2>2, <2>3 DEF FinishRestore, Uniform
<1>11. ASSUME RegisterOld PROVE Agreement'
  BY <1>11 DEF RegisterOld, Uniform
<1>12. ASSUME AcknowledgeRecovery PROVE Agreement'
  <2>1. UNCHANGED <<installed, display, backup>>
    BY <1>12 DEF AcknowledgeRecovery
  <2>2. \/ pc' \in {Idle, "check", "recover"}
        \/ pc' = "cleanup" /\ pc = "acknowledge" /\ Phase = "rolled_back"
    BY <1>12, ReturnGoes DEF AcknowledgeRecovery, EnterCleanup, TypeOK
  <2> QED
    BY <1>2, <2>1, <2>2 DEF Uniform
<1>13. ASSUME NEW version \in Version, StartSetup(version) PROVE Agreement'
  BY <1>2, <1>13 DEF StartSetup
<1>14. ASSUME Check PROVE Agreement'
  BY <1>2, <1>14 DEF Check
<1>15. ASSUME Prepare PROVE Agreement'
  <2>1. UNCHANGED <<installed, display, backup>>
    BY <1>15 DEF Prepare
  <2>2. \/ pc' \in {Idle, "check", "recover"}
        \/ pc' = "capture" /\ ~backup.exists
        \/ pc' = "cleanup" /\ Phase = "committed"
    BY <1>15, ReturnGoes DEF Prepare, EnterCleanup, TypeOK
  <2> QED
    BY <1>2, <2>1, <2>2 DEF Uniform
<1>16. ASSUME Capture PROVE Agreement'
  <2>1. Uniform(installed, display)
    BY <1>16 DEF Capture, BackupShape, NoBackup, Unrecorded
  <2>2. /\ backup'.journal = [phase |-> "preparing", from |-> display, entries |-> installed]
        /\ \A i \in Item : backup'.copies[i] = Absent
    BY <1>16 DEF Capture, NoBackup, Nothing
  <2>3. /\ pc' = "copying" /\ UNCHANGED <<installed, display>>
        /\ \A i \in Item \ todo' : installed[i] = Absent
    BY <1>16 DEF Capture
  <2> QED
    BY <1>1, <2>1, <2>2, <2>3 DEF Uniform
<1>17. ASSUME NEW i \in Item, CopyBackup(i) PROVE Agreement'
  <2>1. /\ backup'.journal = backup.journal /\ backup'.copies[i] = installed[i]
        /\ \A j \in Item \ {i} : backup'.copies[j] = backup.copies[j]
        /\ UNCHANGED <<installed, display, pc>> /\ pc = "copying" /\ todo' = todo \ {i}
    BY <1>1, <1>17, CopyChanged DEF CopyBackup
  <2> QED
    BY <2>1 DEF Uniform
<1>18. ASSUME MarkPrepared PROVE Agreement'
  <2>1. pc = "copying" /\ Phase = "preparing" /\ UNCHANGED <<installed, display>>
    BY <1>18 DEF MarkPrepared
  <2>2. backup.copies = Recorded
    <3>1. \A i \in Item : backup.copies[i] = Recorded[i]
      BY <1>18, <2>1 DEF MarkPrepared
    <3> QED
      BY <1>1, <3>1 DEF Backup
  <2>3. /\ backup'.journal.phase = "prepared" /\ backup'.journal.from = From
        /\ backup'.journal.entries = Recorded /\ backup'.copies = Recorded
    BY <1>1, <1>18, <2>2, PhaseSaved DEF MarkPrepared
  <2> QED
    BY <1>18, <2>1, <2>3 DEF MarkPrepared, Uniform
<1>19. ASSUME PreparationFails PROVE Agreement'
  BY <1>19 DEF PreparationFails, EnterCleanup, Uniform
<1>20. ASSUME NEW i \in Item, InnoWrite(i) PROVE Agreement'
  <2>1. /\ pc = "replacing" /\ i \in Program /\ i # Registry /\ todo' = todo \ {i}
        /\ installed' = [installed EXCEPT ![i] = Fresh(target, i, 0)]
        /\ UNCHANGED <<backup, display, target, pc>>
    BY <1>20, InstallerAssumption DEF InnoWrite
  <2>2. installed'[Registry] = installed[Registry]
    BY <1>1, <2>1
  <2>3. \A j \in Program \ todo' : installed'[j] = Fresh(target, j, 0)
    BY <1>1, <2>1 DEF Item
  <2> QED
    BY <2>1, <2>2, <2>3 DEF Uniform
<1>21. ASSUME StartFinish PROVE Agreement'
  <2>1. /\ pc = "replacing" /\ pc' = "finishing" /\ todo' = Shim \cup {Registry}
        /\ UNCHANGED <<installed, backup, display, target>>
    BY <1>21 DEF StartFinish
  <2>2. \A i \in Item \ todo' : installed[i] = Fresh(target, i, installed[Registry].edits)
    BY <1>21, <2>1, FreshOther DEF StartFinish, Item, TypeOK
  <2> QED
    BY <2>1, <2>2 DEF Uniform
<1>22. ASSUME NEW i \in Item, FinishWrite(i) PROVE Agreement'
  <2> DEFINE e == installed[Registry].edits
  <2>1. /\ pc = "finishing" /\ todo' = todo \ {i}
        /\ installed' = [installed EXCEPT ![i] = Fresh(target, i, e)]
        /\ UNCHANGED <<backup, display, target, pc>>
    BY <1>22 DEF FinishWrite
  <2>2. installed'[Registry].edits = e
    BY <1>1, <2>1, FreshRegistry DEF TypeOK
  <2>3. \A j \in Item \ todo' : installed'[j] = Fresh(target, j, e)
    BY <1>1, <2>1
  <2> QED
    BY <2>1, <2>2, <2>3 DEF Uniform
<1>23. ASSUME InnoAbort PROVE Agreement'
  <2>1. installed'[Registry] = installed[Registry]
    BY <1>1, <1>23, InstallerAssumption DEF InnoAbort
  <2>2. /\ Phase = "prepared" /\ backup.copies = Recorded /\ pc' = "recover"
        /\ UNCHANGED <<backup, display>>
    BY <1>23 DEF InnoAbort
  <2> QED
    BY <2>1, <2>2 DEF Uniform
<1>24. ASSUME RegisterNew PROVE Agreement'
  <2>1. Uniform(installed, target)
    BY <1>24 DEF RegisterNew, Uniform
  <2> QED
    BY <1>24, <2>1 DEF RegisterNew, Uniform
<1>25. ASSUME Commit PROVE Agreement'
  <2>1. UNCHANGED <<installed, display>> /\ pc = "commit"
    BY <1>25 DEF Commit
  <2>2. CASE pc' = "recover" /\ UNCHANGED backup
    BY <1>2, <2>1, <2>2
  <2>3. CASE /\ backup' = [backup EXCEPT !.journal.phase = "committed"]
             /\ pc' = "cleanup" /\ Phase = "prepared"
    <3>1. /\ backup'.journal.phase = "committed" /\ backup'.journal.from = From
          /\ backup'.journal.entries = Recorded
      BY <1>1, <2>3, PhaseSaved
    <3> QED
      BY <2>1, <2>3, <3>1 DEF Uniform
  <2> QED
    BY <1>25, <2>2, <2>3 DEF Commit, EnterCleanup
<1>26. ASSUME HelperDies \/ SetupDies PROVE Agreement'
  <2>1. backup' \in Remains /\ UNCHANGED <<installed, display>>
    BY <1>26 DEF HelperDies, SetupDies
  <2>2. pc' \in {Idle, "check", "recover"}
    BY <1>26, HelperFailsGoes DEF HelperDies, SetupDies, TypeOK
  <2>3. CASE backup'.journal = backup.journal /\ backup'.copies = backup.copies
    BY <2>1, <2>2, <2>3 DEF Uniform
  <2>4. CASE pc \in {"capture", "cleanup"} /\ backup'.journal.phase = "missing"
    <3>1. Uniform(installed, display)
      BY <2>4, CleanupSettled DEF BackupShape, NoBackup, Unrecorded
    <3> QED
      BY <2>1, <2>2, <2>4, <3>1 DEF Uniform
  <2> QED
    BY <1>1, <2>1, <2>3, <2>4, RemainsShape
<1>27. ASSUME NEW c \in Cli, EnterShared(c) \/ LeaveShared(c) PROVE Agreement'
  BY <1>27 DEF EnterShared, LeaveShared, Uniform
<1>28. ASSUME NEW c \in Cli, EditRegistry(c) PROVE Agreement'
  <2>1. /\ Phase \in {"missing", "committed", "rolled_back"}
        /\ pc \notin {"restoring", "cleanup", "capture", "copying", "finishing"}
    BY <1>28, JournalExists
    DEF EditRegistry, RunningAdmitted, Admitted, BackupShape, Exclusive, NoBackup, Unrecorded
  <2>2. \A v \in Version : Uniform(installed, v) => Uniform(installed, v)'
    BY <1>28, EditsKeepUniform
  <2>3. From \in Version /\ display \in Version /\ target \in Version
    BY <1>1 DEF TypeOK, Backup
  <2>4. UNCHANGED <<backup, display, target, pc, todo>>
    BY <1>28 DEF EditRegistry
  <2> QED
    BY <2>1, <2>2, <2>3, <2>4 DEF Uniform
<1>29. CASE UNCHANGED vars
  BY <1>29 DEF vars, Uniform
<1> HIDE DEF Agreement
<1> QED
  BY <1>5, <1>6, <1>7, <1>8, <1>9, <1>10, <1>11, <1>12, <1>13, <1>14, <1>15, <1>16, <1>17,
     <1>18, <1>19, <1>20, <1>21, <1>22, <1>23, <1>24, <1>25, <1>26, <1>27, <1>28, <1>29
  DEF Next, Helper, Inno, Failure

-----------------------------------------------------------------------------
(* The invariants of the module *)

LEMMA InitInvariant == Init => IInv
<1> SUFFICES ASSUME Init PROVE IInv
  OBVIOUS
<1>1. TypeOK
  BY InitType
<1>2. Uniform(installed, display)
  <2>1. installed = Release(0, 0) /\ display = 0
    BY DEF Init
  <2>2. installed[Registry].edits = 0
    BY <2>1, FreshRegistry, InstallerAssumption DEF Release, Item, Version
  <2> QED
    BY <2>1, <2>2 DEF Uniform, Release
<1>3. Phase = "missing" /\ backup = NoBackup /\ ~backup.exists
  BY DEF Init, Phase, NoBackup, Unrecorded
<1>4. Originals /\ Installed
  BY <1>2, <1>3 DEF Originals, Installed
<1> QED
  BY <1>1, <1>3, <1>4
  DEF IInv, Init, RunningAdmitted, BackupShape, GoalFits, Reached, Idle

\* However Setup, its helpers and ordinary processes interleave, fail and are
\* killed, the phase on disk says which version is installed and that what it
\* replaced can be put back (installer_transaction.rs, pyrudder.iss).
THEOREM InvariantHolds == Spec => []IInv
<1>1. IInv /\ [Next]_vars => IInv'
  BY TypeStep, AdmissionStep, AgreementStep DEF IInv
<1> QED
  BY <1>1, InitInvariant, PTL DEF Spec

\* Every variable keeps its type: the installed files, the backup with its journal,
\* the uninstall registration, and where Setup is.
THEOREM TypeCorrect == Spec => []TypeOK
<1>1. IInv => TypeOK
  BY DEF IInv
<1> QED
  BY <1>1, InvariantHolds, PTL

LEMMA UniformIsCoherent ==
    ASSUME TypeOK, NEW v \in Version, Uniform(installed, v)
    PROVE  Coherent
BY UniformIsRelease DEF TypeOK, Coherent

\* No ordinary process runs in a mixture of two versions: not while files are
\* replaced, and not after Setup or its helper died anywhere
\* (installation.rs:13-34).
THEOREM NoMixture == Spec => []NoMixedRun
<1>1. IInv => NoMixedRun
  <2> SUFFICES ASSUME IInv, running # {} PROVE Coherent
    BY DEF NoMixedRun
  <2>1. Phase \in {"missing", "committed", "rolled_back"}
    BY DEF IInv, RunningAdmitted, Admitted, BackupShape, Phase, NoBackup, Unrecorded
  <2>2. Uniform(installed, display) \/ Uniform(installed, From)
    BY <2>1 DEF IInv, Installed
  <2> QED
    BY <2>2, UniformIsCoherent DEF IInv, TypeOK, Backup, From
<1> QED
  BY <1>1, InvariantHolds, PTL

\* As long as the outcome is open, whatever was replaced has its original in the
\* backup (installer_transaction.rs:454-480, 532-572).
THEOREM Recoverable == Spec => []ReplacedIsRecoverable
<1>1. IInv => ReplacedIsRecoverable
  <2> SUFFICES ASSUME IInv, Phase \notin {"committed", "rolled_back"}, ~Coherent
               PROVE  Phase \in {"prepared", "restoring"} /\ backup.copies = Recorded
    BY DEF ReplacedIsRecoverable, Phase, Recorded
  <2>1. ~Uniform(installed, display)
    BY UniformIsCoherent DEF IInv, TypeOK
  <2>2. Phase \in {"prepared", "restoring"}
    BY <2>1 DEF IInv, TypeOK, Backup, Phases, Phase, Installed
  <2> QED
    BY <2>1, <2>2 DEF IInv, Originals
<1> QED
  BY <1>1, InvariantHolds, PTL

\* Without Setup and without a backup, the version Windows shows is the one
\* installed (pyrudder.iss:273-286, installer_transaction.rs:574-595).
THEOREM VersionsAgree == Spec => []VersionAgrees
<1>1. IInv => VersionAgrees
  <2> SUFFICES ASSUME IInv, ~backup.exists
               PROVE  installed = Release(display, installed[Registry].edits)
    BY DEF VersionAgrees
  <2>1. Uniform(installed, display)
    BY DEF IInv, BackupShape, Installed, Phase, NoBackup, Unrecorded
  <2> QED
    BY <2>1, UniformIsRelease DEF IInv, TypeOK
<1> QED
  BY <1>1, InvariantHolds, PTL

-----------------------------------------------------------------------------
(* What a step may never do *)

\* The step of CommittedStands.
CommitKept ==
    backup.journal.phase = "committed" =>
      /\ backup'.journal.phase \in {"committed", "missing"}
      /\ \A i \in Item \ {Registry} : installed'[i] = installed[i]

LEMMA CommitStep == IInv /\ [Next]_vars => CommitKept
<1> SUFFICES ASSUME IInv, [Next]_vars, Phase = "committed" PROVE CommitKept
  BY DEF CommitKept, Phase
<1> USE DEF IInv, Reached, Phase, CommitKept, Unchanged
<1>1. backup \in Backup
  BY DEF TypeOK
<1>2. ASSUME NEW i \in Item, RemoveBackup(i) PROVE CommitKept
  BY <1>1, <1>2, CopyChanged DEF RemoveBackup
<1>3. ASSUME RemoveDirectory PROVE CommitKept
  BY <1>3 DEF RemoveDirectory, NoBackup, Unrecorded
<1>4. ASSUME DirectoryHeld PROVE CommitKept
  BY <1>4 DEF DirectoryHeld, GoalFits
<1>5. ASSUME Recover PROVE CommitKept
  BY <1>5 DEF Recover, Undoable
<1>6. ASSUME HelperDies \/ SetupDies PROVE CommitKept
  BY <1>1, <1>6, RemainsShape DEF HelperDies, SetupDies
<1>7. ASSUME NEW c \in Cli, EditRegistry(c) PROVE CommitKept
  BY <1>7 DEF EditRegistry, TypeOK
<1>8. ASSUME Capture PROVE CommitKept
  BY <1>8, JournalExists DEF Capture
<1>9. ASSUME \/ MarkPrepared \/ FinishRestore \/ InnoAbort
             \/ \E i \in Item : RestoreEntry(i) \/ CopyBackup(i) \/ InnoWrite(i) \/ FinishWrite(i)
      PROVE  CommitKept
  BY <1>9
  DEF MarkPrepared, FinishRestore, InnoAbort, RestoreEntry, CopyBackup, InnoWrite, FinishWrite
<1>10. ASSUME UNCHANGED <<backup, installed>> PROVE CommitKept
  BY <1>10
<1>11. ASSUME \/ AcknowledgeRecovery \/ Check \/ Prepare \/ RegisterOld \/ StartFinish
              \/ RegisterNew \/ PreparationFails
              \/ \E version \in Version : StartSetup(version)
              \/ \E c \in Cli : EnterShared(c) \/ LeaveShared(c)
       PROVE  CommitKept
  BY <1>10, <1>11
  DEF AcknowledgeRecovery, Check, Prepare, RegisterOld, StartFinish, RegisterNew,
      PreparationFails, StartSetup, EnterShared, LeaveShared
<1>12. ASSUME Commit PROVE CommitKept
  BY <1>10, <1>12 DEF Commit
<1>13. CASE UNCHANGED vars
  BY <1>10, <1>13 DEF vars
<1> QED
  BY <1>2, <1>3, <1>4, <1>5, <1>6, <1>7, <1>8, <1>9, <1>11, <1>12, <1>13
  DEF Next, Helper, Inno, Failure

\* Committed data are never rolled back (installer_transaction.rs:546).
THEOREM CommitsStand == Spec => CommittedStands
<1>1. IInv /\ [Next]_vars => [CommitKept]_vars
  BY CommitStep
<1> QED
  BY <1>1, InvariantHolds, PTL DEF Spec, CommittedStands, CommitKept

\* The step of EditsSurvive.
EditsKept ==
    /\ installed'[Registry] # Absent
    /\ installed'[Registry].edits >= installed[Registry].edits

LEMMA EditsStep == IInv /\ [Next]_vars => EditsKept
<1> SUFFICES ASSUME IInv, [Next]_vars PROVE EditsKept
  OBVIOUS
<1> USE DEF IInv, EditsKept, Reached, Unchanged
<1>1. /\ installed \in [Item -> Content] /\ installed[Registry] # Absent /\ Registry \in Item
      /\ installed[Registry].edits \in 0..MaxEdits
  BY EditsType DEF TypeOK, Item
<1>2. ASSUME UNCHANGED installed PROVE EditsKept
  BY <1>1, <1>2, InstallerAssumption
<1>3. ASSUME NEW i \in Item, RestoreEntry(i) PROVE EditsKept
  <2>1. backup.copies = Recorded /\ Recorded[Registry].edits = installed[Registry].edits
        /\ Recorded[Registry] # Absent
    BY <1>3 DEF RestoreEntry, Originals
  <2> QED
    BY <1>1, <1>3, <2>1, InstallerAssumption DEF RestoreEntry
<1>4. ASSUME NEW i \in Item, InnoWrite(i) PROVE EditsKept
  BY <1>1, <1>4, InstallerAssumption DEF InnoWrite
<1>5. ASSUME NEW i \in Item, FinishWrite(i) PROVE EditsKept
  <2> DEFINE e == installed[Registry].edits
  <2>1. Fresh(target, Registry, e).edits = e
    BY FreshRegistry DEF TypeOK
  <2>2. installed' = [installed EXCEPT ![i] = Fresh(target, i, e)]
    BY <1>5 DEF FinishWrite
  <2>3. installed'[Registry].edits = e
    BY <1>1, <2>1, <2>2
  <2>4. TypeOK'
    BY TypeStep
  <2> QED
    BY <1>1, <2>3, <2>4, InstallerAssumption DEF TypeOK
<1>6. ASSUME InnoAbort PROVE EditsKept
  <2>1. installed'[Registry] = installed[Registry]
    BY <1>1, <1>6, InstallerAssumption DEF InnoAbort
  <2> QED
    BY <1>1, <2>1, InstallerAssumption
<1>7. ASSUME NEW c \in Cli, EditRegistry(c) PROVE EditsKept
  <2>1. installed'[Registry].edits = installed[Registry].edits + 1
    BY <1>1, <1>7 DEF EditRegistry, Content
  <2>2. TypeOK'
    BY TypeStep
  <2> QED
    BY <1>1, <2>1, <2>2, InstallerAssumption DEF TypeOK
<1>8. ASSUME Helper PROVE EditsKept
  BY <1>2, <1>3, <1>5, <1>8
  DEF Helper, Recover, FinishRestore, AcknowledgeRecovery, RemoveDirectory, Check, Prepare,
      Capture, MarkPrepared, Commit, RemoveBackup, CopyBackup
<1>9. ASSUME Inno \/ Failure PROVE EditsKept
  BY <1>2, <1>4, <1>6, <1>9
  DEF Inno, Failure, RegisterOld, StartFinish, RegisterNew, DirectoryHeld, PreparationFails,
      HelperDies, SetupDies
<1>10. ASSUME \/ \E version \in Version : StartSetup(version)
              \/ \E c \in Cli : EnterShared(c) \/ EditRegistry(c) \/ LeaveShared(c)
       PROVE  EditsKept
  BY <1>2, <1>7, <1>10 DEF StartSetup, EnterShared, LeaveShared
<1>11. CASE UNCHANGED vars
  BY <1>2, <1>11 DEF vars
<1> QED
  BY <1>8, <1>9, <1>10, <1>11 DEF Next

\* No edit a user made to registry.json is ever lost.
THEOREM EditsAreKept == Spec => EditsSurvive
<1>1. IInv /\ [Next]_vars => [EditsKept]_vars
  BY EditsStep
<1> QED
  BY <1>1, InvariantHolds, PTL DEF Spec, EditsSurvive, EditsKept

=============================================================================
