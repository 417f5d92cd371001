----------------------------- MODULE PathEdits ------------------------------
(***************************************************************************)
(* PyRudder's edits of PATH: bin and shims in the machine's PATH           *)
(* (system_path.rs), the user PATH of older versions (path.rs), and one    *)
(* user's WindowsApps entry in the machine's PATH, removed and restored    *)
(* (store_path.rs, store_path/state.rs).                                   *)
(*                                                                         *)
(* `path add' and `path remove' run an elevated helper that does both      *)
(* machine edits, each under a lock and with a journal of its own.  PATH   *)
(* itself has no lock: it is read, compared and written, and other         *)
(* programs edit it at any time.                                           *)
(***************************************************************************)
EXTENDS Naturals, Sequences, FiniteSets

CONSTANTS
    Proc,           \* PyRudder processes, each with its elevated helper
    Bin, Shims,     \* the two entries of this installation
    Store,          \* the WindowsApps entry of the installing user
    Other,          \* entries of other programs
    None,           \* no process
    Initial,        \* what the two PATHs may be before this version comes
    MaxLength,      \* entries in a PATH other programs leave behind, at most
    MaxFailures,    \* kills and failing steps, at most
    MaxEdits        \* edits by other programs, at most

Own == {Bin, Shims}
Item == Own \cup {Store} \cup Other
Hive == {"machine", "user"}

Elements(s) == {s[i] : i \in DOMAIN s}

ASSUME PathAssumption ==
    /\ Bin # Shims /\ Store \notin Own /\ Other \cap (Own \cup {Store}) = {}
    /\ None \notin Proc
    /\ Initial \subseteq [Hive -> Seq(Item)]
    /\ MaxLength \in Nat /\ MaxFailures \in Nat /\ MaxEdits \in Nat

VARIABLES
    path,           \* Path of HKLM and of HKCU
    claims,         \* system-path.json and user-path.json: the entries PyRudder added
    store,          \* store-path.json
    lock,           \* system-path.lock, user-path.lock
    store_lock,     \* store-path.lock
    pc, job,
    ours,           \* ghost: the entries that are there because PyRudder added them
    taken,          \* ghost: the Store entry is missing because PyRudder removed it
    stale,          \* ghost: claims that outlived a kill or the entry itself
    raced,          \* ghost: a write fell between another's comparison and its write
    failures, edits

events == <<failures, edits>>
files == <<path, claims, store>>
ghosts == <<ours, taken, stale, raced>>
vars == <<files, lock, store_lock, pc, job, ghosts, events>>

-----------------------------------------------------------------------------
(* Data. *)

\* What is left of s, prefix by prefix.
Without(s, set) ==
    LET rest[i \in 0..Len(s)] ==
          IF i = 0 THEN <<>>
          ELSE IF s[i] \in set THEN rest[i - 1] ELSE Append(rest[i - 1], s[i])
    IN  rest[Len(s)]

Phase == {"absent", "Pending", "Applied", "Restored"}
NoJournal == [phase |-> "absent", before |-> <<>>]

Job == [command : {"add", "remove"}, hive : Hive, original : Seq(Item), next : Seq(Item),
        previous : SUBSET Own, alone : BOOLEAN]
NoJob == [command |-> "add", hive |-> "machine", original |-> <<>>, next |-> <<>>,
          previous |-> {}, alone |-> FALSE]

Editing == {"claiming", "comparing", "setting", "clearing"}
Repairing == {"intending", "removing", "swapping", "applying",
              "restoring", "returning", "recording"}
Between == {"begin", "duplicate", "restore", "withdraw", "legacy", "removed"}

\* The value was compared and is about to be written.
InGap(p) == pc[p] \in {"setting", "swapping", "returning"}

TypeOK ==
    /\ path \in [Hive -> Seq(Item)]
    /\ claims \in [Hive -> SUBSET Own]
    /\ store \in [phase : Phase, before : Seq(Item)]
    /\ lock \in [Hive -> Proc \cup {None}] /\ store_lock \in Proc \cup {None}
    /\ \A h \in Hive, p \in Proc : lock[h] = p <=> (pc[p] \in Editing /\ job[p].hive = h)
    /\ \A p \in Proc : store_lock = p <=> pc[p] \in Repairing
    /\ pc \in [Proc -> Editing \cup Repairing \cup Between \cup {"idle"}]
    /\ job \in [Proc -> Job]
    /\ ours \in [Hive -> SUBSET Own] /\ stale \in [Hive -> SUBSET Own]
    /\ taken \in BOOLEAN /\ raced \in BOOLEAN /\ failures \in 0..MaxFailures /\ edits \in 0..MaxEdits

\* Older versions put their entries in front of the user's PATH.
Init ==
    /\ path \in Initial
    /\ claims = [machine |-> {}, user |-> Own \cap Elements(path["user"])]
    /\ ours = claims
    /\ store = NoJournal
    /\ lock = [h \in Hive |-> None] /\ store_lock = None
    /\ pc = [p \in Proc |-> "idle"] /\ job = [p \in Proc |-> NoJob]
    /\ taken = FALSE /\ stale = [h \in Hive |-> {}] /\ raced = FALSE
    /\ failures = 0 /\ edits = 0

-----------------------------------------------------------------------------
(* The process. *)

locks == <<lock, store_lock>>

Fails == failures < MaxFailures /\ failures' = failures + 1 /\ UNCHANGED edits

Goes(p, step) == pc' = [pc EXCEPT ![p] = step] /\ UNCHANGED <<job, locks>>

\* Both locks go, and the journal values with them.
GoesFree(p, step) ==
    /\ pc' = [pc EXCEPT ![p] = step]
    /\ job' = [job EXCEPT ![p] = [@ EXCEPT !.original = <<>>, !.next = <<>>, !.previous = {}]]
    /\ lock' = [h \in Hive |-> IF lock[h] = p THEN None ELSE lock[h]]
    /\ store_lock' = IF store_lock = p THEN None ELSE store_lock

\* Mutant: a process that gives up leaves the Store lock behind.
EndsHolding(p) ==
    /\ pc' = [pc EXCEPT ![p] = "idle"]
    /\ job' = [job EXCEPT ![p] = NoJob]
    /\ lock' = [h \in Hive |-> IF lock[h] = p THEN None ELSE lock[h]]
    /\ UNCHANGED store_lock

Ends(p) ==
    /\ pc' = [pc EXCEPT ![p] = "idle"]
    /\ job' = [job EXCEPT ![p] = NoJob]
    /\ lock' = [h \in Hive |-> IF lock[h] = p THEN None ELSE lock[h]]
    /\ store_lock' = IF store_lock = p THEN None ELSE store_lock

Keeps == UNCHANGED <<files, ghosts, events>>

\* PyRudder writes a PATH; the ghosts say what that did.
Writes(p, hive, next) ==
    LET now == Elements(path[hive])
        then == Elements(next)
    IN  /\ path' = [path EXCEPT ![hive] = next]
        /\ ours' = [ours EXCEPT ![hive] = {t \in Own \cap then : t \in @ \/ t \notin now}]
        /\ taken' = IF hive = "machine" THEN Store \notin then /\ (taken \/ Store \in now) ELSE taken
        /\ raced' = (raced \/ \E q \in Proc \ {p} : InGap(q) /\ job[q].hive = hive)

\* A command starts; whoever is under way is no longer alone.
Begin(p, command) ==
    /\ pc[p] = "idle"
    /\ pc' = [pc EXCEPT ![p] = "begin"]
    /\ job' = [q \in Proc |->
         IF q = p THEN [NoJob EXCEPT !.command = command,
                                     !.alone = \A r \in Proc \ {p} : pc[r] = "idle"]
         ELSE [job[q] EXCEPT !.alone = FALSE]]
    /\ UNCHANGED locks
    /\ Keeps

-----------------------------------------------------------------------------
(* publish_system_path and update_user_path *)

Claimed(hive, now) == claims[hive] \cup (Own \ Elements(now))

\* `path add': both entries go to the end, whoever wrote them.
ReadForAdd(p) ==
    LET original == path["machine"]
    IN  /\ pc[p] = "begin" /\ job[p].command = "add"
        /\ IF lock["machine"] # None THEN Ends(p)
           ELSE /\ lock' = [lock EXCEPT !["machine"] = p]
                /\ pc' = [pc EXCEPT ![p] = "claiming"]
                /\ job' = [job EXCEPT ![p] = [@ EXCEPT !.original = original,
                             !.next = Without(original, Own) \o <<Bin, Shims>>,
                             !.previous = claims["machine"]]]
                /\ UNCHANGED store_lock
        /\ Keeps

\* Mutant: nothing is claimed before it is added.
ClaimNothing(p) ==
    /\ pc[p] = "claiming"
    /\ IF job[p].next = job[p].original THEN GoesFree(p, "duplicate") ELSE Goes(p, "comparing")
    /\ UNCHANGED <<path, claims, store, ghosts, events>>

\* The journal comes first.
Claim(p) ==
    /\ pc[p] = "claiming"
    /\ claims' = [claims EXCEPT !["machine"] = Claimed("machine", job[p].original)]
    /\ IF job[p].next = job[p].original THEN GoesFree(p, "duplicate") ELSE Goes(p, "comparing")
    /\ UNCHANGED <<path, store, ghosts, events>>

\* Removal takes what the journal claims.
ReadForRemove(p) ==
    LET hive == IF pc[p] = "legacy" THEN "user" ELSE "machine"
        original == path[hive]
        after == IF hive = "user" THEN "removed" ELSE "legacy"
    IN  /\ pc[p] \in {"withdraw", "legacy"}
        /\ IF lock[hive] # None THEN Ends(p)
           ELSE IF claims[hive] = {} THEN GoesFree(p, after)
           ELSE /\ lock' = [lock EXCEPT ![hive] = p]
                /\ pc' = [pc EXCEPT ![p] = IF Elements(original) \cap claims[hive] = {}
                                           THEN "clearing" ELSE "comparing"]
                /\ job' = [job EXCEPT ![p] = [@ EXCEPT !.hive = hive, !.original = original,
                             !.next = Without(original, claims[hive])]]
                /\ UNCHANGED store_lock
        /\ Keeps

\* What add claimed is given back, remove claims what it did.
RollBack(p) ==
    IF job[p].command = "add"
    THEN /\ claims' = [claims EXCEPT !["machine"] = job[p].previous]
         /\ stale' = [stale EXCEPT !["machine"] = @ \cap job[p].previous]
    ELSE UNCHANGED <<claims, stale>>

\* Mutant: the value read before is overwritten without another look.
CompareNot(p) ==
    /\ pc[p] = "comparing"
    /\ Goes(p, "setting")
    /\ Keeps

\* Mutant: the claim survives the refusal.
CompareKeepingClaim(p) ==
    /\ pc[p] = "comparing"
    /\ IF path[job[p].hive] = job[p].original THEN Goes(p, "setting") ELSE Ends(p)
    /\ Keeps

\* write_machine_path refuses when PATH is no longer what was read.
Compare(p) ==
    /\ pc[p] = "comparing"
    /\ IF path[job[p].hive] = job[p].original
       THEN Goes(p, "setting") /\ UNCHANGED <<claims, stale>>
       ELSE Ends(p) /\ RollBack(p)
    /\ UNCHANGED <<path, store, ours, taken, raced, events>>

Set(p) ==
    /\ pc[p] = "setting"
    /\ Writes(p, job[p].hive, job[p].next)
    /\ IF job[p].command = "add" THEN GoesFree(p, "duplicate") ELSE Goes(p, "clearing")
    /\ UNCHANGED <<claims, store, stale, events>>

SetFails(p) ==
    /\ pc[p] = "setting"
    /\ Fails
    /\ RollBack(p)
    /\ Ends(p)
    /\ UNCHANGED <<path, store, ours, taken, raced>>

Clear(p) ==
    LET hive == job[p].hive
    IN  /\ pc[p] = "clearing"
        /\ claims' = [claims EXCEPT ![hive] = {}]
        /\ stale' = [stale EXCEPT ![hive] = {}]
        /\ GoesFree(p, IF hive = "user" THEN "removed" ELSE "legacy")
        /\ UNCHANGED <<path, store, ours, taken, raced, events>>

-----------------------------------------------------------------------------
(* remove_store_duplicate *)

\* The second half of `path add': the entry is removed only where bin and shims
\* are published.
ReadForRepair(p) ==
    LET original == path["machine"]
    IN  /\ pc[p] = "duplicate"
        /\ IF Store \notin Elements(original) \/ ~(Own \subseteq Elements(original)) \/ store_lock # None
           THEN Ends(p)
           ELSE /\ store_lock' = p /\ UNCHANGED lock
                /\ pc' = [pc EXCEPT ![p] = "intending"]
                /\ job' = [job EXCEPT ![p] = [@ EXCEPT !.original = original,
                             !.next = Without(original, {Store})]]
        /\ Keeps

\* Mutant: the journal is written when the entry is gone.
IntendLater(p) ==
    /\ pc[p] = "intending"
    /\ Goes(p, "removing")
    /\ Keeps

\* The journal of an earlier repair has nothing left to restore.
Intend(p) ==
    /\ pc[p] = "intending"
    /\ store' = [phase |-> "Pending", before |-> job[p].original]
    /\ Goes(p, "removing")
    /\ UNCHANGED <<path, claims, ghosts, events>>

\* verify_machine_installation_path again, then publish_path's comparison.  A
\* refusal leaves the pending journal.
CompareRepair(p) ==
    /\ pc[p] = "removing"
    /\ IF path["machine"] = job[p].original THEN Goes(p, "swapping") ELSE Ends(p)
    /\ Keeps

Remove(p) ==
    /\ pc[p] = "swapping"
    /\ Writes(p, "machine", job[p].next)
    /\ Goes(p, "applying")
    /\ UNCHANGED <<claims, store, stale, events>>

MarkApplied(p) ==
    /\ pc[p] = "applying"
    /\ store' = [store EXCEPT !.phase = "Applied"]
    /\ Ends(p)
    /\ UNCHANGED <<path, claims, ghosts, events>>

-----------------------------------------------------------------------------
(* restore_store_entry *)

Owned == store.phase \notin {"absent", "Restored"}

\* Mutant: only the claims are asked.
StartRemoveForgetful(p) ==
    /\ pc[p] = "begin" /\ job[p].command = "remove"
    /\ GoesFree(p, IF claims["machine"] = {} THEN "legacy" ELSE "restore")
    /\ Keeps

\* `path remove' elevates only when there is something to undo.
StartRemove(p) ==
    /\ pc[p] = "begin" /\ job[p].command = "remove"
    /\ GoesFree(p, IF claims["machine"] = {} /\ ~Owned THEN "legacy" ELSE "restore")
    /\ Keeps

NothingToRestore(current) == store.phase = "Restored" \/ Store \in Elements(current)

Ambiguous(current) ==
    /\ ~NothingToRestore(current)
    /\ store.phase = "Pending" /\ current # Without(store.before, {Store})

StoreCount(s, n) == Cardinality({i \in 1..n : s[i] = Store})

\* PATH is as the repair left it: the entries of before, in their places.
Rebuilt(before, current) ==
    [i \in 1..Len(before) |->
        IF before[i] = Store THEN Store ELSE current[i - StoreCount(before, i)]]

\* The only position of an entry, 0 when there is none or more than one.
UniquePosition(s, e) ==
    LET positions == {i \in DOMAIN s : s[i] = e}
    IN  IF Cardinality(positions) = 1 THEN CHOOSE i \in positions : TRUE ELSE 0

InsertBefore(s, i, e) == SubSeq(s, 1, i - 1) \o <<e>> \o SubSeq(s, i, Len(s))

FirstStore(before) ==
    CHOOSE i \in DOMAIN before : before[i] = Store /\ \A j \in 1..i-1 : before[j] # Store

\* The neighbours the entry had, as far as they are unique now.
Left(before, current) ==
    LET first == FirstStore(before)
    IN  IF first = 1 THEN 0 ELSE UniquePosition(current, before[first - 1])
Right(before, current) ==
    LET rest == Without(SubSeq(before, FirstStore(before), Len(before)), {Store})
    IN  IF rest = <<>> THEN 0 ELSE UniquePosition(current, rest[1])

\* Mutant: the right neighbour wins even where it is left of the other one.
InsertedRight(before, current) ==
    LET l == Left(before, current)
        r == Right(before, current)
    IN  InsertBefore(current, IF r # 0 THEN r ELSE IF l # 0 THEN l + 1 ELSE 1, Store)

Inserted(before, current) ==
    LET l == Left(before, current)
        r == Right(before, current)
    IN  InsertBefore(current, IF r # 0 /\ l < r THEN r ELSE IF l # 0 THEN l + 1 ELSE Len(current) + 1,
                     Store)

Restoration(current) ==
    IF current = Without(store.before, {Store}) THEN Rebuilt(store.before, current)
    ELSE Inserted(store.before, current)

\* The first half of `path remove'.
ReadForRestore(p) ==
    LET original == path["machine"]
    IN  /\ pc[p] = "restore"
        /\ IF ~Owned THEN GoesFree(p, "withdraw")
           ELSE IF store_lock # None \/ Ambiguous(original) THEN Ends(p)
           ELSE /\ store_lock' = p /\ UNCHANGED lock
                /\ IF NothingToRestore(original)
                   THEN pc' = [pc EXCEPT ![p] = "recording"] /\ UNCHANGED job
                   ELSE /\ pc' = [pc EXCEPT ![p] = "restoring"]
                        /\ job' = [job EXCEPT ![p] = [@ EXCEPT !.original = original,
                                     !.next = Restoration(original)]]
        /\ Keeps

CompareRestore(p) ==
    /\ pc[p] = "restoring"
    /\ IF path["machine"] = job[p].original THEN Goes(p, "returning") ELSE Ends(p)
    /\ Keeps

Restore(p) ==
    /\ pc[p] = "returning"
    /\ Writes(p, "machine", job[p].next)
    /\ Goes(p, "recording")
    /\ UNCHANGED <<claims, store, stale, events>>

MarkRestored(p) ==
    /\ pc[p] = "recording"
    /\ store' = [store EXCEPT !.phase = "Restored"]
    /\ GoesFree(p, "withdraw")
    /\ UNCHANGED <<path, claims, ghosts, events>>

\* The command reports success.
RemoveSucceeds(p) == pc[p] = "removed" /\ Ends(p) /\ Keeps

-----------------------------------------------------------------------------
(* Failures and other programs *)

\* A journal cannot be written, the helper fails, or the process is killed.
Stop(p) ==
    /\ pc[p] # "idle"
    /\ Fails
    /\ stale' = IF pc[p] \in {"comparing", "setting", "clearing"}
                THEN [stale EXCEPT ![job[p].hive] = claims[job[p].hive]] ELSE stale
    /\ Ends(p)
    /\ UNCHANGED <<files, ours, taken, raced>>

Removals(s) == {SubSeq(s, 1, i - 1) \o SubSeq(s, i + 1, Len(s)) : i \in DOMAIN s}
Insertions(s) ==
    IF Len(s) < MaxLength THEN {InsertBefore(s, i, e) : i \in 1..Len(s) + 1, e \in Item} ELSE {}

\* Another program, or the user, adds an entry or removes one.
Outsider(hive) ==
    /\ edits < MaxEdits /\ edits' = edits + 1 /\ UNCHANGED failures
    /\ \E next \in Removals(path[hive]) \cup Insertions(path[hive]) :
         LET now == Elements(next)
         IN  /\ path' = [path EXCEPT ![hive] = next]
             /\ ours' = [ours EXCEPT ![hive] = @ \cap now]
             /\ stale' = [stale EXCEPT ![hive] = @ \cup (claims[hive] \ now)]
             /\ taken' = IF hive = "machine" THEN taken /\ Store \notin now ELSE taken
    /\ raced' = (raced \/ \E q \in Proc : InGap(q) /\ job[q].hive = hive)
    /\ UNCHANGED <<claims, store, locks, pc, job>>

Edit(p) ==
    \/ ReadForAdd(p) \/ Claim(p) \/ ReadForRemove(p) \/ Compare(p) \/ Set(p) \/ SetFails(p) \/ Clear(p)

Repair(p) == ReadForRepair(p) \/ Intend(p) \/ CompareRepair(p) \/ Remove(p) \/ MarkApplied(p)

Undo(p) ==
    \/ StartRemove(p) \/ ReadForRestore(p) \/ CompareRestore(p) \/ Restore(p) \/ MarkRestored(p)
    \/ RemoveSucceeds(p)

Next ==
    \/ \E p \in Proc :
         \/ \E command \in {"add", "remove"} : Begin(p, command)
         \/ Edit(p) \/ Repair(p) \/ Undo(p) \/ Stop(p)
    \/ \E hive \in Hive : Outsider(hive)

Spec == Init /\ [][Next]_vars

-----------------------------------------------------------------------------
(* Properties *)

Foreign(hive, s) == Without(s, IF hive = "machine" THEN Own \cup {Store} ELSE Own)

\* PyRudder never loses, adds or moves an entry of anybody else, although PATH
\* may change at any time under it.  Only a write in the instant between its
\* comparison and its own write can be lost (system_path.rs:231-246,
\* store_path.rs:428-446, path.rs:109-124).
OthersKept ==
    [][pc' # pc => raced' \/ \A h \in Hive : Foreign(h, path'[h]) = Foreign(h, path[h])]_vars

\* Whatever PyRudder put into a PATH is claimed in its journal, so that remove
\* will find it, after every kill and refusal (system_path.rs:185-197).
AddedIsClaimed == ~raced => \A h \in Hive : ours[h] \subseteq claims[h]

\* "Existing targets are moved but never claimed" (system_path.rs:173): an entry
\* the user wrote is not claimed, and so not removed, even when he wrote it while
\* add was under way.  A claim may be stale after a kill, or after somebody took
\* PyRudder's own entry away.
ClaimsAreOurs ==
    ~raced => \A h \in Hive : lock[h] = None =>
        claims[h] \cap Elements(path[h]) \subseteq ours[h] \cup stale[h]

\* While the Store entry is missing because PyRudder removed it, the journal
\* knows it, whoever was killed where (store_path.rs:215-221, 262-270).
StoreIsRecoverable == taken /\ ~raced => store.phase \in {"Pending", "Applied"} /\ Store \in Elements(store.before)

\* The entry comes back to where it was: the whole PATH as before when nothing
\* else changed, and otherwise between its old neighbours where they still stand
\* in that order (store_path/state.rs:100-167).
RestoredInPlace ==
    \A p \in Proc : pc[p] = "restoring" =>
        LET old == store.before
            new == job[p].next
            first == FirstStore(old)
            at(e) == UniquePosition(new, e)
        IN  IF job[p].original = Without(old, {Store}) THEN new = old
            ELSE /\ UniquePosition(new, Store) # 0
                 /\ first > 1 /\ at(old[first - 1]) # 0 => at(old[first - 1]) < at(Store)
                 /\ (first < Len(old) /\ old[first + 1] # Store /\ at(old[first + 1]) # 0
                     /\ (first = 1 \/ at(old[first - 1]) = 0 \/ at(old[first - 1]) < at(old[first + 1])))
                    => at(Store) + 1 = at(old[first + 1])

\* "Uninstall reverses this installation's managed system PATH changes, restores
\* its removed WindowsApps entry" (README.md:152): when path remove reports
\* success and no other command ran meanwhile, nothing of PyRudder is left in
\* either PATH, nothing is claimed, and the Store entry is back.
RemoveIsComplete ==
    \A p \in Proc : pc[p] = "removed" /\ job[p].alone /\ ~raced =>
        /\ \A h \in Hive : ours[h] = {} /\ claims[h] = {}
        /\ ~taken /\ ~Owned
=============================================================================
