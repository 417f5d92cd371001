------------------------------- MODULE Commands -------------------------------
(***************************************************************************)
(* Which program a command name starts: the inventory of a runtime's       *)
(* directories (commands.rs, manifest.rs), the table of shims made of all  *)
(* inventories (publication.rs, plan), the start of a program through its  *)
(* shim, and the refresh when it ends (router.rs, process.rs) or when the  *)
(* user asks for it (rehash, app.rs).                                      *)
(*                                                                         *)
(* A shim file stands for two requests: pip.exe answers `pip' and          *)
(* `pip.exe'.  A program may install and remove commands of its runtime    *)
(* while it runs, and so may others.  A publication is one step here;      *)
(* Publication has its steps.                                              *)
(***************************************************************************)
EXTENDS Registry, Naturals, Sequences, FiniteSets

CONSTANTS
    Caller,         \* processes that run commands
    Runtime,        \* runtimes with commands, all of them Ready
    Programs,       \* files programs may put into a runtime's directories
    Shipped,        \* what the directories may hold at first
    MaxWrites       \* changes of those directories, at most

\* In order of precedence.
Extension == <<"exe", "com", "cmd", "bat", "ps1">>
Rank(ext) == CHOOSE i \in DOMAIN Extension : Extension[i] = ext

ASSUME CommandsAssumption ==
    /\ None \notin Caller /\ MaxWrites \in Nat
    /\ Programs \subseteq [dir : Nat,          \* 0 is the root, then the script directories
                           stem : STRING, ext : {Extension[i] : i \in DOMAIN Extension},
                           kind : {"console", "gui", "script", "rejected"},
                           at : {0}]           \* changes before it was written
    /\ \A files \in Shipped :         \* a directory holds one file of a name
         /\ files \subseteq Programs
         /\ \A f, g \in files : f.dir = g.dir /\ f.stem = g.stem /\ f.ext = g.ext => f = g

VARIABLES
    disk,           \* the directories of each runtime: files, and the last change
    manifest,       \* the inventories in the registry
    index,          \* the shims in the registry: the request and subsystem of each
    call,           \* what each caller does
    writes,
    missed          \* ghost: runtimes changed without a refresh that succeeded

commandVars == <<disk, manifest, index, call, writes, missed>>

-----------------------------------------------------------------------------
(* RuntimeCommandManifest *)

\* Directories come first, extensions second.
Before(f, g) == f.dir < g.dir \/ (f.dir = g.dir /\ Rank(f.ext) < Rank(g.ext))

Bare(stem) == [exact |-> FALSE, stem |-> stem, ext |-> "any"]
Exact(stem, ext) == [exact |-> TRUE, stem |-> stem, ext |-> ext]
Requests(f) == {Bare(f.stem), Exact(f.stem, f.ext)}

Asked(files, q) == {f \in files : f.stem = q.stem /\ (q.exact => f.ext = q.ext)}

\* The first candidate, rejected or not; the others are never tried.
Winner(files, q) == {f \in Asked(files, q) : \A g \in Asked(files, q) \ {f} : Before(f, g)}

\* What lookup finds.
Available(files, q) == {f \in Winner(files, q) : f.kind # "rejected"}

-----------------------------------------------------------------------------
(* plan *)

\* command_union: requests some runtime can answer.
Offered(m) ==
    {q \in UNION {Requests(f) : f \in UNION {m[r].files : r \in Runtime}} :
        \E r \in Runtime : Available(m[r].files, q) # {}}

FileName(q) == <<q.stem, IF q.exact THEN q.ext ELSE "exe">>

\* Mutant: the table keeps the first request of a name.
EquivalentAnyway(q, s, m) == TRUE

Equivalent(q, s, m) == \A r \in Runtime : Winner(m[r].files, q) = Winner(m[r].files, s)

Subsystems(q, m) == {w.kind = "gui" : w \in UNION {Available(m[r].files, q) : r \in Runtime}}

\* One file cannot serve two targets, or two subsystems.
Conflict(m) ==
    \/ \E q, s \in Offered(m) : FileName(q) = FileName(s) /\ ~Equivalent(q, s, m)
    \/ \E q \in Offered(m) : Cardinality(Subsystems(q, m)) > 1

\* A bare request comes before the exact one.
Recorded(name, m) ==
    CHOOSE q \in Offered(m) :
        FileName(q) = name /\ (q.exact => \A s \in Offered(m) : FileName(s) = name => s.exact)

Index(m) ==
    [name \in {FileName(q) : q \in Offered(m)} |->
        [request |-> Recorded(name, m), gui |-> TRUE \in Subsystems(Recorded(name, m), m)]]

-----------------------------------------------------------------------------
(* The callers. *)

NoCall == [step |-> "idle", name |-> <<>>, request |-> Bare(""), gui |-> FALSE, runtime |-> None,
           seen |-> [files |-> {}, stamp |-> 0], target |-> {}, scan |-> <<>>, fresh |-> TRUE]

CommandSteps == {"idle", "leased", "running", "refreshing", "publishing"}

CommandsTypeOK ==
    /\ \A r \in Runtime : disk[r].stamp \in 0..writes /\ manifest[r].stamp \in 0..disk[r].stamp
    /\ \A r \in Runtime : \A f, g \in disk[r].files :
         f.dir = g.dir /\ f.stem = g.stem /\ f.ext = g.ext => f = g
    /\ \A c \in Caller : call[c].step \in CommandSteps
    /\ \A c \in Caller : registry_lock = c <=> call[c].step = "publishing"
    /\ \A c \in Caller : call[c].step \in {"running", "refreshing"} => Cardinality(call[c].target) = 1
    /\ writes \in 0..MaxWrites /\ missed \subseteq Runtime

CommandsInit ==
    /\ disk \in {d \in [Runtime -> {[files |-> files, stamp |-> 0] : files \in Shipped}] : ~Conflict(d)}
    /\ manifest = disk
    /\ index = Index(manifest)
    /\ call = [c \in Caller |-> NoCall]
    /\ writes = 0 /\ missed = {}

Idle(c) == call' = [call EXCEPT ![c] = NoCall]

\* The directories are not as the registry has them, and nobody will tell.
Misses(c) ==
    missed' = missed \cup {r \in {call[c].runtime} \cap Runtime : disk[r] # manifest[r]}

\* run_shim or run_wrapper, and execute as far as the runtime's lease: which
\* runtime is selected does not depend on the command.
Type(c, name, r) ==
    /\ call[c].step = "idle"
    /\ call' = [call EXCEPT ![c] = [NoCall EXCEPT !.step = "leased", !.name = name, !.runtime = r,
                  !.request = index[name].request, !.gui = index[name].gui]]
    /\ UNCHANGED <<runtimes, registry_lock, disk, manifest, index, writes, missed>>

\* The registry is read again; prepare looks the request up and validates the file.
Prepare(c) ==
    LET r == call[c].runtime
        found == Available(manifest[r].files, call[c].request)
    IN  /\ call[c].step = "leased"
        /\ IF found # {} /\ found \subseteq disk[r].files
           THEN call' = [call EXCEPT ![c] = [@ EXCEPT !.step = "running", !.seen = manifest[r],
                           !.target = found, !.fresh = call[c].fresh /\ manifest[r] = disk[r]]]
           ELSE Idle(c)
        /\ UNCHANGED <<runtimes, registry_lock, disk, manifest, index, writes, missed>>

\* The file of a running program can be neither replaced nor deleted.
InUse(r) == UNION {call[c].target : c \in {d \in Caller : call[d].step = "running" /\ call[d].runtime = r}}

SameName(f, g) == f.dir = g.dir /\ f.stem = g.stem /\ f.ext = g.ext

\* One file is put into a directory of r, replaced there, or deleted.
Changed(r) ==
    /\ writes < MaxWrites /\ writes' = writes + 1
    /\ \/ \E f \in Programs :
            LET old == {g \in disk[r].files : SameName(f, g)}
            IN  /\ old \cap InUse(r) = {}
                /\ disk' = [disk EXCEPT ![r] = [files |-> (@.files \ old) \cup {[f EXCEPT !.at = @ + writes + 1]},
                                                stamp |-> writes + 1]]
       \/ \E f \in disk[r].files \ InUse(r) :
            disk' = [disk EXCEPT ![r] = [files |-> @.files \ {f}, stamp |-> writes + 1]]
    /\ UNCHANGED <<runtimes, registry_lock, manifest, index, call>>

\* pip, as a rule.
Work(c) == call[c].step = "running" /\ Changed(call[c].runtime) /\ UNCHANGED missed

\* Mutant: the names and contents of files are compared, not the directories.
ReturnComparingFiles(c) ==
    /\ call[c].step = "running"
    /\ IF disk[call[c].runtime].files = call[c].seen.files THEN Idle(c)
       ELSE call' = [call EXCEPT ![c].step = "refreshing"]
    /\ UNCHANGED <<runtimes, registry_lock, disk, manifest, index, writes, missed>>

\* refresh_after: the runtime is scanned and compared with what was read before
\* the program started.
Return(c) ==
    /\ call[c].step = "running"
    /\ IF disk[call[c].runtime] = call[c].seen THEN Idle(c)
       ELSE call' = [call EXCEPT ![c].step = "refreshing"]
    /\ UNCHANGED <<runtimes, registry_lock, disk, manifest, index, writes, missed>>

\* It is scanned again under the lock.  A failed refresh is only reported.
Rescan(c) ==
    /\ call[c].step = "refreshing"
    /\ IF registry_lock # None THEN Idle(c) /\ Misses(c) /\ UNCHANGED registry_lock
       ELSE /\ registry_lock' = c
            /\ call' = [call EXCEPT ![c] = [NoCall EXCEPT !.step = "publishing", !.runtime = call[c].runtime,
                          !.scan = [manifest EXCEPT ![call[c].runtime] = disk[call[c].runtime]]]]
            /\ UNCHANGED missed
    /\ UNCHANGED <<runtimes, disk, manifest, index, writes>>

\* rehash, of one runtime or of all.
Rehash(c) ==
    /\ call[c].step = "idle" /\ registry_lock = None
    /\ registry_lock' = c
    /\ \E chosen \in {{r} : r \in Runtime} \cup {Runtime} :
         call' = [call EXCEPT ![c] = [NoCall EXCEPT !.step = "publishing",
                    !.scan = [r \in Runtime |-> IF r \in chosen THEN disk[r] ELSE manifest[r]]]]
    /\ UNCHANGED <<runtimes, disk, manifest, index, writes, missed>>

\* publish, unless plan finds a conflict.
Publish(c) ==
    LET scan == call[c].scan
    IN  /\ call[c].step = "publishing"
        /\ registry_lock' = None
        /\ IF Conflict(scan) THEN Idle(c) /\ Misses(c) /\ UNCHANGED <<manifest, index>>
           ELSE /\ manifest' = scan /\ index' = Index(scan)
                /\ missed' = {r \in missed : scan[r] # disk[r]}
                /\ call' = [d \in Caller |-> IF d = c \/ call[d] = NoCall THEN NoCall
                                             ELSE [call[d] EXCEPT !.fresh = FALSE]]
        /\ UNCHANGED <<runtimes, disk, writes>>

\* A scan fails because a directory changes under it, the publication fails, or
\* the process is killed.
Dies(c) ==
    /\ call[c].step \notin {"idle", "leased"}
    /\ Idle(c) /\ Misses(c)
    /\ registry_lock' = IF registry_lock = c THEN None ELSE registry_lock
    /\ UNCHANGED <<runtimes, disk, manifest, index, writes>>

\* Another program changes a runtime's directories.
Copies(r) == Changed(r) /\ missed' = missed \cup {r}

CommandsNext ==
    \/ \E c \in Caller :
         \/ \E name \in DOMAIN index, r \in Runtime : Type(c, name, r)
         \/ Prepare(c) \/ Work(c) \/ Return(c) \/ Rescan(c) \/ Rehash(c) \/ Publish(c) \/ Dies(c)
    \/ \E r \in Runtime : Copies(r)

-----------------------------------------------------------------------------
(* Properties *)

\* A name means the same program however it is typed: whatever shim was started,
\* the program that runs is, of all the files of the runtime selected, the one in
\* the nearest directory with the strongest extension for every request that is
\* offered under the shim's file name, and it has the subsystem of the shim;
\* "never implicit fallbacks" (manifest.rs:94, publication.rs:51-98).  A call is
\* `fresh' unless a publication passed since the shim's read, or the inventory was
\* not what is on disk at the second one, which nothing has refreshed yet: then
\* the program may differ.  A bare name that falls to pip.exe because a nearer file
\* masks it is not offered, and nothing is said of it.
TypedIsRun ==
    \A c \in Caller : call[c].step = "running" /\ call[c].fresh =>
        \A t \in call[c].target :
            /\ (t.kind = "gui") = call[c].gui
            /\ \A q \in Offered(manifest) : FileName(q) = call[c].name =>
                 /\ t \in Asked(call[c].seen.files, q)
                 /\ \A f \in Asked(call[c].seen.files, q) : f = t \/ Before(t, f)

\* Once the programs that changed a runtime have ended, the registry has what is
\* on disk, whichever of them ended first and whatever the others had read,
\* unless a refresh failed or somebody else changed the runtime and rehash has
\* not been run since (router.rs:206-241).
FreshWhenQuiet ==
    \A r \in Runtime \ missed :
        (\A c \in Caller : call[c].runtime # r \/ call[c].step \in {"idle", "leased"}) => manifest[r] = disk[r]
=============================================================================
