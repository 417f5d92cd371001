--------------------------- MODULE CommandsProofs ---------------------------
(***************************************************************************)
(* Theorems about Commands as Selection runs it: any number of callers,    *)
(* runtimes, programs, directories and changes, beside any other command.  *)
(***************************************************************************)
EXTENDS SettingsProofs

-----------------------------------------------------------------------------
(* The inductive invariant *)

Program == [dir : Nat, stem : STRING, ext : {Extension[i] : i \in DOMAIN Extension},
            kind : {"console", "gui", "script", "rejected"}, at : Nat]

Listing == [files : SUBSET Program, stamp : Nat]

Stem == STRING \cup {""}
Suffix == {"exe", "com", "cmd", "bat", "ps1", "any"}

Request == [exact : BOOLEAN, stem : Stem, ext : Suffix]

Call == [step : CommandSteps, name : (Stem \X Suffix) \cup {<<>>}, request : Request,
         gui : BOOLEAN, runtime : Runtime \cup {None}, seen : Listing,
         target : SUBSET Program, scan : [Runtime -> Listing] \cup {<<>>}, fresh : BOOLEAN]

CommandTypes ==
    /\ disk \in [Runtime -> Listing] /\ manifest \in [Runtime -> Listing]
    /\ call \in [Caller -> Call]
    /\ writes \in 0..MaxWrites /\ missed \subseteq Runtime

\* One process at most has registry.lock, and at the steps that need it.
Locks ==
    /\ registry_lock \in Editor \cup Caller \cup {None}
    /\ \A e \in Editor : registry_lock = e <=> edit[e].step \in {"backing", "writing"}
    /\ \A c \in Caller : registry_lock = c <=> call[c].step = "publishing"

\* A listing of r that was once right, and still is unless r has changed since.
Past(x, r) == x.stamp <= disk[r].stamp /\ (x.stamp = disk[r].stamp => x = disk[r])

DiskOrdered ==
    \A r \in Runtime :
        /\ disk[r].stamp <= writes /\ Past(manifest[r], r)
        /\ \A f, g \in disk[r].files : SameName(f, g) => f = g

\* What a caller has read is in order with what the registry and the disk have.
CallFits(c) ==
    LET r == call[c].runtime
    IN  /\ call[c].step \in {"leased", "running", "refreshing"} => r \in Runtime
        /\ call[c].step \in {"running", "refreshing"} => Cardinality(call[c].target) = 1
        /\ call[c].step = "running" => call[c].seen.stamp <= manifest[r].stamp
        /\ call[c].step = "publishing" =>
             /\ call[c].scan \in [Runtime -> Listing]
             /\ \A s \in Runtime : /\ Past(call[c].scan[s], s)
                                   /\ manifest[s].stamp <= call[c].scan[s].stamp

Active == {"running", "refreshing", "publishing"}

\* Somebody will still compare r with the registry.
Attended(r) == \E c \in Caller : call[c].runtime = r /\ call[c].step \in {"running", "refreshing"}

\* Of a runtime that nobody missed, whatever the registry or a publication
\* under way does not have will be noticed.
Noticed ==
    /\ \A r \in Runtime \ missed : manifest[r] # disk[r] =>
         \E c \in Caller : call[c].runtime = r /\ call[c].step \in Active
    /\ \A c \in Caller, r \in Runtime \ missed :
         call[c].step = "publishing" /\ call[c].scan[r] # disk[r] => Attended(r)

\* While no publication passes, the caller of a shim has its record.
RouteFits(c) ==
    call[c].fresh =>
        /\ call[c].step \in {"leased", "running"} =>
             /\ call[c].request \in Offered(manifest)
             /\ FileName(call[c].request) = call[c].name
             /\ call[c].gui = (TRUE \in Subsystems(call[c].request, manifest))
        /\ call[c].step = "running" =>
             /\ call[c].seen = manifest[call[c].runtime]
             /\ call[c].target \subseteq Available(call[c].seen.files, call[c].request)

Routed == index = Index(manifest) /\ ~Conflict(manifest)

CommandsIInv ==
    /\ CommandTypes /\ Locks /\ DiskOrdered /\ Noticed /\ Routed
    /\ \A c \in Caller : CallFits(c) /\ RouteFits(c)

-----------------------------------------------------------------------------
(* RuntimeCommandManifest and plan *)

\* No extension is as strong as another one.
LEMMA RankOrders ==
    \A ext \in {Extension[i] : i \in DOMAIN Extension} :
        Rank(ext) \in 1..5 /\ Extension[Rank(ext)] = ext
<1> SUFFICES ASSUME NEW i \in DOMAIN Extension
             PROVE  Rank(Extension[i]) \in 1..5 /\ Extension[Rank(Extension[i])] = Extension[i]
  OBVIOUS
<1>1. DOMAIN Extension = 1..5
  BY DEF Extension
<1>2. \E k \in DOMAIN Extension : Extension[k] = Extension[i]
  OBVIOUS
<1> DEFINE k == CHOOSE k \in DOMAIN Extension : Extension[k] = Extension[i]
<1>3. k \in DOMAIN Extension /\ Extension[k] = Extension[i]
  BY <1>2
<1> QED
  BY <1>1, <1>3 DEF Rank

\* A request has one winner: directories and extensions order the files of a name.
LEMMA OneWinner ==
    ASSUME NEW files \in SUBSET Program, NEW q, NEW f \in Winner(files, q), NEW g \in Winner(files, q)
    PROVE  f = g
<1> SUFFICES ASSUME f # g PROVE FALSE
  OBVIOUS
<1>1. f \in Program /\ g \in Program
  BY DEF Winner, Asked
<1>2. Before(f, g) /\ Before(g, f)
  BY DEF Winner
<1>3. Rank(f.ext) \in 1..5 /\ Rank(g.ext) \in 1..5
  BY <1>1, RankOrders DEF Program
<1>4. f.dir \in Nat /\ g.dir \in Nat
  BY <1>1 DEF Program
<1> QED
  BY <1>2, <1>3, <1>4 DEF Before

LEMMA OneTarget ==
    ASSUME NEW files \in SUBSET Program, NEW q, Available(files, q) # {}
    PROVE  Cardinality(Available(files, q)) = 1 /\ Available(files, q) \subseteq Program
<1>1. PICK f : f \in Available(files, q)
  OBVIOUS
<1>2. Available(files, q) = {f}
  BY <1>1, OneWinner DEF Available
<1>3. f \in Program
  BY <1>1 DEF Available, Winner, Asked
<1> QED
  BY <1>2, <1>3, FS_Singleton

\* Every name of the table has a request that is offered under it.
LEMMA RecordedFits ==
    ASSUME NEW m, NEW name \in {FileName(q) : q \in Offered(m)}
    PROVE  Recorded(name, m) \in Offered(m) /\ FileName(Recorded(name, m)) = name
<1> DEFINE P(q) == FileName(q) = name /\ (q.exact => \A s \in Offered(m) : FileName(s) = name => s.exact)
<1>1. PICK q \in Offered(m) : FileName(q) = name
  OBVIOUS
<1>2. \E s \in Offered(m) : P(s)
  BY <1>1
<1> QED
  BY <1>2 DEF Recorded

LEMMA NotIn ==
    ASSUME NEW S, NEW x, x \notin S
    PROVE  (x \in S) = FALSE
  OBVIOUS

\* A set of two elements has more than one.
LEMMA TwoAreMany ==
    ASSUME NEW S, NEW a, NEW b, a # b, S \subseteq {a, b}, a \in S, b \in S
    PROVE  Cardinality(S) > 1
<1>1. IsFiniteSet({a}) /\ Cardinality({a}) = 1 /\ b \notin {a}
  BY FS_Singleton
<1>2. Cardinality({a} \cup {b}) = 2
  BY <1>1, FS_AddElement
<1>3. S = {a} \cup {b}
  OBVIOUS
<1> QED
  BY <1>2, <1>3

LEMMA OfferedTyped ==
    ASSUME NEW m \in [Runtime -> Listing]
    PROVE  \A q \in Offered(m) : q \in Request /\ FileName(q) \in Stem \X Suffix
<1> SUFFICES ASSUME NEW q \in Offered(m) PROVE q \in Request /\ FileName(q) \in Stem \X Suffix
  OBVIOUS
<1>1. PICK r \in Runtime : \E f \in m[r].files : q \in Requests(f)
  BY DEF Offered
<1>2. PICK f \in m[r].files : q \in Requests(f)
  BY <1>1
<1>3. f \in Program
  BY DEF Listing
<1>4. f.stem \in Stem /\ f.ext \in Suffix
  <2>1. f.stem \in STRING /\ \E i \in DOMAIN Extension : f.ext = Extension[i]
    BY <1>3 DEF Program
  <2>2. \A i \in DOMAIN Extension : Extension[i] \in {"exe", "com", "cmd", "bat", "ps1"}
    BY DEF Extension
  <2> QED
    BY <2>1, <2>2 DEF Stem, Suffix
<1>5. q = Bare(f.stem) \/ q = Exact(f.stem, f.ext)
  BY <1>2 DEF Requests
<1>6. q \in Request
  <2>1. Bare(f.stem) \in Request
    BY <1>4 DEF Bare, Request, Suffix
  <2>2. Exact(f.stem, f.ext) \in Request
    BY <1>4 DEF Exact, Request
  <2> QED
    BY <1>5, <2>1, <2>2
<1>7. q.stem \in Stem /\ (IF q.exact THEN q.ext ELSE "exe") \in Suffix
  BY <1>6 DEF Request, Suffix
<1> QED
  BY <1>6, <1>7 DEF FileName

-----------------------------------------------------------------------------
(* The start *)

LEMMA NoCallTyped ==
    /\ NoCall \in Call
    /\ NoCall.step = "idle" /\ NoCall.runtime = None
<1>1. NoCall.seen \in Listing
  BY DEF NoCall, Listing
<1>2. NoCall.request \in Request
  BY DEF NoCall, Bare, Request, Stem, Suffix
<1> QED
  BY <1>1, <1>2 DEF NoCall, Call, CommandSteps

LEMMA ProgramsTyped == Programs \subseteq Program
  BY CommandsAssumption DEF Program

LEMMA InitialCommands == Init => CommandsIInv
<1> SUFFICES ASSUME Init PROVE CommandsIInv
  OBVIOUS
<1>1. /\ \A c \in Caller : call[c] = NoCall
      /\ call \in [Caller -> Call]
  BY NoCallTyped DEF Init, CommandsInit
<1>2. \A e \in Editor : edit[e].step = "idle"
  BY DEF Init, SettingsInit, NoEdit
<1>3. ASSUME NEW r \in Runtime
      PROVE  \E files \in Shipped : disk[r] = [files |-> files, stamp |-> 0]
  BY DEF Init, CommandsInit
<1>4. \A r \in Runtime : disk[r] \in Listing /\ disk[r].stamp = 0
  <2> SUFFICES ASSUME NEW r \in Runtime PROVE disk[r] \in Listing /\ disk[r].stamp = 0
    OBVIOUS
  <2>1. PICK files \in Shipped : disk[r] = [files |-> files, stamp |-> 0]
    BY <1>3
  <2>2. files \in SUBSET Program
    BY CommandsAssumption, ProgramsTyped
  <2> QED
    BY <2>1, <2>2 DEF Listing
<1>5. disk \in [Runtime -> Listing] /\ manifest = disk
  BY <1>4 DEF Init, CommandsInit
<1>6. writes = 0 /\ missed = {}
  BY DEF Init, CommandsInit
<1>7. CommandTypes
  BY <1>1, <1>5, <1>6, CommandsAssumption DEF CommandTypes
<1>8. Locks
  BY <1>1, <1>2, NoCallTyped, SettingsAssumption, CommandsAssumption DEF Locks, Init
<1>9. DiskOrdered
  <2> SUFFICES ASSUME NEW r \in Runtime
               PROVE  /\ disk[r].stamp <= writes /\ Past(manifest[r], r)
                      /\ \A f, g \in disk[r].files : SameName(f, g) => f = g
    BY DEF DiskOrdered
  <2>1. PICK files \in Shipped : disk[r] = [files |-> files, stamp |-> 0]
    BY <1>3
  <2>2. \A f, g \in files : SameName(f, g) => f = g
    BY CommandsAssumption DEF SameName
  <2> QED
    BY <1>4, <1>5, <1>6, <2>1, <2>2 DEF Past
<1>10. Noticed
  BY <1>1, <1>5, NoCallTyped DEF Noticed
<1>11. Routed
  BY DEF Routed, Init, CommandsInit
<1>12. \A c \in Caller : CallFits(c) /\ RouteFits(c)
  BY <1>1, NoCallTyped DEF CallFits, RouteFits
<1> QED
  BY <1>7, <1>8, <1>9, <1>10, <1>11, <1>12 DEF CommandsIInv

-----------------------------------------------------------------------------
(* Steps that change one call *)

\* What a caller does leaves the others alone.
LEMMA OneCall ==
    ASSUME CommandTypes, NEW c \in Caller, NEW new \in Call, call' = [call EXCEPT ![c] = new]
    PROVE  /\ call' \in [Caller -> Call] /\ call'[c] = new
           /\ \A d \in Caller \ {c} : call'[d] = call[d]
  BY DEF CommandTypes

\* Nothing goes unnoticed when c does something else, if the runtime c attended was as
\* registered, or c still attends it.
LEMMA KeepsNoticing ==
    ASSUME CommandTypes, DiskOrdered, Noticed, \A d \in Caller : CallFits(d),
           NEW c \in Caller, NEW new \in Call, call' = [call EXCEPT ![c] = new],
           UNCHANGED <<disk, manifest>>, missed \subseteq missed', missed' \subseteq Runtime,
           \A r \in Runtime \ missed' :
             call[c].runtime = r /\ call[c].step \in Active /\ manifest[r] # disk[r] =>
               new.runtime = r /\ new.step \in Active,
           new.step = "publishing" =>
             /\ \A d \in Caller : call[d].step # "publishing"
             /\ \A r \in Runtime \ missed' : new.scan[r] # disk[r] =>
                  \E d \in Caller \ {c} : call[d].runtime = r /\ call[d].step \in {"running", "refreshing"}
    PROVE  Noticed'
<1>1. /\ call'[c] = new
      /\ \A d \in Caller \ {c} : call'[d] = call[d]
  BY OneCall
<1>2. ASSUME NEW r \in Runtime \ missed', manifest'[r] # disk'[r]
      PROVE  \E d \in Caller : call'[d].runtime = r /\ call'[d].step \in Active
  <2>1. PICK w \in Caller : call[w].runtime = r /\ call[w].step \in Active
    BY <1>2 DEF Noticed
  <2> QED
    BY <1>1, <1>2, <2>1
<1>3. ASSUME NEW d \in Caller, NEW r \in Runtime \ missed',
             call'[d].step = "publishing", call'[d].scan[r] # disk'[r]
      PROVE  Attended(r)'
  <2>1. CASE d = c
    BY <1>1, <1>3, <2>1 DEF Attended
  <2>2. CASE d # c
    <3>1. call[d].step = "publishing" /\ call[d].scan[r] # disk[r]
      BY <1>1, <1>3, <2>2
    <3>2. PICK w \in Caller : call[w].runtime = r /\ call[w].step \in {"running", "refreshing"}
      BY <3>1 DEF Noticed, Attended
    <3>3. manifest[r] # disk[r]
      <4>1. call[d].scan \in [Runtime -> Listing] /\ Past(call[d].scan[r], r) /\ manifest[r].stamp <= call[d].scan[r].stamp
        BY <3>1 DEF CallFits
      <4>2. /\ disk[r].stamp \in Nat /\ manifest[r].stamp \in Nat /\ call[d].scan[r].stamp \in Nat
        BY <4>1 DEF CommandTypes, Listing
      <4> QED
        BY <3>1, <4>1, <4>2 DEF Past
    <3>4. CASE w = c
      <4>1. new.runtime = r /\ new.step \in Active /\ new.step # "publishing"
        BY <3>1, <3>2, <3>3, <3>4 DEF Active
      <4> QED
        BY <1>1, <4>1 DEF Attended, Active
    <3>5. CASE w # c
      BY <1>1, <3>2, <3>5 DEF Attended
    <3> QED
      BY <3>4, <3>5
  <2> QED
    BY <2>1, <2>2
<1> QED
  BY <1>2, <1>3 DEF Noticed

\* A step of c that changes neither the disk nor the registry.
LEMMA CallStep ==
    ASSUME CommandsIInv, NEW c \in Caller, NEW new \in Call, call' = [call EXCEPT ![c] = new],
           UNCHANGED <<disk, manifest, index, writes>>,
           missed \subseteq missed', missed' \subseteq Runtime, Locks', Noticed',
           CallFits(c)', RouteFits(c)'
    PROVE  CommandsIInv'
<1>1. /\ call' \in [Caller -> Call]
      /\ \A d \in Caller \ {c} : call'[d] = call[d]
  BY OneCall DEF CommandsIInv
<1>2. CommandTypes'
  BY <1>1 DEF CommandsIInv, CommandTypes
<1>3. DiskOrdered' /\ Routed'
  BY DEF CommandsIInv, DiskOrdered, Routed, Past
<1>4. \A d \in Caller \ {c} : CallFits(d)'
  BY <1>1 DEF CommandsIInv, CallFits, Past
<1>5. \A d \in Caller \ {c} : RouteFits(d)'
  BY <1>1 DEF CommandsIInv, RouteFits
<1> QED
  BY <1>2, <1>3, <1>4, <1>5 DEF CommandsIInv

\* The locks after a step of c that has new, takes the registry's, gives it back or neither.
LEMMA LocksStay ==
    ASSUME CommandsIInv, NEW c \in Caller, NEW new \in Call, call' = [call EXCEPT ![c] = new],
           UNCHANGED <<edit, registry_lock>>,
           call[c].step = "publishing" <=> new.step = "publishing"
    PROVE  Locks'
  BY OneCall DEF CommandsIInv, Locks

LEMMA LocksTaken ==
    ASSUME CommandsIInv, NEW c \in Caller, NEW new \in Call, call' = [call EXCEPT ![c] = new],
           UNCHANGED edit, registry_lock = None, registry_lock' = c, new.step = "publishing"
    PROVE  Locks'
<1>1. /\ call'[c] = new
      /\ \A d \in Caller \ {c} : call'[d] = call[d]
  BY OneCall DEF CommandsIInv
<1>2. c \notin Editor /\ None \notin Editor /\ None \notin Caller
  BY SelectionAssumption, SettingsAssumption, CommandsAssumption
<1> QED
  BY <1>1, <1>2 DEF CommandsIInv, Locks

LEMMA LocksGiven ==
    ASSUME CommandsIInv, NEW c \in Caller, NEW new \in Call, call' = [call EXCEPT ![c] = new],
           UNCHANGED edit, registry_lock' = (IF registry_lock = c THEN None ELSE registry_lock),
           new.step # "publishing"
    PROVE  Locks'
<1>1. /\ call'[c] = new
      /\ \A d \in Caller \ {c} : call'[d] = call[d]
  BY OneCall DEF CommandsIInv
<1>2. c \notin Editor /\ None \notin Editor /\ None \notin Caller
  BY SelectionAssumption, SettingsAssumption, CommandsAssumption
<1> QED
  BY <1>1, <1>2 DEF CommandsIInv, Locks

-----------------------------------------------------------------------------
(* The steps of a caller *)

\* A caller that gives up what it was doing.
LEMMA IdleStep ==
    ASSUME CommandsIInv, NEW c \in Caller, Idle(c), Locks',
           UNCHANGED <<disk, manifest, index, writes>>,
           missed \subseteq missed', missed' \subseteq Runtime,
           \A r \in Runtime \ missed' :
             call[c].runtime = r /\ call[c].step \in Active => manifest[r] = disk[r]
    PROVE  CommandsIInv'
<1>1. call' = [call EXCEPT ![c] = NoCall] /\ NoCall \in Call
  BY NoCallTyped DEF Idle
<1>2. call'[c] = NoCall
  BY <1>1 DEF CommandsIInv, CommandTypes
<1>3. CallFits(c)' /\ RouteFits(c)'
  BY <1>2, NoCallTyped DEF CallFits, RouteFits
<1>4. Noticed'
  BY <1>1, NoCallTyped, KeepsNoticing DEF CommandsIInv
<1> QED
  BY <1>1, <1>3, <1>4, CallStep

LEMMA TypeKeeps ==
    ASSUME CommandsIInv, NEW c \in Caller, NEW name \in DOMAIN index, NEW r \in Runtime,
           Type(c, name, r), UNCHANGED edit
    PROVE  CommandsIInv'
<1> DEFINE request == index[name].request
           gui == index[name].gui
           new == [NoCall EXCEPT !.step = "leased", !.name = name, !.runtime = r,
                     !.request = request, !.gui = gui]
<1>1. name \in {FileName(q) : q \in Offered(manifest)}
  BY DEF CommandsIInv, Routed, Index
<1>2. /\ request = Recorded(name, manifest)
      /\ gui = (TRUE \in Subsystems(request, manifest))
  BY <1>1 DEF CommandsIInv, Routed, Index
<1>3. request \in Offered(manifest) /\ FileName(request) = name
  BY <1>1, <1>2, RecordedFits
<1>4. request \in Request /\ name \in Stem \X Suffix
  BY <1>3, OfferedTyped DEF CommandsIInv, CommandTypes
<1>5. gui \in BOOLEAN
  BY <1>2
<1>6. call' = [call EXCEPT ![c] = new]
  BY DEF Type
<1> HIDE DEF request, gui
<1>7. /\ new \in Call /\ new.step = "leased" /\ new.name = name /\ new.runtime = r
      /\ new.request = request /\ new.gui = gui
  BY <1>4, <1>5, NoCallTyped DEF Call, CommandSteps
<1> HIDE DEF new
<1>8. call'[c] = new /\ call[c].step = "idle"
  BY <1>6 DEF CommandsIInv, CommandTypes, Type
<1>9. UNCHANGED <<registry_lock, disk, manifest, index, writes, missed>>
  BY DEF Type
<1>10. CallFits(c)' /\ RouteFits(c)'
  BY <1>2, <1>3, <1>7, <1>8, <1>9 DEF CallFits, RouteFits
<1>11. Locks'
  BY <1>6, <1>7, <1>8, <1>9, LocksStay
<1>12. Noticed'
  BY <1>6, <1>7, <1>8, <1>9, KeepsNoticing DEF CommandsIInv, CommandTypes, Active
<1> QED
  BY <1>6, <1>7, <1>9, <1>10, <1>11, <1>12, CallStep DEF CommandsIInv, CommandTypes

LEMMA PrepareKeeps ==
    ASSUME CommandsIInv, NEW c \in Caller, Prepare(c), UNCHANGED edit
    PROVE  CommandsIInv'
<1> DEFINE r == call[c].runtime
           found == Available(manifest[r].files, call[c].request)
           fresh == call[c].fresh /\ manifest[r] = disk[r]
           new == [call[c] EXCEPT !.step = "running", !.seen = manifest[r], !.target = found,
                     !.fresh = fresh]
<1>1. call[c] \in Call /\ call[c].step = "leased" /\ CallFits(c) /\ RouteFits(c)
  BY DEF CommandsIInv, CommandTypes, Prepare
<1>2. UNCHANGED <<registry_lock, disk, manifest, index, writes, missed>>
  BY DEF Prepare
<1>3. r \in Runtime
  BY <1>1 DEF CallFits
<1>4. missed \subseteq missed' /\ missed' \subseteq Runtime
  BY <1>2 DEF CommandsIInv, CommandTypes
<1>5. CASE Idle(c)
  <2>1. Locks'
    BY <1>1, <1>2, <1>5, NoCallTyped, LocksStay DEF Idle
  <2> QED
    BY <1>1, <1>2, <1>4, <1>5, <2>1, IdleStep DEF Active
<1>6. CASE found # {} /\ call' = [call EXCEPT ![c] = new]
  <2>1. manifest[r] \in Listing
    BY <1>3 DEF CommandsIInv, CommandTypes
  <2>2. Cardinality(found) = 1 /\ found \in SUBSET Program
    BY <1>6, <2>1, OneTarget DEF Listing
  <2>3. fresh \in BOOLEAN
    BY <1>1 DEF Call
  <2>4. /\ new \in Call /\ new.step = "running" /\ new.seen = manifest[r] /\ new.target = found
        /\ new.fresh = fresh /\ new.runtime = r /\ new.name = call[c].name
        /\ new.request = call[c].request /\ new.gui = call[c].gui
    <3> HIDE DEF found, fresh
    <3> QED BY <1>1, <2>1, <2>2, <2>3 DEF Call, CommandSteps
  <2>5. call'[c] = new
    <3> HIDE DEF new
    <3> QED BY <1>6 DEF CommandsIInv, CommandTypes
  <2>6. manifest[r].stamp <= manifest[r].stamp
    BY <2>1 DEF Listing
  <2>7. CallFits(c)'
    <3> HIDE DEF new, found, r
    <3> QED BY <1>2, <1>3, <2>2, <2>4, <2>5, <2>6 DEF CallFits
  <2>8. RouteFits(c)'
    <3>1. fresh => call[c].fresh
      OBVIOUS
    <3>2. found = Available(manifest[r].files, call[c].request)
      OBVIOUS
    <3> HIDE DEF new, found, r, fresh
    <3> QED BY <1>1, <1>2, <2>4, <2>5, <3>1, <3>2 DEF RouteFits
  <2> HIDE DEF new
  <2>9. Locks'
    BY <1>1, <1>2, <1>6, <2>4, LocksStay
  <2>10. Noticed'
    BY <1>1, <1>2, <1>4, <1>6, <2>4, KeepsNoticing DEF CommandsIInv, Active
  <2> QED
    BY <1>2, <1>4, <1>6, <2>4, <2>7, <2>8, <2>9, <2>10, CallStep
<1> QED
  BY <1>5, <1>6 DEF Prepare

LEMMA ReturnKeeps ==
    ASSUME CommandsIInv, NEW c \in Caller, Return(c), UNCHANGED edit
    PROVE  CommandsIInv'
<1> DEFINE r == call[c].runtime
           new == [call[c] EXCEPT !.step = "refreshing"]
<1>1. call[c] \in Call /\ call[c].step = "running" /\ CallFits(c)
  BY DEF CommandsIInv, CommandTypes, Return
<1>2. UNCHANGED <<registry_lock, disk, manifest, index, writes, missed>>
  BY DEF Return
<1>3. r \in Runtime /\ call[c].seen.stamp <= manifest[r].stamp /\ Cardinality(call[c].target) = 1
  BY <1>1 DEF CallFits
<1>4. missed \subseteq missed' /\ missed' \subseteq Runtime
  BY <1>2 DEF CommandsIInv, CommandTypes
<1>5. CASE disk[r] = call[c].seen /\ Idle(c)
  <2>1. Locks'
    BY <1>1, <1>2, <1>5, NoCallTyped, LocksStay DEF Idle
  <2>2. manifest[r] = disk[r]
    <3>1. disk[r].stamp \in Nat /\ manifest[r].stamp \in Nat /\ Past(manifest[r], r)
      BY <1>3 DEF CommandsIInv, CommandTypes, Listing, DiskOrdered
    <3> QED
      BY <1>3, <1>5, <3>1 DEF Past
  <2> QED
    BY <1>1, <1>2, <1>4, <1>5, <2>1, <2>2, IdleStep
<1>6. CASE call' = [call EXCEPT ![c] = new]
  <2>1. /\ new \in Call /\ new.step = "refreshing" /\ new.target = call[c].target /\ new.runtime = r
    BY <1>1 DEF Call, CommandSteps
  <2> HIDE DEF new
  <2>2. call'[c] = new
    BY <1>6 DEF CommandsIInv, CommandTypes
  <2>3. CallFits(c)' /\ RouteFits(c)'
    BY <1>3, <2>1, <2>2 DEF CallFits, RouteFits
  <2>4. Locks'
    BY <1>1, <1>2, <1>6, <2>1, LocksStay
  <2>5. Noticed'
    BY <1>1, <1>2, <1>4, <1>6, <2>1, KeepsNoticing DEF CommandsIInv, Active
  <2> QED
    BY <1>2, <1>4, <1>6, <2>1, <2>3, <2>4, <2>5, CallStep
<1> QED
  BY <1>5, <1>6 DEF Return

LEMMA RescanKeeps ==
    ASSUME CommandsIInv, NEW c \in Caller, Rescan(c), UNCHANGED edit
    PROVE  CommandsIInv'
<1> DEFINE r == call[c].runtime
           scan == [manifest EXCEPT ![r] = disk[r]]
           new == [NoCall EXCEPT !.step = "publishing", !.runtime = r, !.scan = scan]
<1>1. call[c] \in Call /\ call[c].step = "refreshing" /\ CallFits(c)
  BY DEF CommandsIInv, CommandTypes, Rescan
<1>2. UNCHANGED <<disk, manifest, index, writes>>
  BY DEF Rescan
<1>3. r \in Runtime
  BY <1>1 DEF CallFits
<1>4. CASE registry_lock # None /\ Idle(c) /\ Misses(c) /\ UNCHANGED registry_lock
  <2>1. Locks'
    BY <1>1, <1>4, NoCallTyped, LocksStay DEF Idle
  <2>2. missed \subseteq missed' /\ missed' \subseteq Runtime
    BY <1>4 DEF Misses, CommandsIInv, CommandTypes
  <2>3. r \notin missed' => manifest[r] = disk[r]
    BY <1>3, <1>4 DEF Misses
  <2> QED
    BY <1>2, <1>4, <2>1, <2>2, <2>3, IdleStep
<1>5. CASE /\ registry_lock = None /\ registry_lock' = c /\ call' = [call EXCEPT ![c] = new]
           /\ UNCHANGED missed
  <2>1. scan \in [Runtime -> Listing] /\ scan[r] = disk[r] /\ \A s \in Runtime \ {r} : scan[s] = manifest[s]
    BY <1>3 DEF CommandsIInv, CommandTypes
  <2> HIDE DEF scan
  <2>2. /\ new \in Call /\ new.step = "publishing" /\ new.runtime = r /\ new.scan = scan
    BY <1>1, <2>1, NoCallTyped DEF Call, CommandSteps
  <2> HIDE DEF new
  <2>3. call'[c] = new
    BY <1>5 DEF CommandsIInv, CommandTypes
  <2>4. \A s \in Runtime : Past(scan[s], s) /\ manifest[s].stamp <= scan[s].stamp
    <3> TAKE s \in Runtime
    <3>1. disk[s].stamp \in Nat /\ manifest[s].stamp \in Nat /\ Past(manifest[s], s)
      BY DEF CommandsIInv, CommandTypes, Listing, DiskOrdered
    <3>2. scan[s] = disk[s] \/ scan[s] = manifest[s]
      BY <2>1
    <3> QED
      BY <3>1, <3>2 DEF Past
  <2>5. CallFits(c)' /\ RouteFits(c)'
    BY <1>2, <2>1, <2>2, <2>3, <2>4 DEF CallFits, RouteFits, Past
  <2>6. Locks'
    BY <1>5, <2>2, LocksTaken
  <2>7. \A d \in Caller : call[d].step # "publishing"
    BY <1>5, CommandsAssumption DEF CommandsIInv, Locks
  <2>8. ASSUME NEW s \in Runtime \ missed', new.scan[s] # disk[s]
        PROVE  \E d \in Caller \ {c} : call[d].runtime = s /\ call[d].step \in {"running", "refreshing"}
    <3>1. s # r /\ manifest[s] # disk[s] /\ s \notin missed
      BY <1>5, <2>1, <2>2, <2>8
    <3>2. PICK d \in Caller : call[d].runtime = s /\ call[d].step \in Active
      BY <3>1 DEF CommandsIInv, Noticed
    <3> QED
      BY <2>7, <3>1, <3>2 DEF Active
  <2>9. missed \subseteq missed' /\ missed' \subseteq Runtime
    BY <1>5 DEF CommandsIInv, CommandTypes
  <2>10. CommandTypes /\ DiskOrdered /\ Noticed /\ \A d \in Caller : CallFits(d)
    BY DEF CommandsIInv
  <2>11. /\ new \in Call /\ call' = [call EXCEPT ![c] = new]
         /\ new.runtime = call[c].runtime /\ new.step \in Active
    BY <1>5, <2>2 DEF Active
  <2> HIDE DEF r
  <2>12. Noticed'
    <3>1. \A s \in Runtime \ missed' :
            call[c].runtime = s /\ call[c].step \in Active /\ manifest[s] # disk[s] =>
              new.runtime = s /\ new.step \in Active
      BY <2>11
    <3>2. \A s \in Runtime \ missed' : new.scan[s] # disk[s] =>
            \E d \in Caller \ {c} : call[d].runtime = s /\ call[d].step \in {"running", "refreshing"}
      BY <2>8
    <3>3. new \in Call /\ call' = [call EXCEPT ![c] = new]
      BY <2>11
    <3> QED
      BY <1>2, <2>7, <2>9, <2>10, <3>1, <3>2, <3>3, KeepsNoticing
  <2> QED
    BY <1>2, <1>5, <2>2, <2>5, <2>6, <2>9, <2>12, CallStep
<1> QED
  BY <1>4, <1>5 DEF Rescan

LEMMA RehashKeeps ==
    ASSUME CommandsIInv, NEW c \in Caller, Rehash(c), UNCHANGED edit
    PROVE  CommandsIInv'
<1>1. call[c].step = "idle" /\ registry_lock = None /\ registry_lock' = c
  BY DEF Rehash
<1>2. UNCHANGED <<disk, manifest, index, writes, missed>>
  BY DEF Rehash
<1>3. PICK chosen \in {{r} : r \in Runtime} \cup {Runtime} :
        call' = [call EXCEPT ![c] = [NoCall EXCEPT !.step = "publishing",
                   !.scan = [r \in Runtime |-> IF r \in chosen THEN disk[r] ELSE manifest[r]]]]
  BY DEF Rehash
<1> DEFINE scan == [r \in Runtime |-> IF r \in chosen THEN disk[r] ELSE manifest[r]]
           new == [NoCall EXCEPT !.step = "publishing", !.scan = scan]
<1>4. scan \in [Runtime -> Listing] /\ \A s \in Runtime : scan[s] = disk[s] \/ scan[s] = manifest[s]
  BY DEF CommandsIInv, CommandTypes
<1>5. call' = [call EXCEPT ![c] = new]
  BY <1>3
<1> HIDE DEF scan
<1>6. /\ new \in Call /\ new.step = "publishing" /\ new.runtime = None /\ new.scan = scan
  BY <1>4, NoCallTyped DEF Call, CommandSteps
<1> HIDE DEF new
<1>7. call'[c] = new
  BY <1>5 DEF CommandsIInv, CommandTypes
<1>8. \A s \in Runtime : Past(scan[s], s) /\ manifest[s].stamp <= scan[s].stamp
  <2> TAKE s \in Runtime
  <2>1. disk[s].stamp \in Nat /\ manifest[s].stamp \in Nat /\ Past(manifest[s], s)
    BY DEF CommandsIInv, CommandTypes, Listing, DiskOrdered
  <2> QED
    BY <1>4, <2>1 DEF Past
<1>9. CallFits(c)' /\ RouteFits(c)'
  BY <1>2, <1>4, <1>6, <1>7, <1>8 DEF CallFits, RouteFits, Past
<1>10. Locks'
  BY <1>1, <1>5, <1>6, LocksTaken
<1>11. \A d \in Caller : call[d].step # "publishing"
  BY <1>1, CommandsAssumption DEF CommandsIInv, Locks
<1>12. ASSUME NEW s \in Runtime \ missed', new.scan[s] # disk[s]
       PROVE  \E d \in Caller \ {c} : call[d].runtime = s /\ call[d].step \in {"running", "refreshing"}
  <2>1. manifest[s] # disk[s] /\ s \notin missed
    BY <1>2, <1>4, <1>6, <1>12
  <2>2. PICK d \in Caller : call[d].runtime = s /\ call[d].step \in Active
    BY <2>1 DEF CommandsIInv, Noticed
  <2> QED
    BY <1>1, <1>11, <2>2 DEF Active
<1>13. missed \subseteq missed' /\ missed' \subseteq Runtime
  BY <1>2 DEF CommandsIInv, CommandTypes
<1>14. CommandTypes /\ DiskOrdered /\ Noticed /\ \A d \in Caller : CallFits(d)
  BY DEF CommandsIInv
<1>15. call[c].step \notin Active
  BY <1>1 DEF Active
<1>16. Noticed'
  BY <1>2, <1>5, <1>6, <1>11, <1>12, <1>13, <1>14, <1>15, KeepsNoticing
<1> QED
  BY <1>2, <1>5, <1>6, <1>9, <1>10, <1>13, <1>16, CallStep

LEMMA DiesKeeps ==
    ASSUME CommandsIInv, NEW c \in Caller, Dies(c), UNCHANGED edit
    PROVE  CommandsIInv'
<1>1. Locks'
  BY NoCallTyped, LocksGiven DEF Dies, Idle
<1>2. missed \subseteq missed' /\ missed' \subseteq Runtime
  BY DEF Dies, Misses, CommandsIInv, CommandTypes
<1>3. \A r \in Runtime \ missed' : call[c].runtime = r => manifest[r] = disk[r]
  BY DEF Dies, Misses
<1> QED
  BY <1>1, <1>2, <1>3, IdleStep DEF Dies

LEMMA PublishKeeps ==
    ASSUME CommandsIInv, NEW c \in Caller, Publish(c), UNCHANGED edit
    PROVE  CommandsIInv'
<1> DEFINE scan == call[c].scan
<1>1. call[c].step = "publishing" /\ CallFits(c) /\ registry_lock = c /\ registry_lock' = None
  BY DEF CommandsIInv, CommandTypes, Publish, Locks
<1>2. UNCHANGED <<disk, writes>>
  BY DEF Publish
<1>3. CASE Conflict(scan) /\ Idle(c) /\ Misses(c) /\ UNCHANGED <<manifest, index>>
  <2>1. Locks'
    BY <1>1, <1>3, NoCallTyped, LocksGiven DEF Idle
  <2>2. missed \subseteq missed' /\ missed' \subseteq Runtime
    BY <1>3 DEF Misses, CommandsIInv, CommandTypes
  <2>3. \A r \in Runtime \ missed' : call[c].runtime = r => manifest[r] = disk[r]
    BY <1>3 DEF Misses
  <2> QED
    BY <1>2, <1>3, <2>1, <2>2, <2>3, IdleStep
<1>4. CASE /\ ~Conflict(scan) /\ manifest' = scan /\ index' = Index(scan)
           /\ missed' = {r \in missed : scan[r] # disk[r]}
           /\ call' = [d \in Caller |-> IF d = c \/ call[d] = NoCall THEN NoCall
                                        ELSE [call[d] EXCEPT !.fresh = FALSE]]
  <2>1. /\ scan \in [Runtime -> Listing]
        /\ \A r \in Runtime : Past(scan[r], r) /\ manifest[r].stamp <= scan[r].stamp
    BY <1>1 DEF CallFits
  <2>2. ASSUME NEW d \in Caller
        PROVE  /\ call'[d] \in Call
               /\ \/ d = c /\ call'[d] = NoCall
                  \/ /\ d # c /\ call'[d].step = call[d].step /\ call'[d].runtime = call[d].runtime
                     /\ call'[d].target = call[d].target /\ call'[d].seen = call[d].seen
                     /\ \/ call[d] = NoCall /\ call'[d] = NoCall
                        \/ call'[d].fresh = FALSE
    <3>1. call[d] \in Call
      BY DEF CommandsIInv, CommandTypes
    <3>2. CASE d = c \/ call[d] = NoCall
      <4>1. call'[d] = NoCall
        BY <1>4, <3>2
      <4> QED
        BY <3>2, <4>1, NoCallTyped
    <3>3. CASE ~(d = c \/ call[d] = NoCall)
      <4> DEFINE new == [call[d] EXCEPT !.fresh = FALSE]
      <4>1. call'[d] = new
        BY <1>4, <3>3
      <4>2. /\ new \in Call /\ new.step = call[d].step /\ new.runtime = call[d].runtime
            /\ new.target = call[d].target /\ new.seen = call[d].seen /\ new.fresh = FALSE
        BY <3>1 DEF Call
      <4> HIDE DEF new
      <4> QED
        BY <3>3, <4>1, <4>2
    <3> QED
      BY <3>2, <3>3
  <2>3. call' \in [Caller -> Call]
    BY <1>4, <2>2
  <2>4. CommandTypes'
    BY <1>2, <1>4, <2>1, <2>3 DEF CommandsIInv, CommandTypes
  <2>5. \A d \in Caller : d # c => call[d].step # "publishing"
    BY <1>1 DEF CommandsIInv, Locks
  <2>6. \A d \in Caller : call'[d].step # "publishing"
    BY <2>2, <2>5, NoCallTyped
  <2>7. Locks'
    <3>1. \A e \in Editor : e # c /\ e # None
      BY SelectionAssumption, SettingsAssumption
    <3> QED
      BY <1>1, <2>6, <3>1, CommandsAssumption DEF CommandsIInv, Locks
  <2>8. DiskOrdered' /\ Routed'
    BY <1>2, <1>4, <2>1 DEF CommandsIInv, DiskOrdered, Routed, Past
  <2>9. Noticed'
    <3>1. ASSUME NEW r \in Runtime \ missed', scan[r] # disk[r]
          PROVE  \E d \in Caller : call'[d].runtime = r /\ call'[d].step \in Active
      <4>1. r \notin missed
        BY <1>4, <3>1
      <4>2. PICK d \in Caller : call[d].runtime = r /\ call[d].step \in {"running", "refreshing"}
        BY <1>1, <3>1, <4>1 DEF CommandsIInv, Noticed, Attended
      <4> QED
        BY <1>1, <2>2, <4>2 DEF Active
    <3> QED
      BY <1>2, <1>4, <2>6, <3>1 DEF Noticed
  <2>10. ASSUME NEW d \in Caller PROVE CallFits(d)' /\ RouteFits(d)'
    <3>1. CASE call'[d] = NoCall
      BY <3>1, NoCallTyped DEF CallFits, RouteFits
    <3>2. CASE call'[d] # NoCall
      <4>1. /\ d # c /\ call'[d].step = call[d].step /\ call'[d].runtime = call[d].runtime
            /\ call'[d].target = call[d].target /\ call'[d].seen = call[d].seen
            /\ call'[d].fresh = FALSE
        BY <2>2, <3>2
      <4>2. CallFits(d) /\ call[d] \in Call
        BY DEF CommandsIInv, CommandTypes
      <4>3. ASSUME call[d].step = "running" PROVE call[d].seen.stamp <= scan[call[d].runtime].stamp
        <5> DEFINE r == call[d].runtime
        <5>1. r \in Runtime /\ call[d].seen.stamp <= manifest[r].stamp
          BY <4>2, <4>3 DEF CallFits
        <5>2. /\ manifest[r].stamp \in Nat /\ scan[r].stamp \in Nat /\ call[d].seen.stamp \in Nat
              /\ manifest[r].stamp <= scan[r].stamp
          BY <2>1, <4>2, <5>1 DEF CommandsIInv, CommandTypes, Listing, Call
        <5> HIDE DEF r, scan
        <5> QED
          BY <5>1, <5>2 DEF r
      <4> HIDE DEF scan
      <4> QED
        BY <1>4, <2>6, <4>1, <4>2, <4>3 DEF CallFits, RouteFits
    <3> QED
      BY <3>1, <3>2
  <2> QED
    BY <2>4, <2>7, <2>8, <2>9, <2>10 DEF CommandsIInv
<1> QED
  BY <1>3, <1>4 DEF Publish

-----------------------------------------------------------------------------
(* Steps that change the directories of a runtime *)

\* A directory that changed bears a new stamp, and has one file of a name.
LEMMA ChangedIs ==
    ASSUME CommandTypes, DiskOrdered, NEW r \in Runtime, Changed(r)
    PROVE  /\ disk' \in [Runtime -> Listing] /\ writes' \in 0..MaxWrites /\ writes' = writes + 1
           /\ \A s \in Runtime \ {r} : disk'[s] = disk[s]
           /\ disk'[r].stamp = writes'
           /\ \A f, g \in disk'[r].files : SameName(f, g) => f = g
<1>1. /\ disk \in [Runtime -> Listing] /\ disk[r] \in Listing /\ disk[r].files \in SUBSET Program
      /\ writes \in 0..MaxWrites /\ MaxWrites \in Nat
  BY CommandsAssumption DEF CommandTypes, Listing
<1>2. \A f, g \in disk[r].files : SameName(f, g) => f = g
  BY DEF DiskOrdered
<1>3. writes' = writes + 1 /\ writes' \in 0..MaxWrites /\ writes + 1 \in Nat
  BY <1>1 DEF Changed
<1> DEFINE Lists(files) ==
             /\ disk' = [disk EXCEPT ![r] = [files |-> files, stamp |-> writes + 1]]
             /\ \A f, g \in files : SameName(f, g) => f = g
<1>4. \E files \in SUBSET Program : Lists(files)
  <2>1. ASSUME NEW f \in Programs,
               disk' = [disk EXCEPT ![r] =
                 [files |-> (@.files \ {g \in disk[r].files : SameName(f, g)}) \cup {[f EXCEPT !.at = @ + writes + 1]},
                  stamp |-> writes + 1]]
        PROVE  \E files \in SUBSET Program : Lists(files)
    <3> DEFINE new == [f EXCEPT !.at = @ + writes + 1]
               files == (disk[r].files \ {g \in disk[r].files : SameName(f, g)}) \cup {new}
    <3>1. f \in Program /\ f.at \in Nat
      BY ProgramsTyped DEF Program
    <3>2. new \in Program /\ new.dir = f.dir /\ new.stem = f.stem /\ new.ext = f.ext
      BY <1>1, <3>1 DEF Program
    <3>3. disk' = [disk EXCEPT ![r] = [files |-> files, stamp |-> writes + 1]]
      BY <2>1
    <3> HIDE DEF new
    <3>4. files \in SUBSET Program
      BY <1>1, <3>2
    <3>5. \A g, h \in files : SameName(g, h) => g = h
      BY <1>2, <3>2 DEF SameName
    <3> HIDE DEF files
    <3> QED
      BY <3>3, <3>4, <3>5
  <2>2. ASSUME NEW f \in disk[r].files,
               disk' = [disk EXCEPT ![r] = [files |-> @.files \ {f}, stamp |-> writes + 1]]
        PROVE  \E files \in SUBSET Program : Lists(files)
    <3> DEFINE files == disk[r].files \ {f}
    <3>1. disk' = [disk EXCEPT ![r] = [files |-> files, stamp |-> writes + 1]]
      BY <2>2
    <3>2. files \in SUBSET Program /\ \A g, h \in files : SameName(g, h) => g = h
      BY <1>1, <1>2
    <3> HIDE DEF files
    <3> QED
      BY <3>1, <3>2
  <2> QED
    BY <2>1, <2>2 DEF Changed
<1>5. PICK files \in SUBSET Program :
        /\ disk' = [disk EXCEPT ![r] = [files |-> files, stamp |-> writes + 1]]
        /\ \A f, g \in files : SameName(f, g) => f = g
  BY <1>4
<1> DEFINE listing == [files |-> files, stamp |-> writes + 1]
<1>6. listing \in Listing /\ listing.files = files /\ listing.stamp = writes + 1
  BY <1>3 DEF Listing
<1>7. disk' = [disk EXCEPT ![r] = listing]
  BY <1>5
<1> HIDE DEF listing
<1> QED
  BY <1>1, <1>3, <1>5, <1>6, <1>7

LEMMA ChangeKeeps ==
    ASSUME CommandsIInv, NEW r \in Runtime, Changed(r), UNCHANGED edit,
           missed' \subseteq Runtime, missed \subseteq missed', missed' \subseteq missed \cup {r},
           r \in missed' \/ Attended(r)
    PROVE  CommandsIInv'
<1>1. UNCHANGED <<registry_lock, manifest, index, call>>
  BY DEF Changed
<1>2. /\ disk' \in [Runtime -> Listing] /\ writes' \in 0..MaxWrites /\ writes' = writes + 1
      /\ \A s \in Runtime \ {r} : disk'[s] = disk[s]
      /\ disk'[r].stamp = writes'
      /\ \A f, g \in disk'[r].files : SameName(f, g) => f = g
  BY ChangedIs DEF CommandsIInv
<1>3. CommandTypes'
  BY <1>1, <1>2 DEF CommandsIInv, CommandTypes
<1>4. Locks' /\ Routed'
  BY <1>1 DEF CommandsIInv, Locks, Routed
<1>5. ASSUME NEW s \in Runtime, NEW x \in Listing, Past(x, s)
      PROVE  Past(x, s)'
  <2>1. x.stamp \in Nat /\ disk[s].stamp \in Nat /\ disk[s].stamp <= writes /\ writes \in Nat
    BY DEF CommandsIInv, CommandTypes, Listing, DiskOrdered
  <2>2. CASE s = r
    BY <1>2, <1>5, <2>1, <2>2 DEF Past
  <2>3. CASE s # r
    BY <1>2, <1>5, <2>3 DEF Past
  <2> QED
    BY <2>2, <2>3
<1>6. DiskOrdered'
  <2> SUFFICES ASSUME NEW s \in Runtime
               PROVE  /\ disk'[s].stamp <= writes' /\ Past(manifest[s], s)'
                      /\ \A f, g \in disk'[s].files : SameName(f, g) => f = g
    BY DEF DiskOrdered
  <2>1. Past(manifest[s], s) /\ manifest[s] \in Listing
    BY DEF CommandsIInv, CommandTypes, DiskOrdered
  <2>2. Past(manifest[s], s)'
    BY <1>1, <1>5, <2>1 DEF Past
  <2>3. disk[s].stamp \in Nat /\ disk[s].stamp <= writes /\ writes \in Nat
    BY DEF CommandsIInv, CommandTypes, Listing, DiskOrdered
  <2>4. disk'[s].stamp <= writes'
    BY <1>2, <2>3
  <2>5. \A f, g \in disk'[s].files : SameName(f, g) => f = g
    BY <1>2 DEF CommandsIInv, DiskOrdered
  <2> QED
    BY <2>2, <2>4, <2>5
<1>7. Noticed'
  BY <1>1, <1>2 DEF CommandsIInv, Noticed, Attended, Active
<1>8. ASSUME NEW c \in Caller PROVE CallFits(c)' /\ RouteFits(c)'
  <2>1. CallFits(c) /\ RouteFits(c)
    BY DEF CommandsIInv
  <2>2. RouteFits(c)'
    BY <1>1, <2>1 DEF RouteFits
  <2>3. ASSUME call[c].step = "publishing", NEW s \in Runtime
        PROVE  Past(call[c].scan[s], s)'
    <3>1. call[c].scan[s] \in Listing /\ Past(call[c].scan[s], s)
      BY <2>1, <2>3 DEF CallFits
    <3> QED
      BY <1>1, <1>5, <3>1 DEF Past
  <2>4. CallFits(c)'
    BY <1>1, <2>1, <2>3 DEF CallFits
  <2> QED
    BY <2>2, <2>4
<1> QED
  BY <1>3, <1>4, <1>6, <1>7, <1>8 DEF CommandsIInv

LEMMA WorkKeeps ==
    ASSUME CommandsIInv, NEW c \in Caller, Work(c), UNCHANGED edit
    PROVE  CommandsIInv'
<1>1. call[c].step = "running" /\ Changed(call[c].runtime) /\ UNCHANGED missed
  BY DEF Work
<1>2. call[c].runtime \in Runtime
  BY <1>1 DEF CommandsIInv, CallFits
<1>3. Attended(call[c].runtime)
  BY <1>1 DEF Attended
<1> QED
  BY <1>1, <1>2, <1>3, ChangeKeeps DEF CommandsIInv, CommandTypes

LEMMA CopiesKeeps ==
    ASSUME CommandsIInv, NEW r \in Runtime, Copies(r), UNCHANGED edit
    PROVE  CommandsIInv'
  BY ChangeKeeps DEF Copies, CommandsIInv, CommandTypes

-----------------------------------------------------------------------------
(* Steps of other commands *)

\* A step that takes and gives back no lock of a command.
LEMMA StutterCommands ==
    ASSUME CommandsIInv, UNCHANGED commandVars, Locks'
    PROVE  CommandsIInv'
<1>1. CommandTypes' /\ DiskOrdered' /\ Noticed' /\ Routed'
  BY DEF commandVars, CommandsIInv, CommandTypes, DiskOrdered, Past, Noticed, Attended, Routed
<1>2. \A c \in Caller : CallFits(c)' /\ RouteFits(c)'
  BY DEF commandVars, CommandsIInv, CallFits, RouteFits, Past
<1> QED
  BY <1>1, <1>2 DEF CommandsIInv

LEMMA EditLocks ==
    ASSUME SettingsIInv, CommandsIInv, SettingsNext, UNCHANGED commandVars
    PROVE  Locks'
<1>1. PICK e \in Editor :
        \/ Load(e) \/ ReadConfig(e) \/ TakeRegistry(e) \/ WriteBackup(e) \/ WriteConfig(e) \/ StopEdit(e)
  BY DEF SettingsNext
<1>2. /\ e # None /\ None \notin Caller /\ e \notin Caller /\ edit[e] \in Edit
      /\ edit \in [Editor -> Edit] /\ Locks
      /\ NoEdit \in Edit /\ NoEdit.step = "idle"
  BY SettingsAssumption, CommandsAssumption, SelectionAssumption, NoEditTyped
  DEF CommandsIInv, SettingsIInv, SettingsTypes, NoEdit
<1>3. UNCHANGED call
  BY DEF commandVars
<1>4. ASSUME NEW new, edit' = [edit EXCEPT ![e] = new], UNCHANGED registry_lock,
             new.step \in {"backing", "writing"} <=> edit[e].step \in {"backing", "writing"}
      PROVE  Locks'
  BY <1>2, <1>3, <1>4 DEF Locks
<1>5. CASE Load(e)
  <2>1. PICK effective, checked :
          edit' = [edit EXCEPT ![e] = [NoEdit EXCEPT !.step = "loaded", !.effective = effective, !.checked = checked]]
    BY <1>5 DEF Load
  <2> DEFINE new == [NoEdit EXCEPT !.step = "loaded", !.effective = effective, !.checked = checked]
  <2>2. new.step = "loaded"
    BY <1>2 DEF Edit
  <2>3. edit' = [edit EXCEPT ![e] = new] /\ edit[e].step = "idle" /\ UNCHANGED registry_lock
    BY <1>5, <2>1 DEF Load
  <2> HIDE DEF new
  <2> QED
    BY <1>4, <2>2, <2>3
<1>6. CASE ReadConfig(e)
  <2> DEFINE new == [edit[e] EXCEPT !.step = "read", !.document = config]
  <2>1. new.step = "read"
    BY <1>2 DEF Edit
  <2>2. edit' = [edit EXCEPT ![e] = new] /\ edit[e].step = "loaded" /\ UNCHANGED registry_lock
    BY <1>6 DEF ReadConfig
  <2> HIDE DEF new
  <2> QED
    BY <1>4, <2>1, <2>2
<1>7. CASE TakeRegistry(e)
  <2>1. edit[e].step = "read"
    BY <1>7 DEF TakeRegistry
  <2>2. CASE edit' = [edit EXCEPT ![e] = NoEdit] /\ UNCHANGED registry_lock
    BY <1>2, <1>4, <2>1, <2>2
  <2>3. ASSUME NEW document, NEW checked, registry_lock = None, registry_lock' = e,
               edit' = [edit EXCEPT ![e] = [edit[e] EXCEPT !.step = "backing", !.effective = Default,
                          !.document = document, !.checked = checked]]
        PROVE  Locks'
    <3> DEFINE new == [edit[e] EXCEPT !.step = "backing", !.effective = Default,
                         !.document = document, !.checked = checked]
    <3>1. new.step = "backing"
      BY <1>2 DEF Edit
    <3>2. edit' = [edit EXCEPT ![e] = new]
      BY <2>3
    <3> HIDE DEF new
    <3>3. edit'[e] = new /\ \A f \in Editor \ {e} : edit'[f] = edit[f]
      BY <1>2, <3>2
    <3>4. \A f \in Editor : edit[f].step \notin {"backing", "writing"}
      BY <1>2, <2>3, SettingsAssumption DEF Locks
    <3>5. \A c \in Caller : call[c].step # "publishing" /\ c # e
      BY <1>2, <2>3 DEF Locks
    <3> QED
      BY <1>3, <2>3, <3>1, <3>3, <3>4, <3>5 DEF Locks
  <2> QED
    BY <1>7, <2>2, <2>3 DEF TakeRegistry
<1>8. CASE WriteBackup(e)
  <2> DEFINE new == [edit[e] EXCEPT !.step = "writing"]
  <2>1. new.step = "writing"
    BY <1>2 DEF Edit
  <2>2. edit' = [edit EXCEPT ![e] = new] /\ edit[e].step = "backing" /\ UNCHANGED registry_lock
    BY <1>8 DEF WriteBackup
  <2> HIDE DEF new
  <2> QED
    BY <1>4, <2>1, <2>2
<1>9. CASE WriteConfig(e)
  <2>1. registry_lock = e /\ registry_lock' = None
    BY <1>2, <1>9 DEF WriteConfig, Locks
  <2>2. \A f \in Editor : f # e => edit[f].step \notin {"backing", "writing"}
    BY <1>2, <2>1 DEF Locks
  <2>3. ASSUME NEW f \in Editor PROVE edit'[f].step \notin {"backing", "writing"}
    <3>1. edit[f] \in Edit
      BY <1>2
    <3>2. edit'[f] = NoEdit \/ (f # e /\ edit'[f] = [edit[f] EXCEPT !.stale = TRUE])
      BY <1>9 DEF WriteConfig
    <3>3. [edit[f] EXCEPT !.stale = TRUE].step = edit[f].step
      BY <3>1 DEF Edit
    <3> QED
      BY <1>2, <2>2, <3>2, <3>3
  <2>4. \A f \in Editor : f # None
    BY SettingsAssumption
  <2>5. \A c \in Caller : call[c].step # "publishing" /\ c # None
    BY <1>2, <2>1 DEF Locks
  <2> QED
    BY <1>3, <2>1, <2>3, <2>4, <2>5 DEF Locks
<1>10. CASE StopEdit(e)
  <2>1. /\ edit' = [edit EXCEPT ![e] = NoEdit]
        /\ registry_lock' = IF registry_lock = e THEN None ELSE registry_lock
    BY <1>10 DEF StopEdit
  <2>2. \A f \in Editor : f # None
    BY SettingsAssumption
  <2> QED
    BY <1>2, <1>3, <2>1, <2>2 DEF Locks
<1> QED
  BY <1>1, <1>5, <1>6, <1>7, <1>8, <1>9, <1>10

\* Only commands of runtimes, rehash and outsiders change what this module is about.
LEMMA CommandsAlone ==
    ASSUME Next
    PROVE  \/ CommandsNext /\ UNCHANGED settingVars
           \/ SettingsNext /\ UNCHANGED commandVars
           \/ UNCHANGED <<registry_lock, settingVars, commandVars>>
<1> DEFINE Same == UNCHANGED <<registry_lock, settingVars, commandVars>>
<1>1. ASSUME NEW q \in Pid, Spawn(q) \/ Exit(q) \/ Start(q) PROVE Same
  BY <1>1 DEF Spawn, Exit, Start, others
<1>2. ASSUME NEW q \in Pid, Step(q) PROVE Same
  BY <1>2 DEF Step, Snapshot, Walk, Validate, ReadSession, Resolve, Search, Finish, Write,
              CheckFile, RemoveFile, Keeps, others
<1>3. ASSUME Tick PROVE Same
  BY <1>3 DEF Tick, others
<1>4. ASSUME Register \/ Unregister \/ Breaks \/ Spoil PROVE Same
  BY <1>4 DEF Register, Unregister, Breaks, Spoil, Changes, others
<1> QED
  BY <1>1, <1>2, <1>3, <1>4 DEF Next

LEMMA CommandsStep == SettingsIInv /\ CommandsIInv /\ [Next]_vars => CommandsIInv'
<1> SUFFICES ASSUME SettingsIInv, CommandsIInv, [Next]_vars PROVE CommandsIInv'
  OBVIOUS
<1>1. CASE CommandsNext /\ UNCHANGED settingVars
  <2>1. UNCHANGED edit
    BY <1>1 DEF settingVars
  <2>2. ASSUME NEW c \in Caller, Prepare(c) \/ Work(c) \/ Return(c) \/ Rescan(c) \/ Rehash(c)
                                \/ Publish(c) \/ Dies(c)
        PROVE  CommandsIInv'
    BY <2>1, <2>2, PrepareKeeps, WorkKeeps, ReturnKeeps, RescanKeeps, RehashKeeps, PublishKeeps, DiesKeeps
  <2>3. ASSUME NEW c \in Caller, NEW name \in DOMAIN index, NEW r \in Runtime, Type(c, name, r)
        PROVE  CommandsIInv'
    BY <2>1, <2>3, TypeKeeps
  <2>4. ASSUME NEW r \in Runtime, Copies(r) PROVE CommandsIInv'
    BY <2>1, <2>4, CopiesKeeps
  <2> QED
    BY <1>1, <2>2, <2>3, <2>4 DEF CommandsNext
<1>2. CASE SettingsNext /\ UNCHANGED commandVars
  BY <1>2, EditLocks, StutterCommands
<1>3. CASE UNCHANGED <<registry_lock, settingVars, commandVars>>
  <2>1. Locks'
    BY <1>3 DEF settingVars, commandVars, CommandsIInv, Locks
  <2> QED
    BY <1>3, <2>1, StutterCommands
<1>4. CASE UNCHANGED vars
  BY <1>3, <1>4 DEF vars, others
<1> QED
  BY <1>1, <1>2, <1>3, <1>4, CommandsAlone

\* The inductive invariant of command routing: one process at most has the registry's
\* lock, a listing of a directory bears the stamp of what it lists, what the registry
\* does not have of a runtime somebody will still compare, and the shims in the
\* registry are the plan of its inventories (router.rs:206-239, publication.rs:51-175).
THEOREM CommandsHold == Spec => []CommandsIInv
  BY InitialCommands, CommandsStep, SettingsHold, PTL DEF Spec

\* However many programs install commands at once, end in any order and refresh under
\* the lock, once they have ended the registry has what is on disk, unless a refresh
\* failed or an outsider wrote (router.rs:206-241).
THEOREM AlwaysFreshWhenQuiet == Spec => []FreshWhenQuiet
<1>1. CommandsIInv => FreshWhenQuiet
  BY DEF CommandsIInv, Noticed, FreshWhenQuiet, Active
<1> QED
  BY <1>1, CommandsHold, PTL

\* Of one name, the shim that was started and the request it stands for lead to one
\* program, of the shim's subsystem (publication.rs:51-104, manifest.rs:149-224).
THEOREM AlwaysTypedIsRun == Spec => []TypedIsRun
<1>1. CommandsIInv => TypedIsRun
  <2> SUFFICES ASSUME CommandsIInv, NEW c \in Caller, call[c].step = "running", call[c].fresh,
                      NEW t \in call[c].target
               PROVE  /\ (t.kind = "gui") = call[c].gui
                      /\ \A q \in Offered(manifest) : FileName(q) = call[c].name =>
                           /\ t \in Asked(call[c].seen.files, q)
                           /\ \A f \in Asked(call[c].seen.files, q) : f = t \/ Before(t, f)
    BY DEF TypedIsRun
  <2> DEFINE r == call[c].runtime
             request == call[c].request
  <2>1. /\ r \in Runtime /\ request \in Offered(manifest) /\ FileName(request) = call[c].name
        /\ call[c].gui = (TRUE \in Subsystems(request, manifest))
        /\ call[c].seen = manifest[r] /\ t \in Available(manifest[r].files, request)
    BY DEF CommandsIInv, CallFits, RouteFits
  <2>2. ~Conflict(manifest)
    BY DEF CommandsIInv, Routed
  <2> HIDE DEF r, request
  <2>3. (t.kind = "gui") = call[c].gui
    <3>1. (t.kind = "gui") \in Subsystems(request, manifest)
      BY <2>1 DEF Subsystems
    <3>2. ~(Cardinality(Subsystems(request, manifest)) > 1)
      BY <2>1, <2>2 DEF Conflict
    <3>3. Subsystems(request, manifest) \subseteq {TRUE, FALSE}
      BY Zenon DEF Subsystems
    <3>4. ~(TRUE \in Subsystems(request, manifest) /\ FALSE \in Subsystems(request, manifest))
      BY <3>2, <3>3, TwoAreMany, Zenon
    <3>5. CASE t.kind = "gui"
      <4>1. (t.kind = "gui") = TRUE
        BY <3>5, Zenon
      <4>2. (TRUE \in Subsystems(request, manifest)) = TRUE
        BY <3>1, <4>1, Zenon
      <4> QED
        BY <2>1, <4>1, <4>2, Zenon
    <3>6. CASE t.kind # "gui"
      <4>1. (t.kind = "gui") = FALSE
        BY <3>6, Zenon
      <4>2. FALSE \in Subsystems(request, manifest)
        BY <3>1, <4>1, Zenon
      <4>3. (TRUE \in Subsystems(request, manifest)) = FALSE
        <5>1. ~(TRUE \in Subsystems(request, manifest))
          BY <3>4, <4>2
        <5> QED
          BY <5>1, NotIn, Zenon
      <4> QED
        BY <2>1, <4>1, <4>3, Zenon
    <3> QED
      BY <3>5, <3>6
  <2>4. ASSUME NEW q \in Offered(manifest), FileName(q) = call[c].name
        PROVE  /\ t \in Asked(call[c].seen.files, q)
               /\ \A f \in Asked(call[c].seen.files, q) : f = t \/ Before(t, f)
    <3>1. Equivalent(q, request, manifest)
      BY <2>1, <2>2, <2>4 DEF Conflict
    <3>2. t \in Winner(manifest[r].files, q)
      BY <2>1, <3>1 DEF Equivalent, Available
    <3> QED
      BY <2>1, <3>2 DEF Winner
  <2> QED
    BY <2>3, <2>4
<1> QED
  BY <1>1, CommandsHold, PTL
=============================================================================
