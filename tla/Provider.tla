------------------------------ MODULE Provider ------------------------------
(***************************************************************************)
(* The python.org provider: the signed release index with its cache        *)
(* (feed.rs), the resumable archive download (transfer.rs), extraction     *)
(* (archive.rs), and the commands that use or clear the caches             *)
(* (managed.rs).                                                           *)
(*                                                                         *)
(* Processes share two cache directories.  pythonorg-feed.lock and         *)
(* pythonorg-download.lock are try-locks: whoever finds one taken fails.   *)
(* The index and the archives on the server change at any time, answers    *)
(* may break off, lack an ETag or ignore a Range, and other programs may   *)
(* overwrite a cached archive.                                             *)
(***************************************************************************)
EXTENDS Naturals, Sequences, FiniteSets

CONSTANTS
    Proc,           \* PyRudder processes
    Page,           \* index pages, named by the key of their URL
    FirstPage,      \* the page of DEFAULT_INDEX_URL
    Version,        \* Python versions
    Body,           \* archive contents; a digest stands for the one it names
    Length,         \* blocks of each body
    MaxGeneration,  \* index generations the server publishes, at most
    Document,       \* the page a generation serves: its entries and its next page
    Elsewhere,      \* a link that leaves https://www.python.org/ftp/python/
    None,           \* no process, page, version, body
    MaxEvents       \* failures, server changes and interventions, at most

Generation == 1..MaxGeneration

Entry == [kind : {"artifact", "skipped", "invalid"}, version : Version, body : Body]

ASSUME ProviderAssumption ==
    /\ FirstPage \in Page /\ Cardinality(Page) < 16
    /\ Length \in [Body -> Nat \ {0}]
    /\ MaxGeneration \in Nat \ {0} /\ MaxEvents \in Nat
    /\ None \notin Proc \cup Page \cup Version \cup Body
    /\ Elsewhere \notin Page \cup {None}
    /\ \A g \in Generation, page \in Page :
         /\ Document[g][page].entries \subseteq Entry
         /\ Document[g][page].next \in Page \cup {None, Elsewhere}

VARIABLES
    served,         \* the generation of the index the server serves
    origin,         \* the body the URL of each version delivers
    index,          \* pythonorg-<page>.json: its generation, 0 when absent
    signature,      \* pythonorg-<page>.cat
    part,           \* <digest>.part: the blocks received, by body
    etag,           \* <digest>.etag: the body it was sent with
    target,         \* <digest>.zip: its blocks
    feed_lock, download_lock,
    pc, job,        \* what each process does, and with what
    loose,          \* ghost: partial downloads their tag does not vouch for
    events

cache == <<index, signature, part, etag, target>>
vars == <<served, origin, cache, feed_lock, download_lock, pc, job, loose, events>>

-----------------------------------------------------------------------------
(* Data. *)

Whole(body) == [i \in 1..Length[body] |-> body]

Corrupt == <<None>>     \* what another program left in a cached archive

Blocks == Seq(Body)

Job == [offline : BOOLEAN, page : Page \cup {None}, visited : SUBSET Page,
        generation : 0..MaxGeneration, found : SUBSET [version : Version, body : Body],
        version : Version \cup {None}, want : Body \cup {None},
        attempt : 0..3, sends : Body \cup {None}, start : 0..1]
NoJob == [offline |-> FALSE, page |-> None, visited |-> {}, generation |-> 0, found |-> {},
          version |-> None, want |-> None, attempt |-> 0, sends |-> None, start |-> 0]

Lists(g, version, body) ==
    \E page \in Page : [kind |-> "artifact", version |-> version, body |-> body]
                         \in Document[g][page].entries

Refreshing == {"page", "signing", "saving", "sealing", "reading"}
Downloading == {"connecting", "truncating", "tagging", "receiving", "verifying"}

TypeOK ==
    /\ served \in Generation
    /\ origin \in [Version -> Body]
    /\ index \in [Page -> 0..MaxGeneration] /\ signature \in [Page -> 0..MaxGeneration]
    /\ part \in [Body -> Blocks] /\ etag \in [Body -> Body \cup {None}]
    /\ target \in [Body -> Blocks \cup {Corrupt}]
    /\ feed_lock \in Proc \cup {None} /\ download_lock \in Proc \cup {None}
    /\ \A p \in Proc : (feed_lock = p) <=> (pc[p] \in Refreshing)
    /\ \A p \in Proc : (download_lock = p) <=> (pc[p] \in Downloading)
    /\ pc \in [Proc -> Refreshing \cup Downloading \cup {"idle", "selected", "cached", "unpacking"}]
    /\ job \in [Proc -> Job]
    /\ loose \subseteq Body /\ events \in 0..MaxEvents

Init ==
    /\ served = 1
    /\ origin \in {o \in [Version -> Body] : \A v \in Version, b \in Body : Lists(1, v, b) => o[v] = b}
    /\ index = [page \in Page |-> 0] /\ signature = [page \in Page |-> 0]
    /\ part = [d \in Body |-> <<>>] /\ etag = [d \in Body |-> None]
    /\ target = [d \in Body |-> <<>>]
    /\ feed_lock = None /\ download_lock = None
    /\ pc = [p \in Proc |-> "idle"] /\ job = [p \in Proc |-> NoJob]
    /\ loose = {} /\ events = 0

-----------------------------------------------------------------------------
(* The process. *)

server == <<served, origin>>
locks == <<feed_lock, download_lock>>

Happens == events < MaxEvents /\ events' = events + 1

Goes(p, step) == pc' = [pc EXCEPT ![p] = step] /\ UNCHANGED <<job, locks>>

GoesWith(p, step, what) ==
    pc' = [pc EXCEPT ![p] = step] /\ job' = [job EXCEPT ![p] = what] /\ UNCHANGED locks

\* The command ends, and its locks with it.
Ends(p) ==
    /\ pc' = [pc EXCEPT ![p] = "idle"] /\ job' = [job EXCEPT ![p] = NoJob]
    /\ feed_lock' = IF feed_lock = p THEN None ELSE feed_lock
    /\ download_lock' = IF download_lock = p THEN None ELSE download_lock

Fails(p) == Ends(p) /\ UNCHANGED <<server, cache, loose, events>>

-----------------------------------------------------------------------------
(* releases *)

\* Mutant: two refreshes at once.
BeginUnlocked(p, offline) ==
    /\ pc[p] = "idle"
    /\ feed_lock' = p
    /\ pc' = [pc EXCEPT ![p] = "page"]
    /\ job' = [job EXCEPT ![p] = [NoJob EXCEPT !.offline = offline, !.page = FirstPage]]
    /\ UNCHANGED <<server, cache, download_lock, loose, events>>

Begin(p, offline) ==
    /\ pc[p] = "idle" /\ feed_lock = None
    /\ feed_lock' = p
    /\ pc' = [pc EXCEPT ![p] = "page"]
    /\ job' = [job EXCEPT ![p] = [NoJob EXCEPT !.offline = offline, !.page = FirstPage]]
    /\ UNCHANGED <<server, cache, download_lock, loose, events>>

\* get_bytes of the page.  A page met before is a cycle.
FetchIndex(p) ==
    /\ pc[p] = "page" /\ ~job[p].offline
    /\ IF job[p].page \in job[p].visited THEN Ends(p)
       ELSE GoesWith(p, "signing", [job[p] EXCEPT !.generation = served,
                                                  !.visited = @ \cup {job[p].page}])
    /\ UNCHANGED <<server, cache, loose, events>>

\* get_bytes of the catalog, a request of its own, and verify_python_index on
\* staged copies.
FetchSignature(p) ==
    /\ pc[p] = "signing"
    /\ IF served = job[p].generation THEN Goes(p, "saving") ELSE Ends(p)
    /\ UNCHANGED <<server, cache, loose, events>>

SaveIndex(p) ==
    /\ pc[p] = "saving"
    /\ index' = [index EXCEPT ![job[p].page] = job[p].generation]
    /\ Goes(p, "sealing")
    /\ UNCHANGED <<server, signature, part, etag, target, loose, events>>

SaveSignature(p) ==
    /\ pc[p] = "sealing"
    /\ signature' = [signature EXCEPT ![job[p].page] = job[p].generation]
    /\ Goes(p, "reading")
    /\ UNCHANGED <<server, index, part, etag, target, loose, events>>

\* --offline: the cached pair, if it verifies.
ReadCached(p) ==
    LET page == job[p].page
    IN  /\ pc[p] = "page" /\ job[p].offline
        /\ IF page \notin job[p].visited /\ index[page] # 0 /\ index[page] = signature[page]
           THEN GoesWith(p, "reading", [job[p] EXCEPT !.generation = index[page],
                                                      !.visited = @ \cup {page}])
           ELSE Ends(p)
        /\ UNCHANGED <<server, cache, loose, events>>

\* convert: other products are skipped, an artifact PyRudder cannot trust ends it all.
Converts(entries) == \A e \in entries : e.kind # "invalid"
Converted(entries) ==
    {[version |-> e.version, body |-> e.body] : e \in {f \in entries : f.kind = "artifact"}}

Conflicting(found) == \E r, s \in found : r.version = s.version /\ r.body # s.body

\* parse_feed, convert and the link to the next page; after the last one
\* releases returns, its lock is dropped, and select takes one of them.
ReadPage(p) ==
    LET document == Document[job[p].generation][job[p].page]
        found == job[p].found \cup Converted(document.entries)
    IN  /\ pc[p] = "reading"
        /\ IF ~Converts(document.entries) \/ Conflicting(found) \/ document.next = Elsewhere
              \/ (document.next = None /\ found = {})
           THEN Ends(p)
           ELSE IF document.next = None
           THEN \E release \in found :
                  /\ pc' = [pc EXCEPT ![p] = "selected"]
                  /\ job' = [job EXCEPT ![p] = [NoJob EXCEPT !.offline = job[p].offline,
                               !.version = release.version, !.want = release.body]]
                  /\ feed_lock' = None /\ UNCHANGED download_lock
           ELSE GoesWith(p, "page", [job[p] EXCEPT !.found = found, !.page = document.next])
        /\ UNCHANGED <<server, cache, loose, events>>

-----------------------------------------------------------------------------
(* download_with_progress *)

StartDownload(p) ==
    LET d == job[p].want
    IN  /\ pc[p] = "selected"
        /\ IF download_lock # None THEN Ends(p)
           ELSE IF target[d] # <<>>
           THEN IF target[d] = Whole(d) THEN Goes(p, "cached") ELSE Ends(p)
           ELSE IF job[p].offline THEN Ends(p)
           ELSE /\ download_lock' = p /\ UNCHANGED feed_lock
                /\ pc' = [pc EXCEPT ![p] = "connecting"]
                /\ job' = [job EXCEPT ![p].attempt = 1]
        /\ UNCHANGED <<server, cache, loose, events>>

\* An attempt fails; the third one ends the command.
NextAttempt(p) ==
    IF job[p].attempt = 3 THEN Ends(p)
    ELSE GoesWith(p, "connecting", [job[p] EXCEPT !.attempt = @ + 1, !.sends = None,
                                                  !.start = 0])

\* The server continues what the Range asks for unless If-Range names another body.
Resumable(p) ==
    LET d == job[p].want
    IN  part[d] # <<>> /\ etag[d] \in {None, origin[job[p].version]}

\* 200: the body from its start, because no Range was sent or it does not apply.
\* A server may always ignore it.
AnswerWhole(p) ==
    /\ pc[p] = "connecting"
    /\ GoesWith(p, "truncating", [job[p] EXCEPT !.sends = origin[job[p].version]])
    /\ UNCHANGED <<server, cache, loose, events>>

\* 206: the blocks the part lacks.
AnswerRange(p) ==
    /\ pc[p] = "connecting" /\ Resumable(p)
    /\ Len(part[job[p].want]) < Length[origin[job[p].version]]
    /\ GoesWith(p, "tagging", [job[p] EXCEPT !.sends = origin[job[p].version], !.start = 1])
    /\ UNCHANGED <<server, cache, loose, events>>

\* Mutant: the part stays as it is.
AnswerUnsatisfiableKept(p) ==
    /\ pc[p] = "connecting" /\ Resumable(p)
    /\ Len(part[job[p].want]) >= Length[origin[job[p].version]]
    /\ NextAttempt(p)
    /\ UNCHANGED <<server, cache, loose, events>>

\* 416: nothing is left to send, the part is complete or of another body.
AnswerUnsatisfiable(p) ==
    /\ pc[p] = "connecting" /\ Resumable(p)
    /\ Len(part[job[p].want]) >= Length[origin[job[p].version]]
    /\ part' = [part EXCEPT ![job[p].want] = <<>>]
    /\ NextAttempt(p)
    /\ UNCHANGED <<server, index, signature, etag, target, loose, events>>

\* Mutant: the body is written behind the old bytes.
TruncateNothing(p) ==
    /\ pc[p] = "truncating"
    /\ Goes(p, "tagging")
    /\ UNCHANGED <<server, cache, loose, events>>

Truncate(p) ==
    /\ pc[p] = "truncating"
    /\ part' = [part EXCEPT ![job[p].want] = <<>>]
    /\ Goes(p, "tagging")
    /\ UNCHANGED <<server, index, signature, etag, target, loose, events>>

\* An answer without an ETag leaves the file of an earlier one.
SaveTag(p) ==
    LET d == job[p].want
    IN  /\ pc[p] = "tagging"
        /\ \/ /\ etag' = [etag EXCEPT ![d] = job[p].sends]
              /\ loose' = IF job[p].start = 0 THEN loose \ {d} ELSE loose
           \/ UNCHANGED etag /\ loose' = loose \cup {d}
        /\ GoesWith(p, "receiving", [job[p] EXCEPT !.start = 0])
        /\ UNCHANGED <<server, index, signature, part, target, events>>

\* copy_archive, a block at a time.
Receive(p) ==
    LET d == job[p].want
    IN  /\ pc[p] = "receiving"
        /\ IF Len(part[d]) < Length[job[p].sends]
           THEN part' = [part EXCEPT ![d] = Append(@, job[p].sends)] /\ Goes(p, "receiving")
           ELSE UNCHANGED part /\ GoesWith(p, "verifying", [job[p] EXCEPT !.sends = None, !.attempt = 0])
        /\ UNCHANGED <<server, index, signature, etag, target, loose, events>>

\* Any failure of an attempt: no answer, an answer of another range, another
\* status, a broken connection.
AttemptFails(p) ==
    /\ pc[p] \in {"connecting", "receiving"}
    /\ Happens
    /\ NextAttempt(p)
    /\ UNCHANGED <<server, cache, loose>>

\* The digest decides.  A part with another one is kept, and the command fails.
Publish(p) ==
    LET d == job[p].want
    IN  /\ pc[p] = "verifying"
        /\ IF part[d] = Whole(d)
           THEN /\ target' = [target EXCEPT ![d] = part[d]]
                /\ part' = [part EXCEPT ![d] = <<>>]
                /\ pc' = [pc EXCEPT ![p] = "cached"] /\ download_lock' = None
                /\ UNCHANGED <<job, feed_lock>>
           ELSE UNCHANGED <<part, target>> /\ Ends(p)
        /\ UNCHANGED <<server, index, signature, etag, loose, events>>

-----------------------------------------------------------------------------
(* extract *)

\* Mutant: the digest was checked when the archive was downloaded.
OpenUnverified(p) ==
    /\ pc[p] = "cached"
    /\ IF target[job[p].want] # <<>> THEN Goes(p, "unpacking") ELSE Ends(p)
    /\ UNCHANGED <<server, cache, loose, events>>

\* The archive is opened so that nobody can write or delete it, and hashed again.
OpenArchive(p) ==
    /\ pc[p] = "cached"
    /\ IF target[job[p].want] = Whole(job[p].want) THEN Goes(p, "unpacking") ELSE Ends(p)
    /\ UNCHANGED <<server, cache, loose, events>>

Unpacked(p) == pc[p] = "unpacking" /\ Fails(p)

Held(d) == \E p \in Proc : pc[p] = "unpacking" /\ job[p].want = d

-----------------------------------------------------------------------------
(* cache remove, failures, the server and other programs *)

RemoveTarget(d) ==
    /\ download_lock = None
    /\ target[d] # <<>> /\ ~Held(d)
    /\ target' = [target EXCEPT ![d] = <<>>]
    /\ UNCHANGED <<index, signature, part, etag, loose>>

RemovePart(d) ==
    /\ download_lock = None
    /\ part[d] # <<>>
    /\ part' = [part EXCEPT ![d] = <<>>]
    /\ UNCHANGED <<index, signature, etag, target, loose>>

RemoveTag(d) ==
    /\ download_lock = None
    /\ etag[d] # None
    /\ etag' = [etag EXCEPT ![d] = None]
    /\ loose' = loose \cup {d}
    /\ UNCHANGED <<index, signature, part, target>>

CacheRemove(d) ==
    /\ RemoveTarget(d) \/ RemovePart(d) \/ RemoveTag(d)
    /\ Happens
    /\ UNCHANGED <<server, locks, pc, job>>

\* The user does what the error about a corrupt archive says.
ClearCorrupt(d) ==
    /\ target[d] = Corrupt /\ RemoveTarget(d)
    /\ UNCHANGED <<server, locks, pc, job, events>>

\* A write fails, or the process is killed.
Stop(p) ==
    /\ pc[p] # "idle"
    /\ Happens
    /\ Ends(p)
    /\ UNCHANGED <<server, cache, loose>>

ServerMoves ==
    /\ Happens
    /\ \/ \E g \in Generation : served < g /\ served' = g /\ UNCHANGED origin
       \/ \E v \in Version, b \in Body : origin' = [origin EXCEPT ![v] = b] /\ UNCHANGED served
    /\ UNCHANGED <<cache, locks, pc, job, loose>>

\* Another program overwrites a cached archive nobody holds.
Tamper(d) ==
    /\ target[d] # <<>> /\ ~Held(d)
    /\ Happens
    /\ target' = [target EXCEPT ![d] = Corrupt]
    /\ UNCHANGED <<server, index, signature, part, etag, locks, pc, job, loose>>

Works(p) ==
    \/ FetchIndex(p) \/ FetchSignature(p) \/ SaveIndex(p) \/ SaveSignature(p) \/ ReadCached(p)
    \/ ReadPage(p)
    \/ StartDownload(p) \/ AnswerWhole(p) \/ AnswerRange(p) \/ AnswerUnsatisfiable(p)
    \/ Truncate(p) \/ SaveTag(p) \/ Receive(p) \/ Publish(p)
    \/ OpenArchive(p) \/ Unpacked(p)

Next ==
    \/ \E p \in Proc :
         \/ \E offline \in BOOLEAN : Begin(p, offline)
         \/ Works(p) \/ AttemptFails(p) \/ Stop(p)
    \/ \E d \in Body : CacheRemove(d) \/ ClearCorrupt(d) \/ Tamper(d)
    \/ ServerMoves

\* A running command goes on, a user who wants Python tries again online, and
\* clears a corrupt cache entry as told.
Fairness ==
    /\ \A p \in Proc : WF_vars(Works(p)) /\ SF_vars(Begin(p, FALSE))
    /\ \A d \in Body : SF_vars(ClearCorrupt(d))

Spec == Init /\ [][Next]_vars /\ Fairness

-----------------------------------------------------------------------------
(* Properties *)

\* What is unpacked is, for as long as it is read, the body a signed page names
\* for the version asked for, whatever happened to the cache between download
\* and extraction, which run without a common lock (archive.rs:37-65).
UnpackedIsSigned ==
    \A p \in Proc : pc[p] = "unpacking" =>
        /\ target[job[p].want] = Whole(job[p].want)
        /\ \E g \in Generation : Lists(g, job[p].version, job[p].want)

\* Blocks of two bodies never come together, however the server answered over
\* attempts, commands and kills.  A partial download holds blocks of one body, the
\* one its tag names, when the answer that began it was tagged and nobody removed
\* the tag: truncating comes before tagging, and tagging before the first block
\* (transfer.rs:277-289).  A cached archive is whole unless another program
\* overwrote it (transfer.rs:202-208).
NoSplice ==
    /\ \A d \in Body \ loose : \A i \in DOMAIN part[d] : part[d][i] = etag[d]
    /\ \A d \in Body : target[d] \in {<<>>, Whole(d), Corrupt}

Readable(g) ==
    \E n \in 1..Cardinality(Page) : \E path \in [1..n -> Page] :
        /\ path[1] = FirstPage /\ Document[g][path[n]].next = None
        /\ \A i \in 1..n-1 : path[i + 1] = Document[g][path[i]].next
        /\ \A i \in 1..n : Converts(Document[g][path[i]].entries)
        /\ ~Conflicting(UNION {Converted(Document[g][path[i]].entries) : i \in 1..n})

\* The index can be read and the server delivers what it names.
Consistent ==
    /\ Readable(served)
    /\ \A v \in Version, b \in Body : Lists(served, v, b) => origin[v] = b

\* Whatever state interrupted refreshes and downloads, exhausted attempts, stale
\* parts and corrupt archives left behind, retrying is enough: once the server is
\* consistent, archives are unpacked again and again (transfer.rs:216, feed.rs:65).
RetriesSucceed == <>[]Consistent => []<>(\E p \in Proc : pc[p] = "unpacking")
=============================================================================
