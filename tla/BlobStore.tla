------------------------------ MODULE BlobStore ------------------------------
(***************************************************************************)
(* The storage crate on top of Postgres: the files table, the large        *)
(* objects that hold file contents, the transaction every file handle      *)
(* keeps open, and the connection pool they draw from.                     *)
(*                                                                         *)
(* storage/src/postgres/mod.rs   rows, handles, the deletion batch         *)
(* storage/src/postgres/blob.rs  lo_open / lseek / loread / lowrite / close *)
(* migrations/*.sql              unique (bucket, filename); lo_manage       *)
(*                                                                         *)
(* The module has no next-state relation of its own: it offers the         *)
(* operations that a session (one HTTP request, or the deletion batch)     *)
(* performs, and Service.tla puts them in the order of the handlers.       *)
(*                                                                         *)
(* Abstractions.  A large object is named by the request that created it   *)
(* (lo_create(0) returns a fresh oid and a request creates at most one).   *)
(* Contents are functions from offsets to bytes.  Every handle is opened   *)
(* ReadWrite, so each statement sees the latest committed contents plus    *)
(* the session's own writes (no snapshot is kept between statements).      *)
(* A write locks the pages it touches until its transaction ends; a        *)
(* session that meets a foreign lock waits for the holder, fails when the  *)
(* holder commits and goes on when the holder rolls back.                  *)
(***************************************************************************)
EXTENDS Naturals, FiniteSets, FiniteSetsExt

CONSTANTS
    Request,    \* HTTP requests; also the names of the large objects they create
    Gc,         \* the session of delete_old_files_batch
    File,       \* (bucket, filename) pairs
    Payload,    \* identities of request bodies
    PageSize,   \* bytes per large-object page (LOBLKSIZE)
    MaxConn,    \* connections in the pool
    Zero        \* the byte that reading a hole yields

ASSUME GcIsNoRequest  == Gc \notin Request
ASSUME PageSizeIsPos  == PageSize \in Nat \ {0}
ASSUME MaxConnIsPos   == MaxConn \in Nat \ {0}

Session == Request \cup {Gc}

VARIABLES
    files,      \* committed rows: file -> large object (files.blob)
    expired,    \* files whose delete_after lies before now()
    live,       \* large objects that exist
    content,    \* committed contents of each large object
    written,    \* bytes a session wrote; after its commit, what it published
    held,       \* page locks of each session's open transaction
    wait,       \* the session whose end a blocked statement awaits
    lost,       \* sessions whose blocked statement has failed
    conn        \* sessions that hold a pool connection

storeVars == <<files, expired, live, content, written, held, wait, lost, conn>>

Nothing == [i \in {} |-> Zero]

StoreInit ==
    /\ files = [f \in {} |-> Gc]
    /\ expired = {}
    /\ live = {}
    /\ content = [o \in Request |-> Nothing]
    /\ written = [s \in Request |-> Nothing]
    /\ held = [s \in Session |-> {}]
    /\ wait = [s \in Session |-> {}]
    /\ lost = {}
    /\ conn = {}

-----------------------------------------------------------------------------
(* Contents of large objects *)

Size(c) == IF DOMAIN c = {} THEN 0 ELSE Max(DOMAIN c) + 1

Overlay(c, w) ==
    [i \in DOMAIN c \cup DOMAIN w |-> IF i \in DOMAIN w THEN w[i] ELSE c[i]]

\* What session s sees of large object o.
View(s, o) == Overlay(content[o], written[s])

\* loread: at most n bytes from position p, fewer only at the end.
Slice(c, p, n) ==
    [i \in {j \in p .. (p + n - 1) : j < Size(c)} |->
        IF i \in DOMAIN c THEN c[i] ELSE Zero]

PagesOf(o, offsets) == {<<o, i \div PageSize>> : i \in offsets}

-----------------------------------------------------------------------------
(* Connections, locks and the end of a transaction *)

\* PgPool hands out a connection only while fewer than MaxConn are in use.
FreeConn == Cardinality(conn) < MaxConn

\* A statement run on the pool itself returns its connection when it ends.
QueryOnPool == FreeConn /\ UNCHANGED conn

Begin(s) == FreeConn /\ conn' = conn \cup {s}

Foreign(s, pages) == {p \in pages : \E q \in Session \ {s} : p \in held[q]}

Lock(s, pages) ==
    /\ Foreign(s, pages) = {}
    /\ held' = [held EXCEPT ![s] = @ \cup pages]
    /\ UNCHANGED wait

BlockInAnyOrder(s, pages) ==                                           \* mutant
    \E first \in Foreign(s, pages) :
        /\ held' = [held EXCEPT ![s] = @ \cup (pages \ Foreign(s, pages))]
        /\ wait' = [wait EXCEPT ![s] = {q \in Session : first \in held[q]}]

\* Pages are visited in ascending order: those below the first foreign one
\* are locked before the statement blocks.
Block(s, pages) ==
    \E first \in Foreign(s, pages) :
        /\ \A p \in Foreign(s, pages) : first[2] <= p[2]
        /\ held' = [held EXCEPT ![s] = @ \cup {p \in pages : p[2] < first[2]}]
        /\ wait' = [wait EXCEPT ![s] = {q \in Session : first \in held[q]}]

EndTransaction(s, committed) ==
    /\ held' = [held EXCEPT ![s] = {}]
    /\ wait' = [q \in Session |-> IF q = s THEN {} ELSE wait[q] \ {s}]
    /\ lost' = (lost \ {s}) \cup
               (IF committed THEN {q \in Session : s \in wait[q]} ELSE {})
    /\ conn' = conn \ {s}

-----------------------------------------------------------------------------
(* Operations of a request's session *)

\* insert into files ... lo_create(0): one statement, one implicit transaction.
InsertRow(r, f) ==
    /\ files' = [g \in DOMAIN files \cup {f} |-> IF g = f THEN r ELSE files[g]]
    /\ live' = live \cup {r}
    /\ UNCHANGED <<expired, content, written, held, wait, lost>>

\* lowrite of bytes at the offsets they are indexed by.
WriteBlob(r, o, bytes) ==
    /\ Lock(r, PagesOf(o, DOMAIN bytes))
    /\ written' = [written EXCEPT ![r] = Overlay(@, bytes)]
    /\ UNCHANGED <<files, expired, live, content, lost, conn>>

WriteBlobBlocks(r, o, bytes) ==
    /\ Block(r, PagesOf(o, DOMAIN bytes))
    /\ UNCHANGED <<files, expired, live, content, written, lost, conn>>

\* lo_close and commit: the session's writes become the committed contents.
CommitBlob(r, o) ==
    /\ content' = [content EXCEPT ![o] = Overlay(@, written[r])]
    /\ EndTransaction(r, TRUE)
    /\ UNCHANGED <<files, expired, live, written>>

\* Dropping a handle, or a failed statement, rolls its transaction back.
Rollback(r) ==
    /\ written' = [written EXCEPT ![r] = Nothing]
    /\ EndTransaction(r, FALSE)
    /\ UNCHANGED <<files, expired, live, content>>

-----------------------------------------------------------------------------
(* Operations of the deletion batch's session *)

\* The lo_manage trigger unlinks one row's large object: its committed pages
\* are deleted one after the other.
LockBlobPages(f) == Lock(Gc, PagesOf(files[f], DOMAIN content[files[f]]))
BlockOnBlobPages(f) == Block(Gc, PagesOf(files[f], DOMAIN content[files[f]]))

\* The large objects the trigger unlinks.
NoTrigger(batch) == {}                                                 \* mutant
Unlinked(batch)  == {files[f] : f \in batch}

\* The delete statement commits: rows and large objects disappear together.
CommitDeletion(batch) ==
    LET blobs == Unlinked(batch) IN
    /\ files' = [g \in DOMAIN files \ batch |-> files[g]]
    /\ live' = live \ blobs
    /\ content' = [o \in Request |-> IF o \in blobs THEN Nothing ELSE content[o]]
    /\ expired' = expired \ batch
    /\ EndTransaction(Gc, TRUE)
    /\ UNCHANGED written

-----------------------------------------------------------------------------
(* Types *)

\* A set of offsets that is empty or has a greatest element.
Bounded(D) == D = {} \/ \E m \in D : \A i \in D : i <= m

IsContent(c) ==
    /\ c = [i \in DOMAIN c |-> c[i]]
    /\ DOMAIN c \subseteq Nat
    /\ Bounded(DOMAIN c)
    /\ \A i \in DOMAIN c : c[i] \in Payload \X Nat

StoreTypeOK ==
    /\ files = [f \in DOMAIN files |-> files[f]]
    /\ DOMAIN files \subseteq File
    /\ \A f \in DOMAIN files : files[f] \in Request
    /\ expired \subseteq DOMAIN files
    /\ live \subseteq Request
    /\ content = [o \in Request |-> content[o]]
    /\ \A o \in Request : IsContent(content[o])
    /\ written = [s \in Request |-> written[s]]
    /\ \A s \in Request : IsContent(written[s])
    /\ held \in [Session -> SUBSET (Request \X Nat)]
    /\ wait \in [Session -> SUBSET Session]
    /\ lost \subseteq Session
    /\ conn \subseteq Session
=============================================================================
