-------------------------- MODULE ServiceProperties --------------------------
(***************************************************************************)
(* What the service guarantees.  The first group holds however clients     *)
(* overlap their requests (Spec), the second when appends to a file do not *)
(* overlap other uploads to it (SoloSpec), the third needs fairness.       *)
(***************************************************************************)
EXTENDS Service

Stored(r) == req[r].resp \in {"200", "unheard"}

-----------------------------------------------------------------------------
(* Types *)

HandlerTypeOK(h) ==
    /\ h \in [pc : Pc, resp : Answers, blob : Request, pos : Nat, size : Nat,
              rcvd : Nat, stored : Nat, seen : {h.seen}]
    /\ h.stored <= h.rcvd

HandlersTypeOK ==
    /\ req = [r \in Request |-> req[r]]
    /\ \A r \in Request :
        /\ HandlerTypeOK(req[r])
        /\ req[r].rcvd <= Call[r].len
        /\ \A i \in DOMAIN written[r] :
            \E k \in 0 .. (req[r].stored - 1) : written[r][i] = Byte(r, k)

\* Every variable has its type, and no handler takes more than the body or
\* writes a byte it has not received (put_write_filename, post_append_filename).
TypeOK ==
    /\ StoreTypeOK
    /\ HandlersTypeOK
    /\ buckets \subseteq Bucket
    /\ gcTodo \subseteq DOMAIN files /\ gcDone \subseteq DOMAIN files
    /\ faults \in 0 .. MaxFaults

-----------------------------------------------------------------------------
(* Under any overlap of requests *)

\* Only a committed upload leaves bytes behind: every committed byte of every
\* large object is one that an upload whose commit took effect wrote there.  A
\* request that failed, was cut off or was rolled back has left none
\* (BlobHandleInner::close, and dropping a handle instead).
OnlyCommittedBytes ==
    \A o \in Request : \A i \in DOMAIN content[o] :
        \E r \in Request :
            /\ Stored(r) /\ req[r].blob = o
            /\ i \in DOMAIN written[r] /\ content[o][i] = written[r][i]

\* A committed upload wrote its whole body, each byte once and in order, even
\* if other uploads grew or overwrote the file between two chunks
\* (PostgresFileHandle::append: a seek and a write for every chunk).
WholeBodyInOrder ==
    \A r \in Request :
        (req[r].pc = "done" /\ Stored(r) /\ req[r].stored > 0) =>
            /\ {written[r][i] : i \in DOMAIN written[r]}
                    = {Byte(r, k) : k \in 0 .. (Call[r].len - 1)}
            /\ \A i, j \in DOMAIN written[r] :
                    i < j => written[r][i][2] < written[r][j][2]

\* A file has no holes: its committed bytes, and what a session that writes to
\* it sees, are a prefix of the naturals, whatever offset clients named and
\* whichever other uploads committed between a handler's seek and its write.
NoHoles ==
    \A o \in live :
        /\ \A i \in DOMAIN content[o] : 0 .. i \subseteq DOMAIN content[o]
        /\ \A r \in Request :
            (req[r].blob = o /\ req[r].pc \in WritePc) =>
                \A i \in DOMAIN View(r, o) : 0 .. i \subseteq DOMAIN View(r, o)

\* An append never touches a byte that was committed when the handler asked for
\* the file's size (post_append_filename), however old that size is when it
\* writes: what other uploads can lose to it are bytes committed since.
AppendsPastSize ==
    \A r \in Request :
        (Op(r) = "append" /\ req[r].blob \in live) =>
            \A i \in DOMAIN written[r] : i >= req[r].size

\* Rows and large objects come and go together: each row has a live large
\* object of its own and each live large object has a row (create_file's insert
\* with lo_create, the lo_manage trigger), also across crashes and batches
\* that fail half way.
RowsAndBlobs ==
    /\ live = {files[f] : f \in DOMAIN files}
    /\ \A f, g \in DOMAIN files : files[f] = files[g] => f = g

\* A connection is in use only while a handler owns a file handle, an insert
\* waits for the deletion batch, or the batch runs: no path out of a handler
\* leaks one, and the pool's limit is kept.  (A handler that is dropped while its
\* statement waits counts as owning its handle until the wait is over: Abandon.)
PoolAccounting ==
    /\ conn \ {Gc} = {r \in Request : req[r].pc \in HandlePc \cup {"create_wait"}}
    /\ gcTodo \cup gcDone # {} => Gc \in conn
    /\ Cardinality(conn) <= MaxConn

\* Who has to end before s goes on: holders of a page lock that a statement of s
\* needs, or the batch that deletes the row that an insert replaces.
Awaits(s) ==
    wait[s] \cup {q \in {Gc} : /\ s \in Request /\ req[s].pc = "create_wait"
                              /\ FileOf(s) \in gcDone}

\* Uploads to one file and the deletion batch never wait for one another in a circle,
\* and nobody waits for a session without a connection, whose transaction would
\* never end: the batch locks the pages of many files (delete_old_files_batch), but
\* an append (PostgresFileHandle::append) writes only behind all it has locked.
NoDeadlock ==
    /\ \A s \in Session : Awaits(s) \subseteq conn
    /\ \A S \in SUBSET Session : S # {} => \E s \in S : Awaits(s) \cap S = {}

-----------------------------------------------------------------------------
(* When appends do not overlap other uploads to their file *)

\* A download of a file that still exists has seen only bytes the file has, and
\* a complete one has seen exactly as many as its Content-Length promised
\* (get_explore), although uploads may grow the file and handlers may fail
\* while it streams.
DownloadAgrees ==
    \A r \in Request :
        (Op(r) = "explore" /\ req[r].blob \in live) =>
            /\ \A i \in DOMAIN req[r].seen :
                /\ i \in DOMAIN content[req[r].blob]
                /\ req[r].seen[i] = content[req[r].blob][i]
            /\ req[r].resp = "200" => DOMAIN req[r].seen = 0 .. req[r].size - 1

\* The service is an atomic file store: a file appears empty, a whole body is
\* added by the commit, and 200 and 409 tell the truth (FileStore.tla).
Visible == [f \in DOMAIN files |-> content[files[f]]]
Attached == {r \in Request : req[r].blob \in live}
Abstract == INSTANCE FileStore WITH
    store <- Visible, attached <- Attached, reply <- [r \in Request |-> req[r].resp]
ImplementsFileStore == Abstract!Spec

-----------------------------------------------------------------------------
(* Under fairness *)

\* Every request that has arrived is answered: no handler waits for ever for a
\* connection, for another upload's page locks or for the deletion batch.
EveryRequestEnds ==
    \A r \in Request : req[r].pc = "bucket" ~> req[r].pc = "done"

\* Every expired file is eventually deleted, though batches may fail against
\* uploads that hold the file's pages (delete_old_files_batch and its task).
ExpiredFilesGo ==
    \A f \in File : f \in expired ~> f \notin expired
=============================================================================
