------------------------------- MODULE Service -------------------------------
(***************************************************************************)
(* The server crate: the handlers of PUT /v0/write, POST /v0/append and    *)
(* GET /explore (GET /v1/logs/get is the same handler), each request a     *)
(* concurrent task, together with the expiry batch, client disconnects     *)
(* and server crashes.                                                     *)
(*                                                                         *)
(* server/src/api.rs, server/src/explore.rs                                *)
(*                                                                         *)
(* Every await of a handler is a point where other tasks run, so every     *)
(* statement sent to Postgres and every chunk taken from the body is one   *)
(* action.  Call[r] says what request r asks for; a request runs at most   *)
(* once, a retry is another request with the same payload.  Byte i of      *)
(* payload d is the pair <<d, i>>.                                         *)
(***************************************************************************)
EXTENDS BlobStore

CONSTANTS
    Bucket,
    BucketOf,   \* the bucket of each file
    TtlBuckets, \* buckets created with a default_ttl
    Call,       \* request -> [op, file, payload, len, off]
    BufSize,    \* bytes the download stream asks for at a time
    MaxFaults   \* bound on disconnects, failed queries and crashes

ASSUME BucketOfType == BucketOf \in [File -> Bucket]
ASSUME CallType ==
    Call \in [Request -> [op: {"put", "append", "explore"}, file: File,
                          payload: Payload, len: Nat, off: Nat]]
ASSUME BufSizeIsPos == BufSize \in Nat \ {0}
ASSUME MaxFaultsIsNat == MaxFaults \in Nat

VARIABLES
    buckets,    \* buckets that exist
    req,        \* the state of each request's handler
    gcTodo,     \* rows of the running batch whose large object is not unlinked yet
    gcDone,     \* rows of the running batch that are deleted but not committed
    faults      \* faults so far

serviceVars == <<buckets, req, gcTodo, gcDone, faults>>
vars == <<storeVars, serviceVars>>

Op(r)      == Call[r].op
FileOf(r)  == Call[r].file
Byte(r, i) == <<Call[r].payload, i>>

\* Where the handler seeks to before it reads: the append's offset, or 0.
NoRewind(r) == IF Op(r) = "explore" THEN req[r].pos ELSE Call[r].off  \* mutant
Start(r)    == IF Op(r) = "append" THEN Call[r].off ELSE 0

Pc == {"idle", "bucket", "create", "create_wait", "find", "open", "size",
       "rewind", "metadata", "upload", "seek_end", "write", "commit",
       "check", "compare", "eof", "stream", "done"}
Answers == {"none", "200", "404", "409", "500", "short", "gone", "unheard"}
\* Points at which the handler owns a file handle, hence a transaction.
HandlePc == {"size", "rewind", "metadata", "upload", "seek_end", "write",
             "commit", "check", "compare", "eof", "stream"}
WritePc  == {"upload", "seek_end", "write", "commit"}

Active(r) == req[r].pc \notin {"idle", "done"}
Uploads(r) == Op(r) \in {"put", "append"}

Handler(r) == [pc |-> "idle", resp |-> "none", blob |-> r, pos |-> 0,
               size |-> 0, rcvd |-> 0, stored |-> 0, seen |-> Nothing]

Init ==
    /\ StoreInit
    /\ buckets = {}
    /\ req = [r \in Request |-> Handler(r)]
    /\ gcTodo = {}
    /\ gcDone = {}
    /\ faults = 0

Goto(r, pc) == req' = [req EXCEPT ![r].pc = pc]
Reply(r, code) == req' = [req EXCEPT ![r].pc = "done", ![r].resp = code]

DropCommits(r, code) == CommitBlob(r, req[r].blob) /\ Reply(r, code)  \* mutant
DropLeavesOpen(r, code) ==                                             \* mutant
    /\ conn' = conn \ {r} /\ Reply(r, code)
    /\ UNCHANGED <<files, expired, live, content, written, held, wait, lost>>
\* The handler returns: its file handle is dropped, and so rolled back.
DropAndReply(r, code) == Rollback(r) /\ Reply(r, code)

UnchangedService == UNCHANGED <<buckets, gcTodo, gcDone, faults>>

-----------------------------------------------------------------------------
(* Environment *)

\* locally-euclidean maintenance create-bucket
CreateBucket(b) ==
    /\ b \notin buckets
    /\ buckets' = buckets \cup {b}
    /\ UNCHANGED <<storeVars, req, gcTodo, gcDone, faults>>

\* delete_after passes.
Expire(f) ==
    /\ f \in DOMAIN files \ expired
    /\ BucketOf[f] \in TtlBuckets
    /\ expired' = expired \cup {f}
    /\ UNCHANGED <<files, live, content, written, held, wait, lost, conn,
                   serviceVars>>

Arrive(r) ==
    /\ req[r].pc = "idle"
    /\ Goto(r, "bucket")
    /\ UNCHANGED storeVars /\ UnchangedService

-----------------------------------------------------------------------------
(* From the request to an open file handle *)

FindBucket(r) ==
    /\ req[r].pc = "bucket"
    /\ QueryOnPool
    /\ \/ /\ BucketOf[FileOf(r)] \notin buckets
          /\ Reply(r, "404")
       \/ /\ BucketOf[FileOf(r)] \in buckets
          /\ Goto(r, IF Op(r) = "put" THEN "create" ELSE "find")
    /\ UNCHANGED <<files, expired, live, content, written, held, wait, lost>>
    /\ UnchangedService

\* The unique index makes the insert wait for a pending delete of the row.
CreateBlocks(r) ==
    /\ req[r].pc = "create"
    /\ FileOf(r) \in gcDone
    /\ Begin(r)
    /\ Goto(r, "create_wait")
    /\ UNCHANGED <<files, expired, live, content, written, held, wait, lost>>
    /\ UnchangedService

InsertKeepsConn(r) ==                                                  \* mutant
    /\ req[r].pc \in {"create", "create_wait"}
    /\ FileOf(r) \notin gcDone
    /\ Begin(r)

\* The insert's own connection is taken and given back within the statement.
InsertRuns(r) ==
    /\ \/ req[r].pc = "create" /\ FreeConn
       \/ req[r].pc = "create_wait"
    /\ FileOf(r) \notin gcDone
    /\ conn' = conn \ {r}

CreateFile(r) ==
    /\ InsertRuns(r)
    /\ FileOf(r) \notin DOMAIN files
    /\ InsertRow(r, FileOf(r))
    /\ req' = [req EXCEPT ![r].pc = "open", ![r].blob = r]
    /\ UnchangedService

\* Unique violation: FileCreateError::FileExists.
CreateExists(r) ==
    /\ InsertRuns(r)
    /\ FileOf(r) \in DOMAIN files
    /\ Goto(r, "find")
    /\ UNCHANGED <<files, expired, live, content, written, held, wait, lost>>
    /\ UnchangedService

\* A PUT gets here only after FileExists, and maps every failure to a 500.
FindFile(r) ==
    /\ req[r].pc = "find"
    /\ QueryOnPool
    /\ \/ /\ FileOf(r) \notin DOMAIN files
          /\ Reply(r, IF Op(r) = "put" THEN "500" ELSE "404")
       \/ /\ FileOf(r) \in DOMAIN files
          /\ req' = [req EXCEPT ![r].pc = "open", ![r].blob = files[FileOf(r)]]
    /\ UNCHANGED <<files, expired, live, content, written, held, wait, lost>>
    /\ UnchangedService

\* begin and lo_open; the large object may be gone since its row was read.
OpenHandle(r) ==
    /\ req[r].pc = "open"
    /\ req[r].blob \in live
    /\ Begin(r)
    /\ Goto(r, IF Op(r) # "put" THEN "size"
               ELSE IF req[r].blob = r THEN "upload" ELSE "rewind")
    /\ UNCHANGED <<files, expired, live, content, written, held, wait, lost>>
    /\ UnchangedService

OpenFails(r) ==
    /\ req[r].pc = "open"
    /\ req[r].blob \notin live
    /\ QueryOnPool
    /\ Reply(r, "500")
    /\ UNCHANGED <<files, expired, live, content, written, held, wait, lost>>
    /\ UnchangedService

\* PoolTimedOut while waiting for a connection.
AcquireTimesOut(r) ==
    /\ req[r].pc \in {"bucket", "create", "find", "open"}
    /\ ~FreeConn
    /\ Reply(r, "500")
    /\ UNCHANGED storeVars /\ UnchangedService

\* An append proper, as opposed to a possible re-send.
FromEnd(r, n) == Call[r].off >= n                                      \* mutant
Beyond(r, n)  == Call[r].off > n

\* seek(End(0)): the size that selects an append's branch, or Content-Length.
SeekForSize(r) ==
    LET n == Size(View(r, req[r].blob)) IN
    /\ req[r].pc = "size"
    /\ req' = [req EXCEPT ![r].size = n, ![r].pos = n,
                          ![r].pc = IF Op(r) = "append" /\ Beyond(r, n)
                                    THEN "upload" ELSE "rewind"]
    /\ UNCHANGED storeVars /\ UnchangedService

SeekToStart(r) ==
    /\ req[r].pc = "rewind"
    /\ req' = [req EXCEPT ![r].pos = Start(r),
                          ![r].pc = IF Op(r) = "explore" THEN "metadata" ELSE "check"]
    /\ UNCHANGED storeVars /\ UnchangedService

-----------------------------------------------------------------------------
(* Uploading: append each chunk, then commit *)

\* The client delivers the next chunk of the body, of at least one byte.
NextChunk(r) ==
    /\ req[r].pc \in {"upload", "check"}
    /\ \E n \in 1 .. (Call[r].len - req[r].rcvd) :
         req' = [req EXCEPT ![r].rcvd = @ + n,
                            ![r].pc = IF @ = "upload" THEN "seek_end" ELSE "compare"]
    /\ UNCHANGED storeVars /\ UnchangedService

BodyEnds(r) ==
    /\ req[r].pc \in {"upload", "check"}
    /\ req[r].rcvd = Call[r].len
    /\ Goto(r, IF req[r].pc = "upload" THEN "commit" ELSE "eof")
    /\ UNCHANGED storeVars /\ UnchangedService

CommittedEnd(r) == Size(content[req[r].blob])                          \* mutant
ClientOffset(r) == Call[r].off                                         \* mutant
BodyOffset(r)   == req[r].stored                                       \* mutant
\* SeekFrom::End(0), in the handle's own view of the file.
EndOfFile(r)    == Size(View(r, req[r].blob))

\* append() is a seek to the end and then a write, in two statements.
SeekToEnd(r) ==
    /\ req[r].pc = "seek_end"
    /\ req' = [req EXCEPT ![r].pos = EndOfFile(r), ![r].pc = "write"]
    /\ UNCHANGED storeVars /\ UnchangedService

\* A data frame without bytes: append() seeks as ever, but write_all sends no
\* lowrite.  (check_range_matches has nothing to read or to compare for it.)
EmptyChunk(r) ==
    /\ req[r].pc = "upload"
    /\ req' = [req EXCEPT ![r].pos = EndOfFile(r)]
    /\ UNCHANGED storeVars /\ UnchangedService

LongChunk(r) ==                                                        \* mutant
    [i \in req[r].pos .. (req[r].pos + req[r].rcvd - req[r].stored) |->
        Byte(r, req[r].stored + (i - req[r].pos))]

\* The chunk in hand, at the handle's position.
ChunkBytes(r) ==
    [i \in req[r].pos .. (req[r].pos + req[r].rcvd - req[r].stored - 1) |->
        Byte(r, req[r].stored + (i - req[r].pos))]

Write(r) ==
    /\ req[r].pc = "write"
    /\ wait[r] = {} /\ r \notin lost
    /\ WriteBlob(r, req[r].blob, ChunkBytes(r))
    /\ req' = [req EXCEPT ![r].pos = @ + req[r].rcvd - req[r].stored,
                          ![r].stored = req[r].rcvd, ![r].pc = "upload"]
    /\ UnchangedService

WriteBlocks(r) ==
    /\ req[r].pc = "write"
    /\ wait[r] = {} /\ r \notin lost
    /\ WriteBlobBlocks(r, req[r].blob, ChunkBytes(r))
    /\ UNCHANGED req /\ UnchangedService

\* "tuple concurrently updated": the session we waited for has committed.
WriteFails(r) ==
    /\ r \in lost
    /\ DropAndReply(r, "500")
    /\ UnchangedService

Commit(r) ==
    /\ req[r].pc = "commit"
    /\ CommitBlob(r, req[r].blob)
    /\ Reply(r, "200")
    /\ UnchangedService

-----------------------------------------------------------------------------
(* check_range_matches *)

\* read_exact takes as many loreads as it needs to fill the chunk's buffer;
\* the buffer is compared once it is full.
Compare(r) ==
    LET goal == Start(r) + req[r].rcvd
        got  == Slice(View(r, req[r].blob), req[r].pos, goal - req[r].pos)
        seen == Overlay(req[r].seen, got)
        next == req[r].pos + Cardinality(DOMAIN got)
    IN
    /\ req[r].pc = "compare"
    /\ \/ /\ DOMAIN got = {}                        \* LengthMismatch
          /\ DropAndReply(r, "409")
       \/ /\ DOMAIN got # {} /\ next < goal
          /\ req' = [req EXCEPT ![r].seen = seen, ![r].pos = next]
          /\ UNCHANGED storeVars
       \/ /\ next = goal
          /\ \A i \in DOMAIN seen : seen[i] = Byte(r, i - Start(r))
          /\ req' = [req EXCEPT ![r].seen = seen, ![r].pos = next, ![r].pc = "check"]
          /\ UNCHANGED storeVars
       \/ /\ next = goal                            \* DataMismatch
          /\ \E i \in DOMAIN seen : seen[i] # Byte(r, i - Start(r))
          /\ DropAndReply(r, "409")
    /\ UnchangedService

\* read_u8 after the body: only the end of the file makes it a match.
PrefixIsEnough(r) == TRUE                                              \* mutant
AtEof(r) == Size(View(r, req[r].blob)) <= req[r].pos

CheckEof(r) ==
    /\ req[r].pc = "eof"
    /\ DropAndReply(r, IF AtEof(r) THEN "200" ELSE "409")
    /\ UnchangedService

-----------------------------------------------------------------------------
(* get_explore *)

\* metadata() runs on the connection its handle already has.
OnHandle(r) == r \in conn

\* select updated_at from files where id = ...
Metadata(r) ==
    /\ req[r].pc = "metadata"
    /\ OnHandle(r)
    /\ \/ /\ \E f \in DOMAIN files : files[f] = req[r].blob
          /\ Goto(r, "stream")
          /\ UNCHANGED storeVars
       \/ /\ \A f \in DOMAIN files : files[f] # req[r].blob
          /\ DropAndReply(r, "500")
    /\ UnchangedService

\* The body stream: hyper takes Content-Length bytes of it, and breaks the
\* connection off ("short") when the stream ends before.
Stream(r) ==
    LET got == Slice(View(r, req[r].blob), req[r].pos, BufSize)
        sent == {i \in DOMAIN got : i < req[r].size}
    IN
    /\ req[r].pc = "stream"
    /\ \/ /\ req[r].pos >= req[r].size
          /\ DropAndReply(r, "200")
       \/ /\ req[r].pos < req[r].size /\ DOMAIN got = {}
          /\ DropAndReply(r, "short")
       \/ /\ req[r].pos < req[r].size /\ DOMAIN got # {}
          /\ req' = [req EXCEPT ![r].seen = Overlay(@, [i \in sent |-> got[i]]),
                                ![r].pos = @ + Cardinality(DOMAIN got)]
          /\ UNCHANGED storeVars
    /\ UnchangedService

-----------------------------------------------------------------------------
(* delete_old_files_batch: one statement on a connection of the pool *)

GcRuns == Gc \in conn /\ wait[Gc] = {} /\ Gc \notin lost

GcBegin ==
    /\ Gc \notin conn
    /\ expired # {}
    /\ Begin(Gc)
    /\ gcTodo' = expired
    /\ UNCHANGED <<files, expired, live, content, written, held, wait, lost,
                   buckets, req, gcDone, faults>>

GcUnlink(f) ==
    /\ GcRuns /\ f \in gcTodo
    /\ LockBlobPages(f)
    /\ gcTodo' = gcTodo \ {f}
    /\ gcDone' = gcDone \cup {f}
    /\ UNCHANGED <<files, expired, live, content, written, lost, conn,
                   buckets, req, faults>>

GcBlocks(f) ==
    /\ GcRuns /\ f \in gcTodo
    /\ BlockOnBlobPages(f)
    /\ UNCHANGED <<files, expired, live, content, written, lost, conn, serviceVars>>

GcCommit ==
    /\ GcRuns /\ gcTodo = {}
    /\ CommitDeletion(gcDone)
    /\ gcDone' = {}
    /\ UNCHANGED <<buckets, req, gcTodo, faults>>

GcGivesUp ==                                                           \* mutant
    /\ Gc \in lost
    /\ held' = [held EXCEPT ![Gc] = {}] /\ gcTodo' = {} /\ gcDone' = {}
    /\ wait' = [s \in Session |-> wait[s] \ {Gc}]
    /\ UNCHANGED <<files, expired, live, content, written, lost, conn,
                   buckets, req, faults>>

\* The batch's error is logged; the next tick tries again.
GcFails ==
    /\ Gc \in lost
    /\ EndTransaction(Gc, FALSE)
    /\ gcTodo' = {} /\ gcDone' = {}
    /\ UNCHANGED <<files, expired, live, content, written, buckets, req, faults>>

-----------------------------------------------------------------------------
(* Faults *)

Fault == faults < MaxFaults /\ faults' = faults + 1

\* A statement of r is waiting in Postgres, for a page or a deleted row.
Stuck(r) ==
    \/ wait[r] # {}
    \/ req[r].pc = "create_wait" /\ FileOf(r) \in gcDone

\* The connection drops and hyper cancels the handler ("gone"), or the body
\* stream or a query fails ("500"): either way the handle is dropped.  The
\* ROLLBACK that queues up behind a waiting statement runs when its wait is
\* over; until then the session keeps its locks and its connection, so the
\* step is taken only then.
Abandon(r) ==
    /\ Active(r)
    /\ ~Stuck(r)
    /\ Fault
    /\ \E code \in {"gone", "500"} : DropAndReply(r, code)
    /\ UNCHANGED <<buckets, gcTodo, gcDone>>

\* The transaction commits, but the connection or the process dies before the
\* client hears of it.
CommitUnheard(r) ==
    /\ req[r].pc = "commit"
    /\ Fault
    /\ CommitBlob(r, req[r].blob)
    /\ Reply(r, "unheard")
    /\ UNCHANGED <<buckets, gcTodo, gcDone>>

\* The process dies: Postgres rolls back every open transaction.
Crash ==
    /\ Fault
    /\ req' = [r \in Request |->
                 IF Active(r) THEN [req[r] EXCEPT !.pc = "done", !.resp = "gone"]
                              ELSE req[r]]
    /\ written' = [r \in Request |-> IF Active(r) THEN Nothing ELSE written[r]]
    /\ held' = [s \in Session |-> {}]
    /\ wait' = [s \in Session |-> {}]
    /\ lost' = {} /\ conn' = {}
    /\ gcTodo' = {} /\ gcDone' = {}
    /\ UNCHANGED <<files, expired, live, content, buckets>>

-----------------------------------------------------------------------------
(* Specification *)

\* Steps the server takes by itself once the request has arrived.
Serve(r) ==
    \/ FindBucket(r) \/ CreateBlocks(r) \/ CreateFile(r) \/ CreateExists(r)
    \/ FindFile(r) \/ OpenHandle(r) \/ OpenFails(r)
    \/ SeekForSize(r) \/ SeekToStart(r) \/ SeekToEnd(r)
    \/ Write(r) \/ WriteBlocks(r) \/ WriteFails(r) \/ Commit(r)
    \/ Compare(r) \/ CheckEof(r) \/ Metadata(r) \/ Stream(r)

ClientSends(r) == NextChunk(r) \/ BodyEnds(r)

Collect ==
    \/ GcBegin \/ GcCommit \/ GcFails
    \/ \E f \in File : GcUnlink(f) \/ GcBlocks(f)

\* Every request has been answered and nothing is left to delete.
Quiet ==
    /\ \A r \in Request : req[r].pc = "done"
    /\ buckets = Bucket /\ expired = {}
    /\ UNCHANGED vars

Next ==
    \/ \E b \in Bucket : CreateBucket(b)
    \/ \E f \in File : Expire(f)
    \/ \E r \in Request : \/ Arrive(r) \/ Serve(r) \/ ClientSends(r) \/ EmptyChunk(r)
                          \/ AcquireTimesOut(r) \/ Abandon(r) \/ CommitUnheard(r)
    \/ Collect
    \/ Crash
    \/ Quiet

Spec == Init /\ [][Next]_vars

\* tokio polls every ready task, Postgres finishes every statement that is not
\* blocked, and the maintenance task keeps ticking; clients keep sending.
Fairness ==
    /\ \A r \in Request : WF_vars(Serve(r)) /\ WF_vars(ClientSends(r))
    /\ WF_vars(Collect)

FairSpec == Spec /\ Fairness

\* The use the storage crate is written for (storage/src/lib.rs:86): on one
\* file, an append is not sent while another upload is in flight.  PUTs of
\* the same file (a client that retries) may overlap.
OneWriter ==
    \A r, s \in Request :
        (r # s /\ Active(r) /\ Active(s) /\ FileOf(r) = FileOf(s))
            => ~(Op(r) = "append" /\ Uploads(s))

SoloSpec == Init /\ [][Next /\ OneWriter']_vars
=============================================================================
