# locally-euclidean in TLA+

Specifications of the locally-euclidean blob service (`src/server`, `src/storage`,
`src/migrations`), their model-checking configurations and machine-checked proofs.
Line numbers refer to the sources in this repository.

## 1. The system

| Component | State it keeps | Operations | Talks to |
|---|---|---|---|
| Postgres store: table `files`, large objects, row locks (`migrations/`, external) | rows with oid and `delete_after`; pages; one open transaction per handle | insert with `lo_create`, `lo_open`, `lo_lseek64`, `loread`, `lowrite`, `lo_close` + commit, delete with the `lo_manage` trigger | every session |
| File handle (`storage/src/postgres/blob.rs`, `mod.rs:44-120`) | mutex around the transaction, the operation in progress, fd | poll-based read / seek / write / shutdown, `append`, `metadata`, `commit`, drop | the store, its caller |
| Buckets and files (`mod.rs:122-258`) | table `buckets` with the default TTLs | `by_name`, `create`, `file`, `create_file`, `list` | the store |
| API handlers (`server/src/api.rs`) | the locals of each running request | `put_write_filename`, `post_append_filename`, `check_range_matches` | bucket, handle, client body |
| Downloads (`explore.rs`, `get_buck2_log`) | the same, and the body stream | `get_explore` | bucket, handle, client |
| Expiry (`tasks.rs`, `mod.rs:291-311`) | the interval with its missed ticks | one batch of at most 1000 rows every 120 s | the store, the token, batches of other servers |
| Start-up, shutdown (`main.rs`, `lib.rs`) | cancellation token, the ctrl-c task, listener and maintenance task | serve, ctrl-c, graceful shutdown, join, create-bucket | all |
| Config, headers, tracing, error mapping | none that changes | | |

What is hard about it.  Every `await` is a point where other requests and the expiry
batch run, and nothing serialises requests on one file (`mod.rs:10` says so).  The row and
the file's contents are written in different transactions.  A client can go away at any
await, which drops the handler and its handle; the process can die; a commit can take
effect without the client hearing of it, whereupon the client sends the request again, and
the service must tell a re-send from a conflict.  Connections are a bounded resource which a
handle occupies for its whole life.  What makes each component correct:

* store and handles: nothing but committed uploads is ever visible; rows and large objects
  come and go together;
* uploads: a whole body, in order, without holes, whatever else happens to the file;
* comparisons: 200 only if the file holds the body, 409 only if it does not;
* downloads: exactly the file's bytes, as many as promised;
* expiry: expired files go in the end, none goes early, and each takes its large object along;
* start-up and shutdown: a graceful stop cuts nothing off and completes; the process never goes
  on with half of itself;
* requests: each one is answered.

`PROJECT.json` lists the hazards at their lines, with the properties that cover them.

## 2. The modules

| Module | What it is |
|---|---|
| `BlobStore` | state and operations of the store: rows, large objects, writes pending in a session's transaction, page locks, waits, connections.  No next-state relation |
| `Service` | the handlers as one state machine per request, the expiry batch, faults; `Spec`, `FairSpec`, `SoloSpec` |
| `FileStore` | the abstract specification: an atomic file store with answers |
| `ServiceProperties` | the properties, and `FileStore` instantiated with the refinement mapping |
| `ServiceClaims` | statements of docs and comments that the code does not keep |
| `ServiceInvariant` | `IInv` and `SoloInv`, the inductive invariants of `Spec` and `SoloSpec`, and what is invariant about page locks |
| `MCService` | scenarios (who asks for what) for TLC |
| `BlobHandle` | one handle in detail: the poll state machine, cancellation, errors |
| `Lifecycle` | the serving process: start-up, ctrl-c, listener, maintenance task, shutdown, join |
| `Retention` | TTLs, deadlines and clocks; the deletion batches of several servers |
| `ServiceTypeProofs` | theorem `TypeCorrect` |
| `ServiceSafetyProofs` | theorem `InductiveInvariant` and five safety theorems |
| `ServicePoolProofs` | connections and page locks: theorems `PoolAccountingHolds`, `NoDeadlockHolds` |
| `ServiceSoloProofs` | theorems `SoloInvariant`, `DownloadAgreesHolds` |
| `ServiceRefinementProofs` | theorem `ImplementsFileStoreHolds` |
| `BlobHandleProofs` | theorem `HandleInvariant` and four safety theorems |
| `LifecycleProofs` | theorems `LifecycleTypes`, `GracefulStopHolds`, `OneLateBatchHolds` |
| `RetentionProofs` | theorems `RetentionTypeCorrect`, `KeptForTtlHolds` |

### Service and BlobStore

`req[r]` is the state of the handler task of request `r`: `pc` is the await at which it
stands, `blob` the oid it works on, `pos` the position of its large-object descriptor,
`size` what `seek(End(0))` returned, `rcvd`/`stored` how much of the body was received and
written, `seen` what a comparison or download has read, `resp` the answer.

| Action | Code |
|---|---|
| `Arrive`, `FindBucket` | routing, `PostgresBucket::by_name` |
| `CreateFile`, `CreateExists`, `CreateBlocks` | `create_file`: the insert, its unique violation, its wait for a delete in progress |
| `FindFile` | `PostgresBucket::file`, before the handle is opened |
| `OpenHandle`, `OpenFails`, `AcquireTimesOut` | `BlobHandleInner::open`: begin and `lo_open`; the oid is gone; `PoolTimedOut` |
| `SeekForSize`, `SeekToStart` | `api.rs:235-240`, `explore.rs:53-59`, `api.rs:120` |
| `NextChunk`, `EmptyChunk`, `BodyEnds` | the request's data stream; a frame without bytes makes `append` seek and write nothing |
| `SeekToEnd`, `Write`, `WriteBlocks`, `WriteFails` | `append`: a seek and a write, each a statement of its own |
| `Commit`, `CommitUnheard` | `lo_close`, commit, the answer; the answer does not arrive |
| `Compare`, `CheckEof` | `check_range_matches`; `read_exact` may need several reads |
| `Metadata`, `Stream` | `get_explore` and its body stream |
| `GcBegin`, `GcUnlink`, `GcBlocks`, `GcCommit`, `GcFails` | `delete_old_files_batch` and the loop that calls it |
| `Abandon`, `Crash` | a disconnect or a failed query, once no statement of the handler waits (`Stuck`); the process dies |
| `CreateBucket`, `Expire` | the maintenance command; `delete_after` passes |

`Call[r]` says what request `r` asks for; a retry is another request with the same body.
Byte `i` of body `d` is `<<d, i>>`, so that it is visible whose bytes are where.

Abstractions.  A large object is named after the request that created it.  Handles are
opened `ReadWrite`, for which Postgres gives each statement the latest committed pages, plus
the session's own writes.  A write locks the pages it touches until the end of its
transaction; a statement that meets a foreign lock waits, and fails ("tuple concurrently
updated") if the holder commits.  Postgres, sqlx's pool, hyper and tokio are external and
modelled by these rules.  A handle that is dropped gives up its locks and its connection in
one step: sqlx queues a ROLLBACK, which runs when the statement before it has ended.  If that
statement waits for a lock the session keeps everything until the wait is over, so `Abandon`
happens only then; the client may be gone long before, which nobody can tell.  `Crash` ends
all sessions at once, although Postgres may notice it later for some than for others.
hyper sends at most `Content-Length` bytes and cuts
the connection when the stream ends early ("short").  Messages and headers are left out;
timestamps are in `Retention`.  A download whose bytes nobody uploaded shows the value `Zero`.

### BlobHandle

The caller's future (`call`) and the operation in `BlobHandle::state` (`state`) are separate
variables, since cancelling the one leaves the other behind, together with the mutex
(`lock`).  `Execute`, `ExecuteCommit` and `Query` are Postgres' steps; an error aborts the
transaction.  `Start`, `Mismatch` and the `...Done` actions are the branches of the poll
functions.  `commit(self)` takes the handle, so `IsShutdown` cannot occur; `position` is
never used, because every seek of the code goes through `AsyncSeekExt`, which starts an
operation of its own.  The caller may cancel a method and go on with the handle (`resumed`);
`src/server` never does, since a cancelled handler drops its handle, and `NeverPanics` is about
callers that do not.  `EveryCallReturns` is about all callers and names the one call that may hang:
`metadata()` behind an operation that was left over (`LeftWaiting`).

### Lifecycle

`main` is the line at which `main()` stands or how it ended, `terminate` the token, `loop` the
maintenance task, `listener` and `conns` what `axum::serve` does, `backlog` the expired files in
the order of `delete_after`.

| Action | Code |
|---|---|
| `Launch`, `SpawnTasks`, `Bind`, `StartFails` | `main.rs:86-112`, `AppStateInner::new`; a failure ends `main` with an error |
| `ListenForCtrlC`, `CtrlC` | the task of `main.rs:92-100`; a signal that comes before it listens is a `Kill` |
| `Tick`, `Wake`, `CheckCancelled`, `BatchBegins`, `BatchDone`, `BatchFails` | the loop of `tasks.rs:19-32`, with `select!` and the test of `is_cancelled` as steps of their own |
| `Accept`, `Finish`, `Drain`, `Drained`, `ListenerFails` | `axum::serve(..).with_graceful_shutdown(..)` |
| `Join`, `JoinFails` | `try_join!`: both halves are over, or one has an error |
| `Kill`, `Launch` again, `Expire` | the environment |

`Exit` is the end of the runtime: requests and the batch that still run are cut, and the
batch's statement may take effect or not.  Interval ticks that were missed are made up for
(tokio's default, `Burst`); an interval's first tick is due at once.  A batch waits for uploads
that are open when it begins; that later ones may come in between is modelled in `Service`.

### Retention

A row is the file that one request creates.  `CreateFile` takes a reading `clock` of the server's
clock anywhere between `now - MaxLag` (it is behind, or the insert comes late) and
`now + MaxSkew`, where `now` is the clock of the database, with which `delete_after` is compared.
`asked` remembers that reading for the properties.  `updated` is the row's `updated_at`, which the triggers set
from the database's clock and which `LastModifiedAt` (`metadata()`) answers; `changed` is the time at which the file was
last written to, by its creation or by an append (`CommitAppend`).  `BatchBegins` is the snapshot of `delete_old_files_batch`, `Locks` its
`for update` row by row in the order of `delete_after` (ties in any order), `Resumes` its going on after
a wait, `BatchCommits` the delete, `Deadlock` the abort of one of two batches that wait for one another.
The intervals of Postgres are plain numbers: `by_name` turns months into 30 days.

### FileStore

Files appear empty, grow by whole bodies in one step, and disappear.  A request attaches to a
file; an upload is answered 200 only when the file took or holds its body, 409 only when it
holds something else.  The mapping is `store = [f |-> content[files[f]]]`, `attached` =
requests whose large object is live, `reply` = the answers.

## 3. Runs

| Run | Specification | Instance | Shows |
|---|---|---|---|
| `appends` | `Spec` | a put and two appends to one file, bodies of 1 and 2 bytes in any chunking, pages of 2 bytes, expiry, one fault | `TypeOK`, `OnlyCommittedBytes`, `WholeBodyInOrder`, `NoHoles`, `AppendsPastSize`, `NoDeadlock` under any overlap |
| `expiry` | `Spec` | two files, a retry, a download, expiry, two connections, one fault | `RowsAndBlobs`, `PoolAccounting` |
| `solo` | `SoloSpec` | put, its retry, append, download, expiry, one fault | `DownloadAgrees`, `ImplementsFileStore` |
| `offsets` | `SoloSpec` | put and appends inside, at and beyond the end | `ImplementsFileStore` at the boundaries of the offset |
| `locks` | `FairSpec` | a put and its retry, an append, a download, expiry, two connections | `EveryRequestEnds`, `ExpiredFilesGo` |
| `handle` | `BlobHandle!Spec` | four method calls with cancellation, one failed statement | `TypeOK`, `AllOrNothing`, `ReadsAreContiguous`, `NeverPanics`, `EveryCallReturns` |
| `lifecycle` | `Lifecycle!Spec` | two requests that come again and again, two files that expire again and again, batches of one file, two faults | `TypeOK`, `GracefulStop`, `OneLateBatch`, `ShutdownCompletes`, `NoHalfServer`, `BacklogDrains` |
| `retention` | `Retention!Spec` | two servers, two buckets with or without a TTL of 1, three files, clocks off by 1, batches of two rows, one failed batch | `TypeOK`, `KeptForTtl`, `ExpiredRowsGo` |
| `claim_*` | | | a statement of a doc or comment is violated (section 5) |

Why the bounds suffice.  The hard cases need two writers that interleave chunk by chunk (two
appends of two bytes over a page boundary), a retry beside its original, one reader, one
expiry, and one fault at any point; more of the same only adds copies, since requests meet
through one large object, its pages and the pool.  Bounds: `MaxFaults` (disconnects, failed
queries, crashes), `MaxConn` (the pool), `MaxCalls`, `MaxRead`, `OldLen` in `BlobHandle`;
`BatchSize`, `MaxMissed` (ticks that wait), `MaxSkew`, `MaxLag`, `MaxTime` in `Lifecycle` and `Retention`; body lengths and offsets are those of the `Calls` operators.

In `lifecycle` a batch of one file and a second file that keeps expiring are what it takes to
starve the first one, two ticks are enough for a second batch after the cancellation, and two
faults allow an error after a restart.  In `locks` the retry is what makes a PUT meet the batch: its insert waits for
the delete, or it finds that the file of its unique violation is gone.  In `retention` two rows and two batches make a deadlock,
and the third row takes over the name of one that is gone.

`appends` has one put and one file, so that inserts that wait for a delete and batches over several files are not in it;
`NoDeadlock` holds for them by its theorem, and `locks` has the waiting insert.

`SoloSpec` restricts the clients, not the server: while an append to a file is in flight no
other upload to it is sent.  buck2 uploads a log by one client in sequence, and
`storage/src/lib.rs:86` states the assumption; `AppendsAccumulate` shows what happens without.

Fairness.  `WF` of `Serve(r)` (tokio polls every ready task and Postgres finishes every
statement that is not blocked), of `ClientSends(r)` (clients that stop are `Abandon`, which is
bounded by `MaxFaults`) and of `Collect` (the interval keeps ticking and errors do not end the
loop, `tasks.rs:19-32`).  Weak fairness suffices as there are finitely many requests, so that
a batch fails only finitely often.  Nothing is assumed about faults, `AcquireTimesOut`,
`Expire` or arrivals.  In `BlobHandle`, a task that awaits a method is polled, and a statement
that was sent is answered.  In `Lifecycle`, tokio polls what is ready, the clock goes on, and every
request ends.  This last one is an assumption on the clients: graceful shutdown has no timeout, so that an
upload whose client holds it open keeps the process alive.  Nothing is assumed about ctrl-c, restarts or
faults.  In `Retention`, the batches of each server go on, and strongly fair `Resumes` says that a batch that
waits for a row is not passed over for ever, since Postgres queues those who wait.

## 4. Proofs

`ServiceTypeProofs` proves `TypeCorrect`: `Spec => []TypeOK` for all requests, files, bodies,
pages, pools and buffers, under the assumptions named in `BlobStore` and `Service` (`GcIsNoRequest`,
`PageSizeIsPos`, `MaxConnIsPos`, `BucketOfType`, `CallType`, `BufSizeIsPos`, `MaxFaultsIsNat`).
`TypeOK` is inductive by itself; it carries the facts that contents are bounded sets of offsets (so
that `Size` is one more than the last) and that a session has written only bytes of its own body.

`ServiceSafetyProofs` proves `InductiveInvariant`: `Spec => []IInv`, and from it
`OnlyCommittedBytes`, `WholeBodyInOrder`, `NoHoles`, `AppendsPastSize` and `RowsAndBlobs`, from
the same assumptions. None of these is inductive: a commit leaves no hole only if the position it
wrote at lay within what its session saw, which holds because only an upload's commit changes a
file between the seek and the write, and commits only add bytes. `IInv` (`ServiceInvariant`)
says this for every point of a handler:

- `AnsweredIsDone`, `BlockedIsWriting`: which points have an answer or a lock to wait for;
- `FreshBlob`: a large object is untouched and unknown before its creator's insert;
- `WritesPending`, `ChunkInHand`, `Layout`: what an upload has received and written so far;
- `WritesWithinView`, `SizeIsCovered`: what the position and the size a handler has seen still
  say about the file when it writes.

The proof goes in three parts. `Next` has more than thirty actions but changes what `IInv` talks
about in fifteen ways, the *effects* (`Sought`, `Written`, `Committed`, `Collected`, ...);
`EveryStepHasAnEffect` shows that every step has one. A `...Kept` lemma for each conjunct then
shows that every effect keeps it. `InitHolds` and `StepKeeps` put the lemmas together.

`ServicePoolProofs` proves `PoolAccounting`, which is inductive together with `TypeOK` and the
finiteness of `conn` (without it `Cardinality` says nothing): a lemma for each way to acquire or
release a connection, and one step per action that says which of them it is.

It also proves `NoDeadlock`. A request waits for page locks of one large object; the batch locks pages of
many, one large object after the other. `LockInv` says who holds what: a page has one holder (`OneHolder`), who
has a connection (`HoldersConnected`); an upload holds pages it has written and, while it is stuck in a write,
all pages of the chunk before the one it waits for (`HeldByWriter`); the batch holds a large object's
pages from the first on (`HeldByBatch`, which needs `NoHoles`, as it takes the pages that exist); and whoever waits
for page `k` of a large object holds only pages below `k` of it (`WaitsAbove`). The last conjunct is what forbids a
circle. All members of one wait for the same large object, the batch's if the batch is among them: the others hold
only pages of the file they write to. Along the circle `k` would grow for ever (`NoAscent`), and the circle is finite because
its members have connections. `WaitsAbove` needs the rest: a writer that has gone back behind a page it holds could wait for a
page below it, which cannot happen since every write starts at the end of what the session sees (`SeekToEnd`). All steps
but four only give locks up (`MostStepsEase`, `EasesKeeps`); `Write`, `WriteBlocks`, `GcUnlink` and `GcBlocks` have a lemma each.
Waiting for a connection is not part of `Awaits`: `acquire` times out (`AcquireTimesOut`), and that all get their turn
is `EveryRequestEnds`.

`ServiceSoloProofs` proves `SoloInvariant`: `SoloSpec => []SoloInv`, from the same assumptions. Two
handlers that write to one file at once can tear each other's bodies (`AppendsAccumulate`), so this part is
about clients that do not send an append during another upload to its file. `SoloInv` adds to `IInv`:

- `OneWriter`, `NamesFit`, `Creators`, `OpFits`: no other upload commits to the file of one that writes, a PUT
  writes to the large object it created and no other, and which branch of which handler a `pc` belongs to;
- `WriterFits`: hence the file of a writer ends where the writer found its end, and what it has written
  so far is its body from there on;
- `SeenFits`: what a comparison or download has read of a file that still exists, the file still has (commits
  only add bytes, and bytes of a live file are never replaced under `WriterFits`);
- `CompareFits`, `DownloadFits`: how far it has read, and what it has compared or sent of it.

Effects say what a step does to the store; here the proof also needs what it does to the record of its
handler. `EveryHandlerTurns` lists these *turns* (`Walked`, `Sized`, `Rewound`, ...), and each conjunct is kept
by every turn of a handler and by every change of a file under it. `DownloadAgrees` follows.

`ServiceRefinementProofs` proves `ImplementsFileStoreHolds`: `SoloSpec => ImplementsFileStore`. Every effect is
mapped: an insert is `Create`, a handle that is given a large object is `Find`, a deletion batch is `Remove`, errors,
disconnects and crashes are `Fail`, and all that uploads receive and write before their commit is a stutter. The
commit is `Upload`, by `WriterFits`: the body lands behind the end of the file and nowhere else. Answers after a
comparison are `Match` or `Conflict`; that they are true of the file at this moment, though it was read in pieces while
others may have extended it, is `MatchIsTrue` and `ConflictIsTrue`, from `CompareFits` and `SeenFits`. Answers of a handler whose
large object is gone are `Late`.

`BlobHandleProofs` proves `HandleInvariant`: `Spec => []BInv` of `BlobHandle`, from `BoundsAreNat`, and from it
`TypeOK`, `AllOrNothing`, `ReadsAreContiguous` and `NeverPanics`. What makes it hard is that a cancelled method
leaves its operation behind, with the mutex, and that the next method may drive it to its end. `BInv` says
what each may take for its own: the mutex belongs to the operation or to the query of `metadata()`
(`StagesFit`); from its seek on a method drives only the operation it has started itself (`OwnOperation`); an operation
that is over says how the transaction is (`TxnFits`); the transaction has written the acknowledged chunks, and one
more if a write has succeeded that nobody has been told of (`ContentsFit`); the descriptor stands behind what the
caller has read and what a finished read still holds (`PositionFits`); and a caller that has not gone on
after a cancellation finds no operation but its own (`NoLeftovers`).

`LifecycleProofs` proves `TypeOK` from `BatchSizeIsPos` and `LifecycleBounds`, and two invariants from no
assumption at all.  `TypeInv` adds to `TypeOK` that the task is alive only while the process runs, and that a batch is no longer
than the backlog, which therefore still begins with it when files expire meanwhile.  `OneLateBatch` is not
inductive: `LateInv` adds that a task at `begin` has not begun a late batch yet, and that none is late before
the cancellation.  `GracefulStop` needs `StopInv`: requests are cut only when a process ends with an error, and
a closed listener has no open request.

`RetentionProofs` proves `TypeOK` and the action property `KeptForTtl` from `TtlsAreNat`, `NoneIsNothing` and
`RetentionBounds`.  `KeptForTtl` bounds a file's life twice: by the clock of the server that created it, and, less `MaxLag`, by
the clock of the database, since a server that is behind asks for an earlier deadline than the database would.  `RInv` adds
that a live row's deadline is what its bucket promises (a TTL never changes), that the reading it was made from is at
most `MaxLag` behind the row's `updated_at` (`LagIsBounded`), and that all a batch has at hand had expired when it began, even
if another batch has deleted it since.

Each of these invariants was checked with TLC on the runs' instances before it was proved.  With them every
invariant and action property of the passing runs, and the refinement, is a theorem.

Only model-checked: liveness under fairness, which is out of the prover's reach (`EveryRequestEnds`,
`ExpiredFilesGo`, `EveryCallReturns`, `ShutdownCompletes`, `NoHalfServer`, `BacklogDrains`, `ExpiredRowsGo`), and the
claims, whose counterexamples are the point.

## 5. Where the code and its documentation differ

* `claim_at_end`: an append at exactly the end of the file is answered 409 (`api.rs:240`), while
  `README.md:56` promises 200.  Conversely an offset beyond the end is accepted and the body goes
  to the end; `FileStore!Upload` says so.
* `claim_resend`: re-sending a chunk that is not the last one is answered 409 (`README.md:59`).
* `claim_accumulate`: overlapping appends overwrite one another (`storage/src/lib.rs:63`).
* `claim_last_modified`: `Last-Modified` is `files.updated_at`, which only triggers on the row set, and an
  append does not touch the row: after an append at time 1 to a file of time 0 it is still 0 (`storage/src/lib.rs:56`).

Noted while modelling and visible in the specifications, without a run of their own: a download fails with
500 or breaks off when its file expires after it was opened (`explore.rs:51`, action `GcCommit`); two handles to a
file exist at once (`storage/src/lib.rs:86`); a PUT may answer 500 because its existing file expired
(`api.rs:176`); an upload that fails leaves its file behind, empty, so that the client's retry is compared with it and
refused (Note [Streaming request bodies atomicity], `api.rs:192-198`; `FileStore` has `Create` and `Upload` apart);
an upload that has a file open when its row is deleted writes on (`lowrite` does not look whether the large object
still exists) and commits, with a 200, pages that no row names and no batch deletes (`blob.rs:375`,
`initial_schema.sql:59-62`, action `Commit`); `metadata()` after a cancelled read waits for ever for the mutex of
the operation that was left behind, instead of panicking (`blob.rs:34-36`, `blob.rs:105`, `LeftWaiting`);
a PUT answers 200, never 201 (`README.md:44`); `max_upload_size_mb` and
`allowed_content_types` are never consulted (`config.rs:13-25`).

## 6. Not modelled, and the plan

Left to prove: further facts that the liveness arguments rest on, for instance that a batch of `Retention` holds
locks only on rows of its snapshot, and that a session in `lost` has always met a commit.

`check_range_matches` has no module of its own: `Service!Compare` follows its loop over any chunking, and
`ImplementsFileStore` is its reference.  Also not modelled: dates beyond the calendar, at which `Utc::now() + ttl` panics
(`mod.rs:238`); the length limit of uploads, which the code does not check (`config.rs:15`).

Left out for good: configuration, headers, CORS, tracing, the Nix and test set-up (no state that
changes), `list_buckets` and `/healthcheck` (reads only).
