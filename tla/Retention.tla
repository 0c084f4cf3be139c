------------------------------- MODULE Retention -------------------------------
(***************************************************************************)
(* How long files are kept: the TTL of a bucket, the deadline that a       *)
(* server computes when a file is created, and the deletion batches of     *)
(* several servers against the clock of the database.                      *)
(*                                                                         *)
(* storage/src/postgres/mod.rs:137-258, 291-310; server/src/main.rs:57-72; *)
(* the tables and triggers of the migration                                *)
(*                                                                         *)
(* Three clock readings meet: Utc::now() of the server when the request   *)
(* asks, now() of the database when the insert runs, and now() of the      *)
(* database when a batch begins.  A row stands for the file that one       *)
(* request creates.  A batch takes its rows one by one, since it waits for *)
(* rows that the batch of another server has locked.                       *)
(***************************************************************************)
EXTENDS Integers, FiniteSets

CONSTANTS
    Server, Bucket, Name, Request,
    Ttls,       \* TTLs that a bucket may be given
    None,       \* no TTL, no deadline, no row
    BatchSize,  \* rows that one batch deletes (1000 in the code)
    MaxSkew,    \* bound on how far the clock of a server is ahead
    MaxLag,     \* bound on how far it is behind, and the insert late
    MaxTime,    \* bound on the time
    MaxFaults   \* bound on batches that fail

ASSUME TtlsAreNat == Ttls \subseteq Nat
ASSUME NoneIsNothing == None \notin Int /\ None \notin Request
ASSUME RetentionBounds ==
    BatchSize \in Nat \ {0} /\ MaxSkew \in Nat /\ MaxLag \in Nat /\ MaxTime \in Nat /\ MaxFaults \in Nat

VARIABLES
    now,        \* the clock of the database
    ttl,        \* buckets.default_ttl of the buckets there are
    row,        \* the request and the row that it creates
    batch,      \* the deletion batch of each server
    faults

vars == <<now, ttl, row, batch, faults>>

NoRow == [stage |-> "none"]
Idle == [pc |-> "idle", todo |-> {}, want |-> None, held |-> {}]

Init ==
    /\ now = 0
    /\ ttl = [b \in {} |-> None]
    /\ row = [r \in Request |-> NoRow]
    /\ batch = [s \in Server |-> Idle]
    /\ faults = 0

Live == {r \in Request : row[r].stage = "live"}

Tick ==
    /\ now < MaxTime /\ now' = now + 1
    /\ UNCHANGED <<ttl, row, batch, faults>>

-----------------------------------------------------------------------------
(* Buckets and files *)

\* The maintenance command.  A name that is taken is an error.
CreateBucket(b, t) ==
    /\ b \notin DOMAIN ttl
    /\ ttl' = [c \in DOMAIN ttl \cup {b} |-> IF c = b THEN t ELSE ttl[c]]
    /\ UNCHANGED <<now, row, batch, faults>>

\* Utc::now() + ttl
Deadline(clock, b) == IF ttl[b] = None THEN None ELSE clock + ttl[b]

NoUniqueIndex(b, n) == FALSE                                           \* mutant
\* unique (bucket_id, filename)
Taken(b, n) == \E q \in Live : row[q].bucket = b /\ row[q].name = n

\* by_name finds the bucket, create_file computes the deadline, and some time
\* later the insert runs, with the trigger that sets updated_at.  On a unique
\* violation nothing changes.  asked and changed are remembered for the
\* properties: the clock that the deadline counts from, and the time of the last
\* change of the contents.
CreateFile(r, b, n, clock) ==
    /\ row[r] = NoRow /\ b \in DOMAIN ttl /\ ~ Taken(b, n)
    /\ row' = [row EXCEPT ![r] =
           [stage |-> "live", bucket |-> b, name |-> n, asked |-> clock,
            deadline |-> Deadline(clock, b), updated |-> now, changed |-> now]]
    /\ UNCHANGED <<now, ttl, batch, faults>>

\* An upload commits.  It changes the large object (append) and no row, so that
\* no trigger fires and updated_at stays.
CommitAppend(r) ==
    /\ r \in Live
    /\ row' = [row EXCEPT ![r].changed = now]
    /\ UNCHANGED <<now, ttl, batch, faults>>

\* What metadata() answers: select updated_at from files.
LastModifiedAt(r) == row[r].updated

-----------------------------------------------------------------------------
(* delete_old_files_batch *)

LastInterval(r) == row[r].deadline # None /\ row[r].deadline = now - 1   \* mutant
HasExpired(r) == row[r].deadline # None /\ row[r].deadline < now

BatchBegins(s) ==
    /\ batch[s].pc = "idle"
    /\ batch' = [batch EXCEPT ![s] =
           [Idle EXCEPT !.pc = "locking", !.todo = {r \in Live : HasExpired(r)}]]
    /\ UNCHANGED <<now, ttl, row, faults>>

Holder(s, r) == {t \in Server \ {s} : r \in batch[t].held}

\* for update: a row that is locked is waited for.
Get(s, r) ==
    IF Holder(s, r) # {} THEN [batch[s] EXCEPT !.todo = @ \ {r}, !.want = r]
    ELSE [batch[s] EXCEPT !.todo = @ \ {r}, !.held = @ \cup ({r} \cap Live)]

\* order by delete_after asc: rows with the same deadline in any order.
Locks(s) ==
    /\ batch[s].pc = "locking" /\ batch[s].want = None
    /\ Cardinality(batch[s].held) < BatchSize
    /\ \E r \in batch[s].todo :
         /\ \A q \in batch[s].todo : row[r].deadline <= row[q].deadline
         /\ batch' = [batch EXCEPT ![s] = Get(s, r)]
    /\ UNCHANGED <<now, ttl, row, faults>>

\* The other batch is over.  A row that it has deleted is skipped.
Resumes(s) ==
    LET r == batch[s].want IN
    /\ r # None /\ Holder(s, r) = {}
    /\ batch' = [batch EXCEPT ![s].want = None, ![s].held = @ \cup ({r} \cap Live)]
    /\ UNCHANGED <<now, ttl, row, faults>>

ByName(s) == {r \in Live : \E q \in batch[s].held : row[q].name = row[r].name}  \* mutant
\* where dl.id = fs.id
Doomed(s) == batch[s].held

BatchCommits(s) ==
    /\ batch[s].pc = "locking" /\ batch[s].want = None
    /\ batch[s].todo = {} \/ Cardinality(batch[s].held) = BatchSize
    /\ row' = [r \in Request |->
                 IF r \in Doomed(s) THEN [stage |-> "deleted", deadline |-> row[r].deadline] ELSE row[r]]
    /\ batch' = [batch EXCEPT ![s] = Idle]
    /\ UNCHANGED <<now, ttl, faults>>

\* The error is logged, and the next tick begins another batch.
BatchFails(s) ==
    /\ batch[s].pc = "locking" /\ faults < MaxFaults /\ faults' = faults + 1
    /\ batch' = [batch EXCEPT ![s] = Idle]
    /\ UNCHANGED <<now, ttl, row>>

\* Two batches that wait for one another: Postgres aborts one.
Deadlock(s) ==
    /\ \E t \in Holder(s, batch[s].want) : s \in Holder(t, batch[t].want)
    /\ batch' = [batch EXCEPT ![s] = Idle]
    /\ UNCHANGED <<now, ttl, row, faults>>

-----------------------------------------------------------------------------
(* Specification *)

Batch(s) == BatchBegins(s) \/ Locks(s) \/ Resumes(s) \/ BatchCommits(s) \/ Deadlock(s)

Next ==
    \/ Tick
    \/ \E b \in Bucket, t \in Ttls \cup {None} : CreateBucket(b, t)
    \/ \E r \in Request, b \in Bucket, n \in Name :
         \E clock \in now - MaxLag .. now + MaxSkew : CreateFile(r, b, n, clock)
    \/ \E r \in Request : CommitAppend(r)
    \/ \E s \in Server : Batch(s) \/ BatchFails(s)

\* The interval of every server keeps ticking.  A batch that waits for a row gets
\* it before later ones (Postgres queues them), however often it is locked again.
Spec ==
    /\ Init /\ [][Next]_vars
    /\ \A s \in Server : WF_vars(Batch(s)) /\ SF_vars(Resumes(s))

-----------------------------------------------------------------------------
(* Properties *)

\* Every variable has its type; there is one live row for a file, and no two
\* batches hold the same row.
TypeOK ==
    /\ now \in 0 .. MaxTime
    /\ DOMAIN ttl \subseteq Bucket /\ \A b \in DOMAIN ttl : ttl[b] \in Ttls \cup {None}
    /\ \A r \in Request : row[r].stage \in {"none", "live", "deleted"}
    /\ \A q, r \in Live :
         row[q].bucket = row[r].bucket /\ row[q].name = row[r].name => q = r
    /\ \A s \in Server :
         /\ batch[s].pc \in {"idle", "locking"}
         /\ batch[s].todo \subseteq Request /\ batch[s].want \in Request \cup {None}
         /\ batch[s].held \subseteq Live
    /\ \A s, t \in Server : s # t => batch[s].held \cap batch[t].held = {}

\* A file goes only when its bucket has a TTL, and not before that TTL has passed
\* since the time that its server saw when it was asked for (create_file and
\* delete_old_files_batch), whatever the other files of that name.  By the clock
\* of the database it is kept for the TTL since its insert, short of what the
\* server's clock was behind.
KeptForTtl ==
    [][\A r \in Live : row'[r].stage = "deleted" =>
         LET t == ttl[row[r].bucket] IN
         /\ t # None /\ now > row[r].asked + t
         /\ now > row[r].updated + t - MaxLag]_vars

\* A file whose TTL has passed is deleted in the end, although batches of two
\* servers lock the same rows, deadlock and fail (mod.rs:296-305, tasks.rs:28-31).
HasTtl(r) == r \in Live /\ ttl[row[r].bucket] # None
ExpiredRowsGo ==
    \A r \in Request : (HasTtl(r) /\ row[r].asked + ttl[row[r].bucket] < now)
                         ~> (row[r].stage = "deleted")

\* storage/src/lib.rs:56: last_modified_at is "When the file was last modified,
\* according to the system"; metadata() answers updated_at.
LastModifiedIsLastChange == \A r \in Live : LastModifiedAt(r) = row[r].changed
=============================================================================
