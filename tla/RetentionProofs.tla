---------------------------- MODULE RetentionProofs ----------------------------
(***************************************************************************)
(* TypeOK and KeptForTtl, for any servers, buckets, TTLs and bounds.       *)
(***************************************************************************)
EXTENDS Retention, TLAPS

LiveRow ==
    [stage : {"live"}, bucket : Bucket, name : Name, asked : Int,
     deadline : Int \cup {None}, updated : Int, changed : Int]
DeletedRow == [stage : {"deleted"}, deadline : Int \cup {None}]
BatchState ==
    [pc : {"idle", "locking"}, todo : SUBSET Request, want : Request \cup {None},
     held : SUBSET Request]

Types ==
    /\ now \in 0 .. MaxTime
    /\ DOMAIN ttl \subseteq Bucket
    /\ \A b \in DOMAIN ttl : ttl[b] \in Ttls \cup {None}
    /\ row \in [Request -> {NoRow} \cup LiveRow \cup DeletedRow]
    /\ batch \in [Server -> BatchState]

\* The unique index.
OneRowPerFile ==
    \A q, r \in Live : row[q].bucket = row[r].bucket /\ row[q].name = row[r].name => q = r

\* What create_file computed is what the bucket promises, for ever.
DeadlinesAreRight ==
    \A r \in Live : /\ row[r].bucket \in DOMAIN ttl
                    /\ row[r].deadline = Deadline(row[r].asked, row[r].bucket)

\* A server is behind the database by MaxLag at most when the insert runs.
LagIsBounded == \A r \in Live : row[r].updated <= row[r].asked + MaxLag

\* A batch has only rows at hand that had expired when it began.
Due(r) ==
    /\ row[r].stage \in {"live", "deleted"}
    /\ row[r].deadline \in Int /\ row[r].deadline < now
BatchesAreDue ==
    \A s \in Server :
      /\ \A r \in batch[s].todo \cup batch[s].held : Due(r)
      /\ batch[s].want # None => Due(batch[s].want)
      /\ batch[s].held \subseteq Live

HeldOnce == \A s, t \in Server : s # t => batch[s].held \cap batch[t].held = {}

RInv ==
    /\ Types /\ OneRowPerFile /\ DeadlinesAreRight /\ LagIsBounded
    /\ BatchesAreDue /\ HeldOnce

-----------------------------------------------------------------------------
(* Steps that leave the rows alone, or leave the batches alone *)

LEMMA DueStays ==
    ASSUME RInv, now' \in 0 .. MaxTime, now <= now', UNCHANGED <<ttl, row, batch>>
    PROVE  RInv'
<1>1. \A r \in Request : Due(r) => Due(r)'
  BY DEF Due, RInv, Types
<1> QED
  BY <1>1 DEF RInv, Types, OneRowPerFile, DeadlinesAreRight, LagIsBounded, BatchesAreDue,
              HeldOnce, Live, Deadline, BatchState

LEMMA BucketStep ==
    ASSUME RInv, NEW b \in Bucket, NEW t \in Ttls \cup {None}, CreateBucket(b, t)
    PROVE  RInv'
<1>1. /\ DOMAIN ttl' = DOMAIN ttl \cup {b} /\ ttl'[b] = t
      /\ \A c \in DOMAIN ttl : ttl'[c] = ttl[c]
  BY DEF CreateBucket
<1>2. Types'
  BY <1>1 DEF CreateBucket, RInv, Types
<1>3. DeadlinesAreRight'
  BY <1>1 DEF CreateBucket, RInv, DeadlinesAreRight, Live, Deadline
<1> QED
  BY <1>2, <1>3 DEF CreateBucket, RInv, OneRowPerFile, LagIsBounded, BatchesAreDue, HeldOnce,
                    Live, Due

LEMMA CreateFileStep ==
    ASSUME RInv, NEW r \in Request, NEW b \in Bucket, NEW n \in Name, NEW clock \in Int,
           now - MaxLag <= clock, CreateFile(r, b, n, clock)
    PROVE  RInv'
<1>1. Deadline(clock, b) \in Int \cup {None}
  <2>1. ttl[b] \in Ttls \cup {None}
    BY DEF CreateFile, RInv, Types
  <2>2. CASE ttl[b] \in Ttls
    <3>1. ttl[b] \in Nat
      BY <2>2, TtlsAreNat, Zenon
    <3> QED BY <3>1 DEF Deadline
  <2>3. CASE ttl[b] = None
    BY <2>3 DEF Deadline
  <2> QED BY <2>1, <2>2, <2>3
<1>2. /\ row'[r] = [stage |-> "live", bucket |-> b, name |-> n, asked |-> clock,
                    deadline |-> Deadline(clock, b), updated |-> now, changed |-> now]
      /\ \A q \in Request : q # r => row'[q] = row[q]
      /\ row[r] = NoRow /\ UNCHANGED <<now, ttl, batch>>
  BY DEF CreateFile, RInv, Types
<1>3. Types'
  <2>1. now \in Int
    BY DEF RInv, Types
  <2> QED BY <1>1, <2>1 DEF CreateFile, RInv, Types, LiveRow
<1>4. Live' = Live \cup {r} /\ r \notin Live
  BY <1>2 DEF Live, NoRow
<1>5. OneRowPerFile'
  BY <1>2, <1>4 DEF RInv, OneRowPerFile, CreateFile, Taken, Live
<1>6. DeadlinesAreRight'
  BY <1>2, <1>4 DEF RInv, DeadlinesAreRight, CreateFile, Deadline, Live
<1>7. BatchesAreDue'
  <2>1. \A q \in Request : Due(q) => q # r /\ Due(q)'
    BY <1>2 DEF Due, NoRow
  <2> QED BY <1>2, <1>4, <2>1 DEF RInv, BatchesAreDue, Types, BatchState
<1>8. LagIsBounded'
  <2>1. now \in Int /\ MaxLag \in Int
    BY RetentionBounds DEF RInv, Types
  <2>2. row'[r].updated = now /\ row'[r].asked = clock
    BY <1>2
  <2>3. row'[r].updated <= row'[r].asked + MaxLag
    BY <2>1, <2>2
  <2>4. \A q \in Live : row'[q] = row[q] /\ row[q].updated <= row[q].asked + MaxLag
    BY <1>2, <1>4 DEF RInv, LagIsBounded, Live
  <2>5. MaxLag' = MaxLag
    OBVIOUS
  <2> QED BY <1>4, <2>3, <2>4 DEF LagIsBounded
<1> QED BY <1>2, <1>3, <1>5, <1>6, <1>7, <1>8 DEF RInv, HeldOnce

LEMMA AppendStep ==
    ASSUME RInv, NEW r \in Request, CommitAppend(r)
    PROVE  RInv'
<1>1. row[r] \in LiveRow
  BY DEF CommitAppend, RInv, Types, Live, NoRow, DeletedRow
<1>1a. now \in Int
  BY DEF RInv, Types
<1>2. /\ row'[r] = [row[r] EXCEPT !.changed = now] /\ row'[r] \in LiveRow
      /\ \A q \in Request : q # r => row'[q] = row[q]
      /\ UNCHANGED <<now, ttl, batch>>
  BY <1>1, <1>1a DEF CommitAppend, RInv, Types, LiveRow
<1>3. /\ Live' = Live
      /\ \A q \in Live : /\ row'[q].bucket = row[q].bucket /\ row'[q].name = row[q].name
                         /\ row'[q].asked = row[q].asked /\ row'[q].updated = row[q].updated
                         /\ row'[q].deadline = row[q].deadline
  BY <1>1, <1>2 DEF Live, LiveRow
<1>4. Types'
  BY <1>1, <1>2 DEF CommitAppend, RInv, Types
<1>5. OneRowPerFile' /\ DeadlinesAreRight' /\ LagIsBounded'
  BY <1>2, <1>3 DEF RInv, OneRowPerFile, DeadlinesAreRight, LagIsBounded, Deadline
<1>6. BatchesAreDue'
  <2>1. \A q \in Request : Due(q) => Due(q)'
    BY <1>1, <1>2 DEF Due, LiveRow
  <2> QED BY <1>2, <1>3, <2>1 DEF RInv, BatchesAreDue, Types, BatchState
<1> QED BY <1>2, <1>4, <1>5, <1>6 DEF RInv, HeldOnce

-----------------------------------------------------------------------------
(* The steps of a batch *)

\* The state of the batch of server s becomes new.
Becomes(s, new) ==
    batch' = [batch EXCEPT ![s] = new] /\ UNCHANGED <<now, ttl, row>>

LEMMA BatchChanges ==
    ASSUME RInv, NEW s \in Server, NEW new \in BatchState, Becomes(s, new),
           \A r \in new.todo \cup new.held : Due(r),
           new.want # None => Due(new.want),
           new.held \subseteq Live,
           \A t \in Server : s # t => new.held \cap batch[t].held = {}
    PROVE  RInv'
<1>1. batch'[s] = new /\ \A t \in Server : t # s => batch'[t] = batch[t]
  BY DEF Becomes, RInv, Types
<1>2. Types'
  BY DEF Becomes, RInv, Types
<1>3. OneRowPerFile' /\ DeadlinesAreRight' /\ LagIsBounded'
  BY DEF Becomes, RInv, OneRowPerFile, DeadlinesAreRight, LagIsBounded, Deadline, Live
<1>4. BatchesAreDue'
  BY <1>1 DEF Becomes, RInv, BatchesAreDue, Due, Live
<1>5. HeldOnce'
  BY <1>1 DEF RInv, HeldOnce
<1> QED BY <1>2, <1>3, <1>4, <1>5 DEF RInv

LEMMA IdleIsFine == Idle \in BatchState /\ Idle.todo \cup Idle.held = {} /\ Idle.want = None
  BY DEF Idle, BatchState

LEMMA IdleStep ==
    ASSUME RInv, NEW s \in Server, Becomes(s, Idle)
    PROVE  RInv'
  BY IdleIsFine, BatchChanges

LEMMA BeginStep ==
    ASSUME RInv, NEW s \in Server, BatchBegins(s)
    PROVE  RInv'
<1> DEFINE new == [Idle EXCEPT !.pc = "locking", !.todo = {r \in Live : HasExpired(r)}]
<1>1. /\ new \in BatchState /\ new.held = {} /\ new.want = None
      /\ new.todo = {r \in Live : HasExpired(r)}
  BY DEF Idle, BatchState, Live
<1>2. \A r \in new.todo : Due(r)
  <2> SUFFICES ASSUME NEW r \in Live, HasExpired(r) PROVE Due(r)
    BY <1>1
  <2>1. row[r] \in LiveRow
    BY DEF RInv, Types, Live, NoRow, DeletedRow
  <2> QED BY <2>1 DEF LiveRow, HasExpired, Due
<1>3. Becomes(s, new)
  BY DEF BatchBegins, Becomes
<1> QED BY <1>1, <1>2, <1>3, BatchChanges

LEMMA LockStep ==
    ASSUME RInv, NEW s \in Server, Locks(s)
    PROVE  RInv'
<1>1. PICK r \in batch[s].todo : Becomes(s, Get(s, r))
  BY DEF Locks, Becomes
<1>2. /\ batch[s] \in BatchState /\ r \in Request /\ Due(r) /\ batch[s].want = None
      /\ \A q \in batch[s].todo \cup batch[s].held : Due(q)
      /\ batch[s].held \subseteq Live
  BY DEF RInv, Types, BatchState, BatchesAreDue, Locks
<1>3. CASE Holder(s, r) # {}
  <2>1. Get(s, r) = [batch[s] EXCEPT !.todo = @ \ {r}, !.want = r]
    BY <1>3 DEF Get
  <2> DEFINE new == Get(s, r)
  <2>2. /\ new \in BatchState /\ new.want = r /\ new.held = batch[s].held
        /\ new.todo \subseteq batch[s].todo
    BY <1>2, <2>1 DEF BatchState
  <2>3. \A t \in Server : s # t => new.held \cap batch[t].held = {}
    BY <2>2 DEF RInv, HeldOnce
  <2> HIDE DEF new
  <2> QED BY <1>1, <1>2, <2>2, <2>3, BatchChanges DEF new
<1>4. CASE Holder(s, r) = {}
  <2>1. Get(s, r) = [batch[s] EXCEPT !.todo = @ \ {r}, !.held = @ \cup ({r} \cap Live)]
    BY <1>4 DEF Get
  <2> DEFINE new == Get(s, r)
             more == batch[s].held \cup ({r} \cap Live)
             rest == batch[s].todo \ {r}
  <2>0. more \in SUBSET Request /\ rest \in SUBSET Request
    BY <1>2 DEF BatchState
  <2>1a. new = [batch[s] EXCEPT !.todo = rest, !.held = more]
    BY <1>2, <2>1 DEF BatchState
  <2>2. /\ new \in BatchState /\ new.want = None
        /\ new.held = batch[s].held \cup ({r} \cap Live)
        /\ new.todo \subseteq batch[s].todo
    <3> HIDE DEF new, more, rest
    <3>1. new \in BatchState /\ new.want = None /\ new.held = more /\ new.todo = rest
      BY <1>2, <2>0, <2>1a DEF BatchState
    <3> QED BY <3>1 DEF more, rest
  <2>3. \A t \in Server : s # t => new.held \cap batch[t].held = {}
    BY <1>4, <2>2 DEF RInv, HeldOnce, Holder
  <2> HIDE DEF new
  <2> QED BY <1>1, <1>2, <2>2, <2>3, BatchChanges DEF new
<1> QED BY <1>3, <1>4

LEMMA ResumeStep ==
    ASSUME RInv, NEW s \in Server, Resumes(s)
    PROVE  RInv'
<1> DEFINE r == batch[s].want
           new == [batch[s] EXCEPT !.want = None, !.held = @ \cup ({r} \cap Live)]
<1>1. /\ batch[s] \in BatchState /\ r \in Request /\ Due(r)
      /\ \A q \in batch[s].todo \cup batch[s].held : Due(q)
      /\ batch[s].held \subseteq Live /\ Holder(s, r) = {}
  BY DEF RInv, Types, BatchState, BatchesAreDue, Resumes
<1>2. /\ new \in BatchState /\ new.want = None /\ new.todo = batch[s].todo
      /\ new.held = batch[s].held \cup ({r} \cap Live)
  BY <1>1 DEF BatchState
<1>3. \A t \in Server : s # t => new.held \cap batch[t].held = {}
  BY <1>1, <1>2 DEF RInv, HeldOnce, Holder
<1>4. Becomes(s, new)
  BY DEF Resumes, Becomes
<1> HIDE DEF r, new
<1> QED BY <1>1, <1>2, <1>3, <1>4, BatchChanges

\* The rows that are deleted were held by this batch and by no other.
LEMMA CommitStep ==
    ASSUME RInv, NEW s \in Server, BatchCommits(s)
    PROVE  RInv'
<1> DEFINE held == batch[s].held
<1>1. /\ held \subseteq Live /\ held \subseteq Request
      /\ \A r \in held : row[r] \in LiveRow /\ Due(r)
  BY DEF RInv, Types, BatchState, BatchesAreDue, Live, NoRow, DeletedRow
<1>2. /\ \A r \in Request \ held : row'[r] = row[r]
      /\ UNCHANGED <<now, ttl>>
  BY <1>1 DEF BatchCommits, Doomed
<1>3. batch' = [batch EXCEPT ![s] = Idle]
  BY DEF BatchCommits
<1>3a. \A r \in held : /\ row'[r] \in DeletedRow /\ row'[r].stage = "deleted"
                       /\ row'[r].deadline = row[r].deadline
  <2> SUFFICES ASSUME NEW r \in held
               PROVE  /\ row'[r] \in DeletedRow /\ row'[r].stage = "deleted"
                      /\ row'[r].deadline = row[r].deadline
    OBVIOUS
  <2>1. row'[r] = [stage |-> "deleted", deadline |-> row[r].deadline]
    BY <1>1 DEF BatchCommits, Doomed
  <2>2. row[r].deadline \in Int
    BY <1>1 DEF Due
  <2> QED BY <2>1, <2>2 DEF DeletedRow
<1>4. Live' = Live \ held
  BY <1>1, <1>2, <1>3a DEF Live
<1>5. Types'
  <2>1. row' \in [Request -> {NoRow} \cup LiveRow \cup DeletedRow]
    BY <1>1, <1>2, <1>3a DEF BatchCommits, RInv, Types
  <2> QED BY <1>2, <1>3, <2>1, IdleIsFine DEF RInv, Types
<1>6. OneRowPerFile' /\ DeadlinesAreRight' /\ LagIsBounded'
  BY <1>2, <1>4 DEF RInv, OneRowPerFile, DeadlinesAreRight, LagIsBounded, Deadline, Live
<1>7. /\ batch'[s] = Idle /\ \A t \in Server : t # s => batch'[t] = batch[t]
  BY <1>3 DEF RInv, Types
<1>8. BatchesAreDue'
  <2>1. \A r \in Request : Due(r) => Due(r)'
    <3> SUFFICES ASSUME NEW r \in Request, Due(r) PROVE Due(r)'
      OBVIOUS
    <3>1. CASE r \in held
      <4>1. row'[r].stage = "deleted" /\ row'[r].deadline = row[r].deadline
        BY <1>3a, <3>1
      <4> QED BY <1>2, <4>1 DEF Due
    <3>2. CASE r \notin held
      BY <1>2, <3>2 DEF Due
    <3> QED BY <3>1, <3>2
  <2>2. \A t \in Server : t # s => batch[t].held \subseteq Live \ held
    BY DEF RInv, BatchesAreDue, HeldOnce
  <2> QED BY <1>4, <1>7, <2>1, <2>2, IdleIsFine DEF RInv, BatchesAreDue, Types, BatchState
<1>9. HeldOnce'
  BY <1>7, IdleIsFine DEF RInv, HeldOnce
<1> QED BY <1>5, <1>6, <1>8, <1>9 DEF RInv

-----------------------------------------------------------------------------
(* Theorems *)

LEMMA RInit == Init => RInv
<1> SUFFICES ASSUME Init PROVE RInv
  OBVIOUS
<1>1. Live = {}
  BY DEF Init, Live, NoRow
<1>2. Types
  BY IdleIsFine, RetentionBounds DEF Init, Types
<1> QED
  BY <1>1, <1>2, IdleIsFine
     DEF Init, RInv, OneRowPerFile, DeadlinesAreRight, LagIsBounded, BatchesAreDue, HeldOnce

LEMMA RStep == RInv /\ [Next]_vars => RInv'
<1> SUFFICES ASSUME RInv, [Next]_vars PROVE RInv'
  OBVIOUS
<1>1. CASE Tick \/ UNCHANGED vars
  <2>1. now' \in 0 .. MaxTime /\ now <= now' /\ UNCHANGED <<ttl, row, batch>>
    BY <1>1, RetentionBounds DEF Tick, vars, RInv, Types
  <2> QED BY <2>1, DueStays
<1>2. ASSUME NEW b \in Bucket, NEW t \in Ttls \cup {None}, CreateBucket(b, t) PROVE RInv'
  BY <1>2, BucketStep
<1>3. ASSUME NEW r \in Request, NEW b \in Bucket, NEW n \in Name,
             NEW clock \in now - MaxLag .. now + MaxSkew, CreateFile(r, b, n, clock)
      PROVE  RInv'
  <2>1. clock \in Int /\ now - MaxLag <= clock
    BY RetentionBounds DEF RInv, Types
  <2> QED BY <1>3, <2>1, CreateFileStep
<1>4. ASSUME NEW r \in Request, CommitAppend(r) PROVE RInv'
  BY <1>4, AppendStep
<1>5. ASSUME NEW s \in Server, Batch(s) \/ BatchFails(s) PROVE RInv'
  <2>1. CASE BatchFails(s) \/ Deadlock(s)
    BY <2>1, IdleStep DEF BatchFails, Deadlock, Becomes
  <2> QED BY <1>5, <2>1, BeginStep, LockStep, ResumeStep, CommitStep DEF Batch
<1> QED BY <1>1, <1>2, <1>3, <1>4, <1>5 DEF Next

\* Every variable has its type, a file has one live row, and no two batches hold
\* the same row (create_file, delete_old_files_batch).
THEOREM RetentionTypeCorrect == Spec => []TypeOK
<1>1. RInv => TypeOK
  BY DEF RInv, Types, TypeOK, OneRowPerFile, BatchesAreDue, HeldOnce, BatchState,
         LiveRow, DeletedRow, NoRow, Live
<1> QED BY <1>1, RInit, RStep, PTL DEF Spec

\* A file goes only when its bucket has a TTL and that TTL has passed since the
\* time that its server saw, hence, short of MaxLag, since its insert by the clock
\* of the database (create_file, delete_old_files_batch).
THEOREM KeptForTtlHolds == Spec => KeptForTtl
<1> DEFINE Over(r, t) == /\ t # None /\ now > row[r].asked + t
                         /\ now > row[r].updated + t - MaxLag
           Kept == \A r \in Live : row'[r].stage = "deleted" => Over(r, ttl[row[r].bucket])
<1>1. RInv /\ [Next]_vars => Kept
  <2> SUFFICES ASSUME RInv, [Next]_vars, NEW r \in Live, row'[r].stage = "deleted"
               PROVE  Over(r, ttl[row[r].bucket])
    OBVIOUS
  <2>1. r \in Request /\ row[r] \in LiveRow
    BY DEF RInv, Types, Live, NoRow, DeletedRow
  <2>2. PICK s \in Server : r \in batch[s].held
    <3>1. row'[r] # row[r]
      BY <2>1 DEF LiveRow
    <3>2. ASSUME NEW q \in Request, CommitAppend(q) PROVE FALSE
      BY <2>1, <3>2 DEF CommitAppend, RInv, Types, LiveRow
    <3>3. ASSUME NEW q \in Request, NEW b, NEW n, NEW clock, CreateFile(q, b, n, clock)
          PROVE  FALSE
      BY <2>1, <3>1, <3>3 DEF CreateFile, RInv, Types, LiveRow, NoRow
    <3>4. ASSUME NEW s \in Server, BatchCommits(s) PROVE r \in batch[s].held
      BY <2>1, <3>1, <3>4 DEF BatchCommits, Doomed
    <3>5. row' # row
      BY <3>1
    <3> QED
      BY <3>2, <3>3, <3>4, <3>5
         DEF Next, vars, Tick, CreateBucket, Batch, BatchBegins, Locks, Resumes, Deadlock,
             BatchFails
  <2>3. Due(r) /\ row[r].bucket \in DOMAIN ttl
        /\ row[r].deadline = Deadline(row[r].asked, row[r].bucket)
    BY <2>2 DEF RInv, BatchesAreDue, DeadlinesAreRight
  <2>4. ttl[row[r].bucket] # None
    BY <2>3, NoneIsNothing DEF Due, Deadline
  <2>5. ttl[row[r].bucket] \in Int
    <3>1. ttl[row[r].bucket] \in Ttls
      BY <2>3, <2>4 DEF RInv, Types
    <3>2. ttl[row[r].bucket] \in Nat
      BY <3>1, TtlsAreNat, Zenon
    <3> QED BY <3>2
  <2>6. now > row[r].asked + ttl[row[r].bucket]
    BY <2>3, <2>4 DEF Due, Deadline
  <2>7. row[r].updated <= row[r].asked + MaxLag
    BY DEF RInv, LagIsBounded
  <2>8. /\ row[r].updated \in Int /\ row[r].asked \in Int /\ now \in Int /\ MaxLag \in Int
    BY <2>1, RetentionBounds DEF LiveRow, RInv, Types
  <2>9. now > row[r].updated + ttl[row[r].bucket] - MaxLag
    BY <2>5, <2>6, <2>7, <2>8
  <2> QED BY <2>4, <2>6, <2>9
<1>2. QED BY <1>1, RInit, RStep, PTL DEF Spec, KeptForTtl
=============================================================================
