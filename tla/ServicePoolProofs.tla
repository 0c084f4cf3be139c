-------------------------- MODULE ServicePoolProofs --------------------------
(***************************************************************************)
(* Connections and locks, for every value of the constants.                *)
(*                                                                         *)
(* PoolAccounting: connections are held by the handlers and the batch that *)
(* own a transaction and by nobody else, and there are never more of them  *)
(* than the pool allows.  NoDeadlock: whoever waits for a page waits       *)
(* behind all the pages it holds of that large object, so that along a     *)
(* circle of waits the pages would ascend for ever.                        *)
(***************************************************************************)
EXTENDS ServiceSafetyProofs, FiniteSetTheorems

Owning == HandlePc \cup {"create_wait"}
Owns(r) == req[r].pc \in Owning

\* Inductive together with TypeOK: Cardinality means something on finite sets.
PoolInv == TypeOK /\ PoolAccounting /\ IsFiniteSet(conn)

GcSame == UNCHANGED <<gcTodo, gcDone>>

-----------------------------------------------------------------------------
(* The ways to change who holds a connection *)

LEMMA PoolKept ==
    ASSUME PoolInv, TypeOK', conn' = conn,
           \A q \in Request : Owns(q)' <=> Owns(q),
           gcTodo' \cup gcDone' # {} => Gc \in conn
    PROVE  PoolInv'
  BY DEF PoolInv, PoolAccounting, Owns, Owning

LEMMA Acquired ==
    ASSUME PoolInv, TypeOK', NEW r \in Request, Begin(r), GcSame, Owns(r)',
           \A q \in Request : q # r => (Owns(q)' <=> Owns(q))
    PROVE  PoolInv'
<1>1. IsFiniteSet(conn') /\ Cardinality(conn') <= MaxConn
  <2>1. /\ IsFiniteSet(conn \cup {r})
        /\ Cardinality(conn \cup {r}) \in {Cardinality(conn), Cardinality(conn) + 1}
    BY FS_AddElement DEF PoolInv
  <2>2. Cardinality(conn) \in Nat /\ Cardinality(conn) < MaxConn /\ conn' = conn \cup {r}
    BY FS_CardinalityType DEF PoolInv, Begin, FreeConn
  <2> QED BY <2>1, <2>2, MaxConnIsPos
<1>2. conn' \ {Gc} = {q \in Request : Owns(q)'}
  BY GcIsNoRequest DEF PoolInv, PoolAccounting, Begin, Owns, Owning
<1>3. gcTodo' \cup gcDone' # {} => Gc \in conn'
  BY DEF PoolInv, PoolAccounting, Begin, GcSame
<1> QED BY <1>1, <1>2, <1>3 DEF PoolInv, PoolAccounting, Owns, Owning

LEMMA Shrinks ==
    ASSUME PoolInv, NEW s
    PROVE  IsFiniteSet(conn \ {s}) /\ Cardinality(conn \ {s}) <= MaxConn
<1>1. /\ IsFiniteSet(conn \ {s})
      /\ Cardinality(conn \ {s}) \in {Cardinality(conn), Cardinality(conn) - 1}
  BY FS_RemoveElement DEF PoolInv
<1>2. Cardinality(conn) \in Nat /\ Cardinality(conn) <= MaxConn
  BY FS_CardinalityType DEF PoolInv, PoolAccounting
<1> QED BY <1>1, <1>2, MaxConnIsPos

LEMMA Released ==
    ASSUME PoolInv, TypeOK', NEW r \in Request, conn' = conn \ {r}, GcSame, ~Owns(r)',
           \A q \in Request : q # r => (Owns(q)' <=> Owns(q))
    PROVE  PoolInv'
<1>1. IsFiniteSet(conn') /\ Cardinality(conn') <= MaxConn
  BY Shrinks
<1>2. conn' \ {Gc} = {q \in Request : Owns(q)'}
  BY GcIsNoRequest DEF PoolInv, PoolAccounting, Owns, Owning
<1>3. gcTodo' \cup gcDone' # {} => Gc \in conn'
  BY GcIsNoRequest DEF PoolInv, PoolAccounting, GcSame
<1> QED BY <1>1, <1>2, <1>3 DEF PoolInv, PoolAccounting, Owns, Owning

LEMMA BatchAcquired ==
    ASSUME PoolInv, TypeOK', Begin(Gc), UNCHANGED req
    PROVE  PoolInv'
<1>1. IsFiniteSet(conn') /\ Cardinality(conn') <= MaxConn
  <2>1. /\ IsFiniteSet(conn \cup {Gc})
        /\ Cardinality(conn \cup {Gc}) \in {Cardinality(conn), Cardinality(conn) + 1}
    BY FS_AddElement DEF PoolInv
  <2>2. Cardinality(conn) \in Nat /\ Cardinality(conn) < MaxConn /\ conn' = conn \cup {Gc}
    BY FS_CardinalityType DEF PoolInv, Begin, FreeConn
  <2> QED BY <2>1, <2>2, MaxConnIsPos
<1> QED BY <1>1 DEF PoolInv, PoolAccounting, Begin

LEMMA BatchReleased ==
    ASSUME PoolInv, TypeOK', conn' = conn \ {Gc}, UNCHANGED req, gcTodo' \cup gcDone' = {}
    PROVE  PoolInv'
<1>1. IsFiniteSet(conn') /\ Cardinality(conn') <= MaxConn
  BY Shrinks
<1> QED BY <1>1 DEF PoolInv, PoolAccounting

\* A handler that drops its handle.
LEMMA DropReleases ==
    ASSUME PoolInv, TypeOK', NEW r \in Request, NEW code, DropAndReply(r, code), GcSame
    PROVE  PoolInv'
<1>1. /\ req'[r].pc = "done"
      /\ \A q \in Request : q # r => req'[q] = req[q]
  BY ReplyEffect DEF DropAndReply, PoolInv
<1>2. conn' = conn \ {r}
  BY DEF DropAndReply, Rollback, EndTransaction
<1>3. ~Owns(r)' /\ \A q \in Request : q # r => (Owns(q)' <=> Owns(q))
  BY <1>1 DEF Owns, Owning, HandlePc
<1> QED BY <1>2, <1>3, Released

LEMMA CommitReleases ==
    ASSUME PoolInv, TypeOK', NEW r \in Request, NEW o, NEW code,
           CommitBlob(r, o), Reply(r, code), GcSame
    PROVE  PoolInv'
<1>1. /\ req'[r].pc = "done"
      /\ \A q \in Request : q # r => req'[q] = req[q]
  BY ReplyEffect DEF PoolInv
<1>2. conn' = conn \ {r}
  BY DEF CommitBlob, EndTransaction
<1>3. ~Owns(r)' /\ \A q \in Request : q # r => (Owns(q)' <=> Owns(q))
  BY <1>1 DEF Owns, Owning, HandlePc
<1> QED BY <1>2, <1>3, Released

\* A handler that moves on, owning a connection after as before.
LEMMA MoveKeeps ==
    ASSUME PoolInv, TypeOK', NEW r \in Request, conn' = conn, GcSame,
           \A q \in Request : q # r => req'[q] = req[q],
           req[r].pc \in Owning <=> req'[r].pc \in Owning
    PROVE  PoolInv'
<1>1. \A q \in Request : Owns(q)' <=> Owns(q)
  BY DEF Owns
<1>2. gcTodo' \cup gcDone' # {} => Gc \in conn
  BY DEF GcSame, PoolInv, PoolAccounting
<1> QED BY <1>1, <1>2, PoolKept

-----------------------------------------------------------------------------
(* Every step *)

LEMMA PoolStep ==
    ASSUME PoolInv, [Next]_vars
    PROVE  PoolInv'
<1>0. TypeOK /\ TypeOK'
  BY TypeStep DEF PoolInv
<1> USE <1>0
<1>1. CASE UNCHANGED vars
  BY <1>1, PoolKept DEF vars, storeVars, serviceVars, Owns, PoolInv, PoolAccounting
<1>2. ASSUME NEW b \in Bucket, CreateBucket(b) PROVE PoolInv'
  BY <1>2, PoolKept DEF CreateBucket, storeVars, Owns, PoolInv, PoolAccounting
<1>3. ASSUME NEW f \in File, Expire(f) PROVE PoolInv'
  BY <1>3, PoolKept DEF Expire, serviceVars, Owns, PoolInv, PoolAccounting
<1>4. ASSUME NEW r \in Request, Arrive(r) PROVE PoolInv'
  <2>1. conn' = conn /\ GcSame
    BY <1>4 DEF Arrive, storeVars, UnchangedService, GcSame
  <2>2. /\ \A q \in Request : q # r => req'[q] = req[q]
        /\ req[r].pc \in Owning <=> req'[r].pc \in Owning
    BY <1>4, GotoEffect DEF Arrive, Owning, HandlePc
  <2> QED BY <2>1, <2>2, MoveKeeps
<1>5. ASSUME NEW r \in Request, FindBucket(r) PROVE PoolInv'
  <2>1. conn' = conn /\ GcSame
    BY <1>5 DEF FindBucket, QueryOnPool, UnchangedService, GcSame
  <2>2. /\ \A q \in Request : q # r => req'[q] = req[q]
        /\ req'[r].pc \in {"done", "create", "find"}
    <3>1. CASE Reply(r, "404")
      BY <3>1, ReplyEffect
    <3>2. CASE Goto(r, IF Op(r) = "put" THEN "create" ELSE "find")
      BY <3>2, GotoEffect
    <3> QED BY <1>5, <3>1, <3>2 DEF FindBucket
  <2>3. req[r].pc \notin Owning /\ req'[r].pc \notin Owning
    BY <1>5, <2>2 DEF FindBucket, Owning, HandlePc
  <2> QED BY <2>1, <2>2, <2>3, MoveKeeps
<1>6. ASSUME NEW r \in Request, CreateBlocks(r) PROVE PoolInv'
  <2>1. /\ req'[r].pc = "create_wait"
        /\ \A q \in Request : q # r => req'[q] = req[q]
    BY <1>6, GotoEffect DEF CreateBlocks
  <2>2. Begin(r) /\ GcSame
    BY <1>6 DEF CreateBlocks, UnchangedService, GcSame
  <2> QED BY <2>1, <2>2, Acquired DEF Owns, Owning
<1>7. ASSUME NEW r \in Request, CreateFile(r) PROVE PoolInv'
  <2>1. HandlerTypeOK(req[r]) /\ req = [q \in Request |-> req[q]]
    BY HandlerFacts
  <2>2. /\ req'[r].pc = "open"
        /\ \A q \in Request : q # r => req'[q] = req[q]
    BY <1>7, <2>1 DEF CreateFile, HandlerTypeOK
  <2>3. conn' = conn \ {r} /\ GcSame
    BY <1>7 DEF CreateFile, InsertRuns, UnchangedService, GcSame
  <2> QED BY <2>2, <2>3, Released DEF Owns, Owning, HandlePc
<1>8. ASSUME NEW r \in Request, CreateExists(r) PROVE PoolInv'
  <2>1. /\ req'[r].pc = "find"
        /\ \A q \in Request : q # r => req'[q] = req[q]
    BY <1>8, GotoEffect DEF CreateExists
  <2>2. conn' = conn \ {r} /\ GcSame
    BY <1>8 DEF CreateExists, InsertRuns, UnchangedService, GcSame
  <2> QED BY <2>1, <2>2, Released DEF Owns, Owning, HandlePc
<1>9. ASSUME NEW r \in Request, FindFile(r) PROVE PoolInv'
  <2>1. conn' = conn /\ GcSame
    BY <1>9 DEF FindFile, QueryOnPool, UnchangedService, GcSame
  <2>2. /\ \A q \in Request : q # r => req'[q] = req[q]
        /\ req'[r].pc \in {"done", "open"}
    <3>1. CASE FileOf(r) \notin DOMAIN files
      BY <1>9, <3>1, ReplyEffect DEF FindFile
    <3>2. CASE FileOf(r) \in DOMAIN files
      <4>1. HandlerTypeOK(req[r]) /\ req = [q \in Request |-> req[q]]
        BY HandlerFacts
      <4> DEFINE o == files[FileOf(r)]
      <4>2. req' = [req EXCEPT ![r].pc = "open", ![r].blob = o]
        BY <1>9, <3>2 DEF FindFile
      <4> HIDE DEF o
      <4> QED BY <4>1, <4>2 DEF HandlerTypeOK
    <3> QED BY <3>1, <3>2
  <2>3. req[r].pc \notin Owning /\ req'[r].pc \notin Owning
    BY <1>9, <2>2 DEF FindFile, Owning, HandlePc
  <2> QED BY <2>1, <2>2, <2>3, MoveKeeps
<1>10. ASSUME NEW r \in Request, OpenHandle(r) PROVE PoolInv'
  <2> DEFINE pc == IF Op(r) # "put" THEN "size"
                   ELSE IF req[r].blob = r THEN "upload" ELSE "rewind"
  <2>1. Goto(r, pc) /\ Begin(r) /\ GcSame
    BY <1>10 DEF OpenHandle, UnchangedService, GcSame
  <2>2. pc \in Owning
    BY DEF Owning, HandlePc
  <2> HIDE DEF pc
  <2>3. /\ req'[r].pc = pc
        /\ \A q \in Request : q # r => req'[q] = req[q]
    BY <2>1, GotoEffect
  <2> QED BY <2>1, <2>2, <2>3, Acquired DEF Owns
<1>11. ASSUME NEW r \in Request, OpenFails(r) PROVE PoolInv'
  <2>1. conn' = conn /\ GcSame
    BY <1>11 DEF OpenFails, QueryOnPool, UnchangedService, GcSame
  <2>2. /\ \A q \in Request : q # r => req'[q] = req[q]
        /\ req[r].pc \in Owning <=> req'[r].pc \in Owning
    BY <1>11, ReplyEffect DEF OpenFails, Owning, HandlePc
  <2> QED BY <2>1, <2>2, MoveKeeps
<1>12. ASSUME NEW r \in Request, AcquireTimesOut(r) PROVE PoolInv'
  <2>1. conn' = conn /\ GcSame
    BY <1>12 DEF AcquireTimesOut, storeVars, UnchangedService, GcSame
  <2>2. /\ \A q \in Request : q # r => req'[q] = req[q]
        /\ req[r].pc \in Owning <=> req'[r].pc \in Owning
    BY <1>12, ReplyEffect DEF AcquireTimesOut, Owning, HandlePc
  <2> QED BY <2>1, <2>2, MoveKeeps
<1>13. ASSUME NEW r \in Request, SeekForSize(r) PROVE PoolInv'
  <2>1. HandlerTypeOK(req[r]) /\ req = [q \in Request |-> req[q]]
    BY HandlerFacts
  <2> DEFINE n  == Size(View(r, req[r].blob))
             pc == IF Op(r) = "append" /\ Beyond(r, n) THEN "upload" ELSE "rewind"
  <2>2. req' = [req EXCEPT ![r].size = n, ![r].pos = n, ![r].pc = pc]
    BY <1>13 DEF SeekForSize
  <2>3. pc \in Owning
    BY DEF Owning, HandlePc
  <2> HIDE DEF n, pc
  <2>4. req'[r].pc = pc /\ \A q \in Request : q # r => req'[q] = req[q]
    BY <2>1, <2>2 DEF HandlerTypeOK
  <2>5. conn' = conn /\ GcSame
    BY <1>13 DEF SeekForSize, storeVars, UnchangedService, GcSame
  <2>6. /\ \A q \in Request : q # r => req'[q] = req[q]
        /\ req[r].pc \in Owning <=> req'[r].pc \in Owning
    BY <1>13, <2>3, <2>4 DEF SeekForSize, Owning, HandlePc
  <2> QED BY <2>5, <2>6, MoveKeeps
<1>14. ASSUME NEW r \in Request, SeekToStart(r) PROVE PoolInv'
  <2>1. HandlerTypeOK(req[r]) /\ req = [q \in Request |-> req[q]]
    BY HandlerFacts
  <2>2. /\ req'[r].pc \in {"metadata", "check"}
        /\ \A q \in Request : q # r => req'[q] = req[q]
    BY <1>14, <2>1 DEF SeekToStart, HandlerTypeOK
  <2>3. conn' = conn /\ GcSame
    BY <1>14 DEF SeekToStart, storeVars, UnchangedService, GcSame
  <2>4. /\ \A q \in Request : q # r => req'[q] = req[q]
        /\ req[r].pc \in Owning <=> req'[r].pc \in Owning
    BY <1>14, <2>2 DEF SeekToStart, Owning, HandlePc
  <2> QED BY <2>3, <2>4, MoveKeeps
<1>15. ASSUME NEW r \in Request, NextChunk(r) PROVE PoolInv'
  <2>1. HandlerTypeOK(req[r]) /\ req = [q \in Request |-> req[q]]
    BY HandlerFacts
  <2>2. PICK n \in 1 .. (Call[r].len - req[r].rcvd) :
          req' = [req EXCEPT ![r].rcvd = @ + n,
                             ![r].pc = IF @ = "upload" THEN "seek_end" ELSE "compare"]
    BY <1>15 DEF NextChunk
  <2> DEFINE m == req[r].rcvd + n
  <2>3. req' = [req EXCEPT ![r].rcvd = m,
                           ![r].pc = IF @ = "upload" THEN "seek_end" ELSE "compare"]
    BY <2>2
  <2> HIDE DEF m
  <2>4. /\ req'[r].pc \in {"seek_end", "compare"}
        /\ \A q \in Request : q # r => req'[q] = req[q]
    BY <2>1, <2>3 DEF HandlerTypeOK
  <2>5. conn' = conn /\ GcSame
    BY <1>15 DEF NextChunk, storeVars, UnchangedService, GcSame
  <2>6. /\ \A q \in Request : q # r => req'[q] = req[q]
        /\ req[r].pc \in Owning <=> req'[r].pc \in Owning
    BY <1>15, <2>4 DEF NextChunk, Owning, HandlePc
  <2> QED BY <2>5, <2>6, MoveKeeps
<1>16. ASSUME NEW r \in Request, BodyEnds(r) PROVE PoolInv'
  <2>1. HandlerTypeOK(req[r]) /\ req = [q \in Request |-> req[q]]
    BY HandlerFacts
  <2>2. /\ req'[r].pc \in {"commit", "eof"}
        /\ \A q \in Request : q # r => req'[q] = req[q]
    BY <1>16, GotoEffect DEF BodyEnds
  <2>3. conn' = conn /\ GcSame
    BY <1>16 DEF BodyEnds, storeVars, UnchangedService, GcSame
  <2>4. /\ \A q \in Request : q # r => req'[q] = req[q]
        /\ req[r].pc \in Owning <=> req'[r].pc \in Owning
    BY <1>16, <2>2 DEF BodyEnds, Owning, HandlePc
  <2> QED BY <2>3, <2>4, MoveKeeps
<1>17. ASSUME NEW r \in Request, SeekToEnd(r) PROVE PoolInv'
  <2>1. HandlerTypeOK(req[r]) /\ req = [q \in Request |-> req[q]]
    BY HandlerFacts
  <2> DEFINE n == EndOfFile(r)
  <2>2. req' = [req EXCEPT ![r].pos = n, ![r].pc = "write"]
    BY <1>17 DEF SeekToEnd
  <2> HIDE DEF n
  <2>3. /\ req'[r].pc = "write"
        /\ \A q \in Request : q # r => req'[q] = req[q]
    BY <2>1, <2>2 DEF HandlerTypeOK
  <2>4. conn' = conn /\ GcSame
    BY <1>17 DEF SeekToEnd, storeVars, UnchangedService, GcSame
  <2>5. /\ \A q \in Request : q # r => req'[q] = req[q]
        /\ req[r].pc \in Owning <=> req'[r].pc \in Owning
    BY <1>17, <2>3 DEF SeekToEnd, Owning, HandlePc
  <2> QED BY <2>4, <2>5, MoveKeeps
<1>36. ASSUME NEW r \in Request, EmptyChunk(r) PROVE PoolInv'
  <2>1. HandlerTypeOK(req[r]) /\ req = [q \in Request |-> req[q]]
    BY HandlerFacts
  <2> DEFINE n == EndOfFile(r)
  <2>2. req' = [req EXCEPT ![r].pos = n]
    BY <1>36 DEF EmptyChunk
  <2> HIDE DEF n
  <2>3. /\ req'[r].pc = req[r].pc
        /\ \A q \in Request : q # r => req'[q] = req[q]
    BY <2>1, <2>2 DEF HandlerTypeOK
  <2>4. conn' = conn /\ GcSame
    BY <1>36 DEF EmptyChunk, storeVars, UnchangedService, GcSame
  <2> QED BY <2>3, <2>4, MoveKeeps
<1>18. ASSUME NEW r \in Request, Write(r) PROVE PoolInv'
  <2>1. HandlerTypeOK(req[r]) /\ req = [q \in Request |-> req[q]]
    BY HandlerFacts
  <2> DEFINE p == req[r].pos + req[r].rcvd - req[r].stored
  <2>2. req' = [req EXCEPT ![r].pos = p, ![r].stored = req[r].rcvd, ![r].pc = "upload"]
    BY <1>18, <2>1 DEF Write
  <2> HIDE DEF p
  <2>3. /\ req'[r].pc = "upload"
        /\ \A q \in Request : q # r => req'[q] = req[q]
    BY <2>1, <2>2 DEF HandlerTypeOK
  <2>4. conn' = conn /\ GcSame
    BY <1>18 DEF Write, WriteBlob, UnchangedService, GcSame
  <2>5. /\ \A q \in Request : q # r => req'[q] = req[q]
        /\ req[r].pc \in Owning <=> req'[r].pc \in Owning
    BY <1>18, <2>3 DEF Write, Owning, HandlePc
  <2> QED BY <2>4, <2>5, MoveKeeps
<1>19. ASSUME NEW r \in Request, WriteBlocks(r) PROVE PoolInv'
  <2>1. conn' = conn /\ req' = req /\ GcSame
    BY <1>19 DEF WriteBlocks, WriteBlobBlocks, UnchangedService, GcSame
  <2> QED BY <2>1, MoveKeeps
<1>20. ASSUME NEW r \in Request, WriteFails(r) PROVE PoolInv'
  BY <1>20, DropReleases DEF WriteFails, UnchangedService, GcSame
<1>21. ASSUME NEW r \in Request, Commit(r) PROVE PoolInv'
  BY <1>21, CommitReleases DEF Commit, UnchangedService, GcSame
<1>22. ASSUME NEW r \in Request, CommitUnheard(r) PROVE PoolInv'
  BY <1>22, CommitReleases DEF CommitUnheard, GcSame
<1>23. ASSUME NEW r \in Request, CheckEof(r) PROVE PoolInv'
  BY <1>23, DropReleases DEF CheckEof, UnchangedService, GcSame
<1>24. ASSUME NEW r \in Request, Metadata(r) PROVE PoolInv'
  <2>1. GcSame /\ req[r].pc = "metadata"
    BY <1>24 DEF Metadata, UnchangedService, GcSame
  <2>2. CASE DropAndReply(r, "500")
    BY <2>1, <2>2, DropReleases
  <2>3. CASE Goto(r, "stream") /\ UNCHANGED storeVars
    <3>1. /\ \A q \in Request : q # r => req'[q] = req[q]
          /\ req[r].pc \in Owning <=> req'[r].pc \in Owning
      BY <2>1, <2>3, GotoEffect DEF Owning, HandlePc
    <3> QED BY <2>1, <2>3, <3>1, MoveKeeps DEF storeVars
  <2> QED BY <1>24, <2>2, <2>3 DEF Metadata
\* Reading changes what the handler has seen, its position and perhaps its pc.
<1>25. ASSUME NEW r \in Request, NEW seen, NEW next, GcSame, UNCHANGED storeVars,
             req[r].pc \in {"compare", "stream"},
             \/ req' = [req EXCEPT ![r].seen = seen, ![r].pos = next]
             \/ req' = [req EXCEPT ![r].seen = seen, ![r].pos = next, ![r].pc = "check"]
      PROVE  PoolInv'
  <2>1. HandlerTypeOK(req[r]) /\ req = [q \in Request |-> req[q]]
    BY HandlerFacts
  <2>2. /\ req'[r].pc \in {"compare", "stream", "check"}
        /\ \A q \in Request : q # r => req'[q] = req[q]
    <3>1. CASE req' = [req EXCEPT ![r].seen = seen, ![r].pos = next]
      BY <1>25, <2>1, <3>1 DEF HandlerTypeOK
    <3>2. CASE req' = [req EXCEPT ![r].seen = seen, ![r].pos = next, ![r].pc = "check"]
      BY <2>1, <3>2 DEF HandlerTypeOK
    <3> QED BY <1>25, <3>1, <3>2
  <2>3. req[r].pc \in Owning <=> req'[r].pc \in Owning
    BY <1>25, <2>2 DEF Owning, HandlePc
  <2> QED BY <1>25, <2>2, <2>3, MoveKeeps DEF storeVars
<1>26. ASSUME NEW r \in Request, Compare(r) PROVE PoolInv'
  <2>1. GcSame /\ req[r].pc \in {"compare", "stream"}
    BY <1>26 DEF Compare, UnchangedService, GcSame
  <2>2. CASE DropAndReply(r, "409")
    BY <2>1, <2>2, DropReleases
  <2>3. CASE \E seen, next :
                /\ \/ req' = [req EXCEPT ![r].seen = seen, ![r].pos = next]
                   \/ req' = [req EXCEPT ![r].seen = seen, ![r].pos = next, ![r].pc = "check"]
                /\ UNCHANGED storeVars
    BY <1>25, <2>1, <2>3
  <2> QED BY <1>26, <2>2, <2>3 DEF Compare
<1>27. ASSUME NEW r \in Request, Stream(r) PROVE PoolInv'
  <2>1. GcSame /\ req[r].pc \in {"compare", "stream"}
    BY <1>27 DEF Stream, UnchangedService, GcSame
  <2>2. CASE DropAndReply(r, "200") \/ DropAndReply(r, "short")
    BY <2>1, <2>2, DropReleases
  <2>3. CASE \E seen, next :
                /\ req' = [req EXCEPT ![r].seen = seen, ![r].pos = next]
                /\ UNCHANGED storeVars
    <3>1. PICK seen, next :
            req' = [req EXCEPT ![r].seen = seen, ![r].pos = next] /\ UNCHANGED storeVars
      BY <2>3
    <3> QED BY <1>25, <2>1, <3>1
  <2>4. HandlerTypeOK(req[r]) /\ req = [q \in Request |-> req[q]]
    BY HandlerFacts
  <2> QED BY <1>27, <2>2, <2>3, <2>4 DEF Stream
<1>28. CASE GcBegin
  BY <1>28, BatchAcquired DEF GcBegin
<1>29. ASSUME NEW f \in File, GcUnlink(f) PROVE PoolInv'
  BY <1>29, PoolKept DEF GcUnlink, GcRuns, Owns
<1>30. ASSUME NEW f \in File, GcBlocks(f) PROVE PoolInv'
  BY <1>30, PoolKept DEF GcBlocks, GcRuns, serviceVars, Owns
<1>31. CASE GcCommit
  BY <1>31, BatchReleased DEF GcCommit, CommitDeletion, EndTransaction
<1>32. CASE GcFails
  BY <1>32, BatchReleased DEF GcFails, EndTransaction
<1>33. ASSUME NEW r \in Request, Abandon(r) PROVE PoolInv'
  BY <1>33, DropReleases DEF Abandon, GcSame
<1>34. CASE Crash
  <2>1. \A q \in Request : ~Owns(q)'
    <3> SUFFICES ASSUME NEW q \in Request PROVE req'[q].pc \in {"idle", "done"}
      BY DEF Owns, Owning, HandlePc
    <3>1. HandlerTypeOK(req[q])
      BY HandlerFacts
    <3> QED BY <1>34, <3>1 DEF Crash, Active, HandlerTypeOK
  <2>2. conn' = {} /\ gcTodo' = {} /\ gcDone' = {}
    BY <1>34 DEF Crash
  <2>3. IsFiniteSet(conn') /\ Cardinality(conn') <= MaxConn
    BY <2>2, FS_EmptySet, MaxConnIsPos
  <2> QED BY <2>1, <2>2, <2>3 DEF PoolInv, PoolAccounting, Owns, Owning
<1>35. CASE Quiet
  BY <1>1, <1>35 DEF Quiet
<1> QED
  BY <1>1, <1>2, <1>3, <1>4, <1>5, <1>6, <1>7, <1>8, <1>9, <1>10, <1>11,
     <1>12, <1>13, <1>14, <1>15, <1>16, <1>17, <1>18, <1>19, <1>20, <1>21, <1>22,
     <1>23, <1>24, <1>26, <1>27, <1>28, <1>29, <1>30, <1>31, <1>32, <1>33, <1>34,
     <1>35, <1>36
     DEF Next, Serve, ClientSends, Collect

LEMMA PoolInit == Init => PoolInv
<1> SUFFICES ASSUME Init PROVE PoolInv
  OBVIOUS
<1>1. TypeOK
  BY InitType
<1>2. conn = {} /\ gcTodo = {} /\ gcDone = {} /\ \A r \in Request : req[r].pc = "idle"
  BY DEF Init, StoreInit, Handler
<1>3. IsFiniteSet(conn) /\ Cardinality(conn) <= MaxConn
  BY <1>2, FS_EmptySet, MaxConnIsPos
<1> QED BY <1>1, <1>2, <1>3 DEF PoolInv, PoolAccounting, HandlePc

\* No path out of a handler leaks a connection, and the pool's limit is kept:
\* disconnects, failed statements, crashes and failed batches included.
THEOREM PoolAccountingHolds == Spec => []PoolAccounting
<1>1. Init => PoolInv
  BY PoolInit
<1>2. PoolInv /\ [Next]_vars => PoolInv'
  BY PoolStep
<1>3. PoolInv => PoolAccounting
  BY DEF PoolInv
<1> QED BY <1>1, <1>2, <1>3, PTL DEF Spec

-----------------------------------------------------------------------------
(* No circle of waits *)

LockInv ==
    /\ OneHolder /\ HoldersConnected /\ HeldByWriter /\ HeldByBatch /\ WaitsAbove

\* In a finite set where everyone waits for somebody higher up there is nobody.
LEMMA NoAscent ==
    ASSUME NEW A, IsFiniteSet(A), NEW at \in [A -> Nat],
           \A s \in A : \E q \in A : at[s] < at[q]
    PROVE  A = {}
<1> SUFFICES ASSUME A # {} PROVE FALSE
  OBVIOUS
<1> DEFINE Up(s) == {q \in A : at[s] < at[q]}
           T == {Up(s) : s \in A}
           R == StrictSubsetOrdering(A)
<1>1. T \subseteq FiniteSubsetsOf(A) /\ T # {}
  <2>1. FiniteSubsetsOf(A) = SUBSET A
    BY FS_FiniteSubsetsOfFinite
  <2>2. T \subseteq SUBSET A
    OBVIOUS
  <2>3. \A s \in A : Up(s) \in T
    OBVIOUS
  <2> HIDE DEF T
  <2> QED BY <2>1, <2>2, <2>3
<1>2. IsWellFoundedOn(R, FiniteSubsetsOf(A))
  BY FS_StrictSubsetOrderingWellFounded
<1> HIDE DEF R, T
<1>3. PICK x \in T : \A y \in T : <<y, x>> \notin R
  BY <1>1, <1>2, WFMin
<1>4. PICK s \in A : x = Up(s)
  BY <1>3 DEF T
<1>5. PICK q \in A : at[s] < at[q]
  OBVIOUS
<1>6. Up(q) \subseteq Up(s) /\ Up(q) # Up(s)
  <2>1. q \in Up(s) /\ q \notin Up(q)
    BY <1>5
  <2>2. Up(q) \subseteq Up(s)
    BY <1>5
  <2> QED BY <2>1, <2>2
<1>7. Up(q) \in T /\ Up(q) \in SUBSET A /\ Up(s) \in SUBSET A
  BY DEF T
<1> HIDE DEF Up
<1>8. <<Up(q), Up(s)>> \in R
  BY <1>6, <1>7 DEF R, StrictSubsetOrdering
<1> QED BY <1>3, <1>4, <1>7, <1>8

\* The holders of the page that s waits for: uploads to that large object, or the
\* batch.
LEMMA HolderIs ==
    ASSUME TypeOK, LockInv, NEW s \in Session, NEW o, NEW k, WaitsAt(s, o, k), NEW q \in wait[s]
    PROVE  /\ q \in Session /\ q # s /\ <<o, k>> \in held[q]
           /\ q \in Request => req[q].blob = o /\ req[q].pc \in WritePc
<1>1. q \in Session /\ <<o, k>> \in held[q]
  BY DEF WaitsAt, TypeOK, StoreTypeOK
<1>2. held[q] \in SUBSET (Request \X Nat)
  BY <1>1 DEF TypeOK, StoreTypeOK
<1>3. k \in Nat
  BY <1>1, <1>2
<1>4. q # s
  <2> SUFFICES ASSUME q = s PROVE FALSE
    OBVIOUS
  <2>1. <<o, k>>[2] < k
    BY <1>1 DEF WaitsAt
  <2> QED BY <1>3, <2>1
<1>5. ASSUME q \in Request PROVE req[q].blob = o /\ req[q].pc \in WritePc
  <2>1. /\ req[q].pc \in WritePc
        /\ \E i \in Touched(q) : <<o, k>> = <<req[q].blob, i \div PageSize>>
    BY <1>1, <1>5 DEF LockInv, HeldByWriter
  <2> QED BY <2>1
<1> QED BY <1>1, <1>4, <1>5

\* Sessions that wait for one another in a circle would all wait for pages of one
\* large object.
LEMMA NobodyWaitsInACircle ==
    ASSUME TypeOK, LockInv, IsFiniteSet(conn), NEW A \in SUBSET Session,
           \A s \in A : wait[s] \cap A # {}
    PROVE  A = {}
<1> SUFFICES ASSUME NEW a \in A PROVE FALSE
  OBVIOUS
<1>1. \A s \in A : \E o \in Request, k \in Nat : WaitsAt(s, o, k)
  BY DEF LockInv, WaitsAbove
<1>2. PICK b \in A, o \in Request : /\ b = Gc \/ Gc \notin A
                                   /\ \E k \in Nat : WaitsAt(b, o, k)
  <2>1. CASE Gc \in A
    BY <1>1, <2>1
  <2>2. CASE Gc \notin A
    BY <1>1, <2>2
  <2> QED BY <2>1, <2>2
<1> DEFINE B == {s \in A : s = b \/ (s \in Request /\ req[s].blob = o)}
<1>3. \A s \in B : \E k \in Nat : WaitsAt(s, o, k)
  <2> SUFFICES ASSUME NEW s \in B, s # b PROVE \E k \in Nat : WaitsAt(s, o, k)
    BY <1>2
  <2>1. PICK p \in Request : \E k \in Nat : WaitsAt(s, p, k)
    BY <1>1
  <2>2. p = req[s].blob
    BY <2>1 DEF WaitsAt
  <2> QED BY <2>1, <2>2
<1> DEFINE at == [s \in B |-> CHOOSE k \in Nat : WaitsAt(s, o, k)]
<1>4. \A s \in B : at[s] \in Nat /\ WaitsAt(s, o, at[s])
  BY <1>3
<1>5. at \in [B -> Nat]
  BY <1>4
<1> HIDE DEF at
<1>6. ASSUME NEW s \in B PROVE \E q \in B : at[s] < at[q]
  <2>1. PICK q \in wait[s] : q \in A
    OBVIOUS
  <2>2. /\ q \in Session /\ q # s /\ <<o, at[s]>> \in held[q]
        /\ q \in Request => req[q].blob = o
    BY <1>4, <2>1, HolderIs
  <2>3. q \in B
    BY <1>2, <2>1, <2>2 DEF Session
  <2>4. <<o, at[s]>>[2] < at[q]
    BY <1>4, <2>2, <2>3 DEF WaitsAt
  <2> QED BY <2>3, <2>4
<1>7. IsFiniteSet(B)
  <2>1. B \subseteq conn
    BY DEF LockInv, HoldersConnected
  <2> QED BY <2>1, FS_Subset
<1>8. b \in B
  OBVIOUS
<1> HIDE DEF B
<1> QED BY <1>5, <1>6, <1>7, <1>8, NoAscent

LEMMA LockInvImpliesNoDeadlock ==
    ASSUME TypeOK, PoolInv, LockInv
    PROVE  NoDeadlock
<1>1. ASSUME NEW s \in Session, NEW q \in Awaits(s) PROVE q \in conn
  <2>1. CASE q \in wait[s]
    <3>1. PICK o \in Request, k \in Nat : WaitsAt(s, o, k)
      BY <2>1 DEF LockInv, WaitsAbove
    <3>2. q \in Session /\ <<o, k>> \in held[q]
      BY <2>1, <3>1, HolderIs
    <3> QED BY <3>2 DEF LockInv, HoldersConnected
  <2>2. CASE q = Gc /\ FileOf(s) \in gcDone
    BY <2>2 DEF PoolInv, PoolAccounting
  <2> QED BY <2>1, <2>2 DEF Awaits
<1>2. ASSUME NEW S \in SUBSET Session, \A s \in S : Awaits(s) \cap S # {}
      PROVE  S = {}
  <2> DEFINE A == {s \in S : wait[s] \cap S # {}}
  <2>1. Gc \in S => Gc \in A
    BY <1>2, GcIsNoRequest DEF Awaits
  <2>2. \A s \in S : s \in A \/ Gc \in A
    BY <1>2, <2>1 DEF Awaits
  <2>3. ASSUME NEW s \in A PROVE wait[s] \cap A # {}
    <3>1. PICK q \in wait[s] : q \in S
      OBVIOUS
    <3>2. PICK o \in Request, k \in Nat : WaitsAt(s, o, k)
      BY DEF LockInv, WaitsAbove
    <3>3. q \in Session /\ (q \in Request => req[q].pc \in WritePc)
      BY <3>1, <3>2, HolderIs
    <3>4. q # Gc => q \in Request /\ req[q].pc # "create_wait"
      BY <3>3 DEF Session, WritePc
    <3>5. q # Gc => Awaits(q) = wait[q]
      BY <3>4 DEF Awaits
    <3>6. q \in A
      BY <1>2, <2>1, <3>1, <3>5
    <3> QED BY <3>1, <3>6
  <2>4. A \in SUBSET Session
    OBVIOUS
  <2> HIDE DEF A
  <2>5. A = {}
    BY <2>3, <2>4, NobodyWaitsInACircle DEF PoolInv
  <2> QED BY <2>2, <2>5
<1> QED BY <1>1, <1>2 DEF NoDeadlock

-----------------------------------------------------------------------------
(* Steps that take no page lock *)

\* Locks stay as they are or are all given up, and waits only go away.
Eases ==
    /\ \A q \in Session : held'[q] = held[q] \/ held'[q] = {}
    /\ \A s \in Session : \A q \in wait'[s] :
        q \in wait[s] /\ held'[q] = held[q] /\ held'[s] = held[s]
    /\ \A s \in Session : held'[s] # {} \/ wait'[s] # {} => s \in conn'
    /\ held'[Gc] # {} =>
        gcTodo' \subseteq gcTodo /\ \A f \in gcTodo' : files'[f] = files[f]

\* An upload stays with its large object until it is done.
LEMMA UploadGoesOn ==
    ASSUME Step, NEW q \in Request
    PROVE  /\ req[q].pc \in WritePc => req'[q].pc \in WritePc \cup {"done"}
           /\ req'[q].pc \in WritePc => req'[q].blob = req[q].blob
<1>1. req'[q].pc \in WritePc => req'[q].blob = req[q].blob
  BY WriterStep DEF PutStarted, AppendStarted, ChunkTaken, BodyEnded, Sought, Written, Same
<1>2. ASSUME req[q].pc \in WritePc PROVE req'[q].pc \in WritePc \cup {"done"}
  <2>1. ASSUME NEW r \in Request, Effect(r), q # r PROVE req'[q] = req[q]
    BY <2>1 DEF Effect, Moved, Refused, PutStarted, AppendStarted, ChunkTaken,
       BodyEnded, Sought, Written, Blocked, Committed, Dropped, Created, Others
  <2>2. Effect(q) => req'[q].pc \in WritePc \cup {"done"}
    BY <1>2 DEF Effect, Moved, Refused, PutStarted, AppendStarted, ChunkTaken,
       BodyEnded, Sought, Written, Blocked, Committed, Dropped, Created, WritePc
  <2>3. InBackground \/ Collected \/ Crashed => req'[q].pc \in WritePc \cup {"done"}
    BY <1>2 DEF InBackground, Collected, Crashed
  <2> QED BY <1>2, <2>1, <2>2, <2>3 DEF Step
<1> QED BY <1>1, <1>2

\* Pages ascend with the offsets.
LEMMA PagesAscend ==
    ASSUME NEW i \in Nat, NEW j \in Nat, i <= j
    PROVE  /\ i \div PageSize \in Nat /\ j \div PageSize \in Nat
           /\ i \div PageSize <= j \div PageSize
  BY PageSizeIsPos

\* An interval of offsets covers an interval of pages.
LEMMA PagesCover ==
    ASSUME NEW i \in Nat, NEW j \in Nat, i <= j,
           NEW k \in (i \div PageSize) .. (j \div PageSize)
    PROVE  \E m \in i .. j : m \div PageSize = k
<1> DEFINE d == PageSize
<1>1. d \in Nat \ {0} /\ k \in Nat
  BY PageSizeIsPos, PagesAscend
<1>2. d * (j \div d) <= j
  BY <1>1
<1>3. CASE k = i \div d
  BY <1>3
<1>4. CASE k # i \div d
  <2>1. i < d * ((i \div d) + 1)
    BY <1>1
  <2>2. i \div d \in Nat /\ j \div d \in Nat
    BY PagesAscend
  <2>3. (i \div d) + 1 <= k /\ k <= j \div d
    BY <1>1, <1>4, <2>2
  <2>4. d * ((i \div d) + 1) <= d * k /\ d * k <= d * (j \div d)
    BY <1>1, <2>2, <2>3
  <2>5. d * k \in i .. j
    BY <1>1, <1>2, <2>1, <2>2, <2>4
  <2>6. (d * k) \div d = k
    BY <1>1
  <2> QED BY <2>5, <2>6
<1> QED BY <1>3, <1>4
LEMMA EasesKeeps ==
    ASSUME IInv, IInv', PoolInv, PoolInv', LockInv, Step, Eases
    PROVE  LockInv'
<1>0. TypeOK /\ TypeOK' /\ Request \subseteq Session /\ Gc \in Session
  BY SessionHasRequests DEF PoolInv
<1>1. OneHolder'
  <2> SUFFICES ASSUME NEW s \in Session, NEW q \in Session, s # q
               PROVE  held'[s] \cap held'[q] = {}
    BY DEF OneHolder
  <2>1. held[s] \cap held[q] = {}
    BY DEF LockInv, OneHolder
  <2> QED BY <2>1 DEF Eases
<1>2. HoldersConnected'
  BY DEF HoldersConnected, Eases
<1>3. HeldByWriter'
  <2> SUFFICES ASSUME NEW r \in Request, NEW p \in held'[r]
               PROVE  /\ req'[r].pc \in WritePc
                      /\ \E i \in Touched(r)' : p = <<req'[r].blob, i \div PageSize>>
                      /\ req'[r].pc = "write" =>
                            \A k \in (req'[r].pos \div PageSize) .. p[2] :
                                <<req'[r].blob, k>> \in held'[r]
    BY DEF HeldByWriter
  <2>1. held'[r] = held[r] /\ p \in held[r]
    BY <1>0 DEF Eases
  <2>2. /\ req[r].pc \in WritePc
        /\ \E i \in Touched(r) : p = <<req[r].blob, i \div PageSize>>
        /\ req[r].pc = "write" =>
            \A k \in (req[r].pos \div PageSize) .. p[2] : <<req[r].blob, k>> \in held[r]
    BY <2>1 DEF LockInv, HeldByWriter
  <2>3. req'[r].pc # "done"
    <3>1. r \in conn' \ {Gc}
      BY <1>0, GcIsNoRequest DEF Eases
    <3> QED BY <3>1 DEF PoolInv, PoolAccounting, HandlePc
  <2>4. req'[r].pc \in WritePc /\ req'[r].blob = req[r].blob
    BY <2>2, <2>3, UploadGoesOn
  <2>5. CASE req'[r] = req[r] /\ written'[r] = written[r]
    <3>1. Touched(r)' = Touched(r)
      BY <2>5 DEF Touched, ChunkBytes, Byte
    <3> QED BY <2>1, <2>2, <2>5, <3>1
  <2>6. CASE ChunkTaken(r) \/ BodyEnded(r)
    <3>1. /\ req[r].pc = "upload" /\ req'[r].pc # "write"
          /\ written' = written
      BY <2>6 DEF ChunkTaken, BodyEnded, StoreSame
    <3>2. Touched(r)' = Touched(r)
      BY <3>1 DEF Touched
    <3> QED BY <2>2, <2>4, <3>1, <3>2
  <2>7. CASE Sought(r)
    <3>1. /\ req[r].pc = "seek_end" /\ req'[r].pc = "write" /\ written' = written
          /\ req'[r].pos = Size(View(r, req[r].blob))
      BY <2>7 DEF Sought, StoreSame
    <3>2. PICK i \in DOMAIN written[r] : p = <<req[r].blob, i \div PageSize>>
      BY <2>2, <3>1 DEF Touched
    <3>3. i \in Touched(r)'
      BY <3>1, <3>2 DEF Touched
    <3>4. req[r].blob \in Request
      BY <1>0, HandlerFacts DEF HandlerTypeOK
    <3>5. i \in Nat /\ req'[r].pos \in Nat /\ i <= req'[r].pos
      <4>1. i \in DOMAIN View(r, req[r].blob)
        BY <3>2, ViewDomain
      <4> QED BY <1>0, <3>1, <3>4, <4>1, ViewSize
    <3>6. ASSUME NEW k \in (req'[r].pos \div PageSize) .. p[2] PROVE k = p[2]
      <4>1. /\ i \div PageSize \in Nat /\ req'[r].pos \div PageSize \in Nat
            /\ i \div PageSize <= req'[r].pos \div PageSize
        BY <3>5, PagesAscend
      <4> QED BY <3>2, <4>1
    <3>7. p = <<req'[r].blob, p[2]>>
      BY <2>4, <3>2
    <3> QED BY <2>1, <2>4, <3>2, <3>3, <3>6, <3>7
  <2>8. CASE Written(r)
    <3>1. /\ req[r].pc = "write" /\ req'[r].pc = "upload"
          /\ DOMAIN written'[r] = DOMAIN written[r] \cup DOMAIN ChunkBytes(r)
      BY <2>8 DEF Written, Overlay
    <3>2. Touched(r)' = Touched(r)
      BY <3>1 DEF Touched
    <3> QED BY <2>2, <2>4, <3>1, <3>2
  <2>9. ~PutStarted(r) /\ ~AppendStarted(r)
    BY <2>2 DEF PutStarted, AppendStarted, WritePc
  <2> QED BY <2>4, <2>5, <2>6, <2>7, <2>8, <2>9, WriterStep
<1>4. HeldByBatch'
  <2> SUFFICES ASSUME NEW f \in gcTodo', NEW p \in held'[Gc], p[1] = files'[f]
               PROVE  \A k \in 0 .. p[2] : <<files'[f], k>> \in held'[Gc]
    BY DEF HeldByBatch
  <2>1. held'[Gc] = held[Gc] /\ f \in gcTodo /\ files'[f] = files[f]
    BY <1>0 DEF Eases
  <2> QED BY <2>1 DEF LockInv, HeldByBatch
<1>5. WaitsAbove'
  <2> SUFFICES ASSUME NEW s \in Session, wait'[s] # {}
               PROVE  \E o \in Request, k \in Nat : WaitsAt(s, o, k)'
    BY DEF WaitsAbove
  <2>1. /\ wait[s] # {} /\ held'[s] = held[s]
        /\ \A q \in wait'[s] : q \in wait[s] /\ held'[q] = held[q]
    BY DEF Eases
  <2>2. PICK o \in Request, k \in Nat : WaitsAt(s, o, k)
    BY <2>1 DEF LockInv, WaitsAbove
  <2>3. s \in Request => o = req'[s].blob
    <3> SUFFICES ASSUME s \in Request PROVE o = req'[s].blob
      OBVIOUS
    <3>1. req'[s].pc \in WritePc
      BY DEF IInv, BlockedIsWriting, WritePc
    <3> QED BY <2>2, <3>1, UploadGoesOn DEF WaitsAt
  <2>4. WaitsAt(s, o, k)'
    BY <2>1, <2>2, <2>3 DEF WaitsAt
  <2> QED BY <2>4
<1> QED BY <1>1, <1>2, <1>3, <1>4, <1>5 DEF LockInv
\* What the batch has still to unlink is in its rows.
BatchStays == gcTodo' = gcTodo /\ \A f \in gcTodo : files'[f] = files[f]

\* A step that touches no lock may take or give back a connection that no lock
\* depends on.
LEMMA StayEases ==
    ASSUME IInv, LockInv, UNCHANGED <<held, wait>>,
           \A s \in conn \ conn' : held[s] = {} /\ wait[s] = {},
           BatchStays \/ held[Gc] = {}
    PROVE  Eases
  BY DEF Eases, LockInv, HoldersConnected, BatchStays

LEMMA EndEases ==
    ASSUME IInv, LockInv, NEW s \in Session, NEW b \in BOOLEAN, EndTransaction(s, b),
           BatchStays \/ s = Gc
    PROVE  Eases
<1>1. /\ held'[s] = {} /\ wait'[s] = {} /\ conn' = conn \ {s}
      /\ \A q \in Session : q # s => held'[q] = held[q] /\ wait'[q] = wait[q] \ {s}
  BY DEF EndTransaction, IInv, TypeOK, StoreTypeOK
<1>2. \A q \in Session : wait[q] \subseteq Session
  BY DEF IInv, TypeOK, StoreTypeOK
<1> QED BY <1>1, <1>2, SessionHasRequests
        DEF Eases, LockInv, HoldersConnected, BatchStays

\* A handler that returns, with or without a commit.
LEMMA DropEases ==
    ASSUME IInv, LockInv, NEW r \in Request, NEW code, DropAndReply(r, code),
           gcTodo' = gcTodo
    PROVE  Eases
  BY EndEases, SessionHasRequests DEF DropAndReply, Rollback, BatchStays

LEMMA CommitEases ==
    ASSUME IInv, LockInv, NEW r \in Request, NEW o, CommitBlob(r, o), gcTodo' = gcTodo
    PROVE  Eases
  BY EndEases, SessionHasRequests DEF CommitBlob, BatchStays

\* Only an upload has locks.
LEMMA NoLocks ==
    ASSUME IInv, LockInv, NEW r \in Request, req[r].pc \notin WritePc
    PROVE  held[r] = {} /\ wait[r] = {}
<1>1. wait[r] = {}
  BY DEF IInv, BlockedIsWriting, WritePc
<1>2. held[r] = {}
  BY DEF LockInv, HeldByWriter
<1> QED BY <1>1, <1>2

LEMMA MostStepsEase ==
    ASSUME IInv, PoolInv, LockInv, [Next]_vars
    PROVE  \/ Eases
           \/ \E r \in Request : Write(r) \/ WriteBlocks(r)
           \/ \E f \in File : GcUnlink(f) \/ GcBlocks(f)
<1> DEFINE Still == UNCHANGED <<held, wait>> /\ conn \subseteq conn' /\ BatchStays
<1>1. Still => Eases
  BY StayEases
<1>2. ASSUME NEW r \in Request, UNCHANGED <<held, wait>>, conn' = conn \ {r}, BatchStays,
             req[r].pc \notin WritePc
      PROVE  Eases
  BY <1>2, NoLocks, StayEases
<1>3. CASE UNCHANGED vars \/ Quiet
  BY <1>1, <1>3 DEF Quiet, vars, storeVars, serviceVars, BatchStays
<1>4. ASSUME NEW b \in Bucket, CreateBucket(b) PROVE Eases
  BY <1>1, <1>4 DEF CreateBucket, storeVars, BatchStays
<1>5. ASSUME NEW f \in File, Expire(f) PROVE Eases
  BY <1>1, <1>5 DEF Expire, serviceVars, BatchStays
<1>6. ASSUME NEW r \in Request,
             Arrive(r) \/ AcquireTimesOut(r) \/ SeekForSize(r) \/ SeekToStart(r)
               \/ NextChunk(r) \/ BodyEnds(r) \/ SeekToEnd(r) \/ EmptyChunk(r)
      PROVE  Eases
  <2>1. UNCHANGED storeVars /\ UnchangedService
    BY <1>6 DEF Arrive, AcquireTimesOut, SeekForSize, SeekToStart, NextChunk, BodyEnds,
       SeekToEnd, EmptyChunk
  <2> QED BY <1>1, <2>1 DEF storeVars, UnchangedService, BatchStays
<1>7. ASSUME NEW r \in Request, FindBucket(r) \/ FindFile(r) \/ OpenFails(r) PROVE Eases
  <2>1. /\ UNCHANGED <<files, expired, live, content, written, held, wait, lost, conn>>
        /\ UnchangedService
    BY <1>7 DEF FindBucket, FindFile, OpenFails, QueryOnPool
  <2> QED BY <1>1, <2>1 DEF UnchangedService, BatchStays
<1>8. ASSUME NEW r \in Request, CreateBlocks(r) \/ OpenHandle(r) PROVE Eases
  BY <1>1, <1>8 DEF CreateBlocks, OpenHandle, Begin, UnchangedService, BatchStays
<1>9. ASSUME NEW r \in Request, CreateFile(r) PROVE Eases
  <2>1. /\ conn' = conn \ {r} /\ UNCHANGED <<held, wait, gcTodo>>
        /\ req[r].pc \notin WritePc /\ FileOf(r) \notin DOMAIN files
        /\ files' = [g \in DOMAIN files \cup {FileOf(r)} |->
                        IF g = FileOf(r) THEN r ELSE files[g]]
    BY <1>9 DEF CreateFile, InsertRuns, InsertRow, UnchangedService, WritePc
  <2>2. BatchStays
    BY <2>1 DEF BatchStays, IInv, TypeOK
  <2> QED BY <1>2, <2>1, <2>2
<1>10. ASSUME NEW r \in Request, CreateExists(r) PROVE Eases
  BY <1>2, <1>10 DEF CreateExists, InsertRuns, UnchangedService, BatchStays, WritePc
<1>11. ASSUME NEW r \in Request, WriteFails(r) \/ CheckEof(r) PROVE Eases
  BY <1>11, DropEases DEF WriteFails, CheckEof, UnchangedService
<1>12. ASSUME NEW r \in Request, Commit(r) \/ CommitUnheard(r) PROVE Eases
  BY <1>12, CommitEases DEF Commit, CommitUnheard, UnchangedService
<1>13. ASSUME NEW r \in Request, Metadata(r) \/ Compare(r) \/ Stream(r) PROVE Eases
  <2>1. UnchangedService
    BY <1>13 DEF Metadata, Compare, Stream
  <2>2. UNCHANGED storeVars \/ \E code : DropAndReply(r, code)
    BY <1>13 DEF Metadata, Compare, Stream
  <2>3. CASE UNCHANGED storeVars
    BY <1>1, <2>1, <2>3 DEF storeVars, UnchangedService, BatchStays
  <2> QED BY <2>1, <2>2, <2>3, DropEases DEF UnchangedService
<1>14. ASSUME NEW r \in Request, Abandon(r) PROVE Eases
  BY <1>14, DropEases DEF Abandon
<1>15. CASE GcBegin
  <2>1. held[Gc] = {}
    BY <1>15, SessionHasRequests DEF GcBegin, LockInv, HoldersConnected
  <2> QED BY <1>15, <2>1, StayEases DEF GcBegin, Begin
<1>16. CASE GcCommit \/ GcFails
  BY <1>16, EndEases, SessionHasRequests DEF GcCommit, GcFails, CommitDeletion
<1>17. CASE Crash
  BY <1>17, SessionHasRequests DEF Crash, Eases
<1> QED
  BY <1>3, <1>4, <1>5, <1>6, <1>7, <1>8, <1>9, <1>10, <1>11, <1>12, <1>13, <1>14, <1>15,
     <1>16, <1>17
     DEF Next, Serve, ClientSends, Collect

-----------------------------------------------------------------------------
(* Steps that take page locks *)

\* A statement that gets the locks of some free pages; it may go on to wait.
Takes(s, pages) ==
    /\ Foreign(s, pages) = {}
    /\ held' = [held EXCEPT ![s] = @ \cup pages]

LEMMA TakesKeepsHolders ==
    ASSUME IInv, LockInv, NEW s \in Session, NEW pages, Takes(s, pages),
           \A q \in Session : q # s => wait'[q] = wait[q],
           s \in conn, conn' = conn
    PROVE  /\ OneHolder' /\ HoldersConnected'
           /\ held'[s] = held[s] \cup pages
           /\ \A q \in Session : q # s => held'[q] = held[q]
<1>1. /\ held'[s] = held[s] \cup pages
      /\ \A q \in Session : q # s => held'[q] = held[q]
  BY DEF Takes, IInv, TypeOK, StoreTypeOK
<1>2. \A q \in Session : q # s => pages \cap held[q] = {}
  BY DEF Takes, Foreign
<1>3. OneHolder'
  <2> SUFFICES ASSUME NEW q \in Session, NEW u \in Session, q # u
               PROVE  held'[q] \cap held'[u] = {}
    BY DEF OneHolder
  <2>1. held[q] \cap held[u] = {}
    BY DEF LockInv, OneHolder
  <2> QED BY <1>1, <1>2, <2>1
<1>4. HoldersConnected'
  BY <1>1 DEF LockInv, HoldersConnected
<1> QED BY <1>1, <1>3, <1>4

\* Who waited before goes on waiting for the same page.
LEMMA WaitsStay ==
    ASSUME LockInv, NEW s \in Session, NEW q \in Session, q # s,
           wait'[q] = wait[q], held'[q] = held[q], wait[q] # {}, wait[q] \subseteq Session,
           \A u \in Session : held[u] \subseteq held'[u],
           \A r \in Request : req'[r].blob = req[r].blob
    PROVE  \E o \in Request, k \in Nat : WaitsAt(q, o, k)'
<1>1. PICK o \in Request, k \in Nat : WaitsAt(q, o, k)
  BY DEF LockInv, WaitsAbove
<1>2. WaitsAt(q, o, k)'
  BY <1>1 DEF WaitsAt
<1> QED BY <1>2

\* Block takes the pages below the first foreign one, and waits for that one.
LEMMA BlockTakes ==
    ASSUME IInv, NEW s \in Session, NEW pages \in SUBSET (Request \X Nat), Block(s, pages)
    PROVE  \E first \in pages :
             /\ \E q \in Session \ {s} : first \in held[q]
             /\ Takes(s, {p \in pages : p[2] < first[2]})
             /\ wait'[s] = {q \in Session : first \in held[q]}
             /\ \A q \in Session : q # s => wait'[q] = wait[q]
<1>1. PICK first \in Foreign(s, pages) :
        /\ \A p \in Foreign(s, pages) : first[2] <= p[2]
        /\ held' = [held EXCEPT ![s] = @ \cup {p \in pages : p[2] < first[2]}]
        /\ wait' = [wait EXCEPT ![s] = {q \in Session : first \in held[q]}]
  BY DEF Block
<1>2. first \in pages /\ \E q \in Session \ {s} : first \in held[q]
  BY DEF Foreign
<1>3. Foreign(s, {p \in pages : p[2] < first[2]}) = {}
  <2> SUFFICES ASSUME NEW p \in pages, p[2] < first[2], p \in Foreign(s, pages) PROVE FALSE
    BY DEF Foreign
  <2>1. p[2] \in Nat /\ first[2] \in Nat /\ first[2] <= p[2]
    BY <1>1, <1>2
  <2> QED BY <2>1
<1>4. /\ wait'[s] = {q \in Session : first \in held[q]}
      /\ \A q \in Session : q # s => wait'[q] = wait[q]
  BY <1>1 DEF IInv, TypeOK, StoreTypeOK
<1> QED BY <1>1, <1>2, <1>3, <1>4 DEF Takes

\* The offsets of a chunk begin at the handler's position.
LEMMA ChunkOffsets ==
    ASSUME TypeOK, NEW r \in Request
    PROVE  /\ req[r].blob \in Request /\ req[r].pos \in Nat
           /\ DOMAIN ChunkBytes(r) \subseteq Nat
           /\ \A i \in DOMAIN ChunkBytes(r) :
                req[r].pos <= i /\ req[r].pos .. i \subseteq DOMAIN ChunkBytes(r)
           /\ PagesOf(req[r].blob, DOMAIN ChunkBytes(r)) \subseteq Request \X Nat
<1>1. /\ req[r].blob \in Request /\ req[r].pos \in Nat
      /\ req[r].rcvd \in Nat /\ req[r].stored \in Nat
  BY HandlerFacts DEF HandlerTypeOK
<1>2. DOMAIN ChunkBytes(r) = req[r].pos .. (req[r].pos + req[r].rcvd - req[r].stored - 1)
  BY DEF ChunkBytes
<1>3. /\ DOMAIN ChunkBytes(r) \subseteq Nat
      /\ \A i \in DOMAIN ChunkBytes(r) :
            req[r].pos <= i /\ req[r].pos .. i \subseteq DOMAIN ChunkBytes(r)
  BY <1>1, <1>2
<1> QED BY <1>1, <1>3, PagesAreTyped
\* The locks of every other upload, and of a batch that goes on as it was.
LEMMA OtherLocksStay ==
    ASSUME LockInv, NEW s \in Session,
           \A q \in Session : q # s => held'[q] = held[q],
           \A q \in Request : q # s => req'[q] = req[q] /\ written'[q] = written[q]
    PROVE  \A q \in Request \ {s} : \A p \in held'[q] :
             /\ req'[q].pc \in WritePc
             /\ \E i \in Touched(q)' : p = <<req'[q].blob, i \div PageSize>>
             /\ req'[q].pc = "write" =>
                    \A k \in (req'[q].pos \div PageSize) .. p[2] :
                        <<req'[q].blob, k>> \in held'[q]
<1> SUFFICES ASSUME NEW q \in Request \ {s}, NEW p \in held'[q]
             PROVE  /\ req'[q].pc \in WritePc
                    /\ \E i \in Touched(q)' : p = <<req'[q].blob, i \div PageSize>>
                    /\ req'[q].pc = "write" =>
                            \A k \in (req'[q].pos \div PageSize) .. p[2] :
                                <<req'[q].blob, k>> \in held'[q]
  OBVIOUS
<1>1. held'[q] = held[q] /\ req'[q] = req[q] /\ written'[q] = written[q]
  BY SessionHasRequests
<1>2. Touched(q)' = Touched(q)
  BY <1>1 DEF Touched, ChunkBytes, Byte
<1>3. p \in held[q]
  BY <1>1
<1>4. /\ req[q].pc \in WritePc
      /\ \E i \in Touched(q) : p = <<req[q].blob, i \div PageSize>>
      /\ req[q].pc = "write" =>
            \A k \in (req[q].pos \div PageSize) .. p[2] : <<req[q].blob, k>> \in held[q]
  BY <1>3 DEF LockInv, HeldByWriter
<1> QED BY <1>1, <1>2, <1>4

LEMMA WriteKeepsLocks ==
    ASSUME IInv, PoolInv, LockInv, NEW r \in Request, Write(r)
    PROVE  LockInv'
<1> DEFINE o == req[r].blob
           pages == PagesOf(o, DOMAIN ChunkBytes(r))
<1>0. TypeOK /\ r \in Session /\ Gc \in Session /\ r # Gc /\ Request \subseteq Session
  BY SessionHasRequests, GcIsNoRequest DEF IInv
<1>1. Takes(r, pages) /\ UNCHANGED <<wait, conn, gcTodo, files>> /\ wait[r] = {}
  BY DEF Write, WriteBlob, Lock, Takes, UnchangedService
<1>2. r \in conn
  BY DEF Write, PoolInv, PoolAccounting, HandlePc
<1>3. /\ OneHolder' /\ HoldersConnected' /\ held'[r] = held[r] \cup pages
      /\ \A q \in Session : q # r => held'[q] = held[q]
  <2> HIDE DEF pages
  <2> QED BY <1>0, <1>1, <1>2, TakesKeepsHolders
<1>4. /\ req[r].pc = "write" /\ req'[r].pc = "upload" /\ req'[r].blob = o
      /\ \A q \in Request : q # r => req'[q] = req[q]
  <2>1. HandlerTypeOK(req[r]) /\ req = [q \in Request |-> req[q]]
    BY <1>0, HandlerFacts
  <2> DEFINE n == req[r].pos + req[r].rcvd - req[r].stored
  <2>2. /\ req' = [req EXCEPT ![r].pos = n, ![r].stored = req[r].rcvd, ![r].pc = "upload"]
        /\ req[r].pc = "write"
    BY <2>1 DEF Write
  <2> HIDE DEF n
  <2> QED BY <2>1, <2>2 DEF HandlerTypeOK
<1>5. /\ DOMAIN written'[r] = DOMAIN written[r] \cup DOMAIN ChunkBytes(r)
      /\ \A q \in Request : q # r => written'[q] = written[q]
  <2>1. written' = [written EXCEPT ![r] = Overlay(@, ChunkBytes(r))]
    BY DEF Write, WriteBlob
  <2>2. written = [q \in Request |-> written[q]]
    BY <1>0 DEF TypeOK, StoreTypeOK
  <2>3. /\ written'[r] = Overlay(written[r], ChunkBytes(r))
        /\ \A q \in Request : q # r => written'[q] = written[q]
    <3> HIDE DEF pages
    <3> QED BY <2>1, <2>2
  <2> QED BY <2>3 DEF Overlay
<1>6. HeldByWriter'
  <2>1. \A p \in held'[r] : \E i \in Touched(r)' : p = <<o, i \div PageSize>>
    <3> SUFFICES ASSUME NEW p \in held'[r]
                 PROVE  \E i \in Touched(r)' : p = <<o, i \div PageSize>>
      OBVIOUS
    <3>1. Touched(r)' = Touched(r)
      BY <1>4, <1>5 DEF Touched
    <3>2. CASE p \in held[r]
      BY <3>1, <3>2 DEF LockInv, HeldByWriter
    <3>3. CASE p \in pages
      BY <1>4, <3>1, <3>3 DEF PagesOf, Touched
    <3> QED BY <1>3, <3>2, <3>3
  <2>2. \A p \in held'[r] : /\ req'[r].pc \in WritePc /\ req'[r].pc # "write"
                            /\ \E i \in Touched(r)' : p = <<req'[r].blob, i \div PageSize>>
    BY <1>4, <2>1 DEF WritePc
  <2> QED BY <1>0, <1>3, <1>4, <1>5, <2>2, OtherLocksStay DEF HeldByWriter
<1>7. HeldByBatch'
  BY <1>0, <1>1, <1>3 DEF LockInv, HeldByBatch
<1>8. WaitsAbove'
  <2> SUFFICES ASSUME NEW q \in Session, wait'[q] # {}
               PROVE  \E p \in Request, k \in Nat : WaitsAt(q, p, k)'
    BY DEF WaitsAbove
  <2>1. q # r /\ wait'[q] = wait[q] /\ wait[q] # {}
    BY <1>1
  <2>2. wait[q] \subseteq Session
    BY <1>0 DEF TypeOK, StoreTypeOK
  <2>3. \A u \in Session : held[u] \subseteq held'[u]
    BY <1>3
  <2>4. \A u \in Request : req'[u].blob = req[u].blob
    BY <1>4
  <2> QED BY <1>0, <1>3, <2>1, <2>2, <2>3, <2>4, WaitsStay
<1> QED BY <1>3, <1>6, <1>7, <1>8 DEF LockInv

LEMMA WriteBlocksKeepsLocks ==
    ASSUME IInv, PoolInv, LockInv, NEW r \in Request, WriteBlocks(r)
    PROVE  LockInv'
<1> DEFINE o == req[r].blob
           pages == PagesOf(o, DOMAIN ChunkBytes(r))
<1>0. TypeOK /\ r \in Session /\ Gc \in Session /\ r # Gc /\ Request \subseteq Session
  BY SessionHasRequests, GcIsNoRequest DEF IInv
<1>1. /\ Block(r, pages) /\ UNCHANGED <<req, conn, gcTodo, files, written>>
      /\ req[r].pc = "write"
  BY DEF WriteBlocks, WriteBlobBlocks, UnchangedService
<1>2. r \in conn
  BY <1>1 DEF PoolInv, PoolAccounting, HandlePc
<1>3. /\ o \in Request /\ req[r].pos \in Nat /\ DOMAIN ChunkBytes(r) \subseteq Nat
      /\ \A i \in DOMAIN ChunkBytes(r) :
            req[r].pos <= i /\ req[r].pos .. i \subseteq DOMAIN ChunkBytes(r)
      /\ pages \subseteq Request \X Nat
  BY <1>0, ChunkOffsets
<1>4. PICK first \in pages :
        /\ \E q \in Session \ {r} : first \in held[q]
        /\ Takes(r, {p \in pages : p[2] < first[2]})
        /\ wait'[r] = {q \in Session : first \in held[q]}
        /\ \A q \in Session : q # r => wait'[q] = wait[q]
  <2> HIDE DEF pages
  <2> QED BY <1>0, <1>1, <1>3, BlockTakes
<1> DEFINE taken == {p \in pages : p[2] < first[2]}
<1>5. /\ OneHolder' /\ HoldersConnected' /\ held'[r] = held[r] \cup taken
      /\ \A q \in Session : q # r => held'[q] = held[q]
  <2> HIDE DEF taken, pages
  <2>1. Takes(r, taken)
    BY <1>4 DEF taken
  <2> QED BY <1>0, <1>1, <1>2, <1>4, <2>1, TakesKeepsHolders
<1>6. \A p \in pages : /\ p = <<o, p[2]>> /\ p[2] \in Nat /\ (req[r].pos \div PageSize) <= p[2]
                       /\ \E i \in DOMAIN ChunkBytes(r) : p[2] = i \div PageSize
                       /\ \A k \in (req[r].pos \div PageSize) .. p[2] : <<o, k>> \in pages
  <2> SUFFICES ASSUME NEW i \in DOMAIN ChunkBytes(r)
               PROVE  /\ i \div PageSize \in Nat
                      /\ (req[r].pos \div PageSize) <= i \div PageSize
                      /\ \A k \in (req[r].pos \div PageSize) .. (i \div PageSize) :
                            \E j \in DOMAIN ChunkBytes(r) : k = j \div PageSize
    BY DEF PagesOf
  <2>1. i \in Nat /\ req[r].pos <= i /\ req[r].pos .. i \subseteq DOMAIN ChunkBytes(r)
    BY <1>3
  <2>2. i \div PageSize \in Nat /\ (req[r].pos \div PageSize) <= i \div PageSize
    BY <1>3, <2>1, PagesAscend
  <2>3. ASSUME NEW k \in (req[r].pos \div PageSize) .. (i \div PageSize)
        PROVE  \E j \in DOMAIN ChunkBytes(r) : k = j \div PageSize
    <3>1. \E j \in req[r].pos .. i : j \div PageSize = k
      BY <1>3, <2>1, PagesCover
    <3> QED BY <2>1, <3>1
  <2> QED BY <2>2, <2>3
<1>7. \A p \in held[r] : p \in Request \X Nat
  BY <1>0 DEF TypeOK, StoreTypeOK
<1> HIDE DEF pages
<1>8. HeldByWriter'
  <2>1. ASSUME NEW p \in held'[r]
        PROVE  /\ \E i \in Touched(r) : p = <<o, i \div PageSize>>
               /\ \A k \in (req[r].pos \div PageSize) .. p[2] : <<o, k>> \in held'[r]
    <3>1. CASE p \in held[r]
      BY <1>1, <1>5, <3>1 DEF LockInv, HeldByWriter
    <3>2. CASE p \in taken
      <4>1. \E i \in Touched(r) : p = <<o, i \div PageSize>>
        BY <1>1, <1>6, <3>2 DEF Touched
      <4>2. ASSUME NEW k \in (req[r].pos \div PageSize) .. p[2] PROVE <<o, k>> \in taken
        <5>1. <<o, k>> \in pages /\ p[2] < first[2] /\ p[2] \in Nat /\ first[2] \in Nat
          BY <1>6, <3>2
        <5>2. req[r].pos \div PageSize \in Nat
          BY <1>3, PagesAscend
        <5>3. k < first[2]
          BY <5>1, <5>2
        <5> QED BY <5>1, <5>3
      <4> QED BY <1>5, <4>1, <4>2
    <3> QED BY <1>5, <3>1, <3>2
  <2>2. Touched(r)' = Touched(r)
    BY <1>1 DEF Touched, ChunkBytes, Byte
  <2>3. \A p \in held'[r] :
          /\ req'[r].pc \in WritePc
          /\ \E i \in Touched(r)' : p = <<req'[r].blob, i \div PageSize>>
          /\ \A k \in (req'[r].pos \div PageSize) .. p[2] : <<req'[r].blob, k>> \in held'[r]
    BY <1>1, <2>1, <2>2 DEF WritePc
  <2> QED BY <1>0, <1>1, <1>5, <2>3, OtherLocksStay DEF HeldByWriter
<1>9. HeldByBatch'
  BY <1>0, <1>1, <1>5 DEF LockInv, HeldByBatch
<1>10. WaitsAbove'
  <2> SUFFICES ASSUME NEW q \in Session, wait'[q] # {}
               PROVE  \E p \in Request, k \in Nat : WaitsAt(q, p, k)'
    BY DEF WaitsAbove
  <2>1. CASE q # r
    <3>1. wait[q] \subseteq Session
      BY <1>0 DEF TypeOK, StoreTypeOK
    <3> QED BY <1>0, <1>1, <1>4, <1>5, <2>1, <3>1, WaitsStay
  <2>2. CASE q = r
    <3>1. first = <<o, first[2]>> /\ first[2] \in Nat
      BY <1>6
    <3>2. \A u \in wait'[r] : <<o, first[2]>> \in held'[u]
      BY <1>4, <1>5, <3>1
    <3>3. ASSUME NEW p \in held'[r], p[1] = o PROVE p[2] < first[2]
      <4>1. CASE p \in taken
        BY <4>1
      <4>2. CASE p \in held[r]
        <5> SUFFICES ASSUME first[2] <= p[2] PROVE FALSE
          BY <1>7, <3>1, <4>2
        <5>1. \A k \in (req[r].pos \div PageSize) .. p[2] : <<o, k>> \in held[r]
          BY <1>1, <4>2 DEF LockInv, HeldByWriter
        <5>2. first[2] \in (req[r].pos \div PageSize) .. p[2]
          BY <1>3, <1>6, <1>7, <3>1, <4>2, PagesAscend
        <5>3. first \in held[r]
          BY <3>1, <5>1, <5>2
        <5> QED BY <1>0, <1>4, <5>3 DEF LockInv, OneHolder
      <4> QED BY <1>5, <4>1, <4>2
    <3>4. o = req'[r].blob
      BY <1>1
    <3>5. PICK b \in Request : b = o
      BY <1>3
    <3>6. WaitsAt(q, b, first[2])'
      BY <2>2, <3>2, <3>3, <3>4, <3>5 DEF WaitsAt
    <3> QED BY <3>1, <3>6
  <2> QED BY <2>1, <2>2
<1> QED BY <1>5, <1>8, <1>9, <1>10 DEF LockInv
\* The batch, too, takes the locks of a large object's pages in ascending order.
LEMMA BatchPages ==
    ASSUME IInv, NEW f \in gcTodo
    PROVE  LET pages == PagesOf(files[f], DOMAIN content[files[f]]) IN
           /\ files[f] \in Request /\ f \in DOMAIN files
           /\ pages \in SUBSET (Request \X Nat)
           /\ \A p \in pages : /\ p = <<files[f], p[2]>> /\ p[2] \in Nat
                               /\ \A k \in 0 .. p[2] : <<files[f], k>> \in pages
<1> DEFINE o == files[f]
           D == DOMAIN content[o]
<1>1. f \in DOMAIN files /\ o \in Request /\ o \in live
  BY DEF IInv, TypeOK, StoreTypeOK, RowsAndBlobs
<1>2. D \subseteq Nat /\ \A i \in D : 0 .. i \subseteq D
  BY <1>1 DEF IInv, NoHoles, TypeOK, StoreTypeOK, IsContent
<1> HIDE DEF o, D
<1>3. PagesOf(o, D) \in SUBSET (Request \X Nat)
  BY <1>1, <1>2, PagesAreTyped
<1>4. ASSUME NEW i \in D, NEW k \in 0 .. (i \div PageSize)
      PROVE  \E j \in D : k = j \div PageSize
  <2>1. i \in Nat /\ 0 .. i \subseteq D
    BY <1>2
  <2>2. 0 \div PageSize = 0
    BY PageSizeIsPos
  <2>3. \E j \in 0 .. i : j \div PageSize = k
    BY <2>1, <2>2, PagesCover
  <2> QED BY <2>1, <2>3
<1>5. \A i \in D : i \div PageSize \in Nat
  BY <1>2, PageSizeIsPos
<1>6. \A p \in PagesOf(o, D) : /\ p = <<o, p[2]>> /\ p[2] \in Nat
                              /\ \A k \in 0 .. p[2] : <<o, k>> \in PagesOf(o, D)
  BY <1>4, <1>5 DEF PagesOf
<1> QED BY <1>1, <1>3, <1>6 DEF o, D

LEMMA GcUnlinkKeepsLocks ==
    ASSUME IInv, PoolInv, LockInv, NEW f \in File, GcUnlink(f)
    PROVE  LockInv'
<1> DEFINE pages == PagesOf(files[f], DOMAIN content[files[f]])
<1>0. TypeOK /\ Gc \in Session /\ Gc \notin Request /\ Request \subseteq Session
  BY SessionHasRequests, GcIsNoRequest DEF IInv
<1>1. /\ Takes(Gc, pages) /\ UNCHANGED <<wait, conn, files, content, req, written>>
      /\ wait[Gc] = {} /\ Gc \in conn /\ f \in gcTodo /\ gcTodo' = gcTodo \ {f}
  BY DEF GcUnlink, GcRuns, LockBlobPages, Lock, Takes
<1>2. f \in DOMAIN files /\ \A p \in pages : p = <<files[f], p[2]>>
  BY <1>1, BatchPages
<1> HIDE DEF pages
<1>3. /\ OneHolder' /\ HoldersConnected' /\ held'[Gc] = held[Gc] \cup pages
      /\ \A q \in Session : q # Gc => held'[q] = held[q]
  BY <1>0, <1>1, TakesKeepsHolders
<1>4. HeldByWriter'
  BY <1>0, <1>1, <1>3, OtherLocksStay DEF HeldByWriter
<1>5. HeldByBatch'
  <2> SUFFICES ASSUME NEW g \in gcTodo', NEW p \in held'[Gc], p[1] = files[g]
               PROVE  \A k \in 0 .. p[2] : <<files[g], k>> \in held'[Gc]
    BY <1>1 DEF HeldByBatch
  <2>1. g \in gcTodo /\ g # f /\ g \in DOMAIN files
    BY <1>0, <1>1 DEF TypeOK
  <2>2. p \notin pages
    BY <1>2, <2>1 DEF IInv, RowsAndBlobs
  <2> QED BY <1>3, <2>1, <2>2 DEF LockInv, HeldByBatch
<1>6. WaitsAbove'
  <2> SUFFICES ASSUME NEW q \in Session, wait'[q] # {}
               PROVE  \E p \in Request, k \in Nat : WaitsAt(q, p, k)'
    BY DEF WaitsAbove
  <2>1. q # Gc /\ wait'[q] = wait[q] /\ wait[q] # {} /\ wait[q] \subseteq Session
    BY <1>0, <1>1 DEF TypeOK, StoreTypeOK
  <2> QED BY <1>0, <1>1, <1>3, <2>1, WaitsStay
<1> QED BY <1>3, <1>4, <1>5, <1>6 DEF LockInv

LEMMA GcBlocksKeepsLocks ==
    ASSUME IInv, PoolInv, LockInv, NEW f \in File, GcBlocks(f)
    PROVE  LockInv'
<1> DEFINE o == files[f]
           pages == PagesOf(o, DOMAIN content[o])
<1>0. TypeOK /\ Gc \in Session /\ Gc \notin Request /\ Request \subseteq Session
  BY SessionHasRequests, GcIsNoRequest DEF IInv
<1>1. /\ Block(Gc, pages) /\ UNCHANGED <<conn, files, content, req, written, gcTodo>>
      /\ Gc \in conn /\ f \in gcTodo
  BY DEF GcBlocks, GcRuns, BlockOnBlobPages, serviceVars
<1>2. /\ o \in Request /\ f \in DOMAIN files /\ pages \in SUBSET (Request \X Nat)
      /\ \A p \in pages : /\ p = <<o, p[2]>> /\ p[2] \in Nat
                          /\ \A k \in 0 .. p[2] : <<o, k>> \in pages
  BY <1>1, BatchPages
<1> HIDE DEF pages
<1>3. PICK first \in pages :
        /\ \E q \in Session \ {Gc} : first \in held[q]
        /\ Takes(Gc, {p \in pages : p[2] < first[2]})
        /\ wait'[Gc] = {q \in Session : first \in held[q]}
        /\ \A q \in Session : q # Gc => wait'[q] = wait[q]
  BY <1>0, <1>1, <1>2, BlockTakes
<1> DEFINE taken == {p \in pages : p[2] < first[2]}
<1>4. /\ OneHolder' /\ HoldersConnected' /\ held'[Gc] = held[Gc] \cup taken
      /\ \A q \in Session : q # Gc => held'[q] = held[q]
  <2> HIDE DEF taken
  <2>1. Takes(Gc, taken)
    BY <1>3 DEF taken
  <2> QED BY <1>0, <1>1, <1>3, <2>1, TakesKeepsHolders
<1>5. HeldByWriter'
  BY <1>0, <1>1, <1>4, OtherLocksStay DEF HeldByWriter
<1>6. HeldByBatch'
  <2> SUFFICES ASSUME NEW g \in gcTodo, NEW p \in held'[Gc], p[1] = files[g],
                      NEW k \in 0 .. p[2]
               PROVE  <<files[g], k>> \in held'[Gc]
    BY <1>1 DEF HeldByBatch
  <2>1. CASE p \in held[Gc]
    BY <1>4, <2>1 DEF LockInv, HeldByBatch
  <2>2. CASE p \in taken
    <3>1. files[g] = o /\ p[2] < first[2] /\ p[2] \in Nat /\ first[2] \in Nat
      BY <1>2, <2>2
    <3>2. <<o, k>> \in pages /\ k < first[2]
      BY <1>2, <2>2, <3>1
    <3> QED BY <1>4, <3>1, <3>2
  <2> QED BY <1>4, <2>1, <2>2
<1>7. WaitsAbove'
  <2> SUFFICES ASSUME NEW q \in Session, wait'[q] # {}
               PROVE  \E p \in Request, k \in Nat : WaitsAt(q, p, k)'
    BY DEF WaitsAbove
  <2>1. CASE q # Gc
    <3>1. wait[q] \subseteq Session
      BY <1>0 DEF TypeOK, StoreTypeOK
    <3> QED BY <1>0, <1>1, <1>3, <1>4, <2>1, <3>1, WaitsStay
  <2>2. CASE q = Gc
    <3>1. first = <<o, first[2]>> /\ first[2] \in Nat
      BY <1>2
    <3>2. \A u \in wait'[Gc] : <<o, first[2]>> \in held'[u]
      BY <1>3, <1>4, <3>1
    <3>3. ASSUME NEW p \in held'[Gc], p[1] = o PROVE p[2] < first[2]
      <4>1. CASE p \in taken
        BY <4>1
      <4>2. CASE p \in held[Gc]
        <5>0. p[2] \in Nat
          BY <1>0, <4>2 DEF TypeOK, StoreTypeOK
        <5> SUFFICES ASSUME first[2] <= p[2] PROVE FALSE
          BY <3>1, <5>0
        <5>1. \A k \in 0 .. p[2] : <<o, k>> \in held[Gc]
          BY <1>1, <3>3, <4>2 DEF LockInv, HeldByBatch
        <5>2. first \in held[Gc]
          BY <3>1, <5>0, <5>1
        <5> QED BY <1>0, <1>3, <5>2 DEF LockInv, OneHolder
      <4> QED BY <1>4, <4>1, <4>2
    <3>4. PICK b \in Request : b = o
      BY <1>2
    <3>5. WaitsAt(q, b, first[2])'
      BY <1>0, <2>2, <3>2, <3>3, <3>4 DEF WaitsAt
    <3> QED BY <3>1, <3>5
  <2> QED BY <2>1, <2>2
<1> QED BY <1>4, <1>5, <1>6, <1>7 DEF LockInv

-----------------------------------------------------------------------------
(* Every step *)

LEMMA LockStep ==
    ASSUME IInv, PoolInv, LockInv, [Next]_vars
    PROVE  IInv' /\ PoolInv' /\ LockInv'
<1>1. IInv' /\ PoolInv'
  BY StepKeeps, PoolStep
<1>2. Step
  BY EveryStepHasAnEffect DEF IInv
<1>3. CASE Eases
  BY <1>1, <1>2, <1>3, EasesKeeps
<1>4. CASE \E r \in Request : Write(r) \/ WriteBlocks(r)
  BY <1>1, <1>4, WriteKeepsLocks, WriteBlocksKeepsLocks
<1>5. CASE \E f \in File : GcUnlink(f) \/ GcBlocks(f)
  BY <1>1, <1>5, GcUnlinkKeepsLocks, GcBlocksKeepsLocks
<1> QED BY <1>1, <1>3, <1>4, <1>5, MostStepsEase

\* Uploads (PostgresFileHandle::append), inserts (create_file) and the deletion batch
\* (delete_old_files_batch) never wait for one another in a circle, and nobody is stuck
\* behind a session without a connection, whose transaction would never end.
THEOREM NoDeadlockHolds == Spec => []NoDeadlock
<1> DEFINE Inv == IInv /\ PoolInv /\ LockInv
<1>1. Init => Inv
  <2> SUFFICES ASSUME Init PROVE Inv
    OBVIOUS
  <2>1. IInv
    BY InitHolds
  <2>2. PoolInv
    BY PoolInit
  <2>3. LockInv
    BY SessionHasRequests DEF Init, StoreInit, LockInv, OneHolder, HoldersConnected,
       HeldByWriter, HeldByBatch, WaitsAbove
  <2> QED BY <2>1, <2>2, <2>3
<1>2. Inv /\ [Next]_vars => Inv'
  BY LockStep
<1>3. Inv => NoDeadlock
  BY LockInvImpliesNoDeadlock DEF PoolInv
<1> QED BY <1>1, <1>2, <1>3, PTL DEF Spec
=============================================================================
