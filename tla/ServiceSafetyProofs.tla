------------------------- MODULE ServiceSafetyProofs -------------------------
(***************************************************************************)
(* The inductive invariant of Service, and the safety properties it        *)
(* implies, for every value of the constants.                              *)
(*                                                                         *)
(* Next has more than thirty actions, but few ways to change what the      *)
(* invariant talks about.  The first part names these ways ("effects")     *)
(* and proves that every step has one of them; each conjunct of the        *)
(* invariant is then shown to be kept by every effect.                     *)
(***************************************************************************)
EXTENDS ServiceInvariant, ServiceTypeProofs

-----------------------------------------------------------------------------
(* Effects *)

Others(r) == \A q \in Request : q # r => req'[q] = req[q] /\ written'[q] = written[q]

Same(r) == /\ req'[r].resp = req[r].resp /\ req'[r].stored = req[r].stored
           /\ req'[r].rcvd = req[r].rcvd /\ req'[r].blob = req[r].blob
           /\ req'[r].size = req[r].size /\ req'[r].pos = req[r].pos

StoreSame == UNCHANGED <<files, live, content, written, wait, lost>>

\* The locks and waits of requests only go away; who waited may have lost.
LocksShrink ==
    \A q \in Request : /\ wait'[q] \subseteq wait[q]
                       /\ q \in lost' => q \in lost \/ wait[q] # {}

Failures == {"404", "409", "500", "short", "gone"}

\* A handler that does not upload goes on.
Moved(r) ==
    /\ Others(r) /\ StoreSame
    /\ req[r].pc \notin WritePc \cup {"done"} /\ req'[r].pc \notin WritePc \cup {"done"}
    /\ req'[r].resp = req[r].resp /\ req'[r].stored = req[r].stored
    /\ req'[r].pc \in Unborn => req[r].pc \in Unborn
    /\ req'[r].pc \in BeforeBody =>
        req[r].pc \in BeforeBody /\ req'[r].rcvd = req[r].rcvd
    /\ \/ req'[r].blob = req[r].blob
       \/ /\ FileOf(r) \in DOMAIN files /\ req'[r].blob = files[FileOf(r)]
          /\ req[r].pc \notin Unborn

\* A handler without a handle answers.
Refused(r) ==
    /\ Others(r) /\ StoreSame
    /\ req[r].pc \notin WritePc \cup {"done"} /\ req'[r].pc = "done"
    /\ req'[r].resp \in Failures
    /\ req'[r].blob = req[r].blob /\ req'[r].size = req[r].size
    /\ req'[r].stored = req[r].stored

\* A handler owns the handle it will write to.
PutStarted(r) ==
    /\ Others(r) /\ StoreSame /\ Same(r)
    /\ Op(r) = "put" /\ req[r].pc = "open" /\ req'[r].pc = "upload"

AppendStarted(r) ==
    /\ Others(r) /\ StoreSame
    /\ req[r].pc = "size" /\ req'[r].pc = "upload"
    /\ req'[r].size = Size(View(r, req[r].blob))
    /\ req'[r].resp = req[r].resp /\ req'[r].stored = req[r].stored
    /\ req'[r].rcvd = req[r].rcvd /\ req'[r].blob = req[r].blob

\* A chunk to upload arrives, without bytes perhaps, or there are no more.
ChunkTaken(r) ==
    /\ Others(r) /\ StoreSame
    /\ req[r].pc = "upload" /\ req'[r].pc \in {"seek_end", "upload"}
    /\ req'[r].resp = req[r].resp /\ req'[r].stored = req[r].stored
    /\ req'[r].blob = req[r].blob /\ req'[r].size = req[r].size
    /\ req'[r].pc = "upload" => req'[r].rcvd = req[r].rcvd

BodyEnded(r) ==
    /\ Others(r) /\ StoreSame /\ Same(r)
    /\ req[r].pc = "upload" /\ req'[r].pc = "commit"
    /\ req[r].rcvd = Call[r].len

Sought(r) ==
    /\ Others(r) /\ StoreSame
    /\ req[r].pc = "seek_end" /\ req'[r].pc = "write"
    /\ req'[r].pos = Size(View(r, req[r].blob))
    /\ req'[r].resp = req[r].resp /\ req'[r].stored = req[r].stored
    /\ req'[r].rcvd = req[r].rcvd /\ req'[r].blob = req[r].blob
    /\ req'[r].size = req[r].size

Written(r) ==
    /\ Others(r) /\ UNCHANGED <<files, live, content, wait, lost>>
    /\ wait[r] = {} /\ r \notin lost
    /\ written'[r] = Overlay(written[r], ChunkBytes(r))
    /\ req[r].pc = "write" /\ req'[r].pc = "upload"
    /\ req'[r].stored = req[r].rcvd /\ req'[r].rcvd = req[r].rcvd
    /\ req'[r].resp = req[r].resp /\ req'[r].blob = req[r].blob
    /\ req'[r].size = req[r].size

Blocked(r) ==
    /\ UNCHANGED <<req, files, live, content, written, lost>>
    /\ \A q \in Request : q # r => wait'[q] = wait[q]
    /\ req[r].pc = "write"

Committed(r) ==
    /\ Others(r) /\ UNCHANGED <<files, live, written>>
    /\ LocksShrink /\ wait'[r] = {} /\ r \notin lost'
    /\ \A o \in Request : content'[o] = IF o = req[r].blob
                                        THEN Overlay(content[o], written[r]) ELSE content[o]
    /\ req[r].pc = "commit" /\ req'[r].pc = "done"
    /\ req'[r].resp \in {"200", "unheard"}
    /\ req'[r].stored = req[r].stored /\ req'[r].blob = req[r].blob
    /\ req'[r].size = req[r].size

\* A handler answers and its handle is dropped.
Dropped(r) ==
    /\ Others(r) /\ UNCHANGED <<files, live, content>>
    /\ LocksShrink /\ wait'[r] = {} /\ r \notin lost'
    /\ written'[r] = Nothing
    /\ req[r].pc # "done" /\ req'[r].pc = "done"
    /\ req'[r].resp \in Failures \/ (req'[r].resp = "200" /\ req[r].pc \notin WritePc)
    /\ req'[r].stored = req[r].stored /\ req'[r].blob = req[r].blob
    /\ req'[r].size = req[r].size

Created(r) ==
    /\ Others(r) /\ UNCHANGED <<content, written, wait, lost>>
    /\ FileOf(r) \notin DOMAIN files
    /\ files' = [g \in DOMAIN files \cup {FileOf(r)} |->
                    IF g = FileOf(r) THEN r ELSE files[g]]
    /\ live' = live \cup {r}
    /\ req[r].pc \in {"create", "create_wait"} /\ req'[r].pc = "open"
    /\ req'[r].blob = r
    /\ req'[r].resp = req[r].resp /\ req'[r].stored = req[r].stored
    /\ req'[r].rcvd = req[r].rcvd

\* The deletion batch, the clock and the administrator.
InBackground ==
    /\ UNCHANGED <<req, files, live, content, written>>
    /\ LocksShrink

Collected ==
    /\ UNCHANGED <<req, written>>
    /\ LocksShrink
    /\ \E batch \in SUBSET DOMAIN files :
        LET blobs == {files[f] : f \in batch} IN
        /\ files' = [g \in DOMAIN files \ batch |-> files[g]]
        /\ live' = live \ blobs
        /\ \A o \in Request :
             content'[o] = IF o \in blobs THEN Nothing ELSE content[o]

Crashed ==
    /\ UNCHANGED <<files, live, content>>
    /\ LocksShrink
    /\ \A q \in Request :
        \/ /\ req[q].pc \in {"idle", "done"}
           /\ req'[q] = req[q] /\ written'[q] = written[q]
        \/ /\ req[q].pc \notin {"idle", "done"}
           /\ req'[q].pc = "done" /\ req'[q].resp = "gone" /\ written'[q] = Nothing
           /\ req'[q].stored = req[q].stored /\ req'[q].blob = req[q].blob
           /\ req'[q].size = req[q].size
           /\ wait'[q] = {} /\ q \notin lost'

Effect(r) ==
    \/ Moved(r) \/ Refused(r) \/ PutStarted(r) \/ AppendStarted(r) \/ ChunkTaken(r)
    \/ BodyEnded(r) \/ Sought(r) \/ Written(r) \/ Blocked(r) \/ Committed(r)
    \/ Dropped(r) \/ Created(r)

-----------------------------------------------------------------------------
(* Every step has an effect *)

Step ==
    \/ \E r \in Request : Effect(r)
    \/ InBackground \/ Collected \/ Crashed

\* The forms in which actions give a handler its next state.
LEMMA GotoEffect ==
    ASSUME TypeOK, NEW r \in Request, NEW pc, Goto(r, pc)
    PROVE  /\ req'[r].pc = pc /\ Same(r)
           /\ \A q \in Request : q # r => req'[q] = req[q]
<1>1. HandlerTypeOK(req[r]) /\ req = [q \in Request |-> req[q]]
  BY HandlerFacts
<1> QED BY <1>1 DEF Goto, Same, HandlerTypeOK

LEMMA ReplyEffect ==
    ASSUME TypeOK, NEW r \in Request, NEW code, Reply(r, code)
    PROVE  /\ req'[r].pc = "done" /\ req'[r].resp = code
           /\ req'[r].blob = req[r].blob /\ req'[r].size = req[r].size
           /\ req'[r].stored = req[r].stored
           /\ \A q \in Request : q # r => req'[q] = req[q]
<1>1. HandlerTypeOK(req[r]) /\ req = [q \in Request |-> req[q]]
  BY HandlerFacts
<1> QED BY <1>1 DEF Reply, HandlerTypeOK

LEMMA EndTransactionEffect ==
    ASSUME TypeOK, NEW s \in Session, NEW b \in BOOLEAN, EndTransaction(s, b)
    PROVE  /\ LocksShrink /\ wait'[s] = {}
           /\ (~b \/ s \notin wait[s]) => s \notin lost'
<1>1. /\ \A q \in Session : wait'[q] = IF q = s THEN {} ELSE wait[q] \ {s}
      /\ lost' = (lost \ {s}) \cup (IF b THEN {q \in Session : s \in wait[q]} ELSE {})
  BY DEF EndTransaction
<1>2. Request \subseteq Session
  BY SessionHasRequests
<1> QED BY <1>1, <1>2 DEF LocksShrink

\* A handler that returns.
LEMMA DropEffect ==
    ASSUME TypeOK, NEW r \in Request, NEW code, DropAndReply(r, code),
           req[r].pc # "done",
           code \in Failures \/ (code = "200" /\ req[r].pc \notin WritePc)
    PROVE  Dropped(r)
<1>1. EndTransaction(r, FALSE) /\ Reply(r, code)
  BY DEF DropAndReply, Rollback
<1>2. LocksShrink /\ wait'[r] = {} /\ r \notin lost'
  BY <1>1, EndTransactionEffect, SessionHasRequests
<1>3. /\ UNCHANGED <<files, live, content>> /\ written'[r] = Nothing
      /\ \A q \in Request : q # r => written'[q] = written[q]
  BY DEF DropAndReply, Rollback, TypeOK, StoreTypeOK
<1> QED BY <1>1, <1>2, <1>3, ReplyEffect DEF Dropped, Others

LEMMA CommitEffect ==
    ASSUME TypeOK, BlockedIsWriting, NEW r \in Request, req[r].pc = "commit",
           NEW code \in {"200", "unheard"}, CommitBlob(r, req[r].blob), Reply(r, code)
    PROVE  Committed(r)
<1>1. EndTransaction(r, TRUE)
  BY DEF CommitBlob
<1>2. LocksShrink /\ wait'[r] = {} /\ r \notin lost'
  BY <1>1, EndTransactionEffect, SessionHasRequests DEF BlockedIsWriting
<1>3. req[r].blob \in Request
  BY HandlerFacts DEF HandlerTypeOK
<1>4. /\ UNCHANGED <<files, live, written>>
      /\ \A o \in Request : content'[o] = IF o = req[r].blob
                            THEN Overlay(content[o], written[r]) ELSE content[o]
  BY <1>3 DEF CommitBlob, TypeOK, StoreTypeOK
<1> QED BY <1>2, <1>4, ReplyEffect DEF Committed, Others

LEMMA EveryStepHasAnEffect ==
    ASSUME TypeOK, BlockedIsWriting, [Next]_vars
    PROVE  Step
<1> USE DEF Step, Effect
<1>1. CASE UNCHANGED vars
  BY <1>1 DEF vars, storeVars, serviceVars, InBackground, LocksShrink
<1>2. ASSUME NEW b \in Bucket, CreateBucket(b) PROVE Step
  BY <1>2 DEF CreateBucket, storeVars, InBackground, LocksShrink
<1>3. ASSUME NEW f \in File, Expire(f) PROVE Step
  BY <1>3 DEF Expire, serviceVars, InBackground, LocksShrink
<1>4. ASSUME NEW r \in Request, Arrive(r) PROVE Step
  <2>1. Moved(r)
    BY <1>4, GotoEffect DEF Arrive, storeVars, Moved, Same, Others, StoreSame,
       WritePc, Unborn, BeforeBody
  <2> QED BY <2>1
<1>5. ASSUME NEW r \in Request, FindBucket(r) PROVE Step
  <2>1. CASE Reply(r, "404")
    <3>1. Refused(r)
      BY <1>5, <2>1, ReplyEffect
         DEF FindBucket, Refused, Others, StoreSame, WritePc, Failures
    <3> QED BY <3>1
  <2>2. CASE Goto(r, IF Op(r) = "put" THEN "create" ELSE "find")
    <3>1. Moved(r)
      BY <1>5, <2>2, GotoEffect DEF FindBucket, Moved, Same, Others, StoreSame,
         WritePc, Unborn, BeforeBody
    <3> QED BY <3>1
  <2> QED BY <1>5, <2>1, <2>2 DEF FindBucket
<1>6. ASSUME NEW r \in Request, CreateBlocks(r) PROVE Step
  <2>1. Moved(r)
    BY <1>6, GotoEffect DEF CreateBlocks, Moved, Same, Others, StoreSame,
       WritePc, Unborn, BeforeBody
  <2> QED BY <2>1
<1>7. ASSUME NEW r \in Request, CreateFile(r) PROVE Step
  <2>1. HandlerTypeOK(req[r]) /\ req = [q \in Request |-> req[q]]
    BY HandlerFacts
  <2>2. /\ req'[r].pc = "open" /\ req'[r].blob = r
        /\ req'[r].resp = req[r].resp /\ req'[r].stored = req[r].stored
        /\ req'[r].rcvd = req[r].rcvd
        /\ \A q \in Request : q # r => req'[q] = req[q]
    BY <1>7, <2>1 DEF CreateFile, HandlerTypeOK
  <2>3. Created(r)
    BY <1>7, <2>2 DEF CreateFile, InsertRuns, InsertRow, Created, Others
  <2> QED BY <2>3
<1>8. ASSUME NEW r \in Request, CreateExists(r) PROVE Step
  <2>1. Moved(r)
    BY <1>8, GotoEffect DEF CreateExists, InsertRuns, Moved, Same, Others, StoreSame,
       WritePc, Unborn, BeforeBody
  <2> QED BY <2>1
<1>9. ASSUME NEW r \in Request, FindFile(r) PROVE Step
  <2>1. CASE FileOf(r) \notin DOMAIN files
    <3>1. Refused(r)
      BY <1>9, <2>1, ReplyEffect
         DEF FindFile, Refused, Others, StoreSame, WritePc, Failures
    <3> QED BY <3>1
  <2>2. CASE FileOf(r) \in DOMAIN files
    <3>1. HandlerTypeOK(req[r]) /\ req = [q \in Request |-> req[q]]
      BY HandlerFacts
    <3>2. /\ req'[r].pc = "open" /\ req'[r].blob = files[FileOf(r)]
          /\ req'[r].resp = req[r].resp /\ req'[r].stored = req[r].stored
          /\ req'[r].rcvd = req[r].rcvd
          /\ \A q \in Request : q # r => req'[q] = req[q]
      <4> DEFINE o == files[FileOf(r)]
      <4>1. req' = [req EXCEPT ![r].pc = "open", ![r].blob = o]
        BY <1>9, <2>2 DEF FindFile
      <4> HIDE DEF o
      <4>2. /\ req'[r].pc = "open" /\ req'[r].blob = o
            /\ req'[r].resp = req[r].resp /\ req'[r].stored = req[r].stored
            /\ req'[r].rcvd = req[r].rcvd
            /\ \A q \in Request : q # r => req'[q] = req[q]
        BY <3>1, <4>1 DEF HandlerTypeOK
      <4> QED BY <4>2 DEF o
    <3>3. req[r].pc = "find" /\ UNCHANGED <<files, live, content, written, wait, lost>>
      BY <1>9 DEF FindFile
    <3>4. Others(r) /\ StoreSame
      BY <3>2, <3>3 DEF Others, StoreSame
    <3>5. /\ req[r].pc \notin WritePc \cup {"done"} \cup Unborn
          /\ req'[r].pc \notin WritePc \cup {"done"} \cup Unborn
          /\ req[r].pc \in BeforeBody
      BY <3>2, <3>3 DEF WritePc, Unborn, BeforeBody
    <3>6. Moved(r)
      BY <2>2, <3>2, <3>4, <3>5 DEF Moved
    <3> QED BY <3>6
  <2> QED BY <2>1, <2>2
<1>10. ASSUME NEW r \in Request, OpenHandle(r) PROVE Step
  <2> DEFINE pc == IF Op(r) # "put" THEN "size"
                   ELSE IF req[r].blob = r THEN "upload" ELSE "rewind"
  <2>1. Goto(r, pc) /\ req[r].pc = "open" /\ Others(r) /\ StoreSame
    BY <1>10, GotoEffect DEF OpenHandle, Others, StoreSame
  <2>2. \/ (pc = "upload" /\ Op(r) = "put") \/ pc \in {"size", "rewind"}
    OBVIOUS
  <2> HIDE DEF pc
  <2>3. CASE pc = "upload" /\ Op(r) = "put"
    BY <2>1, <2>3, GotoEffect DEF PutStarted
  <2>4. CASE pc \in {"size", "rewind"}
    <3>1. Moved(r)
      BY <2>1, <2>4, GotoEffect DEF Moved, Same, WritePc, Unborn, BeforeBody
    <3> QED BY <3>1
  <2> QED BY <2>2, <2>3, <2>4
<1>11. ASSUME NEW r \in Request, OpenFails(r) PROVE Step
  <2>1. Refused(r)
    BY <1>11, ReplyEffect DEF OpenFails, Refused, Others, StoreSame, WritePc, Failures
  <2> QED BY <2>1
<1>12. ASSUME NEW r \in Request, AcquireTimesOut(r) PROVE Step
  <2>1. Refused(r)
    BY <1>12, ReplyEffect
       DEF AcquireTimesOut, storeVars, Refused, Others, StoreSame, WritePc, Failures
  <2> QED BY <2>1
<1>13. ASSUME NEW r \in Request, SeekForSize(r) PROVE Step
  <2> DEFINE n  == Size(View(r, req[r].blob))
             up == Op(r) = "append" /\ Beyond(r, n)
  <2>1. HandlerTypeOK(req[r]) /\ req = [q \in Request |-> req[q]]
    BY HandlerFacts
  <2>2. /\ req[r].pc = "size"
        /\ req' = [req EXCEPT ![r].size = n, ![r].pos = n,
                              ![r].pc = IF up THEN "upload" ELSE "rewind"]
        /\ UNCHANGED storeVars
    BY <1>13 DEF SeekForSize
  <2> HIDE DEF n, up
  <2>3. /\ req'[r].pc = IF up THEN "upload" ELSE "rewind"
        /\ req'[r].size = n
        /\ req'[r].resp = req[r].resp /\ req'[r].stored = req[r].stored
        /\ req'[r].rcvd = req[r].rcvd /\ req'[r].blob = req[r].blob
        /\ \A q \in Request : q # r => req'[q] = req[q]
    BY <2>1, <2>2 DEF HandlerTypeOK
  <2>4. CASE up
    <3>1. AppendStarted(r)
      BY <2>2, <2>3, <2>4 DEF AppendStarted, Others, StoreSame, storeVars, n
    <3> QED BY <3>1
  <2>5. CASE ~up
    <3>1. Others(r) /\ StoreSame
      BY <2>2, <2>3 DEF Others, StoreSame, storeVars
    <3>2. req'[r].pc = "rewind"
      BY <2>3, <2>5
    <3>3. /\ req[r].pc \notin WritePc \cup {"done"}
          /\ req'[r].pc \notin WritePc \cup {"done"} \cup BeforeBody \cup Unborn
      BY <2>2, <3>2 DEF WritePc, Unborn, BeforeBody
    <3>4. Moved(r)
      BY <2>3, <3>1, <3>3 DEF Moved
    <3> QED BY <3>4
  <2> QED BY <2>4, <2>5
<1>14. ASSUME NEW r \in Request, SeekToStart(r) PROVE Step
  <2>1. HandlerTypeOK(req[r]) /\ req = [q \in Request |-> req[q]]
    BY HandlerFacts
  <2>2. /\ req'[r].pc \in {"metadata", "check"}
        /\ req'[r].resp = req[r].resp /\ req'[r].stored = req[r].stored
        /\ req'[r].rcvd = req[r].rcvd /\ req'[r].blob = req[r].blob
        /\ \A q \in Request : q # r => req'[q] = req[q]
    BY <1>14, <2>1 DEF SeekToStart, HandlerTypeOK
  <2>3. Moved(r)
    BY <1>14, <2>2 DEF SeekToStart, Moved, Others, StoreSame, storeVars,
       WritePc, Unborn, BeforeBody
  <2> QED BY <2>3
<1>15. ASSUME NEW r \in Request, NextChunk(r) PROVE Step
  <2>1. HandlerTypeOK(req[r]) /\ req = [q \in Request |-> req[q]]
    BY HandlerFacts
  <2>2. PICK n \in 1 .. (Call[r].len - req[r].rcvd) :
          req' = [req EXCEPT ![r].rcvd = @ + n,
                             ![r].pc = IF @ = "upload" THEN "seek_end" ELSE "compare"]
    BY <1>15 DEF NextChunk
  <2> DEFINE m == req[r].rcvd + n
  <2>3. req' = [req EXCEPT ![r].rcvd = m,
                           ![r].pc = IF @ = "upload" THEN "seek_end" ELSE "compare"]
    BY <2>2
  <2> HIDE DEF m
  <2>4. /\ req'[r].pc = IF req[r].pc = "upload" THEN "seek_end" ELSE "compare"
        /\ req'[r].resp = req[r].resp /\ req'[r].stored = req[r].stored
        /\ req'[r].blob = req[r].blob /\ req'[r].size = req[r].size
        /\ \A q \in Request : q # r => req'[q] = req[q]
    BY <2>1, <2>3 DEF HandlerTypeOK
  <2>5. CASE req[r].pc = "upload"
    <3>1. ChunkTaken(r)
      BY <1>15, <2>4, <2>5 DEF NextChunk, ChunkTaken, Others, StoreSame, storeVars
    <3> QED BY <3>1
  <2>6. CASE req[r].pc = "check"
    <3>1. Others(r) /\ StoreSame
      BY <1>15, <2>4 DEF NextChunk, Others, StoreSame, storeVars
    <3>2. req'[r].pc = "compare"
      BY <2>4, <2>6
    <3>3. /\ req[r].pc \notin WritePc \cup {"done"}
          /\ req'[r].pc \notin WritePc \cup {"done"} \cup BeforeBody \cup Unborn
      BY <2>6, <3>2 DEF WritePc, Unborn, BeforeBody
    <3>4. Moved(r)
      BY <2>4, <3>1, <3>3 DEF Moved
    <3> QED BY <3>4
  <2> QED BY <1>15, <2>5, <2>6 DEF NextChunk
<1>16. ASSUME NEW r \in Request, BodyEnds(r) PROVE Step
  <2>1. CASE req[r].pc = "upload"
    <3>1. BodyEnded(r)
      BY <1>16, <2>1, GotoEffect DEF BodyEnds, BodyEnded, Others, StoreSame, storeVars
    <3> QED BY <3>1
  <2>2. CASE req[r].pc = "check"
    <3>1. Moved(r)
      BY <1>16, <2>2, GotoEffect DEF BodyEnds, Moved, Same, Others, StoreSame,
         storeVars, WritePc, Unborn, BeforeBody
    <3> QED BY <3>1
  <2> QED BY <1>16, <2>1, <2>2 DEF BodyEnds
<1>17. ASSUME NEW r \in Request, SeekToEnd(r) PROVE Step
  <2>1. HandlerTypeOK(req[r]) /\ req = [q \in Request |-> req[q]]
    BY HandlerFacts
  <2>2. /\ req'[r].pc = "write" /\ req'[r].pos = EndOfFile(r)
        /\ req'[r].resp = req[r].resp /\ req'[r].stored = req[r].stored
        /\ req'[r].rcvd = req[r].rcvd /\ req'[r].blob = req[r].blob
        /\ req'[r].size = req[r].size
        /\ \A q \in Request : q # r => req'[q] = req[q]
    BY <1>17, <2>1 DEF SeekToEnd, HandlerTypeOK
  <2>3. Sought(r)
    BY <1>17, <2>2 DEF SeekToEnd, EndOfFile, Sought, Others, StoreSame, storeVars
  <2> QED BY <2>3
<1>37. ASSUME NEW r \in Request, EmptyChunk(r) PROVE Step
  <2>1. HandlerTypeOK(req[r]) /\ req = [q \in Request |-> req[q]]
    BY HandlerFacts
  <2>2. /\ req[r].pc = "upload" /\ req'[r].pc = "upload"
        /\ req'[r].resp = req[r].resp /\ req'[r].stored = req[r].stored
        /\ req'[r].blob = req[r].blob /\ req'[r].size = req[r].size
        /\ req'[r].rcvd = req[r].rcvd
        /\ \A q \in Request : q # r => req'[q] = req[q]
    BY <1>37, <2>1 DEF EmptyChunk, HandlerTypeOK
  <2>3. ChunkTaken(r)
    BY <1>37, <2>2 DEF EmptyChunk, ChunkTaken, Others, StoreSame, storeVars
  <2> QED BY <2>3
<1>18. ASSUME NEW r \in Request, Write(r) PROVE Step
  <2>1. HandlerTypeOK(req[r]) /\ req = [q \in Request |-> req[q]]
    BY HandlerFacts
  <2> DEFINE p == req[r].pos + req[r].rcvd - req[r].stored
  <2>2. req' = [req EXCEPT ![r].pos = p, ![r].stored = req[r].rcvd, ![r].pc = "upload"]
    BY <1>18, <2>1 DEF Write
  <2> HIDE DEF p
  <2>3. /\ req'[r].pc = "upload"
        /\ req'[r].stored = req[r].rcvd /\ req'[r].rcvd = req[r].rcvd
        /\ req'[r].resp = req[r].resp /\ req'[r].blob = req[r].blob
        /\ req'[r].size = req[r].size
        /\ \A q \in Request : q # r => req'[q] = req[q]
    BY <2>1, <2>2 DEF HandlerTypeOK
  <2>4. /\ written'[r] = Overlay(written[r], ChunkBytes(r))
        /\ \A q \in Request : q # r => written'[q] = written[q]
        /\ UNCHANGED <<files, live, content, wait, lost>>
    BY <1>18 DEF Write, WriteBlob, Lock, TypeOK, StoreTypeOK
  <2>5. Written(r)
    BY <1>18, <2>3, <2>4 DEF Write, Written, Others
  <2> QED BY <2>5
<1>19. ASSUME NEW r \in Request, WriteBlocks(r) PROVE Step
  <2>1. UNCHANGED <<req, files, live, content, written, lost>> /\ req[r].pc = "write"
    BY <1>19 DEF WriteBlocks, WriteBlobBlocks
  <2>2. \E w : wait' = [wait EXCEPT ![r] = w]
    BY <1>19 DEF WriteBlocks, WriteBlobBlocks, Block
  <2>3. \A q \in Request : q # r => wait'[q] = wait[q]
    BY <2>2, SessionHasRequests DEF TypeOK, StoreTypeOK
  <2>4. Blocked(r)
    BY <2>1, <2>3 DEF Blocked
  <2> QED BY <2>4
<1>20. ASSUME NEW r \in Request, WriteFails(r) PROVE Step
  <2>1. req[r].pc = "write"
    BY <1>20 DEF WriteFails, BlockedIsWriting
  <2>2. Dropped(r)
    BY <1>20, <2>1, DropEffect DEF WriteFails, Failures
  <2> QED BY <2>2
<1>21. ASSUME NEW r \in Request, Commit(r) PROVE Step
  <2>1. Committed(r)
    BY <1>21, CommitEffect DEF Commit
  <2> QED BY <2>1
<1>22. ASSUME NEW r \in Request, CommitUnheard(r) PROVE Step
  <2>1. Committed(r)
    BY <1>22, CommitEffect DEF CommitUnheard
  <2> QED BY <2>1
<1>23. ASSUME NEW r \in Request, CheckEof(r) PROVE Step
  <2>1. Dropped(r)
    BY <1>23, DropEffect DEF CheckEof, WritePc, Failures
  <2> QED BY <2>1
<1>24. ASSUME NEW r \in Request, Metadata(r) PROVE Step
  <2>1. CASE DropAndReply(r, "500")
    <3>1. Dropped(r)
      BY <1>24, <2>1, DropEffect DEF Metadata, Failures
    <3> QED BY <3>1
  <2>2. CASE Goto(r, "stream") /\ UNCHANGED storeVars
    <3>1. Moved(r)
      BY <1>24, <2>2, GotoEffect DEF Metadata, Moved, Same, Others, StoreSame,
         storeVars, WritePc, Unborn, BeforeBody
    <3> QED BY <3>1
  <2> QED BY <1>24, <2>1, <2>2 DEF Metadata
\* Reading changes only what the handler has seen, its position and its pc.
<1>25. ASSUME NEW r \in Request, NEW seen, NEW next, NEW pc \in {"check", "compare", "stream"},
              req[r].pc \in {"compare", "stream"}, UNCHANGED storeVars,
              req' = [req EXCEPT ![r].seen = seen, ![r].pos = next, ![r].pc = pc]
       PROVE  Step
  <2>1. HandlerTypeOK(req[r]) /\ req = [q \in Request |-> req[q]]
    BY HandlerFacts
  <2>2. /\ req'[r].pc = pc
        /\ req'[r].resp = req[r].resp /\ req'[r].stored = req[r].stored
        /\ req'[r].blob = req[r].blob
        /\ \A q \in Request : q # r => req'[q] = req[q]
    BY <1>25, <2>1 DEF HandlerTypeOK
  <2>3. Moved(r)
    BY <1>25, <2>2 DEF Moved, Others, StoreSame, storeVars, WritePc, Unborn, BeforeBody
  <2> QED BY <2>3
<1>26. ASSUME NEW r \in Request, NEW seen, NEW next, UNCHANGED storeVars,
              req[r].pc \in {"compare", "stream"},
              req' = [req EXCEPT ![r].seen = seen, ![r].pos = next]
       PROVE  Step
  <2>1. HandlerTypeOK(req[r]) /\ req = [q \in Request |-> req[q]]
    BY HandlerFacts
  <2>2. /\ req'[r].pc = req[r].pc
        /\ req'[r].resp = req[r].resp /\ req'[r].stored = req[r].stored
        /\ req'[r].blob = req[r].blob
        /\ \A q \in Request : q # r => req'[q] = req[q]
    BY <1>26, <2>1 DEF HandlerTypeOK
  <2>3. Moved(r)
    BY <1>26, <2>2 DEF Moved, Others, StoreSame, storeVars, WritePc, Unborn, BeforeBody
  <2> QED BY <2>3
<1>27. ASSUME NEW r \in Request, Compare(r) PROVE Step
  <2>1. CASE DropAndReply(r, "409")
    <3>1. Dropped(r)
      BY <1>27, <2>1, DropEffect DEF Compare, Failures
    <3> QED BY <3>1
  <2>2. CASE \E seen, next :
                /\ req' = [req EXCEPT ![r].seen = seen, ![r].pos = next]
                /\ UNCHANGED storeVars
    BY <1>26, <1>27, <2>2 DEF Compare
  <2>3. CASE \E seen, next :
                /\ req' = [req EXCEPT ![r].seen = seen, ![r].pos = next, ![r].pc = "check"]
                /\ UNCHANGED storeVars
    BY <1>25, <1>27, <2>3 DEF Compare
  <2> QED BY <1>27, <2>1, <2>2, <2>3 DEF Compare
<1>28. ASSUME NEW r \in Request, Stream(r) PROVE Step
  <2>1. CASE DropAndReply(r, "200") \/ DropAndReply(r, "short")
    <3>1. Dropped(r)
      BY <1>28, <2>1, DropEffect DEF Stream, Failures, WritePc
    <3> QED BY <3>1
  <2>2. CASE \E seen, next :
                /\ req' = [req EXCEPT ![r].seen = seen, ![r].pos = next]
                /\ UNCHANGED storeVars
    <3>1. req[r].pc \in {"compare", "stream"}
      BY <1>28 DEF Stream
    <3>2. PICK seen, next :
            /\ req' = [req EXCEPT ![r].seen = seen, ![r].pos = next]
            /\ UNCHANGED storeVars
      BY <2>2
    <3> QED BY <1>26, <3>1, <3>2
  <2>3. HandlerTypeOK(req[r]) /\ req = [q \in Request |-> req[q]]
    BY HandlerFacts
  <2> QED BY <1>28, <2>1, <2>2, <2>3 DEF Stream
<1>29. CASE GcBegin
  BY <1>29 DEF GcBegin, InBackground, LocksShrink
<1>30. ASSUME NEW f \in File, GcUnlink(f) PROVE Step
  BY <1>30 DEF GcUnlink, LockBlobPages, Lock, InBackground, LocksShrink
<1>31. ASSUME NEW f \in File, GcBlocks(f) PROVE Step
  <2>1. \E w : wait' = [wait EXCEPT ![Gc] = w]
    BY <1>31 DEF GcBlocks, BlockOnBlobPages, Block
  <2>2. \A q \in Request : wait'[q] = wait[q]
    BY <2>1, SessionHasRequests, GcIsNoRequest DEF TypeOK, StoreTypeOK
  <2> QED BY <1>31, <2>2 DEF GcBlocks, serviceVars, InBackground, LocksShrink
<1>32. CASE GcCommit
  <2>1. EndTransaction(Gc, TRUE)
    BY <1>32 DEF GcCommit, CommitDeletion
  <2>2. LocksShrink
    BY <2>1, EndTransactionEffect, SessionHasRequests
  <2>3. gcDone \in SUBSET DOMAIN files
    BY DEF TypeOK
  <2>4. Collected
    BY <1>32, <2>2, <2>3 DEF GcCommit, CommitDeletion, Unlinked, Collected
  <2> QED BY <2>4
<1>33. CASE GcFails
  <2>1. LocksShrink
    BY <1>33, EndTransactionEffect, SessionHasRequests DEF GcFails
  <2> QED BY <1>33, <2>1 DEF GcFails, InBackground
<1>34. ASSUME NEW r \in Request, Abandon(r) PROVE Step
  <2>1. PICK code \in {"gone", "500"} : DropAndReply(r, code)
    BY <1>34 DEF Abandon
  <2>2. Dropped(r)
    BY <1>34, <2>1, DropEffect DEF Abandon, Active, Failures
  <2> QED BY <2>2
<1>35. CASE Crash
  <2>1. ASSUME NEW q \in Request
        PROVE  /\ wait'[q] = {} /\ q \notin lost'
               /\ Active(q) => /\ req'[q].pc = "done" /\ req'[q].resp = "gone"
                               /\ req'[q].stored = req[q].stored
                               /\ req'[q].blob = req[q].blob
                               /\ req'[q].size = req[q].size
                               /\ written'[q] = Nothing
               /\ ~Active(q) => req'[q] = req[q] /\ written'[q] = written[q]
    <3>1. HandlerTypeOK(req[q])
      BY HandlerFacts
    <3> QED BY <1>35, <3>1, SessionHasRequests DEF Crash, HandlerTypeOK
  <2>2. Crashed
    BY <1>35, <2>1 DEF Crash, Crashed, Active, LocksShrink
  <2> QED BY <2>2
<1>36. CASE Quiet
  BY <1>1, <1>36 DEF Quiet
<1> QED
  BY <1>1, <1>2, <1>3, <1>4, <1>5, <1>6, <1>7, <1>8, <1>9, <1>10, <1>11, <1>12,
     <1>13, <1>14, <1>15, <1>16, <1>17, <1>18, <1>19, <1>20, <1>21, <1>22, <1>23,
     <1>24, <1>27, <1>28, <1>29, <1>30, <1>31, <1>32, <1>33, <1>34, <1>35, <1>36,
     <1>37
     DEF Next, Serve, ClientSends, Collect

-----------------------------------------------------------------------------
(* Each conjunct of the invariant is kept by every effect *)

LEMMA AnswersKept ==
    ASSUME AnsweredIsDone, Step
    PROVE  AnsweredIsDone'
<1> SUFFICES ASSUME NEW q \in Request
             PROVE  req'[q].resp # "none" <=> req'[q].pc = "done"
  BY DEF AnsweredIsDone
<1>1. req[q].resp # "none" <=> req[q].pc = "done"
  BY DEF AnsweredIsDone
<1>2. ASSUME NEW r \in Request, Effect(r)
      PROVE  req'[q].resp # "none" <=> req'[q].pc = "done"
  <2>1. CASE q # r
    BY <1>1, <1>2, <2>1 DEF Effect, Moved, Refused, PutStarted, AppendStarted, ChunkTaken,
       BodyEnded, Sought, Written, Blocked, Committed, Dropped, Created, Others
  <2>2. CASE q = r
    BY <1>1, <1>2, <2>2 DEF Effect, Moved, Refused, PutStarted, AppendStarted, ChunkTaken,
       BodyEnded, Sought, Written, Blocked, Committed, Dropped, Created, Same, Failures
  <2> QED BY <2>1, <2>2
<1>3. CASE InBackground \/ Collected \/ Crashed
  BY <1>1, <1>3 DEF InBackground, Collected, Crashed
<1> QED BY <1>2, <1>3 DEF Step

LEMMA BlockedKept ==
    ASSUME BlockedIsWriting, Step
    PROVE  BlockedIsWriting'
<1> SUFFICES ASSUME NEW q \in Request, wait'[q] # {} \/ q \in lost'
             PROVE  req'[q].pc = "write"
  BY DEF BlockedIsWriting
<1>1. wait[q] # {} \/ q \in lost => req[q].pc = "write"
  BY DEF BlockedIsWriting
<1>2. ASSUME NEW r \in Request, Effect(r) PROVE req'[q].pc = "write"
  <2>1. CASE q # r
    BY <1>1, <1>2, <2>1 DEF Effect, Moved, Refused, PutStarted, AppendStarted, ChunkTaken,
       BodyEnded, Sought, Written, Blocked, Committed, Dropped, Created, Others,
       StoreSame, LocksShrink
  <2>2. CASE q = r
    BY <1>1, <1>2, <2>2 DEF Effect, Moved, Refused, PutStarted, AppendStarted, ChunkTaken,
       BodyEnded, Sought, Written, Blocked, Committed, Dropped, Created, StoreSame, WritePc
  <2> QED BY <2>1, <2>2
<1>3. CASE InBackground \/ Collected \/ Crashed
  BY <1>1, <1>3 DEF InBackground, Collected, Crashed, LocksShrink
<1> QED BY <1>2, <1>3 DEF Step

LEMMA PendingKept ==
    ASSUME AnsweredIsDone, WritesPending, Step
    PROVE  WritesPending'
<1> SUFFICES ASSUME NEW q \in Request, req'[q].pc \notin WritePc, ~Stored(q)'
             PROVE  written'[q] = Nothing
  BY DEF WritesPending
<1>1. /\ req[q].pc \notin WritePc /\ ~Stored(q) => written[q] = Nothing
      /\ Stored(q) => req[q].pc = "done"
  BY DEF WritesPending, AnsweredIsDone, Stored
<1>2. ASSUME NEW r \in Request, Effect(r) PROVE written'[q] = Nothing
  <2>1. CASE q # r
    BY <1>1, <1>2, <2>1 DEF Effect, Moved, Refused, PutStarted, AppendStarted, ChunkTaken,
       BodyEnded, Sought, Written, Blocked, Committed, Dropped, Created, Others, Stored
  <2>2. CASE q = r
    BY <1>1, <1>2, <2>2 DEF Effect, Moved, Refused, PutStarted, AppendStarted, ChunkTaken,
       BodyEnded, Sought, Written, Blocked, Committed, Dropped, Created, StoreSame, WritePc,
       Stored
  <2> QED BY <2>1, <2>2
<1>3. CASE InBackground \/ Collected \/ Crashed
  BY <1>1, <1>3 DEF InBackground, Collected, Crashed, Stored
<1> QED BY <1>2, <1>3 DEF Step

LEMMA ChunkKept ==
    ASSUME ChunkInHand, Step
    PROVE  ChunkInHand'
<1> SUFFICES ASSUME NEW q \in Request
             PROVE  /\ req'[q].pc \in {"upload", "commit"} => req'[q].stored = req'[q].rcvd
                    /\ req'[q].pc = "commit" => req'[q].rcvd = Call[q].len
                    /\ req'[q].pc \notin WritePc \cup {"done"} => req'[q].stored = 0
                    /\ req'[q].pc \in BeforeBody => req'[q].rcvd = 0
  BY DEF ChunkInHand
<1>1. /\ req[q].pc \in {"upload", "commit"} => req[q].stored = req[q].rcvd
      /\ req[q].pc = "commit" => req[q].rcvd = Call[q].len
      /\ req[q].pc \notin WritePc \cup {"done"} => req[q].stored = 0
      /\ req[q].pc \in BeforeBody => req[q].rcvd = 0
  BY DEF ChunkInHand
<1>2. CASE \E r \in Request : Effect(r) /\ q # r
  BY <1>1, <1>2 DEF Effect, Moved, Refused, PutStarted, AppendStarted, ChunkTaken,
     BodyEnded, Sought, Written, Blocked, Committed, Dropped, Created, Others
<1>3. CASE Moved(q)
  BY <1>1, <1>3 DEF Moved, WritePc
<1>4. CASE Refused(q) \/ Committed(q) \/ Dropped(q)
  BY <1>4 DEF Refused, Committed, Dropped, WritePc, BeforeBody, Unborn
<1>5. CASE PutStarted(q) \/ AppendStarted(q)
  BY <1>1, <1>5 DEF PutStarted, AppendStarted, Same, WritePc, BeforeBody, Unborn
<1>6. CASE ChunkTaken(q) \/ BodyEnded(q) \/ Sought(q) \/ Written(q)
  BY <1>1, <1>6 DEF ChunkTaken, BodyEnded, Sought, Written, Same, WritePc, BeforeBody, Unborn
<1>7. CASE Blocked(q) \/ InBackground \/ Collected
  BY <1>1, <1>7 DEF Blocked, InBackground, Collected
<1>8. CASE Created(q)
  BY <1>1, <1>8 DEF Created, WritePc, BeforeBody, Unborn
<1>9. CASE Crashed
  BY <1>1, <1>9 DEF Crashed, WritePc, BeforeBody, Unborn
<1> QED BY <1>2, <1>3, <1>4, <1>5, <1>6, <1>7, <1>8, <1>9 DEF Step, Effect

LEMMA FreshKept ==
    ASSUME TypeOK, FreshBlob, RowsAndBlobs, Step
    PROVE  FreshBlob'
<1> SUFFICES ASSUME NEW q \in Request, req'[q].pc \in Unborn
             PROVE  /\ content'[q] = Nothing /\ q \notin live'
                    /\ \A s \in Request \ {q} : req'[s].blob # q
  BY DEF FreshBlob
<1>1. req[q].pc \in Unborn =>
        /\ content[q] = Nothing /\ q \notin live
        /\ \A s \in Request \ {q} : req[s].blob # q
  BY DEF FreshBlob
<1>2. ASSUME NEW r \in Request, Effect(r)
      PROVE  /\ content'[q] = Nothing /\ q \notin live'
             /\ \A s \in Request \ {q} : req'[s].blob # q
  <2>1. CASE Moved(r)
    <3>1. req[q].pc \in Unborn
      BY <2>1 DEF Moved, Others
    <3>2. files' = files /\ live' = live /\ content' = content
      BY <2>1 DEF Moved, StoreSame
    <3>3. \A f \in DOMAIN files : files[f] # q
      BY <1>1, <3>1 DEF RowsAndBlobs
    <3>4. ASSUME NEW s \in Request \ {q} PROVE req'[s].blob # q
      BY <1>1, <2>1, <3>1, <3>3 DEF Moved, Others
    <3> QED BY <1>1, <3>1, <3>2, <3>4
  <2>2. CASE Refused(r) \/ Dropped(r)
    BY <1>1, <2>2 DEF Refused, Dropped, Others, StoreSame, Unborn
  <2>3. CASE PutStarted(r) \/ AppendStarted(r) \/ ChunkTaken(r) \/ BodyEnded(r)
             \/ Sought(r) \/ Written(r)
    BY <1>1, <2>3 DEF PutStarted, AppendStarted, ChunkTaken, BodyEnded, Sought, Written,
       Others, Same, StoreSame, Unborn
  <2>4. CASE Blocked(r)
    BY <1>1, <2>4 DEF Blocked
  <2>5. CASE Committed(r)
    BY <1>1, <2>5 DEF Committed, Others, Unborn
  <2>6. CASE Created(r)
    BY <1>1, <2>6 DEF Created, Others, Unborn
  <2> QED BY <1>2, <2>1, <2>2, <2>3, <2>4, <2>5, <2>6 DEF Effect
<1>3. CASE InBackground \/ Crashed
  BY <1>1, <1>3 DEF InBackground, Crashed, Unborn
<1>4. CASE Collected
  <2>1. req' = req
    BY <1>4 DEF Collected
  <2>2. live' \subseteq live
    BY <1>4 DEF Collected
  <2>3. content'[q] \in {Nothing, content[q]}
    BY <1>4 DEF Collected
  <2> QED BY <1>1, <2>1, <2>2, <2>3
<1> QED BY <1>2, <1>3, <1>4 DEF Step

LEMMA RowsKept ==
    ASSUME TypeOK, FreshBlob, RowsAndBlobs, Step
    PROVE  RowsAndBlobs'
<1> USE DEF RowsAndBlobs
<1>1. ASSUME NEW r \in Request, Created(r) PROVE RowsAndBlobs'
  <2>1. r \notin live /\ FileOf(r) \notin DOMAIN files
    BY <1>1 DEF Created, FreshBlob, Unborn
  <2> QED BY <1>1, <2>1 DEF Created
<1>2. CASE Collected
  <2>1. PICK batch \in SUBSET DOMAIN files :
          /\ files' = [g \in DOMAIN files \ batch |-> files[g]]
          /\ live' = live \ {files[f] : f \in batch}
    BY <1>2 DEF Collected
  <2>2. /\ DOMAIN files' = DOMAIN files \ batch
        /\ \A g \in DOMAIN files' : files'[g] = files[g]
    BY <2>1
  <2>3. live' = {files'[f] : f \in DOMAIN files'}
    BY <2>1, <2>2
  <2> QED BY <2>2, <2>3
<1>3. CASE InBackground \/ Crashed
  BY <1>3 DEF InBackground, Crashed
<1>4. ASSUME NEW r \in Request, Effect(r), ~Created(r) PROVE RowsAndBlobs'
  <2>1. UNCHANGED <<files, live>>
    BY <1>4 DEF Effect, Moved, Refused, PutStarted, AppendStarted, ChunkTaken,
       BodyEnded, Sought, Written, Blocked, Committed, Dropped, StoreSame
  <2> QED BY <2>1
<1> QED BY <1>1, <1>2, <1>3, <1>4 DEF Step

\* What a committed upload has done stays as it is.
LEMMA StoredStays ==
    ASSUME AnsweredIsDone, Step, NEW q \in Request, req[q].pc = "done"
    PROVE  req'[q] = req[q] /\ written'[q] = written[q]
<1>1. ASSUME NEW r \in Request, Effect(r), q # r
      PROVE  req'[q] = req[q] /\ written'[q] = written[q]
  BY <1>1 DEF Effect, Moved, Refused, PutStarted, AppendStarted, ChunkTaken,
     BodyEnded, Sought, Written, Blocked, Committed, Dropped, Created, Others
<1>2. ~Effect(q)
  BY DEF Effect, Moved, Refused, PutStarted, AppendStarted, ChunkTaken,
     BodyEnded, Sought, Written, Blocked, Committed, Dropped, Created
<1>3. CASE InBackground \/ Collected \/ Crashed
  BY <1>3 DEF InBackground, Collected, Crashed
<1> QED BY <1>1, <1>2, <1>3 DEF Step

LEMMA OverlayBytes ==
    ASSUME NEW c, NEW w
    PROVE  /\ DOMAIN Overlay(c, w) = DOMAIN c \cup DOMAIN w
           /\ \A i \in DOMAIN w : Overlay(c, w)[i] = w[i]
           /\ \A i \in DOMAIN c \ DOMAIN w : Overlay(c, w)[i] = c[i]
  BY DEF Overlay

LEMMA CommittedBytesKept ==
    ASSUME TypeOK, AnsweredIsDone, OnlyCommittedBytes, Step
    PROVE  OnlyCommittedBytes'
<1> SUFFICES ASSUME NEW o \in Request, NEW i \in DOMAIN content'[o]
             PROVE  \E s \in Request :
                        /\ Stored(s)' /\ req'[s].blob = o
                        /\ i \in DOMAIN written'[s] /\ content'[o][i] = written'[s][i]
  BY DEF OnlyCommittedBytes
<1>1. CASE i \in DOMAIN content[o] /\ content'[o][i] = content[o][i]
  <2>1. PICK s \in Request :
          /\ Stored(s) /\ req[s].blob = o
          /\ i \in DOMAIN written[s] /\ content[o][i] = written[s][i]
    BY <1>1 DEF OnlyCommittedBytes
  <2>2. req'[s] = req[s] /\ written'[s] = written[s]
    BY <2>1, StoredStays DEF AnsweredIsDone, Stored
  <2> QED BY <1>1, <2>1, <2>2 DEF Stored
<1>2. ASSUME NEW r \in Request, Committed(r), req[r].blob = o, i \in DOMAIN written[r]
      PROVE  \E s \in Request :
                 /\ Stored(s)' /\ req'[s].blob = o
                 /\ i \in DOMAIN written'[s] /\ content'[o][i] = written'[s][i]
  <2>1. content'[o] = Overlay(content[o], written[r])
    BY <1>2 DEF Committed
  <2>2. content'[o][i] = written[r][i]
    BY <1>2, <2>1 DEF Overlay
  <2> QED BY <1>2, <2>2 DEF Committed, Stored
<1>3. ASSUME NEW r \in Request, Committed(r), ~(req[r].blob = o /\ i \in DOMAIN written[r])
      PROVE  i \in DOMAIN content[o] /\ content'[o][i] = content[o][i]
  <2>1. content'[o] = IF o = req[r].blob THEN Overlay(content[o], written[r]) ELSE content[o]
    BY <1>3 DEF Committed
  <2>2. CASE o # req[r].blob
    BY <2>1, <2>2
  <2>3. CASE o = req[r].blob
    <3>1. content'[o] = Overlay(content[o], written[r]) /\ i \notin DOMAIN written[r]
      BY <1>3, <2>1, <2>3
    <3> QED BY <3>1 DEF Overlay
  <2> QED BY <2>2, <2>3
<1>4. CASE Collected
  <2>1. content'[o] \in {Nothing, content[o]}
    BY <1>4 DEF Collected
  <2> QED BY <1>1, <2>1 DEF Nothing
<1>5. CASE UNCHANGED content
  BY <1>1, <1>5
<1>6. ASSUME NEW r \in Request, Effect(r), ~Committed(r) PROVE UNCHANGED content
  BY <1>6 DEF Effect, Moved, Refused, PutStarted, AppendStarted, ChunkTaken,
     BodyEnded, Sought, Written, Blocked, Dropped, Created, StoreSame
<1>7. InBackground \/ Crashed => UNCHANGED content
  BY DEF InBackground, Crashed
<1> QED BY <1>1, <1>2, <1>3, <1>4, <1>5, <1>6, <1>7 DEF Step

-----------------------------------------------------------------------------
(* What sessions see and write *)

LEMMA ViewDomain ==
    ASSUME NEW r, NEW o
    PROVE  DOMAIN View(r, o) = DOMAIN content[o] \cup DOMAIN written[r]
  BY DEF View, Overlay

LEMMA ViewSize ==
    ASSUME TypeOK, NEW r \in Request, NEW o \in Request
    PROVE  /\ Size(View(r, o)) \in Nat
           /\ DOMAIN View(r, o) \subseteq Nat
           /\ \A i \in DOMAIN View(r, o) : i < Size(View(r, o))
           /\ Size(View(r, o)) # 0 => Size(View(r, o)) - 1 \in DOMAIN View(r, o)
<1>1. IsContent(content[o]) /\ IsContent(written[r])
  BY DEF TypeOK, StoreTypeOK
<1>2. IsContent(View(r, o))
  BY <1>1, OverlayIsContent DEF View
<1>3. DOMAIN View(r, o) \subseteq Nat /\ Bounded(DOMAIN View(r, o))
  BY <1>2 DEF IsContent
<1> HIDE DEF View
<1> QED BY <1>3, SizeIsEnd

\* The bytes a handler is about to write, and what it has written then.
LEMMA ChunkShape ==
    ASSUME TypeOK, NEW r \in Request
    PROVE  LET p == req[r].pos
               a == req[r].stored
               b == req[r].rcvd
               w == Overlay(written[r], ChunkBytes(r))
           IN  /\ p \in Nat /\ a \in Nat /\ b \in Nat /\ a <= b
               /\ DOMAIN w = DOMAIN written[r] \cup (p .. (p + b - a - 1))
               /\ \A i \in p .. (p + b - a - 1) : w[i] = Byte(r, a + (i - p))
               /\ \A i \in DOMAIN written[r] : i < p => w[i] = written[r][i]
<1> DEFINE p == req[r].pos
           a == req[r].stored
           b == req[r].rcvd
           c == ChunkBytes(r)
<1>1. p \in Nat /\ a \in Nat /\ b \in Nat /\ a <= b
  BY HandlerFacts DEF HandlerTypeOK
<1>2. /\ DOMAIN c = p .. (p + b - a - 1)
      /\ \A i \in p .. (p + b - a - 1) : c[i] = Byte(r, a + (i - p))
  BY DEF ChunkBytes
<1>3. DOMAIN written[r] \subseteq Nat
  BY DEF TypeOK, StoreTypeOK, IsContent
<1> HIDE DEF p, a, b, c
<1>4. /\ DOMAIN Overlay(written[r], c) = DOMAIN written[r] \cup (p .. (p + b - a - 1))
      /\ \A i \in p .. (p + b - a - 1) : Overlay(written[r], c)[i] = Byte(r, a + (i - p))
      /\ \A i \in DOMAIN written[r] : i < p => Overlay(written[r], c)[i] = written[r][i]
  BY <1>1, <1>2, <1>3 DEF Overlay
<1> QED BY <1>1, <1>4 DEF p, a, b, c

-----------------------------------------------------------------------------
(* The layout of an upload's bytes *)

\* w holds the first n bytes of r's body, in order.
Laid(r, w, n) ==
    /\ \A k \in 0 .. (n - 1) : \E i \in DOMAIN w : w[i] = Byte(r, k)
    /\ \A i, j \in DOMAIN w : i < j => w[i][2] < w[j][2]

LEMMA NothingLaid ==
    ASSUME NEW r
    PROVE  Laid(r, Nothing, 0)
  BY DEF Laid, Nothing

LEMMA ChunkLaid ==
    ASSUME TypeOK, NEW r \in Request, Laid(r, written[r], req[r].stored),
           \A i \in DOMAIN written[r] : i < req[r].pos
    PROVE  Laid(r, Overlay(written[r], ChunkBytes(r)), req[r].rcvd)
<1> DEFINE p == req[r].pos
           a == req[r].stored
           b == req[r].rcvd
           v == written[r]
           w == Overlay(written[r], ChunkBytes(r))
<1>1. /\ p \in Nat /\ a \in Nat /\ b \in Nat /\ a <= b
      /\ DOMAIN w = DOMAIN v \cup (p .. (p + b - a - 1))
      /\ \A i \in p .. (p + b - a - 1) : w[i] = Byte(r, a + (i - p))
      /\ \A i \in DOMAIN v : w[i] = v[i] /\ i < p /\ i \in Nat
  <2>1. DOMAIN v \subseteq Nat
    BY DEF TypeOK, StoreTypeOK, IsContent
  <2> QED BY <2>1, ChunkShape
<1>2. \A i \in DOMAIN v : \E k \in 0 .. (a - 1) : v[i] = Byte(r, k)
  BY DEF TypeOK, HandlersTypeOK
<1>3. Laid(r, v, a)
  OBVIOUS
<1>4. \A k : Byte(r, k)[2] = k
  BY DEF Byte
<1> HIDE DEF p, a, b, v, w
<1>5. ASSUME NEW k \in 0 .. (b - 1) PROVE \E i \in DOMAIN w : w[i] = Byte(r, k)
  <2>1. CASE k < a
    <3>1. PICK i \in DOMAIN v : v[i] = Byte(r, k)
      BY <1>1, <1>3, <2>1 DEF Laid
    <3> QED BY <1>1, <3>1
  <2>2. CASE k >= a
    <3>1. /\ p + (k - a) \in p .. (p + b - a - 1)
          /\ a + ((p + (k - a)) - p) = k
      BY <1>1, <2>2
    <3>2. w[p + (k - a)] = Byte(r, k)
      BY <1>1, <3>1
    <3> QED BY <1>1, <3>1, <3>2
  <2> QED BY <1>1, <2>1, <2>2
<1>6. ASSUME NEW i \in DOMAIN w, NEW j \in DOMAIN w, i < j PROVE w[i][2] < w[j][2]
  <2>1. CASE j \in DOMAIN v
    <3>1. i \in DOMAIN v
      BY <1>1, <1>6, <2>1
    <3> QED BY <1>1, <1>3, <1>6, <2>1, <3>1 DEF Laid
  <2>2. CASE j \notin DOMAIN v
    <3>1. j \in p .. (p + b - a - 1) /\ w[j][2] = a + (j - p)
      BY <1>1, <1>4, <2>2
    <3>2. CASE i \in DOMAIN v
      <4>1. PICK k \in 0 .. (a - 1) : v[i] = Byte(r, k)
        BY <1>2, <3>2
      <4>2. w[i][2] = k
        BY <1>1, <1>4, <3>2, <4>1
      <4> QED BY <1>1, <3>1, <4>2
    <3>3. CASE i \notin DOMAIN v
      <4>1. i \in p .. (p + b - a - 1) /\ w[i][2] = a + (i - p)
        BY <1>1, <1>4, <3>3
      <4> QED BY <1>1, <1>6, <3>1, <4>1
    <3> QED BY <3>2, <3>3
  <2> QED BY <2>1, <2>2
<1>7. Laid(r, w, b)
  BY <1>5, <1>6 DEF Laid
<1> QED BY <1>7 DEF w, b

LEMMA LayoutIsLaid ==
    Layout <=> \A r \in Request :
        /\ req[r].pc \in WritePc \/ Stored(r) => Laid(r, written[r], req[r].stored)
        /\ req[r].pc = "write" => \A i \in DOMAIN written[r] : i < req[r].pos
        /\ (req[r].pc = "done" /\ Stored(r) /\ req[r].stored > 0)
                => req[r].stored = Call[r].len
  BY DEF Layout, Laid

LEMMA LayoutKept ==
    ASSUME TypeOK, AnsweredIsDone, WritesPending, ChunkInHand, Layout, Step
    PROVE  Layout'
<1> SUFFICES ASSUME NEW q \in Request
             PROVE  /\ req'[q].pc \in WritePc \/ Stored(q)' =>
                            Laid(q, written'[q], req'[q].stored)
                    /\ req'[q].pc = "write" => \A i \in DOMAIN written'[q] : i < req'[q].pos
                    /\ (req'[q].pc = "done" /\ Stored(q)' /\ req'[q].stored > 0)
                            => req'[q].stored = Call[q].len
  BY DEF Layout, Laid
<1>1. /\ req[q].pc \in WritePc \/ Stored(q) => Laid(q, written[q], req[q].stored)
      /\ req[q].pc = "write" => \A i \in DOMAIN written[q] : i < req[q].pos
      /\ (req[q].pc = "done" /\ Stored(q) /\ req[q].stored > 0)
                => req[q].stored = Call[q].len
  BY LayoutIsLaid
<1>2. Stored(q) => req[q].pc = "done"
  BY DEF AnsweredIsDone, Stored
<1>3. CASE req'[q] = req[q] /\ written'[q] = written[q]
  BY <1>1, <1>3 DEF Stored
<1>4. ASSUME NEW r \in Request, Effect(r), q # r
      PROVE  req'[q] = req[q] /\ written'[q] = written[q]
  BY <1>4 DEF Effect, Moved, Refused, PutStarted, AppendStarted, ChunkTaken,
     BodyEnded, Sought, Written, Blocked, Committed, Dropped, Created, Others
<1>5. InBackground \/ Collected \/ Blocked(q) => req'[q] = req[q] /\ written'[q] = written[q]
  BY DEF InBackground, Collected, Blocked
<1>6. CASE Moved(q) \/ Refused(q) \/ Created(q)
  <2>1. req[q].resp = "none"
    BY <1>6 DEF Moved, Refused, Created, AnsweredIsDone
  <2> QED BY <1>6, <2>1 DEF Moved, Refused, Created, Stored, WritePc, Failures
<1>7. CASE PutStarted(q) \/ AppendStarted(q)
  <2>1. /\ req[q].pc \in {"open", "size"} /\ req'[q].pc = "upload"
        /\ written' = written /\ req'[q].stored = req[q].stored
        /\ req'[q].resp = req[q].resp
    BY <1>7 DEF PutStarted, AppendStarted, Same, StoreSame
  <2>2. written[q] = Nothing /\ req[q].stored = 0
    BY <1>2, <2>1 DEF WritesPending, ChunkInHand, WritePc
  <2>3. Laid(q, written'[q], req'[q].stored)
    BY <2>1, <2>2, NothingLaid
  <2> QED BY <2>1, <2>3
<1>8. CASE ChunkTaken(q) \/ BodyEnded(q)
  BY <1>1, <1>8 DEF ChunkTaken, BodyEnded, Same, StoreSame, WritePc
<1>9. CASE Sought(q)
  <2>1. \A i \in DOMAIN written[q] : i < Size(View(q, req[q].blob))
    <3>1. req[q].blob \in Request
      BY HandlerFacts DEF HandlerTypeOK
    <3>2. \A i \in DOMAIN View(q, req[q].blob) : i < Size(View(q, req[q].blob))
      BY <3>1, ViewSize
    <3> QED BY <3>2, ViewDomain
  <2> QED BY <1>1, <1>9, <2>1 DEF Sought, StoreSame, WritePc
<1>10. CASE Written(q)
  <2>1. Laid(q, Overlay(written[q], ChunkBytes(q)), req[q].rcvd)
    BY <1>1, <1>10, ChunkLaid DEF Written, WritePc
  <2> QED BY <1>10, <2>1 DEF Written
<1>11. CASE Committed(q)
  <2>1. req[q].stored = Call[q].len
    BY <1>11 DEF Committed, ChunkInHand
  <2> QED BY <1>1, <1>11, <2>1 DEF Committed, WritePc
<1>12. CASE Dropped(q)
  <2>1. CASE req'[q].resp \in Failures
    BY <1>12, <2>1 DEF Dropped, Stored, Failures, WritePc
  <2>2. CASE req[q].pc \notin WritePc
    <3>1. req'[q].stored = 0 /\ written'[q] = Nothing /\ req'[q].pc = "done"
      BY <1>12, <2>2 DEF Dropped, ChunkInHand
    <3> QED BY <3>1, NothingLaid
  <2> QED BY <1>12, <2>1, <2>2 DEF Dropped
<1>13. CASE Crashed /\ req[q].pc \notin {"idle", "done"}
  BY <1>13 DEF Crashed, Stored, WritePc
<1>14. CASE Crashed /\ req[q].pc \in {"idle", "done"}
  BY <1>3, <1>14 DEF Crashed
<1> QED BY <1>3, <1>4, <1>5, <1>6, <1>7, <1>8, <1>9, <1>10, <1>11, <1>12, <1>13, <1>14
        DEF Step, Effect

-----------------------------------------------------------------------------
(* Holes and sizes *)

\* What a step can have done to a handler that uploads after it.
LEMMA WriterStep ==
    ASSUME Step, NEW q \in Request, req'[q].pc \in WritePc
    PROVE  \/ req'[q] = req[q] /\ written'[q] = written[q]
           \/ PutStarted(q) \/ AppendStarted(q) \/ ChunkTaken(q) \/ BodyEnded(q)
           \/ Sought(q) \/ Written(q)
<1>1. ASSUME NEW r \in Request, Effect(r), q # r
      PROVE  req'[q] = req[q] /\ written'[q] = written[q]
  BY <1>1 DEF Effect, Moved, Refused, PutStarted, AppendStarted, ChunkTaken,
     BodyEnded, Sought, Written, Blocked, Committed, Dropped, Created, Others
<1>2. ~Moved(q) /\ ~Refused(q) /\ ~Committed(q) /\ ~Dropped(q) /\ ~Created(q)
  BY DEF Moved, Refused, Committed, Dropped, Created, WritePc
<1>3. InBackground \/ Collected \/ Blocked(q) => req'[q] = req[q] /\ written'[q] = written[q]
  BY DEF InBackground, Collected, Blocked
<1>4. Crashed => req'[q] = req[q] /\ written'[q] = written[q]
  BY DEF Crashed, WritePc
<1> QED BY <1>1, <1>2, <1>3, <1>4 DEF Step, Effect

\* What a step can have done to a large object that is live after it.
LEMMA LiveStep ==
    ASSUME TypeOK, Step, NEW o \in live'
    PROVE  /\ o \in Request
           /\ \/ o \in live /\ content'[o] = content[o]
              \/ o \in live /\ \E r \in Request :
                    /\ Committed(r) /\ req[r].blob = o
                    /\ content'[o] = Overlay(content[o], written[r])
              \/ Created(o) /\ content'[o] = content[o]
<1>1. live \subseteq Request
  BY DEF TypeOK, StoreTypeOK
<1>2. CASE UNCHANGED <<live, content>>
  BY <1>1, <1>2
<1>3. ASSUME NEW r \in Request, Effect(r), ~Committed(r), ~Created(r)
      PROVE  UNCHANGED <<live, content>>
  BY <1>3 DEF Effect, Moved, Refused, PutStarted, AppendStarted, ChunkTaken,
     BodyEnded, Sought, Written, Blocked, Dropped, StoreSame
<1>4. InBackground \/ Crashed => UNCHANGED <<live, content>>
  BY DEF InBackground, Crashed
<1>5. ASSUME NEW r \in Request, Committed(r)
      PROVE  \/ o \in live /\ content'[o] = content[o]
             \/ o \in live /\ \E s \in Request :
                    /\ Committed(s) /\ req[s].blob = o
                    /\ content'[o] = Overlay(content[o], written[s])
  <2>1. o \in live /\ o \in Request
    BY <1>1, <1>5 DEF Committed
  <2>2. content'[o] = IF o = req[r].blob THEN Overlay(content[o], written[r]) ELSE content[o]
    BY <1>5, <2>1 DEF Committed
  <2> QED BY <1>5, <2>1, <2>2
<1>6. ASSUME NEW r \in Request, Created(r)
      PROVE  /\ content'[o] = content[o]
             /\ o \in live \/ (o = r /\ Created(o))
  <2>1. content' = content /\ live' = live \cup {r}
    BY <1>6 DEF Created
  <2> QED BY <1>6, <2>1
<1>7. CASE Collected
  <2>1. PICK batch \in SUBSET DOMAIN files :
          LET blobs == {files[f] : f \in batch} IN
          /\ live' = live \ blobs
          /\ \A p \in Request : content'[p] = IF p \in blobs THEN Nothing ELSE content[p]
    BY <1>7 DEF Collected
  <2> DEFINE blobs == {files[f] : f \in batch}
  <2> HIDE DEF blobs
  <2>2. /\ live' = live \ blobs
        /\ \A p \in Request : content'[p] = IF p \in blobs THEN Nothing ELSE content[p]
    BY <2>1 DEF blobs
  <2> QED BY <1>1, <2>2
<1> QED BY <1>1, <1>2, <1>3, <1>4, <1>5, <1>6, <1>7 DEF Step

Prefix(D) == \A i \in D : 0 .. i \subseteq D

LEMMA PrefixUnion ==
    ASSUME NEW C, NEW D, Prefix(C), Prefix(D)
    PROVE  Prefix(C \cup D)
  BY DEF Prefix

LEMMA PrefixExtends ==
    ASSUME NEW D, Prefix(D), NEW p \in Nat, NEW n \in Int,
           \A j \in 0 .. (p - 1) : j \in D
    PROVE  Prefix(D \cup (p .. n))
  BY DEF Prefix

LEMMA NoHolesIsPrefix ==
    NoHoles <=> \A o \in live :
        /\ Prefix(DOMAIN content[o])
        /\ \A r \in Request :
            (req[r].blob = o /\ req[r].pc \in WritePc) =>
                Prefix(DOMAIN content[o] \cup DOMAIN written[r])
<1>1. \A r, o : DOMAIN View(r, o) = DOMAIN content[o] \cup DOMAIN written[r]
  BY ViewDomain
<1>2. NoHoles <=> \A o \in live :
        /\ Prefix(DOMAIN content[o])
        /\ \A r \in Request :
            (req[r].blob = o /\ req[r].pc \in WritePc) => Prefix(DOMAIN View(r, o))
  BY Zenon DEF NoHoles, Prefix
<1> QED BY <1>1, <1>2, Zenon

LEMMA NoHolesIsPrefixNext ==
    NoHoles' <=> \A o \in live' :
        /\ Prefix(DOMAIN content'[o])
        /\ \A r \in Request :
            (req'[r].blob = o /\ req'[r].pc \in WritePc) =>
                Prefix(DOMAIN content'[o] \cup DOMAIN written'[r])
<1>1. \A r, o : DOMAIN View(r, o)' = DOMAIN content'[o] \cup DOMAIN written'[r]
  BY DEF View, Overlay
<1>2. NoHoles' <=> \A o \in live' :
        /\ Prefix(DOMAIN content'[o])
        /\ \A r \in Request :
            (req'[r].blob = o /\ req'[r].pc \in WritePc) => Prefix(DOMAIN View(r, o)')
  BY Zenon DEF NoHoles, Prefix
<1> QED BY <1>1, <1>2, Zenon

LEMMA NoHolesKept ==
    ASSUME TypeOK, AnsweredIsDone, FreshBlob, WritesPending, WritesWithinView, NoHoles, Step
    PROVE  NoHoles'
<1> SUFFICES ASSUME NEW o \in live'
             PROVE  /\ Prefix(DOMAIN content'[o])
                    /\ \A q \in Request :
                        (req'[q].blob = o /\ req'[q].pc \in WritePc) =>
                            Prefix(DOMAIN content'[o] \cup DOMAIN written'[q])
  BY NoHolesIsPrefixNext
<1>1. o \in Request
  BY LiveStep
<1>2. CASE Created(o) /\ content'[o] = content[o]
  <2>1. content[o] = Nothing /\ \A q \in Request \ {o} : req[q].blob # o
    BY <1>1, <1>2 DEF FreshBlob, Created, Unborn
  <2>2. Prefix(DOMAIN content'[o])
    BY <1>2, <2>1 DEF Prefix, Nothing
  <2>3. ASSUME NEW q \in Request, req'[q].blob = o PROVE req'[q].pc \notin WritePc
    BY <1>2, <2>1, <2>3 DEF Created, Others, WritePc
  <2> QED BY <2>2, <2>3
<1>3. ASSUME o \in live
      PROVE  /\ Prefix(DOMAIN content[o])
             /\ \A q \in Request :
                 (req[q].blob = o /\ req[q].pc \in WritePc) =>
                     Prefix(DOMAIN content[o] \cup DOMAIN written[q])
  BY <1>3, NoHolesIsPrefix
<1>4. ASSUME o \in live, NEW r \in Request, Committed(r), req[r].blob = o,
             content'[o] = Overlay(content[o], written[r])
      PROVE  /\ Prefix(DOMAIN content'[o])
             /\ \A q \in Request :
                 (req'[q].blob = o /\ req'[q].pc \in WritePc) =>
                     Prefix(DOMAIN content'[o] \cup DOMAIN written'[q])
  <2>1. DOMAIN content'[o] = DOMAIN content[o] \cup DOMAIN written[r]
    BY <1>4 DEF Overlay
  <2>2. Prefix(DOMAIN content'[o])
    BY <1>3, <1>4, <2>1 DEF Committed, WritePc
  <2>3. ASSUME NEW q \in Request, req'[q].blob = o, req'[q].pc \in WritePc
        PROVE  Prefix(DOMAIN content'[o] \cup DOMAIN written'[q])
    <3>1. q # r /\ req'[q] = req[q] /\ written'[q] = written[q]
      BY <1>4, <2>3 DEF Committed, Others, WritePc
    <3>2. Prefix(DOMAIN content[o] \cup DOMAIN written[q])
      BY <1>3, <1>4, <2>3, <3>1
    <3>3. DOMAIN content'[o] \cup DOMAIN written'[q]
            = DOMAIN content'[o] \cup (DOMAIN content[o] \cup DOMAIN written[q])
      BY <2>1, <3>1
    <3> QED BY <2>2, <3>2, <3>3, PrefixUnion
  <2> QED BY <2>2, <2>3
<1>5. ASSUME o \in live, content'[o] = content[o],
             NEW q \in Request, req'[q].blob = o, req'[q].pc \in WritePc
      PROVE  Prefix(DOMAIN content'[o] \cup DOMAIN written'[q])
  <2>1. CASE req'[q] = req[q] /\ written'[q] = written[q]
    BY <1>3, <1>5, <2>1
  <2>2. CASE PutStarted(q) \/ AppendStarted(q)
    <3>1. /\ req[q].pc \in {"open", "size"} /\ written' = written
      BY <2>2 DEF PutStarted, AppendStarted, StoreSame
    <3>2. written'[q] = Nothing
      BY <3>1 DEF WritesPending, AnsweredIsDone, Stored, WritePc
    <3>3. DOMAIN content'[o] \cup DOMAIN written'[q] = DOMAIN content[o]
      BY <1>5, <3>2 DEF Nothing
    <3> QED BY <1>3, <1>5, <3>3
  <2>3. CASE ChunkTaken(q) \/ BodyEnded(q) \/ Sought(q)
    <3>1. written' = written /\ req'[q].blob = req[q].blob /\ req[q].pc \in WritePc
      BY <2>3 DEF ChunkTaken, BodyEnded, Sought, Same, StoreSame, WritePc
    <3> QED BY <1>3, <1>5, <3>1
  <2>4. CASE Written(q)
    <3> DEFINE p == req[q].pos
               n == p + req[q].rcvd - req[q].stored - 1
               D == DOMAIN content[o] \cup DOMAIN written[q]
    <3>1. /\ req[q].pc = "write" /\ req[q].blob = o
          /\ written'[q] = Overlay(written[q], ChunkBytes(q))
      BY <1>5, <2>4 DEF Written
    <3>2. /\ p \in Nat /\ n \in Int
          /\ DOMAIN written'[q] = DOMAIN written[q] \cup (p .. n)
      <4>1. p \in Nat /\ req[q].stored \in Nat /\ req[q].rcvd \in Nat
        BY HandlerFacts DEF HandlerTypeOK
      <4>2. DOMAIN Overlay(written[q], ChunkBytes(q)) = DOMAIN written[q] \cup (p .. n)
        BY ChunkShape
      <4> QED BY <3>1, <4>1, <4>2
    <3>3. \A j \in 0 .. (p - 1) : j \in D
      BY <1>5, <3>1, ViewDomain DEF WritesWithinView
    <3>4. Prefix(D)
      BY <1>3, <1>5, <3>1 DEF WritePc
    <3>5. DOMAIN content'[o] \cup DOMAIN written'[q] = D \cup (p .. n)
      BY <1>5, <3>2
    <3> HIDE DEF p, n, D
    <3>6. Prefix(D \cup (p .. n))
      BY <3>2, <3>3, <3>4, PrefixExtends
    <3> QED BY <3>5, <3>6
  <2> QED BY <1>5, <2>1, <2>2, <2>3, <2>4, WriterStep
<1>6. CASE o \in live /\ content'[o] = content[o]
  BY <1>3, <1>5, <1>6
<1> QED BY <1>2, <1>4, <1>6, LiveStep

\* The file of a handler that does not move was there before, and only grows.
LEMMA FileGrows ==
    ASSUME TypeOK, FreshBlob, Step, NEW q \in Request, req'[q] = req[q],
           req[q].blob \in live'
    PROVE  /\ req[q].blob \in live
           /\ DOMAIN content[req[q].blob] \subseteq DOMAIN content'[req[q].blob]
<1> DEFINE o == req[q].blob
<1> HIDE DEF o
<1>1. o \in live' /\ o = req[q].blob
  BY DEF o
<1>2. o \in Request
  BY <1>1, LiveStep
<1>3. ~Created(o)
  <2>1. SUFFICES ASSUME Created(o) PROVE FALSE
    OBVIOUS
  <2>2. q # o
    BY <2>1 DEF Created
  <2>3. req[q].blob # o
    BY <1>2, <2>1, <2>2 DEF Created, FreshBlob, Unborn
  <2> QED BY <1>1, <2>3
<1>4. CASE o \in live /\ content'[o] = content[o]
  BY <1>4 DEF o
<1>5. CASE o \in live /\ \E r \in Request : content'[o] = Overlay(content[o], written[r])
  <2>1. DOMAIN content[o] \subseteq DOMAIN content'[o]
    BY <1>5 DEF Overlay
  <2> QED BY <1>5, <2>1 DEF o
<1> QED BY <1>1, <1>3, <1>4, <1>5, LiveStep

LEMMA WithinViewKept ==
    ASSUME TypeOK, FreshBlob, NoHoles, WritesWithinView, Step
    PROVE  WritesWithinView'
<1> SUFFICES ASSUME NEW q \in Request, req'[q].pc = "write", req'[q].blob \in live',
                    NEW j \in 0 .. (req'[q].pos - 1)
             PROVE  j \in DOMAIN content'[req'[q].blob] \cup DOMAIN written'[q]
  BY DEF WritesWithinView, View, Overlay
<1>1. CASE req'[q] = req[q] /\ written'[q] = written[q]
  <2>1. /\ req[q].blob \in live
        /\ DOMAIN content[req[q].blob] \subseteq DOMAIN content'[req[q].blob]
    BY <1>1, FileGrows
  <2>2. j \in DOMAIN View(q, req[q].blob)
    BY <1>1, <2>1 DEF WritesWithinView
  <2> QED BY <1>1, <2>1, <2>2, ViewDomain
<1>2. CASE Sought(q)
  <2> DEFINE o == req[q].blob
             n == Size(View(q, o))
  <2>1. /\ req'[q].blob = o /\ req'[q].pos = n /\ req[q].pc = "seek_end"
        /\ live' = live /\ content' = content /\ written' = written
    BY <1>2 DEF Sought, StoreSame
  <2>2. o \in Request
    BY HandlerFacts DEF HandlerTypeOK
  <2>3. n \in Nat /\ (n # 0 => n - 1 \in DOMAIN View(q, o))
    BY <2>2, ViewSize
  <2>4. Prefix(DOMAIN View(q, o))
    BY <2>1, NoHolesIsPrefix, ViewDomain DEF WritePc
  <2>5. DOMAIN View(q, o) = DOMAIN content[o] \cup DOMAIN written[q]
    BY ViewDomain
  <2> HIDE DEF n, o
  <2>6. n - 1 \in DOMAIN View(q, o) /\ j \in 0 .. (n - 1)
    BY <2>1, <2>3
  <2>7. j \in DOMAIN View(q, o)
    BY <2>4, <2>6 DEF Prefix
  <2> QED BY <2>1, <2>5, <2>7
<1>3. ~PutStarted(q) /\ ~AppendStarted(q) /\ ~ChunkTaken(q) /\ ~BodyEnded(q) /\ ~Written(q)
  BY DEF PutStarted, AppendStarted, ChunkTaken, BodyEnded, Written
<1> QED BY <1>1, <1>2, <1>3, WriterStep DEF WritePc

LEMMA SizeCoveredKept ==
    ASSUME TypeOK, AnsweredIsDone, FreshBlob, WritesPending, NoHoles, SizeIsCovered, Step
    PROVE  SizeIsCovered'
<1> SUFFICES ASSUME NEW q \in Request, Op(q) = "append", req'[q].pc \in WritePc,
                    req'[q].blob \in live'
             PROVE  /\ \A j \in 0 .. (req'[q].size - 1) : j \in DOMAIN content'[req'[q].blob]
                    /\ req'[q].pc = "write" => req'[q].pos >= req'[q].size
  BY DEF SizeIsCovered
<1> DEFINE o == req[q].blob
           n == Size(View(q, o))
<1>1. o \in Request /\ req[q].size \in Nat
  BY HandlerFacts DEF HandlerTypeOK
<1>2. /\ n \in Nat /\ (n # 0 => n - 1 \in DOMAIN View(q, o))
      /\ \A i \in DOMAIN View(q, o) : i < n
  BY <1>1, ViewSize
<1>3. DOMAIN View(q, o) = DOMAIN content[o] \cup DOMAIN written[q]
  BY ViewDomain
<1>4. ASSUME req[q].pc \in WritePc, o \in live
      PROVE  /\ \A j \in 0 .. (req[q].size - 1) : j \in DOMAIN content[o]
             /\ req[q].pc = "write" => req[q].pos >= req[q].size
  BY <1>4 DEF SizeIsCovered
<1> HIDE DEF n
<1>5. CASE req'[q] = req[q] /\ written'[q] = written[q]
  <2>1. o \in live /\ DOMAIN content[o] \subseteq DOMAIN content'[o]
    BY <1>5, FileGrows
  <2> QED BY <1>4, <1>5, <2>1
<1>6. CASE AppendStarted(q)
  <2>1. /\ req[q].pc = "size" /\ req'[q].pc = "upload"
        /\ req'[q].size = n /\ req'[q].blob = o
        /\ live' = live /\ content' = content
    BY <1>6 DEF AppendStarted, StoreSame, n
  <2>2. written[q] = Nothing
    BY <2>1 DEF WritesPending, AnsweredIsDone, Stored, WritePc
  <2>3. DOMAIN View(q, o) = DOMAIN content[o]
    BY <1>3, <2>2 DEF Nothing
  <2>4. Prefix(DOMAIN content[o])
    BY <2>1, NoHolesIsPrefix
  <2>5. \A j \in 0 .. (n - 1) : j \in DOMAIN content[o]
    BY <1>2, <2>3, <2>4 DEF Prefix
  <2> QED BY <2>1, <2>5
<1>7. CASE ChunkTaken(q) \/ BodyEnded(q)
  <2>1. /\ req[q].pc \in WritePc /\ req'[q].pc # "write"
        /\ req'[q].size = req[q].size /\ req'[q].blob = o
        /\ live' = live /\ content' = content
    BY <1>7 DEF ChunkTaken, BodyEnded, Same, StoreSame, WritePc
  <2> QED BY <1>4, <2>1
<1>8. CASE Sought(q)
  <2>1. /\ req[q].pc \in WritePc /\ req'[q].pos = n
        /\ req'[q].size = req[q].size /\ req'[q].blob = o
        /\ live' = live /\ content' = content
    BY <1>8 DEF Sought, StoreSame, WritePc, n
  <2>2. \A j \in 0 .. (req[q].size - 1) : j \in DOMAIN content[o]
    BY <1>4, <2>1
  <2>3. req[q].size # 0 => req[q].size - 1 < n
    BY <1>1, <1>2, <1>3, <2>2
  <2> QED BY <1>1, <1>2, <2>1, <2>2, <2>3
<1>9. CASE Written(q)
  <2>1. /\ req[q].pc \in WritePc /\ req'[q].pc = "upload"
        /\ req'[q].size = req[q].size /\ req'[q].blob = o
        /\ live' = live /\ content' = content
    BY <1>9 DEF Written, WritePc
  <2> QED BY <1>4, <2>1
<1>10. ~PutStarted(q)
  BY DEF PutStarted
<1> QED BY <1>5, <1>6, <1>7, <1>8, <1>9, <1>10, WriterStep

LEMMA PastSizeKept ==
    ASSUME TypeOK, AnsweredIsDone, FreshBlob, WritesPending, SizeIsCovered,
           AppendsPastSize, Step, WritesPending'
    PROVE  AppendsPastSize'
<1> SUFFICES ASSUME NEW q \in Request, Op(q) = "append", req'[q].blob \in live',
                    NEW i \in DOMAIN written'[q]
             PROVE  i >= req'[q].size
  BY DEF AppendsPastSize
<1>1. ASSUME req[q].blob \in live PROVE \A k \in DOMAIN written[q] : k >= req[q].size
  BY <1>1 DEF AppendsPastSize
<1>2. CASE req'[q] = req[q] /\ written'[q] = written[q]
  BY <1>1, <1>2, FileGrows
<1>3. CASE ChunkTaken(q) \/ BodyEnded(q) \/ Sought(q) \/ Committed(q)
  BY <1>1, <1>3 DEF ChunkTaken, BodyEnded, Sought, Committed, Same, StoreSame
<1>4. CASE PutStarted(q) \/ AppendStarted(q)
  <2>1. written' = written /\ req[q].pc \in {"open", "size"}
    BY <1>4 DEF PutStarted, AppendStarted, StoreSame
  <2>2. written'[q] = Nothing
    BY <2>1 DEF WritesPending, AnsweredIsDone, Stored, WritePc
  <2> QED BY <2>2 DEF Nothing
<1>5. CASE Written(q)
  <2> DEFINE p == req[q].pos
             n == p + req[q].rcvd - req[q].stored - 1
  <2>1. /\ p \in Nat /\ req[q].stored \in Nat /\ req[q].rcvd \in Nat /\ req[q].size \in Nat
    BY HandlerFacts DEF HandlerTypeOK
  <2>2. /\ req[q].pc = "write" /\ req[q].blob \in live
        /\ req'[q].size = req[q].size
        /\ written'[q] = Overlay(written[q], ChunkBytes(q))
    BY <1>5 DEF Written
  <2>3. DOMAIN written'[q] = DOMAIN written[q] \cup (p .. n)
    <3>1. DOMAIN Overlay(written[q], ChunkBytes(q)) = DOMAIN written[q] \cup (p .. n)
      BY ChunkShape
    <3> QED BY <2>2, <3>1
  <2>4. p >= req[q].size
    BY <2>2 DEF SizeIsCovered, WritePc
  <2> QED BY <1>1, <2>1, <2>2, <2>3, <2>4
<1>6. CASE req'[q].pc \notin WritePc /\ ~Stored(q)'
  <2>1. written'[q] = Nothing
    BY <1>6 DEF WritesPending
  <2> QED BY <2>1 DEF Nothing
<1>7. CASE Stored(q)'
  <2>1. CASE req[q].pc = "done"
    BY <1>2, <2>1, StoredStays
  <2>2. CASE req[q].pc # "done"
    <3>1. req[q].resp = "none"
      BY <2>2 DEF AnsweredIsDone
    <3>2. req'[q].resp \in {"200", "unheard"}
      BY <1>7 DEF Stored
    <3>3. ~InBackground /\ ~Collected /\ ~Crashed
      BY <3>1, <3>2 DEF InBackground, Collected, Crashed
    <3>4. PICK r \in Request : Effect(r)
      BY <3>3 DEF Step
    <3>5. r = q
      BY <3>1, <3>2, <3>4 DEF Effect, Moved, Refused, PutStarted, AppendStarted, ChunkTaken,
         BodyEnded, Sought, Written, Blocked, Committed, Dropped, Created, Others
    <3>6. Committed(q) \/ Dropped(q)
      BY <3>1, <3>2, <3>4, <3>5 DEF Effect, Moved, Refused, PutStarted, AppendStarted,
         ChunkTaken, BodyEnded, Sought, Written, Blocked, Created, Same, Failures
    <3>7. CASE Dropped(q)
      BY <3>7 DEF Dropped, Nothing
    <3> QED BY <1>3, <3>6, <3>7
  <2> QED BY <2>1, <2>2
<1> QED BY <1>2, <1>3, <1>4, <1>5, <1>6, <1>7, WriterStep

-----------------------------------------------------------------------------
(* The theorems *)

LEMMA InitHolds ==
    ASSUME Init
    PROVE  IInv
<1>1. TypeOK
  BY InitType
<1>2. /\ \A r \in Request : req[r] = Handler(r) /\ content[r] = Nothing /\ written[r] = Nothing
      /\ \A r \in Request : wait[r] = {}
      /\ lost = {} /\ live = {} /\ DOMAIN files = {}
  BY SessionHasRequests DEF Init, StoreInit
<1>3. \A r \in Request :
        /\ req[r].pc = "idle" /\ req[r].resp = "none" /\ req[r].blob = r
        /\ req[r].rcvd = 0 /\ req[r].stored = 0 /\ ~Stored(r)
  <2>1. ASSUME NEW r \in Request
        PROVE  /\ req[r].pc = "idle" /\ req[r].resp = "none" /\ req[r].blob = r
               /\ req[r].rcvd = 0 /\ req[r].stored = 0
    <3>1. req[r] = Handler(r)
      BY <1>2
    <3> QED BY <3>1 DEF Handler
  <2> QED BY <2>1 DEF Stored
<1>4. AnsweredIsDone /\ BlockedIsWriting /\ WritesPending
  BY <1>2, <1>3 DEF AnsweredIsDone, BlockedIsWriting, WritesPending
<1>5. FreshBlob /\ ChunkInHand /\ Layout
  BY <1>2, <1>3 DEF FreshBlob, ChunkInHand, Layout, WritePc, BeforeBody, Unborn
<1>6. WritesWithinView /\ SizeIsCovered /\ NoHoles
  BY <1>2, <1>3 DEF WritesWithinView, SizeIsCovered, NoHoles
<1>7. OnlyCommittedBytes /\ AppendsPastSize /\ RowsAndBlobs
  BY <1>2, <1>3 DEF OnlyCommittedBytes, AppendsPastSize, RowsAndBlobs, Nothing
<1> QED BY <1>1, <1>4, <1>5, <1>6, <1>7 DEF IInv

LEMMA StepKeeps ==
    ASSUME IInv, [Next]_vars
    PROVE  IInv'
<1> USE DEF IInv
<1>1. TypeOK'
  BY TypeStep
<1>2. Step
  BY EveryStepHasAnEffect
<1>3. WritesPending'
  BY <1>2, PendingKept
<1> QED
  BY <1>1, <1>2, <1>3, AnswersKept, BlockedKept, FreshKept, ChunkKept, LayoutKept,
     WithinViewKept, SizeCoveredKept, CommittedBytesKept, NoHolesKept, PastSizeKept, RowsKept

\* The inductive invariant holds in every reachable state, however many
\* requests, files, payloads, connections and faults there are.
THEOREM InductiveInvariant == Spec => []IInv
<1>1. Init => IInv
  BY InitHolds
<1>2. IInv /\ [Next]_vars => IInv'
  BY StepKeeps
<1> QED BY <1>1, <1>2, PTL DEF Spec

\* No request that failed, was cut off or was rolled back leaves bytes behind
\* (PostgresFileHandle::close, and dropping a handle without closing it).
THEOREM OnlyCommittedBytesHolds == Spec => []OnlyCommittedBytes
<1>1. IInv => OnlyCommittedBytes
  BY DEF IInv
<1> QED BY <1>1, InductiveInvariant, PTL

\* A committed upload has written its whole body, every byte once and in order
\* (PostgresFileHandle::append, called for every chunk of the body).
THEOREM WholeBodyInOrderHolds == Spec => []WholeBodyInOrder
<1>1. IInv => WholeBodyInOrder
  <2> SUFFICES ASSUME IInv, NEW r \in Request,
                      req[r].pc = "done", Stored(r), req[r].stored > 0
               PROVE  /\ {written[r][i] : i \in DOMAIN written[r]}
                            = {Byte(r, k) : k \in 0 .. (Call[r].len - 1)}
                      /\ \A i, j \in DOMAIN written[r] :
                            i < j => written[r][i][2] < written[r][j][2]
    BY DEF WholeBodyInOrder
  <2>1. /\ \A k \in 0 .. (Call[r].len - 1) : \E i \in DOMAIN written[r] : written[r][i] = Byte(r, k)
        /\ \A i, j \in DOMAIN written[r] : i < j => written[r][i][2] < written[r][j][2]
        /\ req[r].stored = Call[r].len
    BY DEF IInv, Layout
  <2>2. \A i \in DOMAIN written[r] : \E k \in 0 .. (Call[r].len - 1) : written[r][i] = Byte(r, k)
    BY <2>1 DEF IInv, TypeOK, HandlersTypeOK
  <2> QED BY <2>1, <2>2
<1> QED BY <1>1, InductiveInvariant, PTL

\* No upload leaves a hole in a file, whatever offset its client named and
\* whichever other uploads commit between its seek and its write.
THEOREM NoHolesHolds == Spec => []NoHoles
<1>1. IInv => NoHoles
  BY DEF IInv
<1> QED BY <1>1, InductiveInvariant, PTL

\* An append writes no byte below the size it was given, though the size may be
\* stale by then (post_append_filename).
THEOREM AppendsPastSizeHolds == Spec => []AppendsPastSize
<1>1. IInv => AppendsPastSize
  BY DEF IInv
<1> QED BY <1>1, InductiveInvariant, PTL

\* Rows and large objects correspond one to one, across crashes and batches
\* that fail half way (create_file, the lo_manage trigger).
THEOREM RowsAndBlobsHolds == Spec => []RowsAndBlobs
<1>1. IInv => RowsAndBlobs
  BY DEF IInv
<1> QED BY <1>1, InductiveInvariant, PTL
=============================================================================
