-------------------------- MODULE ServiceTypeProofs --------------------------
(***************************************************************************)
(* Type correctness of Service for every value of its constants.           *)
(***************************************************************************)
EXTENDS ServiceProperties, FiniteSetTheorems, TLAPS

-----------------------------------------------------------------------------
(* Contents *)

\* The size of a content is one more than its last offset, or 0.
LEMMA SizeIsEnd ==
    ASSUME NEW c, DOMAIN c \subseteq Nat, Bounded(DOMAIN c)
    PROVE  /\ Size(c) \in Nat
           /\ \A i \in DOMAIN c : i < Size(c)
           /\ Size(c) # 0 => Size(c) - 1 \in DOMAIN c
<1>1. CASE DOMAIN c = {}
  BY <1>1 DEF Size
<1>2. CASE DOMAIN c # {}
  <2>1. PICK m \in DOMAIN c : \A i \in DOMAIN c : i <= m
    BY <1>2 DEF Bounded
  <2>2. /\ Max(DOMAIN c) \in DOMAIN c
        /\ \A i \in DOMAIN c : i <= Max(DOMAIN c)
    BY <2>1 DEF Max
  <2>3. Size(c) = Max(DOMAIN c) + 1
    BY <1>2 DEF Size
  <2> QED BY <2>2, <2>3
<1> QED BY <1>1, <1>2

\* Writing bytes over a content gives a content.
LEMMA OverlayIsContent ==
    ASSUME NEW c, NEW w, IsContent(c), IsContent(w)
    PROVE  IsContent(Overlay(c, w))
<1> DEFINE d == Overlay(c, w)
<1>1. /\ DOMAIN d = DOMAIN c \cup DOMAIN w
      /\ d = [i \in DOMAIN d |-> d[i]]
      /\ \A i \in DOMAIN d : d[i] = IF i \in DOMAIN w THEN w[i] ELSE c[i]
  BY DEF Overlay
<1>2. DOMAIN d \subseteq Nat /\ \A i \in DOMAIN d : d[i] \in Payload \X Nat
  BY <1>1 DEF IsContent
<1>3. Bounded(DOMAIN d)
  <2>1. CASE DOMAIN c = {} \/ DOMAIN w = {}
    BY <1>1, <2>1 DEF IsContent, Bounded
  <2>2. CASE DOMAIN c # {} /\ DOMAIN w # {}
    <3>1. PICK m \in DOMAIN c : \A i \in DOMAIN c : i <= m
      BY <2>2 DEF IsContent, Bounded
    <3>2. PICK n \in DOMAIN w : \A i \in DOMAIN w : i <= n
      BY <2>2 DEF IsContent, Bounded
    <3>3. CASE m <= n
      BY <1>1, <1>2, <3>1, <3>2, <3>3 DEF Bounded
    <3>4. CASE ~(m <= n)
      BY <1>1, <1>2, <3>1, <3>2, <3>4 DEF Bounded
    <3> QED BY <3>3, <3>4
  <2> QED BY <2>1, <2>2
<1> HIDE DEF d
<1>4. IsContent(d)
  BY <1>1, <1>2, <1>3 DEF IsContent
<1> QED BY <1>4 DEF d

LEMMA NothingIsContent == IsContent(Nothing)
  BY DEF IsContent, Nothing, Bounded

\* A read returns at most what was asked for, so the position stays a number.
LEMMA SliceIsFinite ==
    ASSUME NEW c, NEW p \in Nat, NEW n \in Int
    PROVE  Cardinality(DOMAIN Slice(c, p, n)) \in Nat
<1>1. DOMAIN Slice(c, p, n) \subseteq p .. (p + n - 1)
  BY DEF Slice
<1>2. IsFiniteSet(p .. (p + n - 1))
  BY FS_Interval
<1>3. IsFiniteSet(DOMAIN Slice(c, p, n))
  BY <1>1, <1>2, FS_Subset
<1> QED BY <1>3, FS_CardinalityType

-----------------------------------------------------------------------------
(* Store operations preserve the store's types *)

LocksTypeOK ==
    /\ held \in [Session -> SUBSET (Request \X Nat)]
    /\ wait \in [Session -> SUBSET Session]
    /\ lost \subseteq Session
    /\ conn \subseteq Session

ContentsTypeOK ==
    /\ content = [o \in Request |-> content[o]]
    /\ \A o \in Request : IsContent(content[o])
    /\ written = [s \in Request |-> written[s]]
    /\ \A s \in Request : IsContent(written[s])

RowsTypeOK ==
    /\ files = [f \in DOMAIN files |-> files[f]]
    /\ DOMAIN files \subseteq File
    /\ \A f \in DOMAIN files : files[f] \in Request
    /\ expired \subseteq DOMAIN files
    /\ live \subseteq Request

LEMMA StoreTypeSplits == StoreTypeOK <=> LocksTypeOK /\ ContentsTypeOK /\ RowsTypeOK
  BY DEF StoreTypeOK, LocksTypeOK, ContentsTypeOK, RowsTypeOK

LEMMA SessionHasRequests == Request \subseteq Session /\ Gc \in Session
  BY DEF Session

LEMMA EndTransactionType ==
    ASSUME LocksTypeOK, NEW s \in Session, NEW b \in BOOLEAN, EndTransaction(s, b)
    PROVE  LocksTypeOK'
  BY DEF LocksTypeOK, EndTransaction

LEMMA PagesAreTyped ==
    ASSUME NEW o \in Request, NEW D, D \subseteq Nat
    PROVE  PagesOf(o, D) \subseteq Request \X Nat
<1>1. \A i \in Nat : i \div PageSize \in Nat
  BY PageSizeIsPos
<1> QED BY <1>1 DEF PagesOf

LEMMA LockType ==
    ASSUME LocksTypeOK, NEW s \in Session, NEW pages \in SUBSET (Request \X Nat),
           Lock(s, pages), UNCHANGED <<lost, conn>>
    PROVE  LocksTypeOK'
  BY DEF LocksTypeOK, Lock

LEMMA BlockType ==
    ASSUME LocksTypeOK, NEW s \in Session, NEW pages \in SUBSET (Request \X Nat),
           Block(s, pages), UNCHANGED <<lost, conn>>
    PROVE  LocksTypeOK'
<1>1. PICK first \in Foreign(s, pages) :
        /\ held' = [held EXCEPT ![s] = @ \cup {p \in pages : p[2] < first[2]}]
        /\ wait' = [wait EXCEPT ![s] = {q \in Session : first \in held[q]}]
  BY DEF Block
<1>2. {p \in pages : p[2] < first[2]} \in SUBSET (Request \X Nat)
  OBVIOUS
<1>3. {q \in Session : first \in held[q]} \in SUBSET Session
  OBVIOUS
<1> HIDE DEF Foreign
<1>4. held' \in [Session -> SUBSET (Request \X Nat)]
  BY <1>1, <1>2 DEF LocksTypeOK
<1>5. wait' \in [Session -> SUBSET Session]
  BY <1>1, <1>3 DEF LocksTypeOK
<1> QED BY <1>4, <1>5 DEF LocksTypeOK

LEMMA RollbackType ==
    ASSUME StoreTypeOK, NEW r \in Request, Rollback(r)
    PROVE  StoreTypeOK'
<1>1. LocksTypeOK'
  BY StoreTypeSplits, SessionHasRequests, EndTransactionType DEF Rollback
<1>2. ContentsTypeOK'
  BY StoreTypeSplits, NothingIsContent DEF Rollback, ContentsTypeOK
<1>3. RowsTypeOK'
  BY StoreTypeSplits DEF Rollback, RowsTypeOK
<1> QED BY <1>1, <1>2, <1>3 DEF StoreTypeOK, LocksTypeOK, ContentsTypeOK, RowsTypeOK

LEMMA CommitBlobType ==
    ASSUME StoreTypeOK, NEW r \in Request, NEW o \in Request, CommitBlob(r, o)
    PROVE  StoreTypeOK'
<1>1. LocksTypeOK'
  BY StoreTypeSplits, SessionHasRequests, EndTransactionType DEF CommitBlob
<1>2. IsContent(Overlay(content[o], written[r]))
  BY StoreTypeSplits, OverlayIsContent DEF ContentsTypeOK
<1>3. ContentsTypeOK'
  BY <1>2, StoreTypeSplits DEF CommitBlob, ContentsTypeOK
<1>4. RowsTypeOK'
  BY StoreTypeSplits DEF CommitBlob, RowsTypeOK
<1> QED BY <1>1, <1>3, <1>4 DEF StoreTypeOK, LocksTypeOK, ContentsTypeOK, RowsTypeOK

LEMMA WriteBlobType ==
    ASSUME StoreTypeOK, NEW r \in Request, NEW o \in Request,
           NEW bytes, IsContent(bytes), WriteBlob(r, o, bytes)
    PROVE  StoreTypeOK'
<1>1. PagesOf(o, DOMAIN bytes) \in SUBSET (Request \X Nat)
  BY PagesAreTyped DEF IsContent
<1>2. LocksTypeOK'
  BY <1>1, StoreTypeSplits, SessionHasRequests, LockType DEF WriteBlob
<1>3. IsContent(Overlay(written[r], bytes))
  BY StoreTypeSplits, OverlayIsContent DEF ContentsTypeOK
<1>4. ContentsTypeOK'
  BY <1>3, StoreTypeSplits DEF WriteBlob, ContentsTypeOK
<1>5. RowsTypeOK'
  BY StoreTypeSplits DEF WriteBlob, RowsTypeOK
<1> QED BY <1>2, <1>4, <1>5 DEF StoreTypeOK, LocksTypeOK, ContentsTypeOK, RowsTypeOK

LEMMA WriteBlobBlocksType ==
    ASSUME StoreTypeOK, NEW r \in Request, NEW o \in Request,
           NEW bytes, IsContent(bytes), WriteBlobBlocks(r, o, bytes)
    PROVE  StoreTypeOK'
<1>1. PagesOf(o, DOMAIN bytes) \in SUBSET (Request \X Nat)
  BY PagesAreTyped DEF IsContent
<1>2. LocksTypeOK'
  BY <1>1, StoreTypeSplits, SessionHasRequests, BlockType DEF WriteBlobBlocks
<1>3. ContentsTypeOK' /\ RowsTypeOK'
  BY StoreTypeSplits DEF WriteBlobBlocks, ContentsTypeOK, RowsTypeOK
<1> QED BY <1>2, <1>3 DEF StoreTypeOK, LocksTypeOK, ContentsTypeOK, RowsTypeOK

LEMMA CommitDeletionType ==
    ASSUME StoreTypeOK, NEW batch \in SUBSET DOMAIN files, CommitDeletion(batch)
    PROVE  StoreTypeOK'
<1>1. LocksTypeOK'
  BY StoreTypeSplits, SessionHasRequests, EndTransactionType DEF CommitDeletion
<1>2. ContentsTypeOK'
  BY StoreTypeSplits, NothingIsContent DEF CommitDeletion, ContentsTypeOK
<1>3. RowsTypeOK'
  BY StoreTypeSplits DEF CommitDeletion, RowsTypeOK
<1> QED BY <1>1, <1>2, <1>3 DEF StoreTypeOK, LocksTypeOK, ContentsTypeOK, RowsTypeOK

LEMMA InsertRowType ==
    ASSUME StoreTypeOK, NEW r \in Request, NEW f \in File, InsertRow(r, f),
           conn' = conn \ {r}
    PROVE  StoreTypeOK'
<1>1. LocksTypeOK'
  BY StoreTypeSplits DEF InsertRow, LocksTypeOK
<1>2. ContentsTypeOK'
  BY StoreTypeSplits DEF InsertRow, ContentsTypeOK
<1>3. RowsTypeOK'
  BY StoreTypeSplits DEF InsertRow, RowsTypeOK
<1> QED BY <1>1, <1>2, <1>3 DEF StoreTypeOK, LocksTypeOK, ContentsTypeOK, RowsTypeOK

\* A step that at most takes or returns a connection.
LEMMA ConnOnlyType ==
    ASSUME StoreTypeOK, NEW s \in Session,
           conn' \in {conn, conn \cup {s}, conn \ {s}},
           UNCHANGED <<files, expired, live, content, written, held, wait, lost>>
    PROVE  StoreTypeOK'
  BY DEF StoreTypeOK

-----------------------------------------------------------------------------
(* Type correctness *)

\* Replacing one handler's state by a well-typed one.
LEMMA HandlerStep ==
    ASSUME HandlersTypeOK, NEW r \in Request, NEW h, HandlerTypeOK(h),
           h.rcvd <= Call[r].len, h.stored = req[r].stored,
           req' = [req EXCEPT ![r] = h],
           \A q \in Request : written'[q] \in {written[q], Nothing}
    PROVE  HandlersTypeOK'
<1>1. /\ req' = [q \in Request |-> req'[q]]
      /\ \A q \in Request : req'[q] = IF q = r THEN h ELSE req[q]
  BY DEF HandlersTypeOK
<1>2. SUFFICES ASSUME NEW q \in Request
               PROVE  /\ HandlerTypeOK(req'[q])
                      /\ req'[q].rcvd <= Call[q].len
                      /\ \A i \in DOMAIN written'[q] :
                            \E k \in 0 .. (req'[q].stored - 1) :
                                written'[q][i] = Byte(q, k)
  BY <1>1 DEF HandlersTypeOK, HandlerTypeOK, Byte
<1>3. HandlerTypeOK(req'[q]) /\ req'[q].rcvd <= Call[q].len
  BY <1>1 DEF HandlersTypeOK
<1>4. req'[q].stored = req[q].stored
  BY <1>1
<1>5. \A i \in DOMAIN Nothing : FALSE
  BY DEF Nothing
<1>6. \A i \in DOMAIN written[q] :
        \E k \in 0 .. (req[q].stored - 1) : written[q][i] = Byte(q, k)
  BY DEF HandlersTypeOK
<1>7. CASE written'[q] = written[q]
  BY <1>3, <1>4, <1>6, <1>7
<1>8. CASE written'[q] = Nothing
  BY <1>3, <1>5, <1>8
<1> QED BY <1>7, <1>8

LEMMA GotoType ==
    ASSUME HandlersTypeOK, NEW r \in Request, NEW pc \in Pc, Goto(r, pc),
           UNCHANGED written
    PROVE  HandlersTypeOK'
<1> DEFINE h == [req[r] EXCEPT !.pc = pc]
<1>1. HandlerTypeOK(h) /\ h.rcvd = req[r].rcvd /\ h.stored = req[r].stored
  BY DEF HandlersTypeOK, HandlerTypeOK
<1>2. req' = [req EXCEPT ![r] = h] /\ req[r].rcvd <= Call[r].len
  BY DEF Goto, HandlersTypeOK
<1> HIDE DEF h
<1> QED BY <1>1, <1>2, HandlerStep

LEMMA ReplyType ==
    ASSUME HandlersTypeOK, NEW r \in Request, NEW code \in Answers, Reply(r, code),
           \A q \in Request : written'[q] \in {written[q], Nothing}
    PROVE  HandlersTypeOK'
<1> DEFINE h == [req[r] EXCEPT !.pc = "done", !.resp = code]
<1>1. HandlerTypeOK(h) /\ h.rcvd = req[r].rcvd /\ h.stored = req[r].stored
  <2>1. "done" \in Pc
    BY DEF Pc
  <2>2. HandlerTypeOK(req[r])
    BY DEF HandlersTypeOK
  <2> QED BY <2>1, <2>2 DEF HandlerTypeOK
<1>2. req' = [req EXCEPT ![r] = h] /\ req[r].rcvd <= Call[r].len
  BY DEF Reply, HandlersTypeOK
<1> HIDE DEF h
<1> QED BY <1>1, <1>2, HandlerStep

LEMMA DropAndReplyType ==
    ASSUME StoreTypeOK, HandlersTypeOK, NEW r \in Request, NEW code \in Answers,
           DropAndReply(r, code)
    PROVE  StoreTypeOK' /\ HandlersTypeOK'
<1>1. StoreTypeOK'
  BY RollbackType DEF DropAndReply
<1>2. \A q \in Request : written'[q] \in {written[q], Nothing}
  BY DEF DropAndReply, Rollback, StoreTypeOK
<1>3. HandlersTypeOK'
  BY <1>2, ReplyType DEF DropAndReply
<1> QED BY <1>1, <1>3

LEMMA HandlersTypeFrame ==
    ASSUME HandlersTypeOK, UNCHANGED <<req, written>>
    PROVE  HandlersTypeOK'
  BY DEF HandlersTypeOK, HandlerTypeOK, Byte

LEMMA StoreTypeFrame ==
    ASSUME StoreTypeOK, UNCHANGED storeVars
    PROVE  StoreTypeOK'
  BY DEF StoreTypeOK, storeVars, IsContent, Bounded

LEMMA InitType == Init => TypeOK
<1> SUFFICES ASSUME Init PROVE TypeOK
  OBVIOUS
<1>1. StoreTypeOK
  BY NothingIsContent DEF Init, StoreInit, StoreTypeOK
<1>2. HandlersTypeOK
  <2>1. "idle" \in Pc /\ "none" \in Answers
    BY DEF Pc, Answers
  <2>2. \A r \in Request : HandlerTypeOK(Handler(r))
    BY <2>1 DEF HandlerTypeOK, Handler
  <2>3. \A r \in Request : Handler(r).rcvd <= Call[r].len
    BY CallType DEF Handler
  <2>4. /\ req = [r \in Request |-> Handler(r)]
        /\ written = [r \in Request |-> Nothing]
    BY DEF Init, StoreInit
  <2> QED BY <2>2, <2>3, <2>4 DEF HandlersTypeOK, Nothing
<1> QED BY <1>1, <1>2, MaxFaultsIsNat DEF TypeOK, Init, StoreInit

\* The parts that most steps leave alone.
LEMMA TypeFromParts ==
    ASSUME TypeOK, StoreTypeOK', HandlersTypeOK',
           UNCHANGED <<buckets, gcTodo, gcDone>>, DOMAIN files \subseteq DOMAIN files',
           faults' \in 0 .. MaxFaults
    PROVE  TypeOK'
  BY DEF TypeOK

\* A step that moves or answers a handler and at most takes or returns its
\* connection.
LEMMA MoveType ==
    ASSUME TypeOK, NEW r \in Request,
           conn' \in {conn, conn \cup {r}, conn \ {r}},
           UNCHANGED <<files, expired, live, content, written, held, wait, lost>>,
           UnchangedService,
           \/ \E pc \in Pc : Goto(r, pc)
           \/ \E code \in Answers : Reply(r, code)
    PROVE  TypeOK'
<1>1. StoreTypeOK'
  BY ConnOnlyType, SessionHasRequests DEF TypeOK
<1>2. HandlersTypeOK'
  BY GotoType, ReplyType DEF TypeOK
<1> QED BY <1>1, <1>2, TypeFromParts DEF TypeOK, UnchangedService

\* A step that drops the handle and answers.
LEMMA DropType ==
    ASSUME TypeOK, NEW r \in Request, NEW code \in Answers, DropAndReply(r, code),
           UNCHANGED <<buckets, gcTodo, gcDone>>, faults' \in 0 .. MaxFaults
    PROVE  TypeOK'
<1>1. StoreTypeOK' /\ HandlersTypeOK'
  BY DropAndReplyType DEF TypeOK
<1>2. DOMAIN files' = DOMAIN files
  BY DEF DropAndReply, Rollback
<1> QED BY <1>1, <1>2, TypeFromParts

\* A step that only changes a handler's own variables.
LEMMA LocalType ==
    ASSUME TypeOK, NEW r \in Request, NEW h, HandlerTypeOK(h),
           h.rcvd <= Call[r].len, h.stored = req[r].stored,
           req' = [req EXCEPT ![r] = h], UNCHANGED storeVars, UnchangedService
    PROVE  TypeOK'
<1>1. StoreTypeOK'
  BY StoreTypeFrame DEF TypeOK
<1>2. \A q \in Request : written'[q] \in {written[q], Nothing}
  BY DEF storeVars
<1>3. HandlersTypeOK'
  BY <1>2, HandlerStep DEF TypeOK
<1> QED BY <1>1, <1>3, TypeFromParts DEF TypeOK, storeVars, UnchangedService

LEMMA PcsAndAnswers ==
    /\ {"idle", "bucket", "create", "create_wait", "find", "open", "size", "rewind",
        "metadata", "upload", "seek_end", "write", "commit", "check", "compare",
        "eof", "stream", "done"} \subseteq Pc
    /\ {"none", "200", "404", "409", "500", "short", "gone", "unheard"} \subseteq Answers
  BY DEF Pc, Answers

\* What a handler of a typed state looks like.
LEMMA HandlerFacts ==
    ASSUME TypeOK, NEW r \in Request
    PROVE  /\ HandlerTypeOK(req[r])
           /\ req = [q \in Request |-> req[q]]
           /\ req[r].rcvd <= Call[r].len
           /\ Call[r].len \in Nat /\ Call[r].off \in Nat /\ Call[r].payload \in Payload
           /\ FileOf(r) \in File
  BY CallType DEF TypeOK, HandlersTypeOK, FileOf

LEMMA ViewIsContent ==
    ASSUME TypeOK, NEW r \in Request, NEW o \in Request
    PROVE  IsContent(View(r, o)) /\ Size(View(r, o)) \in Nat
<1>1. IsContent(View(r, o))
  BY OverlayIsContent DEF View, TypeOK, StoreTypeOK
<1> QED BY <1>1, SizeIsEnd DEF IsContent

LEMMA ChunkIsContent ==
    ASSUME TypeOK, NEW r \in Request
    PROVE  /\ IsContent(ChunkBytes(r))
           /\ \A i \in DOMAIN ChunkBytes(r) :
                \E k \in 0 .. (req[r].rcvd - 1) : ChunkBytes(r)[i] = Byte(r, k)
<1> DEFINE p == req[r].pos
           m == req[r].rcvd - req[r].stored
           c == ChunkBytes(r)
<1>1. p \in Nat /\ m \in Nat /\ req[r].stored \in Nat /\ req[r].rcvd \in Nat
  BY HandlerFacts DEF HandlerTypeOK
<1>2. /\ DOMAIN c = p .. (p + m - 1)
      /\ c = [i \in DOMAIN c |-> c[i]]
      /\ \A i \in DOMAIN c : c[i] = Byte(r, req[r].stored + (i - p))
  BY <1>1 DEF ChunkBytes
<1>3. Bounded(DOMAIN c)
  <2>1. CASE m = 0
    BY <1>1, <1>2, <2>1 DEF Bounded
  <2>2. CASE m # 0
    <3>1. p + m - 1 \in DOMAIN c /\ \A i \in DOMAIN c : i <= p + m - 1
      BY <1>1, <1>2, <2>2
    <3> QED BY <3>1 DEF Bounded
  <2> QED BY <2>1, <2>2
<1>4. ASSUME NEW i \in DOMAIN c
      PROVE  \E k \in 0 .. (req[r].rcvd - 1) : c[i] = Byte(r, k)
  <2>0. i \in p .. (p + m - 1)
    BY <1>2
  <2>1. req[r].stored + (i - p) \in 0 .. (req[r].rcvd - 1)
    BY <1>1, <2>0
  <2>2. c[i] = Byte(r, req[r].stored + (i - p))
    BY <1>2
  <2> QED BY <2>1, <2>2
<1>5. \A i \in DOMAIN c : c[i] \in Payload \X Nat
  <2>1. \A k \in Nat : Byte(r, k) \in Payload \X Nat
    BY HandlerFacts DEF Byte
  <2>2. \A i \in DOMAIN c : \E k \in Nat : c[i] = Byte(r, k)
    BY <1>1, <1>4
  <2> HIDE DEF c
  <2> QED BY <2>1, <2>2
<1>6. DOMAIN c \subseteq Nat
  BY <1>1, <1>2
<1> HIDE DEF c
<1>7. IsContent(c)
  BY <1>2, <1>3, <1>5, <1>6 DEF IsContent
<1> QED BY <1>4, <1>7 DEF c

LEMMA FaultsAreBounded == ASSUME TypeOK, Fault PROVE faults' \in 0 .. MaxFaults
  BY MaxFaultsIsNat DEF TypeOK, Fault

LEMMA StartIsNat == ASSUME NEW r \in Request PROVE Start(r) \in Nat
  BY CallType DEF Start, Op

LEMMA TypeStep == TypeOK /\ [Next]_vars => TypeOK'
<1> SUFFICES ASSUME TypeOK, [Next]_vars PROVE TypeOK'
  OBVIOUS
<1> USE PcsAndAnswers
<1>1. CASE UNCHANGED vars
  <2>1. StoreTypeOK' /\ HandlersTypeOK'
    BY <1>1, StoreTypeFrame, HandlersTypeFrame DEF TypeOK, vars, storeVars, serviceVars
  <2> QED BY <1>1, <2>1, TypeFromParts DEF TypeOK, vars, storeVars, serviceVars
<1>2. ASSUME NEW b \in Bucket, CreateBucket(b) PROVE TypeOK'
  <2>1. StoreTypeOK' /\ HandlersTypeOK'
    BY <1>2, StoreTypeFrame, HandlersTypeFrame DEF TypeOK, CreateBucket, storeVars
  <2> QED BY <1>2, <2>1 DEF TypeOK, CreateBucket, storeVars
<1>3. ASSUME NEW f \in File, Expire(f) PROVE TypeOK'
  <2>1. StoreTypeOK' /\ HandlersTypeOK'
    BY <1>3, HandlersTypeFrame DEF TypeOK, Expire, serviceVars, StoreTypeOK
  <2> QED BY <1>3, <2>1, TypeFromParts DEF TypeOK, Expire, serviceVars
<1>4. ASSUME NEW r \in Request, Arrive(r) PROVE TypeOK'
  BY <1>4, MoveType DEF Arrive, storeVars, UnchangedService
<1>5. ASSUME NEW r \in Request, FindBucket(r) PROVE TypeOK'
  BY <1>5, MoveType DEF FindBucket, QueryOnPool
<1>6. ASSUME NEW r \in Request, CreateBlocks(r) PROVE TypeOK'
  BY <1>6, MoveType DEF CreateBlocks, Begin
<1>7. ASSUME NEW r \in Request, CreateExists(r) PROVE TypeOK'
  BY <1>7, MoveType DEF CreateExists, InsertRuns
<1>8. ASSUME NEW r \in Request, CreateFile(r) PROVE TypeOK'
  <2> DEFINE h == [req[r] EXCEPT !.pc = "open", !.blob = r]
  <2>1. HandlerTypeOK(req[r]) /\ req[r].rcvd <= Call[r].len /\ FileOf(r) \in File
    BY HandlerFacts
  <2>2. HandlerTypeOK(h) /\ h.rcvd = req[r].rcvd /\ h.stored = req[r].stored
    BY <2>1 DEF HandlerTypeOK
  <2>3. req' = [req EXCEPT ![r] = h]
    BY <1>8, HandlerFacts DEF CreateFile
  <2> HIDE DEF h
  <2>4. HandlersTypeOK'
    BY <1>8, <2>1, <2>2, <2>3, HandlerStep DEF CreateFile, InsertRow, TypeOK
  <2>5. StoreTypeOK' /\ DOMAIN files \subseteq DOMAIN files'
    BY <1>8, <2>1, InsertRowType DEF CreateFile, InsertRuns, InsertRow, TypeOK
  <2> QED BY <1>8, <2>4, <2>5, TypeFromParts DEF CreateFile, UnchangedService, TypeOK
<1>9. ASSUME NEW r \in Request, FindFile(r) PROVE TypeOK'
  <2>1. CASE FileOf(r) \notin DOMAIN files
    BY <1>9, <2>1, MoveType DEF FindFile, QueryOnPool
  <2>2. CASE FileOf(r) \in DOMAIN files
    <3> DEFINE h == [req[r] EXCEPT !.pc = "open", !.blob = files[FileOf(r)]]
    <3>1. /\ HandlerTypeOK(req[r]) /\ req[r].rcvd <= Call[r].len
          /\ files[FileOf(r)] \in Request
      BY <2>2, HandlerFacts DEF TypeOK, StoreTypeOK
    <3>2. HandlerTypeOK(h) /\ h.rcvd = req[r].rcvd /\ h.stored = req[r].stored
      BY <3>1 DEF HandlerTypeOK
    <3>3. req' = [req EXCEPT ![r] = h]
      BY <1>9, <2>2, HandlerFacts DEF FindFile
    <3> HIDE DEF h
    <3> QED BY <1>9, <3>1, <3>2, <3>3, LocalType DEF FindFile, QueryOnPool, storeVars
  <2> QED BY <2>1, <2>2
<1>10. ASSUME NEW r \in Request, OpenHandle(r) PROVE TypeOK'
  BY <1>10, MoveType DEF OpenHandle, Begin
<1>11. ASSUME NEW r \in Request, OpenFails(r) PROVE TypeOK'
  BY <1>11, MoveType DEF OpenFails, QueryOnPool
<1>12. ASSUME NEW r \in Request, AcquireTimesOut(r) PROVE TypeOK'
  BY <1>12, MoveType DEF AcquireTimesOut, storeVars
<1>13. ASSUME NEW r \in Request, SeekForSize(r) PROVE TypeOK'
  <2> DEFINE h == [req[r] EXCEPT
        !.size = Size(View(r, req[r].blob)), !.pos = Size(View(r, req[r].blob)),
        !.pc = IF Op(r) = "append" /\ Beyond(r, Size(View(r, req[r].blob)))
               THEN "upload" ELSE "rewind"]
  <2>1. HandlerTypeOK(req[r]) /\ req[r].rcvd <= Call[r].len
    BY HandlerFacts
  <2>4. Size(View(r, req[r].blob)) \in Nat
    BY <2>1, ViewIsContent DEF HandlerTypeOK
  <2>2. HandlerTypeOK(h) /\ h.rcvd = req[r].rcvd /\ h.stored = req[r].stored
    BY <2>1, <2>4 DEF HandlerTypeOK
  <2>3. req' = [req EXCEPT ![r] = h]
    BY <1>13, HandlerFacts DEF SeekForSize
  <2> HIDE DEF h
  <2> QED BY <1>13, <2>1, <2>2, <2>3, LocalType DEF SeekForSize
<1>14. ASSUME NEW r \in Request, SeekToStart(r) PROVE TypeOK'
  <2> DEFINE h == [req[r] EXCEPT
        !.pos = Start(r), !.pc = IF Op(r) = "explore" THEN "metadata" ELSE "check"]
  <2>1. HandlerTypeOK(req[r]) /\ req[r].rcvd <= Call[r].len
    BY HandlerFacts
  <2>2. HandlerTypeOK(h) /\ h.rcvd = req[r].rcvd /\ h.stored = req[r].stored
    BY <2>1, StartIsNat DEF HandlerTypeOK
  <2>3. req' = [req EXCEPT ![r] = h]
    BY <1>14, HandlerFacts DEF SeekToStart
  <2> HIDE DEF h
  <2> QED BY <1>14, <2>1, <2>2, <2>3, LocalType DEF SeekToStart
<1>15. ASSUME NEW r \in Request, NextChunk(r) PROVE TypeOK'
  <2>1. HandlerTypeOK(req[r]) /\ req[r].rcvd <= Call[r].len /\ Call[r].len \in Nat
    BY HandlerFacts
  <2>2. PICK n \in 1 .. (Call[r].len - req[r].rcvd) :
          req' = [req EXCEPT ![r].rcvd = @ + n,
                             ![r].pc = IF @ = "upload" THEN "seek_end" ELSE "compare"]
    BY <1>15 DEF NextChunk
  <2> DEFINE m == req[r].rcvd + n
             next == IF req[r].pc = "upload" THEN "seek_end" ELSE "compare"
             h == [req[r] EXCEPT !.rcvd = m, !.pc = next]
  <2>3. /\ m \in Nat /\ m <= Call[r].len /\ req[r].stored <= m
        /\ next \in Pc
    BY <2>1, <2>2 DEF HandlerTypeOK
  <2>4. req' = [req EXCEPT ![r] = h]
    BY <2>2, HandlerFacts
  <2> HIDE DEF m, next
  <2>5. HandlerTypeOK(h) /\ h.rcvd = m /\ h.stored = req[r].stored
    BY <2>1, <2>3 DEF HandlerTypeOK
  <2> HIDE DEF h
  <2> QED BY <1>15, <2>3, <2>4, <2>5, LocalType DEF NextChunk
<1>16. ASSUME NEW r \in Request, BodyEnds(r) PROVE TypeOK'
  BY <1>16, MoveType DEF BodyEnds, storeVars
<1>17. ASSUME NEW r \in Request, SeekToEnd(r) PROVE TypeOK'
  <2> DEFINE h == [req[r] EXCEPT !.pos = EndOfFile(r), !.pc = "write"]
  <2>1. HandlerTypeOK(req[r]) /\ req[r].rcvd <= Call[r].len
    BY HandlerFacts
  <2>4. EndOfFile(r) \in Nat
    BY <2>1, ViewIsContent DEF HandlerTypeOK, EndOfFile
  <2>2. HandlerTypeOK(h) /\ h.rcvd = req[r].rcvd /\ h.stored = req[r].stored
    BY <2>1, <2>4 DEF HandlerTypeOK
  <2>3. req' = [req EXCEPT ![r] = h]
    BY <1>17, HandlerFacts DEF SeekToEnd
  <2> HIDE DEF h
  <2> QED BY <1>17, <2>1, <2>2, <2>3, LocalType DEF SeekToEnd
<1>35. ASSUME NEW r \in Request, EmptyChunk(r) PROVE TypeOK'
  <2> DEFINE h == [req[r] EXCEPT !.pos = EndOfFile(r)]
  <2>1. HandlerTypeOK(req[r]) /\ req[r].rcvd <= Call[r].len
    BY HandlerFacts
  <2>4. EndOfFile(r) \in Nat
    BY <2>1, ViewIsContent DEF HandlerTypeOK, EndOfFile
  <2>2. HandlerTypeOK(h) /\ h.rcvd = req[r].rcvd /\ h.stored = req[r].stored
    BY <2>1, <2>4 DEF HandlerTypeOK
  <2>3. req' = [req EXCEPT ![r] = h]
    BY <1>35, HandlerFacts DEF EmptyChunk
  <2> HIDE DEF h
  <2> QED BY <1>35, <2>1, <2>2, <2>3, LocalType DEF EmptyChunk
<1>18. ASSUME NEW r \in Request, Write(r) PROVE TypeOK'
  <2>1. /\ HandlerTypeOK(req[r]) /\ req[r].rcvd <= Call[r].len
        /\ req = [q \in Request |-> req[q]]
    BY HandlerFacts
  <2>2. IsContent(ChunkBytes(r))
    BY ChunkIsContent
  <2>3. StoreTypeOK' /\ DOMAIN files' = DOMAIN files
    BY <1>18, <2>1, <2>2, WriteBlobType DEF Write, WriteBlob, TypeOK, HandlerTypeOK
  <2> DEFINE p == req[r].pos + req[r].rcvd - req[r].stored
             h == [req[r] EXCEPT !.pos = p, !.stored = req[r].rcvd, !.pc = "upload"]
  <2>4. HandlerTypeOK(h) /\ h.rcvd = req[r].rcvd /\ h.stored = req[r].rcvd
    <3>1. p \in Nat
      BY <2>1 DEF HandlerTypeOK
    <3>2. req[r].rcvd \in Nat /\ "upload" \in Pc
      BY <2>1 DEF HandlerTypeOK
    <3> HIDE DEF p
    <3>3. /\ h.pc = "upload" /\ h.pos = p /\ h.rcvd = req[r].rcvd
          /\ h.stored = req[r].rcvd /\ h.seen = req[r].seen
      BY <2>1 DEF HandlerTypeOK
    <3>4. h \in [pc : Pc, resp : Answers, blob : Request, pos : Nat, size : Nat,
                 rcvd : Nat, stored : Nat, seen : {req[r].seen}]
      BY <2>1, <3>1, <3>2 DEF HandlerTypeOK
    <3> QED BY <3>2, <3>3, <3>4 DEF HandlerTypeOK
  <2>5. \A q \in Request : req'[q] = IF q = r THEN h ELSE req[q]
    BY <1>18, <2>1 DEF Write
  <2>6. \A q \in Request :
          written'[q] = IF q = r THEN Overlay(written[r], ChunkBytes(r)) ELSE written[q]
    BY <1>18 DEF Write, WriteBlob, TypeOK, StoreTypeOK
  <2> HIDE DEF h
  <2>7. ASSUME NEW i \in DOMAIN Overlay(written[r], ChunkBytes(r))
        PROVE  \E k \in 0 .. (h.stored - 1) :
                  Overlay(written[r], ChunkBytes(r))[i] = Byte(r, k)
    <3>1. CASE i \in DOMAIN ChunkBytes(r)
      BY <2>4, <3>1, ChunkIsContent DEF Overlay
    <3>2. CASE i \notin DOMAIN ChunkBytes(r)
      <4>1. PICK k \in 0 .. (req[r].stored - 1) : written[r][i] = Byte(r, k)
        BY <3>2 DEF Overlay, TypeOK, HandlersTypeOK
      <4>2. k \in 0 .. (h.stored - 1)
        BY <2>1, <2>4 DEF HandlerTypeOK
      <4> QED BY <3>2, <4>1, <4>2 DEF Overlay
    <3> QED BY <3>1, <3>2
  <2>8. HandlersTypeOK'
    <3>1. req' = [q \in Request |-> req'[q]]
      BY <1>18, <2>1 DEF Write
    <3>2. ASSUME NEW q \in Request
          PROVE  /\ HandlerTypeOK(req'[q])
                 /\ req'[q].rcvd <= Call[q].len
                 /\ \A i \in DOMAIN written'[q] :
                      \E k \in 0 .. (req'[q].stored - 1) : written'[q][i] = Byte(q, k)
      BY <2>1, <2>4, <2>5, <2>6, <2>7 DEF TypeOK, HandlersTypeOK
    <3> QED BY <3>1, <3>2 DEF HandlersTypeOK, HandlerTypeOK, Byte
  <2> QED BY <1>18, <2>3, <2>8, TypeFromParts DEF Write, UnchangedService, TypeOK
<1>19. ASSUME NEW r \in Request, WriteBlocks(r) PROVE TypeOK'
  <2>1. StoreTypeOK'
    BY <1>19, HandlerFacts, ChunkIsContent, WriteBlobBlocksType
       DEF WriteBlocks, TypeOK, HandlerTypeOK
  <2>2. HandlersTypeOK'
    BY <1>19, HandlersTypeFrame DEF WriteBlocks, WriteBlobBlocks, TypeOK
  <2> QED BY <1>19, <2>1, <2>2, TypeFromParts
          DEF WriteBlocks, WriteBlobBlocks, UnchangedService, TypeOK
<1>20. ASSUME NEW r \in Request, WriteFails(r) PROVE TypeOK'
  BY <1>20, DropType DEF WriteFails, UnchangedService, TypeOK
<1>21. ASSUME NEW r \in Request, NEW code \in Answers,
              CommitBlob(r, req[r].blob), Reply(r, code), faults' \in 0 .. MaxFaults,
              UNCHANGED <<buckets, gcTodo, gcDone>>
       PROVE  TypeOK'
  <2>1. StoreTypeOK' /\ UNCHANGED <<files, written>>
    BY <1>21, HandlerFacts, CommitBlobType DEF CommitBlob, TypeOK, HandlerTypeOK
  <2>2. HandlersTypeOK'
    BY <1>21, <2>1, ReplyType DEF TypeOK
  <2> QED BY <1>21, <2>1, <2>2, TypeFromParts
<1>22. ASSUME NEW r \in Request, Commit(r) \/ CommitUnheard(r) PROVE TypeOK'
  <2>1. faults' \in 0 .. MaxFaults
    BY <1>22, FaultsAreBounded DEF Commit, CommitUnheard, UnchangedService, TypeOK
  <2> QED BY <1>21, <1>22, <2>1 DEF Commit, CommitUnheard, UnchangedService
<1>23. ASSUME NEW r \in Request, Compare(r) PROVE TypeOK'
  <2> DEFINE goal == Start(r) + req[r].rcvd
             got  == Slice(View(r, req[r].blob), req[r].pos, goal - req[r].pos)
             seen == Overlay(req[r].seen, got)
             next == req[r].pos + Cardinality(DOMAIN got)
  <2>1. HandlerTypeOK(req[r]) /\ req[r].rcvd <= Call[r].len
    BY HandlerFacts
  <2>2. next \in Nat
    <3>1. req[r].pos \in Nat /\ goal - req[r].pos \in Int
      BY <2>1, StartIsNat DEF HandlerTypeOK
    <3>2. Cardinality(DOMAIN got) \in Nat
      BY <3>1, SliceIsFinite
    <3> QED BY <3>1, <3>2
  <2>3. \/ DropAndReply(r, "409")
        \/ /\ \/ req' = [req EXCEPT ![r].seen = seen, ![r].pos = next]
              \/ req' = [req EXCEPT ![r].seen = seen, ![r].pos = next, ![r].pc = "check"]
           /\ UNCHANGED storeVars
    BY <1>23 DEF Compare
  <2> HIDE DEF seen, next
  <2>4. CASE DropAndReply(r, "409")
    BY <1>23, <2>4, DropType DEF Compare, UnchangedService, TypeOK
  <2>5. ASSUME NEW pc \in Pc,
               req' = [req EXCEPT ![r] = [req[r] EXCEPT !.seen = seen, !.pos = next, !.pc = pc]],
               UNCHANGED storeVars
        PROVE  TypeOK'
    <3> DEFINE h == [req[r] EXCEPT !.seen = seen, !.pos = next, !.pc = pc]
    <3>1. HandlerTypeOK(h) /\ h.rcvd = req[r].rcvd /\ h.stored = req[r].stored
      BY <2>1, <2>2 DEF HandlerTypeOK
    <3> HIDE DEF h
    <3> QED BY <1>23, <2>1, <2>5, <3>1, LocalType DEF Compare, h
  <2>6. CASE UNCHANGED storeVars /\ req' = [req EXCEPT ![r].seen = seen, ![r].pos = next]
    <3>1. [req[r] EXCEPT !.seen = seen, !.pos = next]
            = [req[r] EXCEPT !.seen = seen, !.pos = next, !.pc = req[r].pc]
      BY <2>1 DEF HandlerTypeOK
    <3> QED BY <2>1, <2>5, <2>6, <3>1, HandlerFacts DEF HandlerTypeOK
  <2>7. CASE /\ UNCHANGED storeVars
             /\ req' = [req EXCEPT ![r].seen = seen, ![r].pos = next, ![r].pc = "check"]
    BY <2>5, <2>7, HandlerFacts
  <2> QED BY <2>3, <2>4, <2>6, <2>7
<1>24. ASSUME NEW r \in Request, CheckEof(r) PROVE TypeOK'
  BY <1>24, DropType DEF CheckEof, UnchangedService, TypeOK
<1>25. ASSUME NEW r \in Request, Metadata(r) PROVE TypeOK'
  <2>1. CASE DropAndReply(r, "500")
    BY <1>25, <2>1, DropType DEF Metadata, UnchangedService, TypeOK
  <2>2. CASE Goto(r, "stream") /\ UNCHANGED storeVars
    BY <1>25, <2>2, MoveType DEF Metadata, storeVars
  <2> QED BY <1>25, <2>1, <2>2 DEF Metadata
<1>26. ASSUME NEW r \in Request, Stream(r) PROVE TypeOK'
  <2> DEFINE got  == Slice(View(r, req[r].blob), req[r].pos, BufSize)
             sent == {i \in DOMAIN got : i < req[r].size}
             seen == Overlay(req[r].seen, [i \in sent |-> got[i]])
             next == req[r].pos + Cardinality(DOMAIN got)
             h    == [req[r] EXCEPT !.seen = seen, !.pos = next]
  <2>1. HandlerTypeOK(req[r]) /\ req[r].rcvd <= Call[r].len
    BY HandlerFacts
  <2>2. next \in Nat
    <3>1. req[r].pos \in Nat /\ BufSize \in Int
      BY <2>1, BufSizeIsPos DEF HandlerTypeOK
    <3>2. Cardinality(DOMAIN got) \in Nat
      BY <3>1, SliceIsFinite
    <3> QED BY <3>1, <3>2
  <2>3. \/ DropAndReply(r, "200") \/ DropAndReply(r, "short")
        \/ req' = [req EXCEPT ![r].seen = seen, ![r].pos = next] /\ UNCHANGED storeVars
    BY <1>26 DEF Stream
  <2> HIDE DEF seen, next
  <2>4. CASE DropAndReply(r, "200") \/ DropAndReply(r, "short")
    BY <1>26, <2>4, DropType DEF Stream, UnchangedService, TypeOK
  <2>5. CASE req' = [req EXCEPT ![r].seen = seen, ![r].pos = next] /\ UNCHANGED storeVars
    <3>1. HandlerTypeOK(h) /\ h.rcvd = req[r].rcvd /\ h.stored = req[r].stored
      BY <2>1, <2>2 DEF HandlerTypeOK
    <3>2. req' = [req EXCEPT ![r] = h]
      BY <2>5, HandlerFacts
    <3> HIDE DEF h
    <3> QED BY <1>26, <2>1, <2>5, <3>1, <3>2, LocalType DEF Stream
  <2> QED BY <2>3, <2>4, <2>5
<1>27. CASE GcBegin
  <2>1. StoreTypeOK'
    BY <1>27, ConnOnlyType, SessionHasRequests DEF GcBegin, Begin, TypeOK
  <2>2. HandlersTypeOK'
    BY <1>27, HandlersTypeFrame DEF GcBegin, TypeOK
  <2> QED BY <1>27, <2>1, <2>2 DEF GcBegin, TypeOK, StoreTypeOK
<1>28. ASSUME NEW f \in File, GcUnlink(f) PROVE TypeOK'
  <2>1. f \in DOMAIN files /\ files[f] \in Request
    BY <1>28 DEF GcUnlink, TypeOK, StoreTypeOK
  <2>2. PagesOf(files[f], DOMAIN content[files[f]]) \in SUBSET (Request \X Nat)
    BY <2>1, PagesAreTyped DEF TypeOK, StoreTypeOK, IsContent
  <2>3. LocksTypeOK'
    BY <1>28, <2>2, LockType, SessionHasRequests, StoreTypeSplits
       DEF GcUnlink, LockBlobPages, TypeOK
  <2>4. ContentsTypeOK' /\ RowsTypeOK'
    BY <1>28, StoreTypeSplits DEF GcUnlink, TypeOK, ContentsTypeOK, RowsTypeOK
  <2>5. StoreTypeOK'
    BY <2>3, <2>4 DEF StoreTypeOK, LocksTypeOK, ContentsTypeOK, RowsTypeOK
  <2>6. HandlersTypeOK'
    BY <1>28, HandlersTypeFrame DEF GcUnlink, TypeOK
  <2> QED BY <1>28, <2>1, <2>5, <2>6 DEF GcUnlink, TypeOK
<1>29. ASSUME NEW f \in File, GcBlocks(f) PROVE TypeOK'
  <2>1. f \in DOMAIN files /\ files[f] \in Request
    BY <1>29 DEF GcBlocks, TypeOK, StoreTypeOK
  <2>2. PagesOf(files[f], DOMAIN content[files[f]]) \in SUBSET (Request \X Nat)
    BY <2>1, PagesAreTyped DEF TypeOK, StoreTypeOK, IsContent
  <2>3. LocksTypeOK'
    BY <1>29, <2>2, BlockType, SessionHasRequests, StoreTypeSplits
       DEF GcBlocks, BlockOnBlobPages, TypeOK
  <2>4. ContentsTypeOK' /\ RowsTypeOK'
    BY <1>29, StoreTypeSplits DEF GcBlocks, TypeOK, ContentsTypeOK, RowsTypeOK
  <2>5. StoreTypeOK'
    BY <2>3, <2>4 DEF StoreTypeOK, LocksTypeOK, ContentsTypeOK, RowsTypeOK
  <2>6. HandlersTypeOK'
    BY <1>29, HandlersTypeFrame DEF GcBlocks, TypeOK, serviceVars
  <2> QED BY <1>29, <2>5, <2>6, TypeFromParts DEF GcBlocks, serviceVars, TypeOK
<1>30. CASE GcCommit
  <2>1. StoreTypeOK'
    BY <1>30, CommitDeletionType DEF GcCommit, TypeOK
  <2>2. HandlersTypeOK'
    BY <1>30, HandlersTypeFrame DEF GcCommit, CommitDeletion, TypeOK
  <2> QED BY <1>30, <2>1, <2>2 DEF GcCommit, TypeOK
<1>31. CASE GcFails
  <2>1. LocksTypeOK'
    BY <1>31, EndTransactionType, SessionHasRequests, StoreTypeSplits DEF GcFails, TypeOK
  <2>2. ContentsTypeOK' /\ RowsTypeOK'
    BY <1>31, StoreTypeSplits DEF GcFails, TypeOK, ContentsTypeOK, RowsTypeOK
  <2>3. StoreTypeOK'
    BY <2>1, <2>2 DEF StoreTypeOK, LocksTypeOK, ContentsTypeOK, RowsTypeOK
  <2>4. HandlersTypeOK'
    BY <1>31, HandlersTypeFrame DEF GcFails, TypeOK
  <2> QED BY <1>31, <2>3, <2>4 DEF GcFails, TypeOK
<1>32. ASSUME NEW r \in Request, Abandon(r) PROVE TypeOK'
  <2>1. faults' \in 0 .. MaxFaults
    BY <1>32, FaultsAreBounded DEF Abandon
  <2> QED BY <1>32, <2>1, DropType DEF Abandon
<1>33. CASE Crash
  <2>1. LocksTypeOK'
    BY <1>33 DEF Crash, LocksTypeOK
  <2>2. ContentsTypeOK'
    BY <1>33, NothingIsContent, StoreTypeSplits DEF Crash, TypeOK, ContentsTypeOK
  <2>3. RowsTypeOK'
    BY <1>33, StoreTypeSplits DEF Crash, TypeOK, RowsTypeOK
  <2>4. StoreTypeOK'
    BY <2>1, <2>2, <2>3 DEF StoreTypeOK, LocksTypeOK, ContentsTypeOK, RowsTypeOK
  <2>5. faults' \in 0 .. MaxFaults
    BY <1>33, FaultsAreBounded DEF Crash
  <2>6. ASSUME NEW r \in Request
        PROVE  /\ HandlerTypeOK(req'[r])
               /\ req'[r].rcvd = req[r].rcvd /\ req'[r].stored = req[r].stored
               /\ written'[r] \in {written[r], Nothing}
    <3>1. HandlerTypeOK(req[r])
      BY HandlerFacts
    <3>2. HandlerTypeOK([req[r] EXCEPT !.pc = "done", !.resp = "gone"])
      BY <3>1 DEF HandlerTypeOK
    <3> QED BY <1>33, <3>1, <3>2 DEF Crash, HandlerTypeOK
  <2>7. HandlersTypeOK'
    <3>1. req' = [r \in Request |-> req'[r]]
      BY <1>33 DEF Crash
    <3>2. \A i \in DOMAIN Nothing : FALSE
      BY DEF Nothing
    <3>3. ASSUME NEW r \in Request
          PROVE  /\ req'[r].rcvd <= Call[r].len
                 /\ \A i \in DOMAIN written'[r] :
                      \E k \in 0 .. (req'[r].stored - 1) : written'[r][i] = Byte(r, k)
      BY <2>6, <3>2 DEF TypeOK, HandlersTypeOK
    <3> QED BY <2>6, <3>1, <3>3 DEF HandlersTypeOK, HandlerTypeOK, Byte
  <2> QED BY <1>33, <2>4, <2>5, <2>7 DEF Crash, TypeOK
<1>34. CASE Quiet
  BY <1>1, <1>34 DEF Quiet
<1> QED
  BY <1>1, <1>2, <1>3, <1>4, <1>5, <1>6, <1>7, <1>8, <1>9, <1>10, <1>11, <1>12,
     <1>13, <1>14, <1>15, <1>16, <1>17, <1>18, <1>19, <1>20, <1>22, <1>23, <1>24,
     <1>25, <1>26, <1>27, <1>28, <1>29, <1>30, <1>31, <1>32, <1>33, <1>34,
     <1>35
     DEF Next, Serve, ClientSends, Collect

\* Type correctness of the service.
THEOREM TypeCorrect == Spec => []TypeOK
<1>1. Init => TypeOK
  BY InitType
<1>2. TypeOK /\ [Next]_vars => TypeOK'
  BY TypeStep
<1> QED BY <1>1, <1>2, PTL DEF Spec
=============================================================================
