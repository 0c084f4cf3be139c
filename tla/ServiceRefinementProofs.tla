----------------------- MODULE ServiceRefinementProofs -----------------------
(***************************************************************************)
(* Service implements FileStore while appends do not overlap other uploads *)
(* to their file: SoloSpec => ImplementsFileStore, for every value of the  *)
(* constants.                                                              *)
(*                                                                         *)
(* Every effect of a step (ServiceSafetyProofs) maps to an action of       *)
(* FileStore or to a stutter.  An answer maps to the action its reason     *)
(* (ServiceSoloProofs) calls for; SoloInv says that the reason is true.    *)
(***************************************************************************)
EXTENDS ServiceSoloProofs

-----------------------------------------------------------------------------
(* The mapping *)

Replies == [r \in Request |-> req[r].resp]

\* A step of the file store, or none.
Maps == [Abstract!Next]_(Abstract!vars)

\* What FileStore calls the end of a file is its Size.
LEMMA EndIsSize == ASSUME NEW c PROVE Abstract!End(c) = Size(c)
  BY DEF Abstract!End, Size, Max, Abstract!Max

LEMMA VisibleFiles ==
    /\ DOMAIN Visible = DOMAIN files
    /\ \A f \in DOMAIN files : Visible[f] = content[files[f]]
  BY DEF Visible

LEMMA VisibleFilesNext ==
    /\ Visible' = [f \in DOMAIN files' |-> content'[files'[f]]]
    /\ DOMAIN Visible' = DOMAIN files'
    /\ \A f \in DOMAIN files' : Visible'[f] = content'[files'[f]]
  BY DEF Visible

LEMMA StutterMaps ==
    ASSUME Visible' = Visible, Attached' = Attached, Replies' = Replies
    PROVE  Maps
  BY DEF Maps, Abstract!vars, Replies

LEMMA InitMaps == Init => Abstract!Init
<1> SUFFICES ASSUME Init PROVE Abstract!Init
  OBVIOUS
<1>1. /\ files = [f \in {} |-> Gc] /\ live = {}
      /\ \A r \in Request : req[r].resp = "none"
  <2>1. \A r \in Request : req[r] = Handler(r)
    BY DEF Init
  <2> QED BY <2>1 DEF Init, StoreInit, Handler
<1>2. Visible = [f \in {} |-> {}]
  BY <1>1 DEF Visible
<1>3. Attached = {}
  BY <1>1 DEF Attached
<1> QED BY <1>1, <1>2, <1>3 DEF Abstract!Init

-----------------------------------------------------------------------------
(* Files and the requests attached to them *)

\* The file of a handler whose large object is live.
LEMMA LiveFile ==
    ASSUME SoloInv, NEW r \in Request, req[r].blob \in live
    PROVE  /\ FileOf(r) \in DOMAIN files
           /\ files[FileOf(r)] = req[r].blob
           /\ Visible[FileOf(r)] = content[req[r].blob]
<1>1. PICK f \in DOMAIN files : files[f] = req[r].blob
  BY DEF SoloInv, IInv, RowsAndBlobs
<1>2. FileOf(files[f]) = f /\ FileOf(req[r].blob) = FileOf(r)
  BY DEF SoloInv, NamesFit
<1> QED BY <1>1, <1>2, VisibleFiles

LEMMA VisibleStays ==
    ASSUME files' = files, \A f \in DOMAIN files : content'[files[f]] = content[files[f]]
    PROVE  Visible' = Visible
  BY DEF Visible

LEMMA AttachedStays ==
    ASSUME \A q \in Request : req'[q].blob \in live' <=> req[q].blob \in live
    PROVE  Attached' = Attached
  BY DEF Attached

LEMMA RepliesStay ==
    ASSUME \A q \in Request : req'[q].resp = req[q].resp
    PROVE  Replies' = Replies
  BY DEF Replies

LEMMA ReplyGiven ==
    ASSUME NEW r \in Request, \A q \in Request : q # r => req'[q].resp = req[q].resp
    PROVE  Replies' = [Replies EXCEPT ![r] = req'[r].resp]
  BY DEF Replies

\* A handler that has not returned has not answered.
LEMMA NotAnswered ==
    ASSUME SoloInv, NEW r \in Request, req[r].pc # "done"
    PROVE  Replies[r] = "none"
  BY DEF Replies, SoloInv, IInv, AnsweredIsDone

-----------------------------------------------------------------------------
(* Steps that change which files there are, or who is attached to them *)

\* create_file
LEMMA CreatedMaps ==
    ASSUME SoloInv, NEW r \in Request, Created(r)
    PROVE  Maps
<1> USE DEF SoloInv, IInv
<1>1. req[r].pc \in {"create", "create_wait"} /\ FileOf(r) \notin DOMAIN files
  BY DEF Created
<1>2. Op(r) = "put"
  BY <1>1, OpIs DEF OpFits
<1>3. /\ content[r] = Nothing /\ r \notin live
      /\ \A q \in Request \ {r} : req[q].blob # r
  BY <1>1 DEF FreshBlob, Unborn
<1>4. Visible' = [f \in DOMAIN Visible \cup {FileOf(r)} |->
                    IF f = FileOf(r) THEN [i \in {} |-> 0] ELSE Visible[f]]
  <2>1. /\ DOMAIN files' = DOMAIN files \cup {FileOf(r)} /\ content' = content
        /\ files'[FileOf(r)] = r
        /\ \A f \in DOMAIN files : files'[f] = files[f]
    BY <1>1 DEF Created
  <2>2. content[r] = [i \in {} |-> 0]
    BY <1>3 DEF Nothing
  <2>3. /\ Visible' = [f \in DOMAIN files' |-> content'[files'[f]]]
        /\ DOMAIN Visible = DOMAIN files
        /\ \A f \in DOMAIN files : Visible[f] = content[files[f]]
    BY VisibleFiles, VisibleFilesNext
  <2> QED BY <1>1, <2>1, <2>2, <2>3
<1>5. Attached' = Attached \cup {r}
  BY <1>3 DEF Attached, Created, Others
<1>6. Replies' = Replies
  BY RepliesStay DEF Created, Others
<1>7. Replies[r] = "none"
  BY <1>1, NotAnswered
<1>8. Abstract!Create(r)
  BY <1>1, <1>2, <1>4, <1>5, <1>6, <1>7, VisibleFiles
     DEF Abstract!Create, Abstract!FileOf, FileOf, Op, Replies
<1> QED BY <1>8 DEF Maps, Abstract!Next

\* find_file, and the steps of a handler that only it knows about
LEMMA MovedMaps ==
    ASSUME SoloInv, NEW r \in Request, Moved(r)
    PROVE  Maps
<1> USE DEF SoloInv, IInv
<1>1. /\ UNCHANGED <<files, live, content>> /\ req[r].pc # "done"
      /\ \A q \in Request : q # r => req'[q] = req[q]
      /\ req'[r].resp = req[r].resp
  BY DEF Moved, StoreSame, Others
<1>2. Visible' = Visible /\ Replies' = Replies
  BY <1>1, VisibleStays, RepliesStay
<1>3. CASE req'[r].blob = req[r].blob
  <2>1. Attached' = Attached
    BY <1>1, <1>3, AttachedStays
  <2> QED BY <1>2, <2>1, StutterMaps
<1>4. CASE FileOf(r) \in DOMAIN files /\ req'[r].blob = files[FileOf(r)]
  <2>1. req'[r].blob \in live
    BY <1>4 DEF RowsAndBlobs
  <2>2. Attached' = Attached \cup {r}
    BY <1>1, <2>1 DEF Attached
  <2>3. Replies[r] = "none"
    BY <1>1, NotAnswered
  <2>4. Abstract!Find(r)
    BY <1>2, <1>4, <2>2, <2>3, VisibleFiles
       DEF Abstract!Find, Abstract!FileOf, FileOf, Replies
  <2> QED BY <2>4 DEF Maps, Abstract!Next
<1> QED BY <1>3, <1>4 DEF Moved

\* the deletion batch commits
LEMMA CollectedMaps ==
    ASSUME SoloInv, Collected
    PROVE  Maps
<1> USE DEF SoloInv, IInv
<1>1. PICK S \in SUBSET DOMAIN files :
        LET blobs == {files[f] : f \in S} IN
        /\ files' = [g \in DOMAIN files \ S |-> files[g]]
        /\ live' = live \ blobs
        /\ \A o \in Request : content'[o] = IF o \in blobs THEN Nothing ELSE content[o]
  BY DEF Collected
<1> DEFINE blobs == {files[f] : f \in S}
<1>2. /\ files' = [g \in DOMAIN files \ S |-> files[g]]
      /\ live' = live \ blobs
      /\ \A o \in Request : content'[o] = IF o \in blobs THEN Nothing ELSE content[o]
  BY <1>1
<1>3. ASSUME NEW g \in DOMAIN files \ S PROVE files[g] \notin blobs /\ files[g] \in Request
  BY DEF RowsAndBlobs, TypeOK, StoreTypeOK
<1>4. Visible' = [f \in DOMAIN Visible \ S |-> Visible[f]]
  <2>1. /\ Visible' = [f \in DOMAIN files' |-> content'[files'[f]]]
        /\ DOMAIN Visible = DOMAIN files
        /\ \A f \in DOMAIN files : Visible[f] = content[files[f]]
    BY VisibleFiles, VisibleFilesNext
  <2>2. DOMAIN files' = DOMAIN files \ S
    BY <1>2
  <2>3. ASSUME NEW f \in DOMAIN files \ S PROVE content'[files'[f]] = content[files[f]]
    <3>1. files'[f] = files[f]
      BY <1>2
    <3> HIDE DEF blobs
    <3> QED BY <1>2, <1>3, <3>1
  <2> QED BY <2>1, <2>2, <2>3
<1>5. req' = req
  BY DEF Collected
<1>6. Attached' = {r \in Attached : FileOf(r) \notin S}
  <2>1. ASSUME NEW r \in Request, req[r].blob \in live
        PROVE  req[r].blob \in blobs <=> FileOf(r) \in S
    <3>1. FileOf(r) \in DOMAIN files /\ files[FileOf(r)] = req[r].blob
      BY <2>1, LiveFile
    <3>2. \A f \in S : files[f] = req[r].blob => f = FileOf(r)
      BY <3>1 DEF RowsAndBlobs
    <3> QED BY <3>1, <3>2
  <2>2. live' = live \ blobs
    BY <1>2
  <2> HIDE DEF blobs
  <2> QED BY <1>5, <2>1, <2>2 DEF Attached
<1>7. Replies' = Replies
  BY <1>5, RepliesStay
<1>8. S \in SUBSET DOMAIN Visible
  BY VisibleFiles
<1>9. Abstract!Remove
  BY <1>4, <1>6, <1>7, <1>8 DEF Abstract!Remove, Abstract!FileOf, FileOf, Replies
<1> QED BY <1>9 DEF Maps, Abstract!Next

-----------------------------------------------------------------------------
(* Commits *)

\* What a commit adds to its file is the body after the file's end.
LEMMA CommitExtends ==
    ASSUME NEW r \in Request, NEW n \in Nat, NEW c, NEW w,
           Call[r].len \in Nat, Continues(r, n, Call[r].len, c, w)
    PROVE  Overlay(c, w) = Abstract!Extended(c, r) /\ Size(c) = n
<1> DEFINE m == Call[r].len
<1>1. /\ DOMAIN c = 0 .. (n - 1) /\ DOMAIN w = n .. (n + m - 1)
      /\ \A i \in DOMAIN w : w[i] = Byte(r, i - n)
  BY DEF Continues
<1>2. Size(c) = n
  BY <1>1, SizeOf
<1>3. Abstract!Extended(c, r) =
        [i \in DOMAIN c \cup n .. (n + m - 1) |-> IF i \in DOMAIN c THEN c[i] ELSE Byte(r, i - n)]
  BY <1>2, EndIsSize DEF Abstract!Extended, Abstract!Byte, Byte
<1> HIDE DEF m
<1>4. \A i \in DOMAIN c : i \notin DOMAIN w
  BY <1>1
<1>5. Overlay(c, w) =
        [i \in DOMAIN c \cup n .. (n + m - 1) |-> IF i \in DOMAIN c THEN c[i] ELSE Byte(r, i - n)]
  BY <1>1, <1>4 DEF Overlay
<1> QED BY <1>2, <1>3, <1>5

\* A file that is gone.
LEMMA LateMaps ==
    ASSUME SoloInv, NEW r \in Request, req[r].blob \notin live, req[r].pc # "done",
           req'[r].resp \in {"200", "409", "unheard"},
           Visible' = Visible, Attached' = Attached,
           Replies' = [Replies EXCEPT ![r] = req'[r].resp]
    PROVE  Maps
<1>1. Replies[r] = "none" /\ r \notin Attached
  BY NotAnswered DEF Attached
<1>2. Abstract!Late(r)
  BY <1>1 DEF Abstract!Late, Abstract!Answer, Replies
<1> QED BY <1>2 DEF Maps, Abstract!Next

LEMMA CommittedMaps ==
    ASSUME SoloInv, NEW r \in Request, Committed(r)
    PROVE  Maps
<1> USE DEF SoloInv, IInv
<1> DEFINE o == req[r].blob
           F == FileOf(r)
<1>1. /\ UNCHANGED <<files, live>> /\ req[r].pc = "commit"
      /\ \A p \in Request : content'[p] = IF p = o THEN Overlay(content[p], written[r])
                                                   ELSE content[p]
      /\ \A q \in Request : q # r => req'[q] = req[q]
      /\ req'[r].resp \in {"200", "unheard"} /\ req'[r].blob = o
  BY DEF Committed, Others
<1>2. Attached' = Attached
  BY <1>1, AttachedStays
<1>3. Replies' = [Replies EXCEPT ![r] = req'[r].resp] /\ Replies[r] = "none"
  BY <1>1, ReplyGiven, NotAnswered
<1>4. \A f \in DOMAIN files : files[f] \in Request /\ files[f] \in live
  BY DEF RowsAndBlobs, TypeOK, StoreTypeOK
<1>5. CASE o \notin live
  <2>1. \A f \in DOMAIN files : content'[files[f]] = content[files[f]]
    BY <1>1, <1>4, <1>5
  <2>2. Visible' = Visible
    BY <1>1, <2>1, VisibleStays
  <2> QED BY <1>1, <1>2, <1>3, <1>5, <2>2, LateMaps
<1>6. CASE o \in live
  <2> DEFINE n == req[r].size
  <2>1. /\ o \in Request /\ n \in Nat /\ Call[r].len \in Nat
    BY HandlerFacts DEF HandlerTypeOK
  <2>2. /\ Continues(r, n, req[r].stored, content[o], written[r])
        /\ Op(r) = "append" => Call[r].off > n
        /\ req[r].stored = Call[r].len
        /\ Op(r) = "put" => n = 0
        /\ Op(r) \in {"put", "append"}
    BY <1>1, <1>6, WriterFitsIs, OpIs DEF WritePc, ChunkInHand, OpFits
  <2>3. Overlay(content[o], written[r]) = Abstract!Extended(content[o], r) /\ Size(content[o]) = n
    BY <2>1, <2>2, CommitExtends
  <2>4. F \in DOMAIN files /\ files[F] = o /\ Visible[F] = content[o]
    BY <1>6, LiveFile
  <2>5. Visible' = [Visible EXCEPT ![F] = Abstract!Extended(@, r)]
    <3>1. /\ Visible' = [f \in DOMAIN files |-> content'[files[f]]]
          /\ Visible = [f \in DOMAIN files |-> content[files[f]]]
      BY <1>1, VisibleFilesNext DEF Visible
    <3>2. content'[files[F]] = Abstract!Extended(Visible[F], r)
      BY <1>1, <2>1, <2>3, <2>4
    <3>3. ASSUME NEW f \in DOMAIN files, f # F PROVE content'[files[f]] = content[files[f]]
      <4>1. files[f] # o /\ files[f] \in Request
        BY <1>4, <2>4, <3>3 DEF RowsAndBlobs
      <4> QED BY <1>1, <4>1
    <3> HIDE DEF F
    <3> QED BY <2>4, <3>1, <3>2, <3>3
  <2>6. Abstract!End(Visible[F]) = n
    BY <2>3, <2>4, EndIsSize
  <2>7. r \in Attached
    BY <1>6 DEF Attached
  <2>8. /\ F = Abstract!FileOf(r) /\ Op(r) = Call[r].op
        /\ Abstract!Uploads(r)
    BY <2>2 DEF Abstract!FileOf, Abstract!Uploads, FileOf, Op
  <2>9. Abstract!Answer(r, {"200", "unheard"})
    BY <1>1, <1>3 DEF Abstract!Answer, Replies
  <2>10. IF Call[r].op = "put" THEN Abstract!End(Visible[F]) = 0
                               ELSE Call[r].off > Abstract!End(Visible[F])
    BY <2>2, <2>6, <2>8
  <2> HIDE DEF F
  <2>11. Abstract!Upload(r)
    BY <1>2, <2>5, <2>7, <2>8, <2>9, <2>10 DEF Abstract!Upload
  <2> QED BY <2>11 DEF Maps, Abstract!Next
<1> QED BY <1>5, <1>6

-----------------------------------------------------------------------------
(* Answers *)

\* What holds when a handler has compared the whole body and the file ends there.
LEMMA MatchIsTrue ==
    ASSUME SoloInv, NEW r \in Request, req[r].pc = "eof", req[r].blob \in live, AtEof(r)
    PROVE  Abstract!Holds(content[req[r].blob], r)
<1> USE DEF SoloInv, IInv
<1> DEFINE c == content[req[r].blob]
           m == Size(c)
           a == Start(r)
           len == Call[r].len
           s == req[r].seen
<1>1. /\ a \in Nat /\ len \in Nat
      /\ req[r].blob \in Request /\ req[r].pos \in Nat
  BY HandlerFacts, StartIsNat DEF HandlerTypeOK
<1>2. m \in Nat /\ DOMAIN c = 0 .. (m - 1)
  BY LiveIsPrefix
<1>3. /\ req[r].pos = a + len
      /\ DOMAIN s = a .. (req[r].pos - 1)
      /\ \A i \in DOMAIN s : s[i] = Byte(r, i - a)
  BY DEF CompareFits, ComparePc
<1>4. \A i \in DOMAIN s : i \in DOMAIN c /\ s[i] = c[i]
  BY DEF SeenFits
<1>5. m <= req[r].pos
  <2>1. View(r, req[r].blob) = c
    BY <1>1, NothingWritten DEF WritePc
  <2> QED BY <2>1 DEF AtEof
<1>6. \A j \in 0 .. (a - 1) : j \in DOMAIN c
  <2>1. CASE Op(r) = "append"
    BY <2>1 DEF CompareFits, ComparePc, Start
  <2>2. CASE Op(r) # "append"
    BY <2>2 DEF Start
  <2> QED BY <2>1, <2>2
<1>7. a = Abstract!Start(r) /\ \A k : Abstract!Byte(r, k) = Byte(r, k)
  BY DEF Start, Op, Abstract!Start, Abstract!Byte, Byte
<1> HIDE DEF c, m, a, len, s
<1>8. m = a + len
  <2>1. CASE len > 0
    <3>1. (a + len) - 1 \in DOMAIN c
      BY <1>1, <1>3, <1>4, <2>1
    <3> QED BY <1>1, <1>2, <1>3, <1>5, <3>1
  <2>2. CASE len = 0 /\ a > 0
    <3>1. a - 1 \in DOMAIN c
      BY <1>1, <1>6, <2>2
    <3> QED BY <1>1, <1>2, <1>3, <1>5, <2>2, <3>1
  <2>3. CASE len = 0 /\ a = 0
    BY <1>1, <1>2, <1>3, <1>5, <2>3
  <2> QED BY <1>1, <2>1, <2>2, <2>3
<1>9. ASSUME NEW k \in 0 .. (len - 1) PROVE c[a + k] = Byte(r, k)
  <2>1. a + k \in DOMAIN s /\ (a + k) - a = k
    BY <1>1, <1>3, <1>9
  <2> QED BY <1>3, <1>4, <2>1
<1>10. DOMAIN c = 0 .. (a + len - 1)
  BY <1>1, <1>2, <1>8
<1> QED BY <1>7, <1>9, <1>10 DEF Abstract!Holds, c, a, len

\* A file of the wrong length, or with another byte, does not hold the body.
LEMMA NotHeld ==
    ASSUME NEW r \in Request, NEW c, Start(r) \in Nat, Call[r].len \in Nat,
           NEW m \in Nat, DOMAIN c = 0 .. (m - 1),
           \/ m # Start(r) + Call[r].len
           \/ \E i \in Start(r) .. (Start(r) + Call[r].len - 1) : c[i] # Byte(r, i - Start(r))
    PROVE  ~Abstract!Holds(c, r)
<1> DEFINE a == Start(r)
           len == Call[r].len
<1>1. a = Abstract!Start(r) /\ \A k : Abstract!Byte(r, k) = Byte(r, k)
  BY DEF Start, Op, Abstract!Start, Abstract!Byte, Byte
<1> SUFFICES ASSUME /\ DOMAIN c = 0 .. (a + len - 1)
                    /\ \A k \in 0 .. (len - 1) : c[a + k] = Byte(r, k)
             PROVE  FALSE
  BY <1>1 DEF Abstract!Holds
<1>2. a \in Nat /\ len \in Nat
  OBVIOUS
<1> HIDE DEF a, len
<1>3. CASE m # a + len
  <2>1. CASE m < a + len
    <3>1. m \in 0 .. (a + len - 1) /\ m \notin 0 .. (m - 1)
      BY <1>2, <2>1
    <3> QED BY <3>1
  <2>2. CASE m > a + len
    <3>1. a + len \in 0 .. (m - 1) /\ a + len \notin 0 .. (a + len - 1)
      BY <1>2, <2>2
    <3> QED BY <3>1
  <2> QED BY <1>2, <1>3, <2>1, <2>2
<1>4. ASSUME NEW i \in a .. (a + len - 1), c[i] # Byte(r, i - a) PROVE FALSE
  <2>1. i - a \in 0 .. (len - 1) /\ a + (i - a) = i
    BY <1>2
  <2> QED BY <1>4, <2>1
<1> QED BY <1>3, <1>4 DEF a, len

\* What holds when a handler finds something else than the body, or more.
LEMMA ConflictIsTrue ==
    ASSUME SoloInv, NEW r \in Request, req[r].blob \in live,
           \/ req[r].pc = "eof" /\ ~AtEof(r)
           \/ req[r].pc = "compare" /\ DOMAIN Got(r) = {}
           \/ /\ req[r].pc = "compare" /\ Next2(r) = Goal(r)
              /\ \E i \in DOMAIN Seen2(r) : Seen2(r)[i] # Byte(r, i - Start(r))
    PROVE  ~Abstract!Holds(content[req[r].blob], r)
<1> USE DEF SoloInv, IInv
<1> DEFINE c == content[req[r].blob]
           m == Size(c)
           a == Start(r)
           len == Call[r].len
           p == req[r].pos
<1>1. /\ a \in Nat /\ len \in Nat /\ p \in Nat
      /\ req[r].blob \in Request /\ req[r].rcvd \in Nat /\ req[r].rcvd <= len
  BY HandlerFacts, StartIsNat DEF HandlerTypeOK
<1>2. m \in Nat /\ DOMAIN c = 0 .. (m - 1)
  BY LiveIsPrefix
<1>3. View(r, req[r].blob) = c
  BY <1>1, NothingWritten DEF WritePc
<1> HIDE DEF c, m, a, len, p
<1>4. CASE req[r].pc = "eof" /\ ~AtEof(r)
  <2>1. p = a + len
    BY <1>4 DEF CompareFits, p, a, len
  <2>2. ~(m <= p)
    BY <1>3, <1>4 DEF AtEof, m, p
  <2>3. m # a + len
    BY <1>1, <1>2, <2>1, <2>2
  <2> QED BY <1>1, <1>2, <2>3, NotHeld DEF c, a, len
<1>5. CASE req[r].pc = "compare" /\ DOMAIN Got(r) = {}
  <2> DEFINE n == Goal(r) - p
  <2>1. a <= p /\ p < a + req[r].rcvd /\ Goal(r) = a + req[r].rcvd
    BY <1>5 DEF CompareFits, Goal, a, p
  <2>2. n \in Nat /\ 0 < n
    BY <1>1, <2>1
  <2>3. Got(r) = Slice(c, p, n)
    BY <1>3 DEF Got, p
  <2> HIDE DEF n
  <2>4. Cardinality(DOMAIN Got(r)) < n => m <= p + Cardinality(DOMAIN Got(r))
    BY <1>1, <1>2, <2>2, <2>3, SliceShape DEF m
  <2>5. Cardinality(DOMAIN Got(r)) = 0
    BY <1>5, FS_EmptySet
  <2>6. m <= p
    BY <1>1, <1>2, <2>2, <2>4, <2>5
  <2>7. m # a + len
    BY <1>1, <1>2, <2>1, <2>6
  <2> QED BY <1>1, <1>2, <2>7, NotHeld DEF c, a, len
<1>6. CASE /\ req[r].pc = "compare" /\ Next2(r) = Goal(r)
           /\ \E i \in DOMAIN Seen2(r) : Seen2(r)[i] # Byte(r, i - Start(r))
  <2>1. PICK i \in DOMAIN Seen2(r) : Seen2(r)[i] # Byte(r, i - Start(r))
    BY <1>6
  <2>2. DOMAIN Seen2(r) = a .. (Next2(r) - 1)
    BY <1>6, CompareShape DEF a
  <2>3. Next2(r) = a + req[r].rcvd
    BY <1>6 DEF Goal, a
  <2>4. i \in a .. (a + len - 1)
    BY <1>1, <2>1, <2>2, <2>3
  <2>5. Seen2(r)[i] = c[i]
    BY <1>6, <2>1, GotIsPart DEF PartOf, c
  <2>6. \E j \in Start(r) .. (Start(r) + Call[r].len - 1) : c[j] # Byte(r, j - Start(r))
    BY <2>1, <2>4, <2>5 DEF a, len
  <2> QED BY <1>1, <1>2, <2>6, NotHeld DEF a, len, c
<1> QED BY <1>4, <1>5, <1>6

\* Some requests fail: one, or all that were active when the process died.
LEMMA FailMaps ==
    ASSUME SoloInv, NEW R \in SUBSET Request,
           NEW code \in {"404", "500", "short", "gone"},
           \A q \in R : req[q].pc # "done" /\ req'[q].resp = code,
           \A q \in Request \ R : req'[q].resp = req[q].resp,
           Visible' = Visible, Attached' = Attached
    PROVE  Maps
<1>1. \A q \in R : Replies[q] = "none"
  BY NotAnswered
<1>2. Replies' = [q \in Request |-> IF q \in R THEN code ELSE Replies[q]]
  BY DEF Replies
<1>3. Abstract!Fail
  BY <1>1, <1>2 DEF Abstract!Fail, Replies
<1> QED BY <1>3 DEF Maps, Abstract!Next

\* A handler answers for a reason, and leaves the store alone.
LEMMA AnswerMaps ==
    ASSUME SoloInv, NEW r \in Request, Answered(r), req[r].pc # "commit",
           \A q \in Request : q # r => req'[q] = req[q],
           UNCHANGED <<files, live, content>>
    PROVE  Maps
<1> DEFINE code == req'[r].resp
           o == req[r].blob
<1>1. req[r].pc # "done" /\ req'[r].blob = o /\ Reasons(r, code)
  BY DEF Answered, Becomes
<1>2. Visible' = Visible /\ Attached' = Attached
  BY <1>1, VisibleStays, AttachedStays
<1>3. Replies' = [Replies EXCEPT ![r] = code] /\ Replies[r] = "none"
  BY <1>1, ReplyGiven, NotAnswered
<1>4. CASE code \in {"404", "500", "short", "gone"}
  <2>1. {r} \in SUBSET Request /\ \A q \in Request \ {r} : req'[q].resp = req[q].resp
    OBVIOUS
  <2> QED BY <1>1, <1>2, <1>4, <2>1, FailMaps
<1>5. CASE /\ req[r].pc \in {"eof", "compare"} /\ code \in {"200", "409"}
           /\ o \in live => (code = "200" <=> Abstract!Holds(content[o], r))
  <2>1. CASE o \notin live
    BY <1>1, <1>2, <1>3, <1>5, <2>1, LateMaps
  <2>2. CASE o \in live
    <3>1. Op(r) \in {"put", "append"}
      BY <1>5, OpIs DEF SoloInv, OpFits, ComparePc
    <3>2. Abstract!Uploads(r) /\ r \in Attached
      BY <2>2, <3>1 DEF Abstract!Uploads, Op, Attached
    <3>3. Visible[Abstract!FileOf(r)] = content[o]
      BY <2>2, LiveFile DEF Abstract!FileOf, FileOf
    <3>4. CASE code = "200"
      <4>1. Abstract!Answer(r, {"200"})
        BY <1>3, <3>4 DEF Abstract!Answer, Replies
      <4>2. Abstract!Match(r)
        BY <1>2, <1>5, <2>2, <3>2, <3>3, <3>4, <4>1 DEF Abstract!Match
      <4> QED BY <4>2 DEF Maps, Abstract!Next
    <3>5. CASE code = "409"
      <4>1. Abstract!Answer(r, {"409"})
        BY <1>3, <3>5 DEF Abstract!Answer, Replies
      <4>2. Abstract!Conflict(r)
        BY <1>2, <1>5, <2>2, <3>2, <3>3, <3>5, <4>1 DEF Abstract!Conflict
      <4> QED BY <4>2 DEF Maps, Abstract!Next
    <3> QED BY <1>5, <3>4, <3>5
  <2> QED BY <2>1, <2>2
<1>6. CASE req[r].pc = "eof" /\ code = IF AtEof(r) THEN "200" ELSE "409"
  BY <1>5, <1>6, MatchIsTrue, ConflictIsTrue
<1>7. CASE /\ req[r].pc = "compare" /\ code = "409"
           /\ \/ DOMAIN Got(r) = {}
              \/ /\ Next2(r) = Goal(r)
                 /\ \E i \in DOMAIN Seen2(r) : Seen2(r)[i] # Byte(r, i - Start(r))
  BY <1>5, <1>7, ConflictIsTrue
<1>8. CASE req[r].pc = "stream" /\ code = "200"
  <2>1. Op(r) = "explore"
    BY <1>8, OpIs DEF SoloInv, OpFits
  <2>2. ~Abstract!Uploads(r)
    BY <2>1 DEF Abstract!Uploads, Op
  <2>3. Abstract!Answer(r, {"200"})
    BY <1>3, <1>8 DEF Abstract!Answer, Replies
  <2>4. Abstract!Download(r)
    BY <1>2, <2>2, <2>3 DEF Abstract!Download
  <2> QED BY <2>4 DEF Maps, Abstract!Next
<1> QED BY <1>1, <1>4, <1>6, <1>7, <1>8 DEF Reasons

-----------------------------------------------------------------------------
(* Every step maps *)

LEMMA EffectMaps ==
    ASSUME SoloInv, NEW r \in Request, Effect(r), TurnsMade
    PROVE  Maps
<1>1. CASE Refused(r) \/ Dropped(r)
  <2>1. /\ UNCHANGED <<files, live, content>> /\ req[r].pc # "done" /\ req'[r].pc = "done"
        /\ \A q \in Request : q # r => req'[q] = req[q]
    BY <1>1 DEF Refused, Dropped, StoreSame, Others
  <2>2. Answered(r)
    BY <2>1 DEF TurnsMade, Turn, Walked, Walks, Named, Sized, Rewound, Received,
       SoughtEnd, Wrote, Compared, Streamed, Becomes
  <2>3. CASE req[r].pc # "commit"
    BY <2>1, <2>2, <2>3, AnswerMaps
  <2>4. CASE req[r].pc = "commit"
    <3>1. req'[r].resp \in Failures
      BY <1>1, <2>4 DEF Refused, Dropped, WritePc
    <3>2. req'[r].resp \in {"404", "500", "short", "gone"}
      BY <2>2, <2>4, <3>1 DEF Answered, Reasons, Failures
    <3>3. Visible' = Visible /\ Attached' = Attached
      BY <2>1, <2>2, VisibleStays, AttachedStays DEF Answered, Becomes
    <3>4. {r} \in SUBSET Request /\ \A q \in Request \ {r} : req'[q].resp = req[q].resp
      BY <2>1
    <3> QED BY <2>1, <3>2, <3>3, <3>4, FailMaps
  <2> QED BY <2>3, <2>4
<1>2. CASE PutStarted(r) \/ AppendStarted(r) \/ ChunkTaken(r) \/ BodyEnded(r) \/ Sought(r)
           \/ Written(r) \/ Blocked(r)
  <2>1. /\ UNCHANGED <<files, live, content>>
        /\ \A q \in Request : q # r => req'[q] = req[q]
        /\ req'[r].blob = req[r].blob /\ req'[r].resp = req[r].resp
    BY <1>2 DEF PutStarted, AppendStarted, ChunkTaken, BodyEnded, Sought, Written, Blocked,
       Others, Same, StoreSame
  <2>2. Visible' = Visible /\ Attached' = Attached /\ Replies' = Replies
    BY <2>1, VisibleStays, AttachedStays, RepliesStay
  <2> QED BY <2>2, StutterMaps
<1> QED BY <1>1, <1>2, MovedMaps, CommittedMaps, CreatedMaps DEF Effect

LEMMA StepMaps ==
    ASSUME SoloInv, [Next /\ OneWriter']_vars
    PROVE  Maps
<1>1. [Next]_vars
  OBVIOUS
<1>2. Step /\ TurnsMade
  BY <1>1, EveryStepHasAnEffect, EveryHandlerTurns DEF SoloInv, IInv, TurnsMade
<1>3. CASE InBackground
  <2>1. UNCHANGED <<req, files, live, content>>
    BY <1>3 DEF InBackground
  <2>2. Visible' = Visible /\ Attached' = Attached /\ Replies' = Replies
    BY <2>1, VisibleStays, AttachedStays, RepliesStay
  <2> QED BY <2>2, StutterMaps
<1>4. CASE Crashed
  <2> DEFINE R == {q \in Request : req[q].pc \notin {"idle", "done"}}
  <2>1. /\ \A q \in R : req[q].pc # "done" /\ req'[q].resp = "gone"
        /\ \A q \in Request \ R : req'[q].resp = req[q].resp
        /\ \A q \in Request : req'[q].blob = req[q].blob
        /\ UNCHANGED <<files, live, content>>
    BY <1>4 DEF Crashed
  <2>2. Visible' = Visible /\ Attached' = Attached
    BY <2>1, VisibleStays, AttachedStays
  <2>3. R \in SUBSET Request
    OBVIOUS
  <2> HIDE DEF R
  <2> QED BY <2>1, <2>2, <2>3, FailMaps
<1> QED BY <1>2, <1>3, <1>4, EffectMaps, CollectedMaps DEF Step

\* The handlers of PUT, append and explore, the connections and transactions under
\* them, the deletion batch, disconnects and crashes together behave as an atomic file
\* store, while appends are not sent during other uploads to their file.
THEOREM ImplementsFileStoreHolds == SoloSpec => ImplementsFileStore
<1>1. Init => Abstract!Init
  BY InitMaps
<1>2. SoloInv /\ [Next /\ OneWriter']_vars => [Abstract!Next]_(Abstract!vars)
  BY StepMaps DEF Maps
<1> QED BY <1>1, <1>2, SoloInvariant, PTL DEF SoloSpec, ImplementsFileStore, Abstract!Spec
=============================================================================
