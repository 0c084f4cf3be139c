-------------------------- MODULE ServiceInvariant ---------------------------
(***************************************************************************)
(* The inductive invariants behind the safety properties of Service: what  *)
(* has to be true at every step of a handler for OnlyCommittedBytes,       *)
(* WholeBodyInOrder, NoHoles, AppendsPastSize and RowsAndBlobs to be kept  *)
(* (IInv), and, when appends do not overlap other uploads to their file,   *)
(* for DownloadAgrees and ImplementsFileStore (SoloInv); and who holds and *)
(* waits for which page locks, for NoDeadlock.                             *)
(***************************************************************************)
EXTENDS ServiceProperties

\* A handler has an answer exactly when it has returned.
AnsweredIsDone ==
    \A r \in Request : req[r].resp # "none" <=> req[r].pc = "done"

\* Only a handler that is about to write waits for, or has lost, a page lock.
BlockedIsWriting ==
    \A r \in Request : (wait[r] # {} \/ r \in lost) => req[r].pc = "write"

\* Before the insert, and before the handler takes the first chunk.
Unborn     == {"idle", "bucket", "create", "create_wait"}
BeforeBody == Unborn \cup {"find", "open", "size"}

\* A large object is untouched and unknown before its creator's insert.
FreshBlob ==
    \A r \in Request :
        req[r].pc \in Unborn =>
            /\ content[r] = Nothing
            /\ r \notin live
            /\ \A q \in Request \ {r} : req[q].blob # r

\* Pending writes belong to handlers that upload; the others have none.
WritesPending ==
    \A r \in Request :
        (req[r].pc \notin WritePc /\ ~Stored(r)) => written[r] = Nothing

\* The chunks received and written: one more is received than written exactly
\* while a chunk is in hand.
ChunkInHand ==
    \A r \in Request :
        /\ req[r].pc \in {"upload", "commit"} => req[r].stored = req[r].rcvd
        /\ req[r].pc = "commit" => req[r].rcvd = Call[r].len
        /\ req[r].pc \notin WritePc \cup {"done"} => req[r].stored = 0
        /\ req[r].pc \in BeforeBody => req[r].rcvd = 0

\* What an upload has written so far: the bytes taken from the body, in order,
\* all of them before the position of a write that is about to happen.
Layout ==
    \A r \in Request :
        /\ req[r].pc \in WritePc \/ Stored(r) =>
            /\ \A k \in 0 .. (req[r].stored - 1) :
                    \E i \in DOMAIN written[r] : written[r][i] = Byte(r, k)
            /\ \A i, j \in DOMAIN written[r] :
                    i < j => written[r][i][2] < written[r][j][2]
        /\ req[r].pc = "write" => \A i \in DOMAIN written[r] : i < req[r].pos
        /\ (req[r].pc = "done" /\ Stored(r) /\ req[r].stored > 0)
                => req[r].stored = Call[r].len

\* The position of a write lies within or at the end of what its session sees.
WritesWithinView ==
    \A r \in Request :
        (req[r].pc = "write" /\ req[r].blob \in live) =>
            \A j \in 0 .. (req[r].pos - 1) : j \in DOMAIN View(r, req[r].blob)

\* The size an append has seen stays covered by committed bytes.
SizeIsCovered ==
    \A r \in Request :
        (Op(r) = "append" /\ req[r].pc \in WritePc /\ req[r].blob \in live) =>
            /\ \A j \in 0 .. (req[r].size - 1) : j \in DOMAIN content[req[r].blob]
            /\ req[r].pc = "write" => req[r].pos >= req[r].size

IInv ==
    /\ TypeOK /\ AnsweredIsDone /\ BlockedIsWriting /\ FreshBlob
    /\ WritesPending /\ ChunkInHand /\ Layout /\ WritesWithinView /\ SizeIsCovered
    /\ OnlyCommittedBytes /\ NoHoles /\ AppendsPastSize /\ RowsAndBlobs

-----------------------------------------------------------------------------
(* Locks *)

OneHolder == \A s, q \in Session : s # q => held[s] \cap held[q] = {}

HoldersConnected == \A s \in Session : held[s] # {} \/ wait[s] # {} => s \in conn

\* The offsets an upload has written or is about to write.
Touched(r) ==
    DOMAIN written[r] \cup (IF req[r].pc = "write" THEN DOMAIN ChunkBytes(r) ELSE {})

\* An upload holds pages it has written, and, while it waits for a page of its chunk,
\* all pages of the chunk before that one.
HeldByWriter ==
    \A r \in Request : \A p \in held[r] :
        LET h == req[r] IN
        /\ h.pc \in WritePc
        /\ \E i \in Touched(r) : p = <<h.blob, i \div PageSize>>
        /\ h.pc = "write" =>
            \A k \in (h.pos \div PageSize) .. p[2] : <<h.blob, k>> \in held[r]

\* The batch locks the pages of a large object in ascending order, too.
HeldByBatch ==
    \A f \in gcTodo : \A p \in held[Gc] :
        p[1] = files[f] => \A k \in 0 .. p[2] : <<files[f], k>> \in held[Gc]

\* Page k of o is what s waits for, behind all pages of o that it holds.
WaitsAt(s, o, k) ==
    /\ \A q \in wait[s] : <<o, k>> \in held[q]
    /\ \A p \in held[s] : p[1] = o => p[2] < k
    /\ s \in Request => o = req[s].blob

WaitsAbove ==
    \A s \in Session : wait[s] # {} => \E o \in Request, k \in Nat : WaitsAt(s, o, k)

-----------------------------------------------------------------------------
(* When appends do not overlap other uploads to their file *)

\* A handler works on a large object that was created under its file's name.
NamesFit ==
    /\ \A f \in DOMAIN files : FileOf(files[f]) = f
    /\ \A r \in Request : FileOf(req[r].blob) = FileOf(r)

\* Large objects are created by PUTs, which then work on them.
Creators ==
    \A r \in live : /\ Op(r) = "put" /\ req[r].blob = r
                    /\ req[r].pc \notin Unborn \cup {"find"}

ComparePc == {"check", "compare", "eof"}

\* The branches of the three handlers.
OpFits ==
    \A r \in Request :
        /\ Op(r) = "put" =>
            /\ req[r].pc \notin {"size", "metadata", "stream"} /\ req[r].size = 0
            /\ req[r].pc \in WritePc => req[r].blob = r
        /\ Op(r) = "append" => req[r].pc \notin {"create", "create_wait", "metadata", "stream"}
        /\ Op(r) = "explore" =>
            req[r].pc \notin {"create", "create_wait"} \cup WritePc \cup ComparePc

\* Nobody else extends the file of an upload: the file ends where the handler
\* found it to end, and what the handler has written follows.
WriterFits ==
    \A r \in Request :
        LET o == req[r].blob
            n == req[r].size
        IN  /\ (req[r].pc \in WritePc /\ o \in live) =>
                /\ DOMAIN content[o] = 0 .. (n - 1)
                /\ DOMAIN written[r] = n .. (n + req[r].stored - 1)
                /\ \A i \in DOMAIN written[r] : written[r][i] = Byte(r, i - n)
                /\ req[r].pc = "write" => req[r].pos = n + req[r].stored
                /\ Op(r) = "append" => Call[r].off > n
            /\ (req[r].pc = "open" /\ o = r /\ o \in live) => DOMAIN content[o] = {}

BeforeReads == BeforeBody \cup WritePc \cup {"rewind", "metadata"}

\* What a handler has read from a file that still exists is what the file has.
SeenFits ==
    \A r \in Request :
        /\ req[r].pc \in BeforeReads => req[r].seen = Nothing
        /\ req[r].blob \in live => \A i \in DOMAIN req[r].seen :
            /\ i \in DOMAIN content[req[r].blob]
            /\ req[r].seen[i] = content[req[r].blob][i]

\* What check_range_matches has read and compared so far.
CompareFits ==
    \A r \in Request :
        /\ req[r].pc = "rewind" => req[r].rcvd = 0
        /\ req[r].pc \in ComparePc => DOMAIN req[r].seen = Start(r) .. (req[r].pos - 1)
        /\ req[r].pc = "compare" =>
            Start(r) <= req[r].pos /\ req[r].pos < Start(r) + req[r].rcvd
        /\ req[r].pc \in {"check", "eof"} =>
            /\ req[r].pos = Start(r) + req[r].rcvd
            /\ \A i \in DOMAIN req[r].seen : req[r].seen[i] = Byte(r, i - Start(r))
        /\ req[r].pc = "eof" => req[r].rcvd = Call[r].len
        /\ (/\ Op(r) = "append" /\ req[r].pc \in ComparePc \cup {"rewind"}
            /\ req[r].blob \in live) =>
                \A j \in 0 .. (Call[r].off - 1) : j \in DOMAIN content[req[r].blob]

\* How much a download has sent: all of Content-Length once it is complete.
DownloadFits ==
    \A r \in Request : Op(r) = "explore" =>
        /\ req[r].pc = "metadata" => req[r].pos = 0
        /\ req[r].pc = "stream" =>
            DOMAIN req[r].seen = {i \in 0 .. (req[r].pos - 1) : i < req[r].size}
        /\ req[r].resp = "200" => DOMAIN req[r].seen = 0 .. (req[r].size - 1)

SoloInv ==
    /\ IInv /\ OneWriter /\ NamesFit /\ Creators /\ OpFits
    /\ WriterFits /\ SeenFits /\ CompareFits /\ DownloadFits
=============================================================================
