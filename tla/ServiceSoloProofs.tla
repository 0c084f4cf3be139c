-------------------------- MODULE ServiceSoloProofs --------------------------
(***************************************************************************)
(* The inductive invariant of SoloSpec, and DownloadAgrees, for every      *)
(* value of the constants.                                                 *)
(*                                                                         *)
(* ServiceSafetyProofs says what a step does to the store; the first part  *)
(* of this module says what it does to the record of a handler ("turns").  *)
(* A conjunct of the invariant relates a handler to its file, so that it   *)
(* is kept by every turn of the handler and by every way in which the      *)
(* contents of a live file can change meanwhile.                           *)
(***************************************************************************)
EXTENDS ServiceSafetyProofs

-----------------------------------------------------------------------------
(* Turns *)

\* Every field of a handler after its turn, except the answer.
Becomes(r, pc, blob, pos, size, rcvd, stored, seen) ==
    /\ req'[r].pc = pc /\ req'[r].blob = blob /\ req'[r].pos = pos
    /\ req'[r].size = size /\ req'[r].rcvd = rcvd /\ req'[r].stored = stored
    /\ req'[r].seen = seen

\* The handler goes on to pc.
Walks(r, pc) ==
    LET h == req[r] IN
    /\ Becomes(r, pc, h.blob, h.pos, h.size, h.rcvd, h.stored, h.seen)
    /\ h.pc # "done" /\ req'[r].resp = h.resp

Walked(r) ==
    \/ req[r].pc = "idle" /\ Walks(r, "bucket")
    \/ req[r].pc = "bucket" /\ Walks(r, IF Op(r) = "put" THEN "create" ELSE "find")
    \/ req[r].pc = "create" /\ Walks(r, "create_wait")
    \/ req[r].pc \in {"create", "create_wait"} /\ Walks(r, "find")
    \/ /\ req[r].pc = "open" /\ req[r].blob \in live
       /\ Walks(r, IF Op(r) # "put" THEN "size"
                   ELSE IF req[r].blob = r THEN "upload" ELSE "rewind")
    \/ req[r].pc = "metadata" /\ Walks(r, "stream")
    \/ req[r].pc = "upload" /\ req[r].rcvd = Call[r].len /\ Walks(r, "commit")
    \/ req[r].pc = "check" /\ req[r].rcvd = Call[r].len /\ Walks(r, "eof")

\* create_file, or find_file: the handler has a large object.
Named(r) ==
    LET h == req[r] IN
    /\ req'[r].resp = h.resp
    /\ \/ /\ h.pc \in {"create", "create_wait"}
          /\ Becomes(r, "open", r, h.pos, h.size, h.rcvd, h.stored, h.seen)
       \/ /\ h.pc = "find" /\ FileOf(r) \in DOMAIN files
          /\ Becomes(r, "open", files[FileOf(r)], h.pos, h.size, h.rcvd, h.stored, h.seen)

Sized(r) ==
    LET h == req[r]
        n == Size(View(r, h.blob))
    IN  /\ h.pc = "size" /\ req'[r].resp = h.resp
        /\ \/ /\ Op(r) = "append" /\ Call[r].off > n
              /\ Becomes(r, "upload", h.blob, n, n, h.rcvd, h.stored, h.seen)
           \/ /\ ~(Op(r) = "append" /\ Call[r].off > n)
              /\ Becomes(r, "rewind", h.blob, n, n, h.rcvd, h.stored, h.seen)

Rewound(r) ==
    LET h == req[r] IN
    /\ h.pc = "rewind" /\ req'[r].resp = h.resp
    /\ Becomes(r, IF Op(r) = "explore" THEN "metadata" ELSE "check",
               h.blob, Start(r), h.size, h.rcvd, h.stored, h.seen)

Received(r) ==
    LET h == req[r] IN
    /\ h.pc \in {"upload", "check"} /\ req'[r].resp = h.resp
    /\ \E n \in 1 .. (Call[r].len - h.rcvd) :
         Becomes(r, IF h.pc = "upload" THEN "seek_end" ELSE "compare",
                 h.blob, h.pos, h.size, h.rcvd + n, h.stored, h.seen)

SoughtEnd(r) ==
    LET h == req[r]
        n == Size(View(r, h.blob))
    IN  /\ req'[r].resp = h.resp
        /\ \/ /\ h.pc = "seek_end"
              /\ Becomes(r, "write", h.blob, n, h.size, h.rcvd, h.stored, h.seen)
           \/ /\ h.pc = "upload"
              /\ Becomes(r, "upload", h.blob, n, h.size, h.rcvd, h.stored, h.seen)

Wrote(r) ==
    LET h == req[r] IN
    /\ h.pc = "write" /\ req'[r].resp = h.resp
    /\ written'[r] = Overlay(written[r], ChunkBytes(r))
    /\ Becomes(r, "upload", h.blob, h.pos + h.rcvd - h.stored, h.size, h.rcvd, h.rcvd, h.seen)

\* What check_range_matches reads of the chunk in hand.
Goal(r) == Start(r) + req[r].rcvd
Got(r)  == Slice(View(r, req[r].blob), req[r].pos, Goal(r) - req[r].pos)
Next2(r) == req[r].pos + Cardinality(DOMAIN Got(r))
Seen2(r) == Overlay(req[r].seen, Got(r))

Compared(r) ==
    LET h == req[r] IN
    /\ h.pc = "compare" /\ req'[r].resp = h.resp
    /\ \/ /\ Next2(r) < Goal(r)
          /\ Becomes(r, "compare", h.blob, Next2(r), h.size, h.rcvd, h.stored, Seen2(r))
       \/ /\ Next2(r) = Goal(r)
          /\ \A i \in DOMAIN Seen2(r) : Seen2(r)[i] = Byte(r, i - Start(r))
          /\ Becomes(r, "check", h.blob, Next2(r), h.size, h.rcvd, h.stored, Seen2(r))

\* What a download reads for one chunk of its body.
Part(r) == Slice(View(r, req[r].blob), req[r].pos, BufSize)
Sent(r) == [i \in {j \in DOMAIN Part(r) : j < req[r].size} |-> Part(r)[i]]

Streamed(r) ==
    LET h == req[r] IN
    /\ h.pc = "stream" /\ h.pos < h.size /\ req'[r].resp = h.resp
    /\ Becomes(r, "stream", h.blob, h.pos + Cardinality(DOMAIN Part(r)), h.size, h.rcvd,
               h.stored, Overlay(h.seen, Sent(r)))

\* Why a handler answers as it does.
Reasons(r, code) ==
    \/ code \in {"404", "500", "short", "gone"}
    \/ req[r].pc = "eof" /\ code = IF AtEof(r) THEN "200" ELSE "409"
    \/ req[r].pc = "compare" /\ code = "409" /\
        \/ DOMAIN Got(r) = {}
        \/ /\ Next2(r) = Goal(r)
           /\ \E i \in DOMAIN Seen2(r) : Seen2(r)[i] # Byte(r, i - Start(r))
    \/ req[r].pc = "stream" /\ code = "200" /\ req[r].pos >= req[r].size
    \/ req[r].pc = "commit" /\ code \in {"200", "unheard"}

Answered(r) ==
    LET h == req[r] IN
    /\ h.pc # "done" /\ Reasons(r, req'[r].resp)
    /\ Becomes(r, "done", h.blob, h.pos, h.size, h.rcvd, h.stored, h.seen)

Turn(r) ==
    \/ Walked(r) \/ Named(r) \/ Sized(r) \/ Rewound(r) \/ Received(r) \/ SoughtEnd(r)
    \/ Wrote(r) \/ Compared(r) \/ Streamed(r) \/ Answered(r)

\* At most one handler has its turn.
OneTurn(r) ==
    /\ \A q \in Request : q # r => req'[q] = req[q]
    /\ req'[r] = req[r] \/ Turn(r)

-----------------------------------------------------------------------------
(* Every action gives one handler its turn *)

LEMMA GotoTurn ==
    ASSUME TypeOK, NEW r \in Request, NEW pc, Goto(r, pc), req[r].pc # "done"
    PROVE  Walks(r, pc) /\ \A q \in Request : q # r => req'[q] = req[q]
<1>1. /\ req = [q \in Request |-> req[q]] /\ HandlerTypeOK(req[r])
  BY HandlerFacts
<1>2. req' = [req EXCEPT ![r].pc = pc]
  BY DEF Goto
<1> QED BY <1>1, <1>2 DEF HandlerTypeOK, Walks, Becomes

LEMMA ReplyTurn ==
    ASSUME TypeOK, NEW r \in Request, NEW code, Reply(r, code), req[r].pc # "done",
           Reasons(r, code)
    PROVE  OneTurn(r)
<1>1. /\ req = [q \in Request |-> req[q]] /\ HandlerTypeOK(req[r])
  BY HandlerFacts
<1>2. req' = [req EXCEPT ![r].pc = "done", ![r].resp = code]
  BY DEF Reply
<1>3. /\ req'[r].resp = code
      /\ Becomes(r, "done", req[r].blob, req[r].pos, req[r].size, req[r].rcvd,
                 req[r].stored, req[r].seen)
      /\ \A q \in Request : q # r => req'[q] = req[q]
  BY <1>1, <1>2 DEF HandlerTypeOK, Becomes
<1> QED BY <1>3 DEF OneTurn, Turn, Answered

\* The other forms of an update.
LEMMA BlobTurn ==
    ASSUME TypeOK, NEW r \in Request, NEW o,
           req' = [req EXCEPT ![r].pc = "open", ![r].blob = o]
    PROVE  /\ \A q \in Request : q # r => req'[q] = req[q]
           /\ req'[r].resp = req[r].resp
           /\ Becomes(r, "open", o, req[r].pos, req[r].size, req[r].rcvd,
                      req[r].stored, req[r].seen)
<1>1. /\ req = [q \in Request |-> req[q]] /\ HandlerTypeOK(req[r])
  BY HandlerFacts
<1> QED BY <1>1 DEF HandlerTypeOK, Becomes

LEMMA SizeTurn ==
    ASSUME TypeOK, NEW r \in Request, NEW n, NEW pc,
           req' = [req EXCEPT ![r].size = n, ![r].pos = n, ![r].pc = pc]
    PROVE  /\ \A q \in Request : q # r => req'[q] = req[q]
           /\ req'[r].resp = req[r].resp
           /\ Becomes(r, pc, req[r].blob, n, n, req[r].rcvd, req[r].stored, req[r].seen)
<1>1. /\ req = [q \in Request |-> req[q]] /\ HandlerTypeOK(req[r])
  BY HandlerFacts
<1> QED BY <1>1 DEF HandlerTypeOK, Becomes

LEMMA SeekTurn ==
    ASSUME TypeOK, NEW r \in Request, NEW n, NEW pc,
           req' = [req EXCEPT ![r].pos = n, ![r].pc = pc]
    PROVE  /\ \A q \in Request : q # r => req'[q] = req[q]
           /\ req'[r].resp = req[r].resp
           /\ Becomes(r, pc, req[r].blob, n, req[r].size, req[r].rcvd, req[r].stored,
                      req[r].seen)
<1>1. /\ req = [q \in Request |-> req[q]] /\ HandlerTypeOK(req[r])
  BY HandlerFacts
<1> QED BY <1>1 DEF HandlerTypeOK, Becomes

LEMMA ReadTurn ==
    ASSUME TypeOK, NEW r \in Request, NEW n, NEW s, NEW pc,
           \/ req' = [req EXCEPT ![r].seen = s, ![r].pos = n, ![r].pc = pc]
           \/ req' = [req EXCEPT ![r].seen = s, ![r].pos = n] /\ pc = req[r].pc
    PROVE  /\ \A q \in Request : q # r => req'[q] = req[q]
           /\ req'[r].resp = req[r].resp
           /\ Becomes(r, pc, req[r].blob, n, req[r].size, req[r].rcvd, req[r].stored, s)
<1>1. /\ req = [q \in Request |-> req[q]] /\ HandlerTypeOK(req[r])
  BY HandlerFacts
<1>2. CASE req' = [req EXCEPT ![r].seen = s, ![r].pos = n, ![r].pc = pc]
  BY <1>1, <1>2 DEF HandlerTypeOK, Becomes
<1>3. CASE req' = [req EXCEPT ![r].seen = s, ![r].pos = n] /\ pc = req[r].pc
  BY <1>1, <1>3 DEF HandlerTypeOK, Becomes
<1> QED BY <1>2, <1>3

LEMMA ChunkTurn ==
    ASSUME TypeOK, NEW r \in Request, NextChunk(r)
    PROVE  OneTurn(r)
<1>1. /\ req = [q \in Request |-> req[q]] /\ HandlerTypeOK(req[r])
  BY HandlerFacts
<1>2. PICK n \in 1 .. (Call[r].len - req[r].rcvd) :
        req' = [req EXCEPT ![r].rcvd = @ + n,
                           ![r].pc = IF @ = "upload" THEN "seek_end" ELSE "compare"]
  BY DEF NextChunk
<1> DEFINE m == req[r].rcvd + n
           pc == IF req[r].pc = "upload" THEN "seek_end" ELSE "compare"
<1>3. req' = [req EXCEPT ![r].rcvd = m, ![r].pc = pc]
  BY <1>2
<1> HIDE DEF m, pc
<1>4. /\ \A q \in Request : q # r => req'[q] = req[q]
      /\ req'[r].resp = req[r].resp
      /\ Becomes(r, pc, req[r].blob, req[r].pos, req[r].size, m, req[r].stored, req[r].seen)
  BY <1>1, <1>3 DEF HandlerTypeOK, Becomes
<1>5. Received(r)
  BY <1>4 DEF Received, NextChunk, m, pc
<1> QED BY <1>4, <1>5 DEF OneTurn, Turn

LEMMA WriteTurn ==
    ASSUME TypeOK, NEW r \in Request, Write(r)
    PROVE  OneTurn(r)
<1>1. /\ req = [q \in Request |-> req[q]] /\ HandlerTypeOK(req[r])
  BY HandlerFacts
<1> DEFINE p == req[r].pos + req[r].rcvd - req[r].stored
<1>2. req' = [req EXCEPT ![r].pos = p, ![r].stored = req[r].rcvd, ![r].pc = "upload"]
  BY <1>1 DEF Write
<1> HIDE DEF p
<1>3. /\ \A q \in Request : q # r => req'[q] = req[q]
      /\ req'[r].resp = req[r].resp
      /\ Becomes(r, "upload", req[r].blob, p, req[r].size, req[r].rcvd, req[r].rcvd,
                 req[r].seen)
  BY <1>1, <1>2 DEF HandlerTypeOK, Becomes
<1>4. written'[r] = Overlay(written[r], ChunkBytes(r)) /\ req[r].pc = "write"
  BY DEF Write, WriteBlob, TypeOK, StoreTypeOK
<1>5. Wrote(r)
  BY <1>3, <1>4 DEF Wrote, p
<1> QED BY <1>3, <1>5 DEF OneTurn, Turn

LEMMA CompareTurn ==
    ASSUME TypeOK, NEW r \in Request, Compare(r)
    PROVE  OneTurn(r)
<1>1. req[r].pc = "compare"
  BY DEF Compare
<1>2. CASE DOMAIN Got(r) = {} /\ DropAndReply(r, "409")
  BY <1>1, <1>2, ReplyTurn DEF DropAndReply, Reasons
<1>3. CASE /\ Next2(r) < Goal(r)
           /\ req' = [req EXCEPT ![r].seen = Seen2(r), ![r].pos = Next2(r)]
  <2>1. /\ \A q \in Request : q # r => req'[q] = req[q]
        /\ req'[r].resp = req[r].resp
        /\ Becomes(r, "compare", req[r].blob, Next2(r), req[r].size, req[r].rcvd,
                   req[r].stored, Seen2(r))
    BY <1>1, <1>3, ReadTurn
  <2> QED BY <1>1, <1>3, <2>1 DEF OneTurn, Turn, Compared
<1>4. CASE /\ Next2(r) = Goal(r)
           /\ \A i \in DOMAIN Seen2(r) : Seen2(r)[i] = Byte(r, i - Start(r))
           /\ req' = [req EXCEPT ![r].seen = Seen2(r), ![r].pos = Next2(r), ![r].pc = "check"]
  <2>1. /\ \A q \in Request : q # r => req'[q] = req[q]
        /\ req'[r].resp = req[r].resp
        /\ Becomes(r, "check", req[r].blob, Next2(r), req[r].size, req[r].rcvd,
                   req[r].stored, Seen2(r))
    BY <1>4, ReadTurn
  <2> QED BY <1>1, <1>4, <2>1 DEF OneTurn, Turn, Compared
<1>5. CASE /\ Next2(r) = Goal(r)
           /\ \E i \in DOMAIN Seen2(r) : Seen2(r)[i] # Byte(r, i - Start(r))
           /\ DropAndReply(r, "409")
  BY <1>1, <1>5, ReplyTurn DEF DropAndReply, Reasons
<1> QED BY <1>2, <1>3, <1>4, <1>5 DEF Compare, Goal, Got, Next2, Seen2

LEMMA StreamTurn ==
    ASSUME TypeOK, NEW r \in Request, Stream(r)
    PROVE  OneTurn(r)
<1>1. req[r].pc = "stream"
  BY DEF Stream
<1>2. CASE req[r].pos >= req[r].size /\ DropAndReply(r, "200")
  BY <1>1, <1>2, ReplyTurn DEF DropAndReply, Reasons
<1>3. CASE DropAndReply(r, "short")
  BY <1>1, <1>3, ReplyTurn DEF DropAndReply, Reasons
<1>4. CASE /\ req[r].pos < req[r].size
           /\ req' = [req EXCEPT ![r].seen = Overlay(@, Sent(r)),
                                 ![r].pos = @ + Cardinality(DOMAIN Part(r))]
  <2> DEFINE s == Overlay(req[r].seen, Sent(r))
             n == req[r].pos + Cardinality(DOMAIN Part(r))
  <2>1. req' = [req EXCEPT ![r].seen = s, ![r].pos = n]
    BY <1>4, HandlerFacts
  <2> HIDE DEF s, n
  <2>2. /\ \A q \in Request : q # r => req'[q] = req[q]
        /\ req'[r].resp = req[r].resp
        /\ Becomes(r, "stream", req[r].blob, n, req[r].size, req[r].rcvd,
                   req[r].stored, s)
    BY <1>1, <2>1, ReadTurn
  <2> QED BY <1>1, <1>4, <2>2 DEF OneTurn, Turn, Streamed, s, n
<1> QED BY <1>2, <1>3, <1>4 DEF Stream, Part, Sent

LEMMA SizedTurn ==
    ASSUME TypeOK, NEW r \in Request, SeekForSize(r)
    PROVE  OneTurn(r)
<1> DEFINE n == Size(View(r, req[r].blob))
           up == Op(r) = "append" /\ Call[r].off > n
<1>1. /\ req[r].pc = "size"
      /\ req' = [req EXCEPT ![r].size = n, ![r].pos = n,
                            ![r].pc = IF up THEN "upload" ELSE "rewind"]
  BY DEF SeekForSize, Beyond
<1> HIDE DEF n, up
<1>2. /\ \A q \in Request : q # r => req'[q] = req[q]
      /\ req'[r].resp = req[r].resp
      /\ Becomes(r, IF up THEN "upload" ELSE "rewind", req[r].blob, n, n, req[r].rcvd,
                 req[r].stored, req[r].seen)
  BY <1>1, SizeTurn
<1>3. Sized(r)
  <2>1. CASE up
    BY <1>1, <1>2, <2>1 DEF Sized, n, up
  <2>2. CASE ~up
    BY <1>1, <1>2, <2>2 DEF Sized, n, up
  <2> QED BY <2>1, <2>2
<1> QED BY <1>2, <1>3 DEF OneTurn, Turn

LEMMA ServeTurns ==
    ASSUME TypeOK, BlockedIsWriting, NEW r \in Request, Serve(r)
    PROVE  OneTurn(r)
<1>1. CASE FindBucket(r)
  <2>1. CASE Reply(r, "404")
    BY <1>1, <2>1, ReplyTurn DEF FindBucket, Reasons
  <2>2. CASE Goto(r, IF Op(r) = "put" THEN "create" ELSE "find")
    BY <1>1, <2>2, GotoTurn DEF FindBucket, OneTurn, Turn, Walked
  <2> QED BY <1>1, <2>1, <2>2 DEF FindBucket
<1>2. CASE CreateBlocks(r)
  BY <1>2, GotoTurn DEF CreateBlocks, OneTurn, Turn, Walked
<1>3. CASE CreateFile(r)
  BY <1>3, BlobTurn DEF CreateFile, InsertRuns, OneTurn, Turn, Named
<1>4. CASE CreateExists(r)
  BY <1>4, GotoTurn DEF CreateExists, InsertRuns, OneTurn, Turn, Walked
<1>5. CASE FindFile(r)
  <2>1. CASE Reply(r, IF Op(r) = "put" THEN "500" ELSE "404")
    BY <1>5, <2>1, ReplyTurn DEF FindFile, Reasons
  <2>2. CASE /\ FileOf(r) \in DOMAIN files
             /\ req' = [req EXCEPT ![r].pc = "open", ![r].blob = files[FileOf(r)]]
    BY <1>5, <2>2, BlobTurn DEF FindFile, OneTurn, Turn, Named
  <2> QED BY <1>5, <2>1, <2>2 DEF FindFile
<1>6. CASE OpenHandle(r)
  BY <1>6, GotoTurn DEF OpenHandle, OneTurn, Turn, Walked
<1>7. CASE OpenFails(r)
  BY <1>7, ReplyTurn DEF OpenFails, Reasons
<1>8. CASE SeekToStart(r)
  BY <1>8, SeekTurn DEF SeekToStart, OneTurn, Turn, Rewound
<1>9. CASE SeekToEnd(r)
  BY <1>9, SeekTurn DEF SeekToEnd, EndOfFile, OneTurn, Turn, SoughtEnd
<1>10. CASE WriteBlocks(r)
  BY <1>10 DEF WriteBlocks, OneTurn
<1>11. CASE WriteFails(r)
  BY <1>11, ReplyTurn DEF WriteFails, BlockedIsWriting, DropAndReply, Reasons
<1>12. CASE Commit(r)
  BY <1>12, ReplyTurn DEF Commit, Reasons
<1>13. CASE CheckEof(r)
  BY <1>13, ReplyTurn DEF CheckEof, DropAndReply, Reasons
<1>14. CASE Metadata(r)
  <2>1. CASE DropAndReply(r, "500")
    BY <1>14, <2>1, ReplyTurn DEF Metadata, DropAndReply, Reasons
  <2>2. CASE Goto(r, "stream")
    BY <1>14, <2>2, GotoTurn DEF Metadata, OneTurn, Turn, Walked
  <2> QED BY <1>14, <2>1, <2>2 DEF Metadata
<1> QED BY <1>1, <1>2, <1>3, <1>4, <1>5, <1>6, <1>7, <1>8, <1>9, <1>10, <1>11, <1>12, <1>13,
        <1>14, SizedTurn, WriteTurn, CompareTurn, StreamTurn DEF Serve

LEMMA EveryHandlerTurns ==
    ASSUME TypeOK, BlockedIsWriting, [Next]_vars, NEW q \in Request
    PROVE  req'[q] = req[q] \/ Turn(q)
<1>1. ASSUME NEW r \in Request, OneTurn(r) PROVE req'[q] = req[q] \/ Turn(q)
  BY <1>1 DEF OneTurn
<1>2. ASSUME NEW r \in Request, Arrive(r) PROVE OneTurn(r)
  BY <1>2, GotoTurn DEF Arrive, OneTurn, Turn, Walked
<1>3. ASSUME NEW r \in Request, BodyEnds(r) PROVE OneTurn(r)
  <2>1. CASE req[r].pc = "upload"
    BY <1>3, <2>1, GotoTurn DEF BodyEnds, OneTurn, Turn, Walked
  <2>2. CASE req[r].pc = "check"
    BY <1>3, <2>2, GotoTurn DEF BodyEnds, OneTurn, Turn, Walked
  <2> QED BY <1>3, <2>1, <2>2 DEF BodyEnds
<1>9. ASSUME NEW r \in Request, EmptyChunk(r) PROVE OneTurn(r)
  <2> DEFINE n == EndOfFile(r)
  <2>1. req' = [req EXCEPT ![r].pos = n] /\ req[r].pc = "upload"
    BY <1>9 DEF EmptyChunk
  <2> HIDE DEF n
  <2>2. /\ \A s \in Request : s # r => req'[s] = req[s]
        /\ req'[r].resp = req[r].resp
        /\ Becomes(r, "upload", req[r].blob, n, req[r].size, req[r].rcvd,
                   req[r].stored, req[r].seen)
    BY <2>1, HandlerFacts DEF HandlerTypeOK, Becomes
  <2> QED BY <2>1, <2>2 DEF EndOfFile, OneTurn, Turn, SoughtEnd, n
<1>4. ASSUME NEW r \in Request, AcquireTimesOut(r) PROVE OneTurn(r)
  BY <1>4, ReplyTurn DEF AcquireTimesOut, Reasons
<1>5. ASSUME NEW r \in Request, Abandon(r) PROVE OneTurn(r)
  BY <1>5, ReplyTurn DEF Abandon, Active, DropAndReply, Reasons
<1>6. ASSUME NEW r \in Request, CommitUnheard(r) PROVE OneTurn(r)
  BY <1>6, ReplyTurn DEF CommitUnheard, Reasons
<1>7. CASE Crash
  <2>1. HandlerTypeOK(req[q])
    BY HandlerFacts
  <2>2. /\ ~Active(q) => req'[q] = req[q]
        /\ Active(q) => req'[q] = [req[q] EXCEPT !.pc = "done", !.resp = "gone"]
    BY <1>7 DEF Crash
  <2>3. Active(q) => Answered(q)
    BY <2>1, <2>2 DEF HandlerTypeOK, Active, Answered, Reasons, Becomes
  <2> QED BY <2>2, <2>3 DEF Turn
<1>8. CASE \/ \E b \in Bucket : CreateBucket(b)
           \/ \E f \in File : Expire(f)
           \/ Collect \/ Quiet \/ UNCHANGED vars
  BY <1>8 DEF CreateBucket, Expire, Collect, GcBegin, GcUnlink, GcBlocks, GcCommit, GcFails,
     Quiet, vars, serviceVars
<1> QED BY <1>1, <1>2, <1>3, <1>4, <1>5, <1>6, <1>7, <1>8, <1>9, ServeTurns, ChunkTurn
        DEF Next, ClientSends

-----------------------------------------------------------------------------
(* Names and branches *)

TurnsMade == \A q \in Request : req'[q] = req[q] \/ Turn(q)

\* A row after a step was there before, or is the one just inserted.
LEMMA RowStep ==
    ASSUME Step, NEW f \in DOMAIN files'
    PROVE  \/ f \in DOMAIN files /\ files'[f] = files[f]
           \/ \E r \in Request : Created(r) /\ f = FileOf(r) /\ files'[f] = r
<1>1. CASE UNCHANGED files
  BY <1>1
<1>2. ASSUME NEW r \in Request, Effect(r), ~Created(r) PROVE UNCHANGED files
  BY <1>2 DEF Effect, Moved, Refused, PutStarted, AppendStarted, ChunkTaken,
     BodyEnded, Sought, Written, Blocked, Committed, Dropped, StoreSame
<1>3. InBackground \/ Crashed => UNCHANGED files
  BY DEF InBackground, Crashed
<1>4. ASSUME NEW r \in Request, Created(r)
      PROVE  \/ f \in DOMAIN files /\ files'[f] = files[f]
             \/ f = FileOf(r) /\ files'[f] = r
  BY <1>4 DEF Created
<1>5. CASE Collected
  BY <1>5 DEF Collected
<1> QED BY <1>1, <1>2, <1>3, <1>4, <1>5 DEF Step

LEMMA NamesKept ==
    ASSUME TypeOK, NamesFit, Step, TurnsMade
    PROVE  NamesFit'
<1>1. ASSUME NEW f \in DOMAIN files' PROVE FileOf(files'[f]) = f
  BY RowStep DEF NamesFit
<1>2. ASSUME NEW q \in Request PROVE FileOf(req'[q].blob) = FileOf(q)
  <2>1. CASE req'[q].blob = req[q].blob
    BY <2>1 DEF NamesFit
  <2>2. CASE Named(q)
    BY <2>2 DEF Named, Becomes, NamesFit
  <2>3. CASE Turn(q) /\ ~Named(q)
    BY <2>1, <2>3 DEF Turn, Walked, Walks, Sized, Rewound, Received, SoughtEnd, Wrote,
       Compared, Streamed, Answered, Becomes
  <2> QED BY <2>1, <2>2, <2>3 DEF TurnsMade
<1> QED BY <1>1, <1>2 DEF NamesFit, FileOf

\* A handler that has left find keeps its large object and does not go back.
LEMMA GoesOn ==
    ASSUME TurnsMade, NEW q \in Request, req[q].pc \notin Unborn \cup {"find"}
    PROVE  /\ req'[q].blob = req[q].blob
           /\ req'[q].pc \notin Unborn \cup {"find"}
           /\ req'[q].pc = "open" => req'[q] = req[q]
<1>1. CASE req'[q] = req[q]
  BY <1>1
<1>2. CASE Walked(q)
  BY <1>2 DEF Walked, Walks, Becomes, Unborn
<1>3. CASE Sized(q) \/ Rewound(q)
  BY <1>3 DEF Sized, Rewound, Becomes, Unborn
<1>4. CASE Received(q) \/ SoughtEnd(q) \/ Wrote(q)
  BY <1>4 DEF Received, SoughtEnd, Wrote, Becomes, Unborn
<1>5. CASE Compared(q) \/ Streamed(q) \/ Answered(q)
  BY <1>5 DEF Compared, Streamed, Answered, Becomes, Unborn
<1>6. ~Named(q)
  BY DEF Named, Unborn
<1> QED BY <1>1, <1>2, <1>3, <1>4, <1>5, <1>6 DEF TurnsMade, Turn

LEMMA CreatorsKept ==
    ASSUME TypeOK, Creators, OpFits, Step, TurnsMade
    PROVE  Creators'
<1> SUFFICES ASSUME NEW r \in live'
             PROVE  /\ Op(r) = "put" /\ req'[r].blob = r
                    /\ req'[r].pc \notin Unborn \cup {"find"}
  BY DEF Creators, Op
<1>1. r \in Request /\ (r \in live \/ Created(r))
  BY LiveStep
<1>2. CASE r \in live
  BY <1>1, <1>2, GoesOn DEF Creators
<1>3. CASE Created(r)
  <2>1. req[r].pc \in {"create", "create_wait"}
    BY <1>3 DEF Created
  <2>2. Call[r].op \in {"put", "append", "explore"}
    BY <1>1, CallType
  <2>3. Op(r) = "put"
    BY <1>1, <2>1, <2>2 DEF OpFits, Op
  <2> QED BY <1>3, <2>3 DEF Created, Unborn
<1> QED BY <1>1, <1>2, <1>3

LEMMA OpIs == ASSUME NEW r \in Request PROVE Op(r) \in {"put", "append", "explore"}
  BY CallType DEF Op

LEMMA OpFitsKept ==
    ASSUME TypeOK, OpFits, TurnsMade
    PROVE  OpFits'
<1> SUFFICES ASSUME NEW q \in Request
             PROVE  /\ Op(q) = "put" =>
                        /\ req'[q].pc \notin {"size", "metadata", "stream"}
                        /\ req'[q].size = 0
                        /\ req'[q].pc \in WritePc => req'[q].blob = q
                    /\ Op(q) = "append" =>
                        req'[q].pc \notin {"create", "create_wait", "metadata", "stream"}
                    /\ Op(q) = "explore" =>
                        req'[q].pc \notin {"create", "create_wait"} \cup WritePc \cup ComparePc
  BY DEF OpFits, Op
<1> USE OpIs DEF OpFits, WritePc, ComparePc, Becomes
<1>1. CASE req'[q] = req[q]
  BY <1>1
<1>2. CASE Walked(q)
  BY <1>2 DEF Walked, Walks
<1>3. CASE Named(q)
  BY <1>3 DEF Named
<1>4. CASE Sized(q)
  BY <1>4 DEF Sized
<1>5. CASE Rewound(q)
  BY <1>5 DEF Rewound
<1>6. CASE Received(q)
  BY <1>6 DEF Received
<1>7. CASE SoughtEnd(q) \/ Wrote(q)
  BY <1>7 DEF SoughtEnd, Wrote
<1>8. CASE Compared(q) \/ Streamed(q) \/ Answered(q)
  BY <1>8 DEF Compared, Streamed, Answered
<1> QED BY <1>1, <1>2, <1>3, <1>4, <1>5, <1>6, <1>7, <1>8 DEF TurnsMade, Turn

-----------------------------------------------------------------------------
(* The contents of live files *)

\* The file of a handler that has found it was live before the step.
LEMMA FileStays ==
    ASSUME TypeOK, FreshBlob, Step, NEW q \in Request, req[q].pc \notin Unborn,
           req[q].blob \in live'
    PROVE  req[q].blob \in live
<1> DEFINE o == req[q].blob
<1> HIDE DEF o
<1>1. o = req[q].blob /\ o \in live'
  BY DEF o
<1>2. o \in Request /\ (o \in live \/ Created(o))
  BY <1>1, LiveStep
<1>3. ASSUME Created(o) PROVE FALSE
  <2>1. req[o].pc \in Unborn
    BY <1>3 DEF Created, Unborn
  <2>2. q = o
    BY <1>1, <1>2, <2>1 DEF FreshBlob
  <2> QED BY <2>1, <2>2
<1> QED BY <1>1, <1>2, <1>3

\* Nobody commits to the file of an append that is in flight, or to the file that a
\* PUT has created and not yet committed.
LEMMA WriterAlone ==
    ASSUME TypeOK, OneWriter, NamesFit, OpFits, NEW q \in Request, Active(q),
           Op(q) = "append" \/ (Op(q) = "put" /\ req[q].blob = q),
           NEW w \in Request, w # q, req[w].pc = "commit", req[w].blob = req[q].blob
    PROVE  FALSE
<1>1. FileOf(w) = FileOf(q)
  BY DEF NamesFit
<1>2. Active(w) /\ req[w].pc \in WritePc
  BY DEF Active, WritePc
<1>3. Op(w) \in {"put", "append"}
  BY <1>2, OpIs DEF OpFits
<1>4. ~(Op(w) = "append" /\ Uploads(q)) /\ ~(Op(q) = "append" /\ Uploads(w))
  BY <1>1, <1>2 DEF OneWriter
<1>5. Op(w) = "put" /\ Op(q) = "put"
  BY <1>3, <1>4 DEF Uploads
<1>6. req[w].blob = w
  BY <1>2, <1>5 DEF OpFits
<1> QED BY <1>5, <1>6

\* Commits add to live files and change nothing that was there.
LEMMA LiveGrows ==
    ASSUME TypeOK, WriterFits, Step, NEW o \in live, o \in live'
    PROVE  \A i \in DOMAIN content[o] :
                i \in DOMAIN content'[o] /\ content'[o][i] = content[o][i]
<1>1. CASE content'[o] = content[o]
  BY <1>1
<1>2. ASSUME NEW r \in Request, Committed(r), req[r].blob = o,
             content'[o] = Overlay(content[o], written[r])
      PROVE  \A i \in DOMAIN content[o] :
                i \in DOMAIN content'[o] /\ content'[o][i] = content[o][i]
  <2> DEFINE n == req[r].size
             m == req[r].stored
  <2>1. n \in Nat /\ m \in Nat
    BY HandlerFacts DEF HandlerTypeOK
  <2>2. /\ DOMAIN content[o] = 0 .. (n - 1)
        /\ DOMAIN written[r] = n .. (n + m - 1)
    BY <1>2 DEF WriterFits, Committed, WritePc
  <2> HIDE DEF n, m
  <2>3. \A i \in DOMAIN content[o] : i \notin DOMAIN written[r]
    BY <2>1, <2>2
  <2>4. content'[o] = Overlay(content[o], written[r])
    BY <1>2
  <2> QED BY <2>3, <2>4 DEF Overlay
<1> QED BY <1>1, <1>2, LiveStep

\* A file without holes that ends at m.
LEMMA SizeOf ==
    ASSUME NEW c, NEW m \in Nat, DOMAIN c = 0 .. (m - 1)
    PROVE  Size(c) = m
<1>1. DOMAIN c \subseteq Nat
  OBVIOUS
<1>2. Bounded(DOMAIN c)
  <2>1. CASE m = 0
    BY <2>1 DEF Bounded
  <2>2. CASE m # 0
    <3>1. m - 1 \in DOMAIN c /\ \A i \in DOMAIN c : i <= m - 1
      BY <2>2
    <3> QED BY <3>1 DEF Bounded
  <2> QED BY <2>1, <2>2
<1> DEFINE n == Size(c)
<1>3. /\ n \in Nat /\ (\A i \in DOMAIN c : i < n)
      /\ (n # 0 => n - 1 \in DOMAIN c)
  BY <1>1, <1>2, SizeIsEnd
<1> HIDE DEF n
<1>4. n = m
  <2>1. CASE m = 0
    BY <1>3, <2>1
  <2>2. CASE m # 0
    <3>1. m - 1 \in DOMAIN c
      BY <2>2
    <3>2. m - 1 < n
      BY <1>3, <3>1
    <3> QED BY <1>3, <2>2, <3>2
  <2> QED BY <2>1, <2>2
<1> QED BY <1>4 DEF n

LEMMA LiveIsPrefix ==
    ASSUME TypeOK, NoHoles, NEW o \in live
    PROVE  /\ Size(content[o]) \in Nat
           /\ DOMAIN content[o] = 0 .. (Size(content[o]) - 1)
<1> DEFINE c == content[o]
           n == Size(c)
<1>1. DOMAIN c \subseteq Nat /\ Bounded(DOMAIN c)
  BY DEF TypeOK, StoreTypeOK, IsContent
<1>2. /\ n \in Nat /\ (\A i \in DOMAIN c : i < n)
      /\ (n # 0 => n - 1 \in DOMAIN c)
  BY <1>1, SizeIsEnd
<1>3. \A i \in DOMAIN c : 0 .. i \subseteq DOMAIN c
  BY DEF NoHoles
<1> HIDE DEF c, n
<1>4. DOMAIN c = 0 .. (n - 1)
  <2>1. CASE n = 0
    BY <1>1, <1>2, <2>1
  <2>2. CASE n # 0
    <3>1. 0 .. (n - 1) \subseteq DOMAIN c
      BY <1>2, <1>3, <2>2
    <3>2. \A i \in DOMAIN c : i \in Nat /\ i < n
      BY <1>1, <1>2
    <3>3. \A i \in DOMAIN c : i \in 0 .. (n - 1)
      BY <1>2, <3>2
    <3> QED BY <3>1, <3>3
  <2> QED BY <2>1, <2>2
<1> QED BY <1>2, <1>4 DEF c, n

\* A session that has written nothing sees what is committed.
LEMMA NothingWritten ==
    ASSUME TypeOK, AnsweredIsDone, WritesPending, NEW q \in Request,
           req[q].pc \notin WritePc \cup {"done"}, NEW o \in Request
    PROVE  /\ written[q] = Nothing
           /\ View(q, o) = content[o]
<1>1. written[q] = Nothing
  BY DEF WritesPending, AnsweredIsDone, Stored
<1>2. content[o] = [i \in DOMAIN content[o] |-> content[o][i]]
  BY DEF TypeOK, StoreTypeOK, IsContent
<1>3. View(q, o) = [i \in DOMAIN content[o] |-> content[o][i]]
  BY <1>1 DEF View, Overlay, Nothing
<1> QED BY <1>1, <1>2, <1>3

-----------------------------------------------------------------------------
(* Uploads *)

\* The file of an upload in flight stays as it is.
LEMMA WriterUndisturbed ==
    ASSUME TypeOK, FreshBlob, OneWriter, NamesFit, OpFits, Step, NEW q \in Request,
           req[q].pc \notin Unborn, Active(q), req'[q].pc # "done",
           Op(q) = "append" \/ (Op(q) = "put" /\ req[q].blob = q),
           req[q].blob \in live'
    PROVE  req[q].blob \in live /\ content'[req[q].blob] = content[req[q].blob]
<1> DEFINE o == req[q].blob
<1>1. o \in live
  BY FileStays
<1>2. ASSUME NEW w \in Request, Committed(w), req[w].blob = o PROVE FALSE
  <2>1. w # q /\ req[w].pc = "commit"
    BY <1>2 DEF Committed
  <2> QED BY <1>2, <2>1, WriterAlone
<1> HIDE DEF o
<1>3. o \in live'
  BY DEF o
<1>4. content'[o] = content[o]
  <2>1. CASE Created(o)
    BY <1>3, <2>1, LiveStep DEF Created
  <2> QED BY <1>2, <1>3, <2>1, LiveStep
<1> QED BY <1>1, <1>4 DEF o

\* c is a file that ends at n, and w the first a bytes of r's body after it.
Continues(r, n, a, c, w) ==
    /\ DOMAIN c = 0 .. (n - 1)
    /\ DOMAIN w = n .. (n + a - 1)
    /\ \A i \in DOMAIN w : w[i] = Byte(r, i - n)

LEMMA NothingContinues ==
    ASSUME NEW r, NEW n \in Nat, NEW c, DOMAIN c = 0 .. (n - 1)
    PROVE  Continues(r, n, 0, c, Nothing)
  BY DEF Continues, Nothing

LEMMA ContinuesView ==
    ASSUME NEW r \in Request, NEW o, NEW n \in Nat, NEW a \in Nat,
           Continues(r, n, a, content[o], written[r])
    PROVE  Size(View(r, o)) = n + a
<1>1. DOMAIN View(r, o) = (0 .. (n - 1)) \cup (n .. (n + a - 1))
  BY ViewDomain DEF Continues
<1>2. DOMAIN View(r, o) = 0 .. ((n + a) - 1)
  BY <1>1
<1> HIDE DEF View
<1> QED BY <1>2, SizeOf

LEMMA ChunkContinues ==
    ASSUME TypeOK, NEW r \in Request, NEW n \in Nat, NEW c,
           Continues(r, n, req[r].stored, c, written[r]),
           req[r].pos = n + req[r].stored
    PROVE  Continues(r, n, req[r].rcvd, c, Overlay(written[r], ChunkBytes(r)))
<1> DEFINE p == req[r].pos
           a == req[r].stored
           b == req[r].rcvd
           v == written[r]
           w == Overlay(written[r], ChunkBytes(r))
<1>1. /\ p \in Nat /\ a \in Nat /\ b \in Nat /\ a <= b
      /\ DOMAIN w = DOMAIN v \cup (p .. (p + b - a - 1))
      /\ \A i \in p .. (p + b - a - 1) : w[i] = Byte(r, a + (i - p))
      /\ \A i \in DOMAIN v : i < p => w[i] = v[i]
  BY ChunkShape
<1>2. /\ DOMAIN c = 0 .. (n - 1) /\ DOMAIN v = n .. (n + a - 1)
      /\ \A i \in DOMAIN v : v[i] = Byte(r, i - n)
      /\ p = n + a
  BY DEF Continues
<1> HIDE DEF p, a, b, v, w
<1>3. DOMAIN w = n .. (n + b - 1)
  BY <1>1, <1>2
<1>4. ASSUME NEW i \in DOMAIN w PROVE w[i] = Byte(r, i - n)
  <2>1. i \in Int /\ n <= i /\ i <= n + b - 1
    BY <1>1, <1>3
  <2>2. CASE i < p
    <3>1. i \in DOMAIN v
      BY <1>1, <1>2, <2>1, <2>2
    <3> QED BY <1>1, <1>2, <2>2, <3>1
  <2>3. CASE p <= i
    <3>1. i \in p .. (p + b - a - 1) /\ a + (i - p) = i - n
      BY <1>1, <1>2, <2>1, <2>3
    <3> QED BY <1>1, <3>1
  <2> QED BY <1>1, <2>1, <2>2, <2>3
<1>5. Continues(r, n, b, c, w)
  BY <1>2, <1>3, <1>4 DEF Continues
<1> QED BY <1>5 DEF b, w

LEMMA WriterFitsIs ==
    WriterFits <=> \A r \in Request :
        /\ (req[r].pc \in WritePc /\ req[r].blob \in live) =>
            /\ Continues(r, req[r].size, req[r].stored, content[req[r].blob], written[r])
            /\ req[r].pc = "write" => req[r].pos = req[r].size + req[r].stored
            /\ Op(r) = "append" => Call[r].off > req[r].size
        /\ (req[r].pc = "open" /\ req[r].blob = r /\ req[r].blob \in live) =>
                DOMAIN content[req[r].blob] = {}
  BY Zenon DEF WriterFits, Continues

\* A file that its creator has not opened yet is empty.
LEMMA OpenFileIsEmpty ==
    ASSUME IInv, OneWriter, NamesFit, Creators, OpFits, WriterFits, Step, TurnsMade,
           NEW q \in Request, req'[q].pc = "open", req'[q].blob = q, q \in live'
    PROVE  DOMAIN content'[q] = {}
<1> USE DEF IInv
<1>1. CASE req[q].pc \in Unborn
  <2>1. content[q] = Nothing /\ q \notin live
    BY <1>1 DEF FreshBlob
  <2>2. content'[q] = content[q]
    BY <2>1, LiveStep
  <2> QED BY <2>1, <2>2 DEF Nothing
<1>2. req[q].pc # "find" \/ q \notin live
  BY DEF Creators
<1>3. CASE req[q].pc = "find"
  <2>1. Named(q)
    BY <1>3 DEF TurnsMade, Turn, Walked, Walks, Sized, Rewound, Received, SoughtEnd, Wrote,
       Compared, Streamed, Answered, Becomes
  <2>2. FileOf(q) \in DOMAIN files /\ files[FileOf(q)] = q
    BY <1>3, <2>1 DEF Named, Becomes
  <2> QED BY <1>2, <1>3, <2>2 DEF RowsAndBlobs
<1>4. CASE req[q].pc \notin Unborn \cup {"find"}
  <2>1. req'[q] = req[q]
    BY <1>4, GoesOn
  <2>2. req[q].blob \in live
    BY <1>4, <2>1, FileStays
  <2>3. Op(q) = "put" /\ Active(q)
    BY <2>1, <2>2 DEF Creators, Active
  <2>4. content'[q] = content[q]
    BY <1>4, <2>1, <2>3, WriterUndisturbed
  <2>5. DOMAIN content[q] = {}
    BY <2>1, <2>2, WriterFitsIs
  <2> QED BY <2>4, <2>5
<1> QED BY <1>1, <1>3, <1>4

\* The handlers that start to upload.
LEMMA PutBegins ==
    ASSUME IInv, OpFits, WriterFits, NEW q \in Request, PutStarted(q), TurnsMade,
           req[q].blob \in live
    PROVE  /\ Op(q) = "put" /\ req[q].blob = q
           /\ Continues(q, req[q].size, req[q].stored, content[q], written[q])
<1>1. req[q].pc = "open" /\ req'[q].pc = "upload" /\ Op(q) = "put"
  BY DEF PutStarted
<1>2. Walked(q)
  BY <1>1 DEF TurnsMade, Turn, Named, Sized, Rewound, Received, SoughtEnd, Wrote,
     Compared, Streamed, Answered, Becomes
<1>3. req[q].blob = q
  BY <1>1, <1>2 DEF Walked, Walks, Becomes
<1>4. DOMAIN content[q] = {}
  BY <1>1, <1>3, WriterFitsIs
<1>5. written[q] = Nothing /\ req[q].stored = 0 /\ req[q].size = 0
  BY <1>1, NothingWritten DEF IInv, ChunkInHand, OpFits, WritePc
<1>6. DOMAIN content[q] = 0 .. (0 - 1)
  BY <1>4
<1> QED BY <1>1, <1>3, <1>5, <1>6, NothingContinues

LEMMA AppendBegins ==
    ASSUME IInv, OpFits, NEW q \in Request, AppendStarted(q), TurnsMade,
           req[q].blob \in live
    PROVE  /\ Op(q) = "append" /\ Call[q].off > req'[q].size
           /\ Continues(q, req'[q].size, req[q].stored, content[req[q].blob], written[q])
<1> DEFINE o == req[q].blob
<1>1. /\ req[q].pc = "size" /\ req'[q].pc = "upload"
      /\ req'[q].size = Size(View(q, o))
  BY DEF AppendStarted
<1>2. Sized(q)
  BY <1>1 DEF TurnsMade, Turn, Walked, Walks, Named, Rewound, Received, SoughtEnd, Wrote,
     Compared, Streamed, Answered, Becomes
<1>3. Op(q) = "append" /\ Call[q].off > Size(View(q, o))
  BY <1>1, <1>2 DEF Sized, Becomes
<1>4. o \in Request
  BY HandlerFacts DEF IInv, HandlerTypeOK
<1>5. /\ written[q] = Nothing /\ View(q, o) = content[o] /\ req[q].stored = 0
  BY <1>1, <1>4, NothingWritten DEF IInv, ChunkInHand, WritePc
<1>6. /\ Size(content[o]) \in Nat
      /\ DOMAIN content[o] = 0 .. (Size(content[o]) - 1)
  BY <1>4, LiveIsPrefix DEF IInv
<1>7. Continues(q, Size(content[o]), 0, content[o], Nothing)
  BY <1>6, NothingContinues
<1> QED BY <1>1, <1>3, <1>5, <1>7

LEMMA WriterFitsKept ==
    ASSUME IInv, OneWriter, NamesFit, Creators, OpFits, WriterFits, Step, TurnsMade
    PROVE  WriterFits'
<1> SUFFICES ASSUME NEW q \in Request
             PROVE  /\ (req'[q].pc \in WritePc /\ req'[q].blob \in live') =>
                        /\ Continues(q, req'[q].size, req'[q].stored,
                                     content'[req'[q].blob], written'[q])
                        /\ req'[q].pc = "write" => req'[q].pos = req'[q].size + req'[q].stored
                        /\ Op(q) = "append" => Call[q].off > req'[q].size
                    /\ (req'[q].pc = "open" /\ req'[q].blob = q /\ req'[q].blob \in live') =>
                            DOMAIN content'[req'[q].blob] = {}
  BY Zenon DEF WriterFits, Continues, Op, Byte
<1>1. ASSUME req'[q].pc = "open", req'[q].blob = q, req'[q].blob \in live'
      PROVE  DOMAIN content'[req'[q].blob] = {}
  BY <1>1, OpenFileIsEmpty
<1>2. ASSUME req'[q].pc \in WritePc, req'[q].blob \in live'
      PROVE  /\ Continues(q, req'[q].size, req'[q].stored, content'[req'[q].blob], written'[q])
             /\ req'[q].pc = "write" => req'[q].pos = req'[q].size + req'[q].stored
             /\ Op(q) = "append" => Call[q].off > req'[q].size
  <2> DEFINE o == req[q].blob
  <2>1. \/ req'[q] = req[q] /\ written'[q] = written[q]
        \/ PutStarted(q) \/ AppendStarted(q) \/ ChunkTaken(q) \/ BodyEnded(q)
        \/ Sought(q) \/ Written(q)
    BY <1>2, WriterStep
  <2>2. /\ req[q].pc \in WritePc \cup {"open", "size"}
        /\ req'[q].blob = o
    BY <1>2, <2>1 DEF PutStarted, AppendStarted, ChunkTaken, BodyEnded, Sought, Written,
       Same, WritePc
  <2>3. o \in live
    BY <1>2, <2>2, FileStays DEF IInv, WritePc, Unborn
  <2>4. Op(q) = "append" \/ (Op(q) = "put" /\ o = q)
    <3>1. CASE PutStarted(q)
      BY <2>3, <3>1, PutBegins
    <3>2. CASE AppendStarted(q)
      BY <2>3, <3>2, AppendBegins
    <3>3. CASE ~PutStarted(q) /\ ~AppendStarted(q)
      <4>1. req[q].pc \in WritePc
        BY <1>2, <2>1, <3>3 DEF ChunkTaken, BodyEnded, Sought, Written, WritePc
      <4> QED BY <4>1, OpIs DEF OpFits
    <3> QED BY <3>1, <3>2, <3>3
  <2>5. content'[o] = content[o]
    BY <1>2, <2>2, <2>4, WriterUndisturbed DEF IInv, WritePc, Unborn, Active
  <2>6. req[q].pc \in WritePc =>
            /\ Continues(q, req[q].size, req[q].stored, content[o], written[q])
            /\ req[q].pc = "write" => req[q].pos = req[q].size + req[q].stored
            /\ Op(q) = "append" => Call[q].off > req[q].size
    BY <2>3, WriterFitsIs
  <2>7. /\ req[q].size \in Nat /\ req[q].stored \in Nat /\ Call[q].off \in Nat
        /\ o \in Request
    BY HandlerFacts DEF IInv, HandlerTypeOK
  <2>8. CASE req'[q] = req[q] /\ written'[q] = written[q]
    BY <1>2, <2>5, <2>6, <2>8
  <2>9. CASE PutStarted(q)
    <3>1. /\ Op(q) = "put" /\ o = q
          /\ Continues(q, req[q].size, req[q].stored, content[q], written[q])
      BY <2>3, <2>9, PutBegins
    <3>2. /\ req'[q].pc = "upload" /\ req'[q].size = req[q].size
          /\ req'[q].stored = req[q].stored /\ written' = written
      BY <2>9 DEF PutStarted, Same, StoreSame
    <3> QED BY <2>2, <2>5, <3>1, <3>2
  <2>10. CASE AppendStarted(q)
    <3>1. /\ Op(q) = "append" /\ Call[q].off > req'[q].size
          /\ Continues(q, req'[q].size, req[q].stored, content[o], written[q])
      BY <2>3, <2>10, AppendBegins
    <3>2. /\ req'[q].pc = "upload"
          /\ req'[q].stored = req[q].stored /\ written' = written
      BY <2>10 DEF AppendStarted, StoreSame
    <3> QED BY <2>2, <2>5, <3>1, <3>2
  <2>11. CASE ChunkTaken(q) \/ BodyEnded(q)
    <3>1. /\ req'[q].pc # "write" /\ req'[q].size = req[q].size /\ req[q].pc \in WritePc
          /\ req'[q].stored = req[q].stored /\ written' = written
      BY <2>11 DEF ChunkTaken, BodyEnded, Same, StoreSame, WritePc
    <3> QED BY <2>2, <2>5, <2>6, <3>1
  <2>12. CASE Sought(q)
    <3>1. /\ req'[q].size = req[q].size /\ req[q].pc \in WritePc
          /\ req'[q].stored = req[q].stored /\ written' = written
          /\ req'[q].pos = Size(View(q, o))
      BY <2>12 DEF Sought, StoreSame, WritePc
    <3>2. Size(View(q, o)) = req[q].size + req[q].stored
      BY <2>6, <2>7, <3>1, ContinuesView
    <3> QED BY <2>2, <2>5, <2>6, <3>1, <3>2
  <2>13. CASE Written(q)
    <3>1. /\ req'[q].pc = "upload" /\ req'[q].size = req[q].size /\ req[q].pc = "write"
          /\ req'[q].stored = req[q].rcvd
          /\ written'[q] = Overlay(written[q], ChunkBytes(q))
      BY <2>13 DEF Written
    <3>2. Continues(q, req[q].size, req[q].rcvd, content[o], Overlay(written[q], ChunkBytes(q)))
      BY <2>6, <2>7, <3>1, ChunkContinues DEF IInv, WritePc
    <3> QED BY <2>2, <2>5, <2>6, <3>1, <3>2 DEF WritePc
  <2> QED BY <2>1, <2>8, <2>9, <2>10, <2>11, <2>12, <2>13
<1> QED BY <1>1, <1>2

-----------------------------------------------------------------------------
(* Reads *)

LEMMA RunBelow ==
    ASSUME NEW p \in Nat, NEW n \in Nat, NEW m \in Nat
    PROVE  \E e \in Nat : /\ e <= n
                          /\ {j \in p .. (p + n - 1) : j < m} = p .. (p + e - 1)
                          /\ e < n => m <= p + e
<1>1. CASE m <= p
  <2>1. {j \in p .. (p + n - 1) : j < m} = p .. (p + 0 - 1)
    BY <1>1
  <2> QED BY <1>1, <2>1
<1>2. CASE p < m /\ m < p + n
  <2> DEFINE e == m - p
  <2>1. e \in Nat /\ e <= n /\ m = p + e
    BY <1>2
  <2> HIDE DEF e
  <2>2. {j \in p .. (p + n - 1) : j < m} = p .. (p + e - 1)
    BY <2>1
  <2> QED BY <2>1, <2>2
<1>3. CASE p + n <= m
  <2>1. {j \in p .. (p + n - 1) : j < m} = p .. (p + n - 1)
    BY <1>3
  <2> QED BY <2>1
<1>4. m <= p \/ (p < m /\ m < p + n) \/ p + n <= m
  OBVIOUS
<1> QED BY <1>1, <1>2, <1>3, <1>4, Zenon

\* A read of at most n bytes from p is a run of bytes that starts at p; it is shorter
\* than n only at the end.
LEMMA SliceShape ==
    ASSUME NEW c, Size(c) \in Nat, NEW p \in Nat, NEW n \in Nat
    PROVE  LET d == DOMAIN Slice(c, p, n)
               k == Cardinality(d)
           IN  /\ k \in Nat /\ k <= n
               /\ d = p .. (p + k - 1)
               /\ \A i \in d : i < Size(c)
               /\ k < n => Size(c) <= p + k
<1> DEFINE d == DOMAIN Slice(c, p, n)
           m == Size(c)
<1>1. d = {j \in p .. (p + n - 1) : j < m}
  BY DEF Slice
<1>2. PICK e \in Nat : /\ e <= n
                       /\ {j \in p .. (p + n - 1) : j < m} = p .. (p + e - 1)
                       /\ e < n => m <= p + e
  BY RunBelow
<1> HIDE DEF d, m
<1>3. Cardinality(p .. (p + e - 1)) = e
  <2>1. Cardinality(p .. (p + e - 1)) = IF p > p + e - 1 THEN 0 ELSE (p + e - 1) - p + 1
    BY <1>2, FS_Interval
  <2> QED BY <2>1
<1>4. Cardinality(d) = e /\ d = p .. (p + e - 1)
  BY <1>1, <1>2, <1>3
<1>5. \A i \in d : i < m
  BY <1>1
<1> QED BY <1>2, <1>4, <1>5 DEF d, m

\* A handler that does not upload reads what is committed.
LEMMA ReadsContent ==
    ASSUME TypeOK, AnsweredIsDone, WritesPending, NoHoles, NEW q \in Request,
           req[q].pc \notin WritePc \cup {"done"}, NEW o \in live,
           NEW p \in Nat, NEW n \in Int,
           NEW i \in DOMAIN Slice(View(q, o), p, n)
    PROVE  i \in DOMAIN content[o] /\ Slice(View(q, o), p, n)[i] = content[o][i]
<1> DEFINE c == content[o]
<1>1. View(q, o) = c
  BY NothingWritten DEF TypeOK, StoreTypeOK
<1>2. Size(c) \in Nat /\ DOMAIN c = 0 .. (Size(c) - 1)
  BY LiveIsPrefix
<1>3. i \in p .. (p + n - 1) /\ i < Size(View(q, o))
  BY DEF Slice
<1>4. Slice(View(q, o), p, n)[i] = IF i \in DOMAIN View(q, o) THEN View(q, o)[i] ELSE Zero
  BY DEF Slice
<1> HIDE DEF c
<1>5. i \in DOMAIN c
  BY <1>1, <1>2, <1>3
<1> QED BY <1>1, <1>4, <1>5 DEF c

\* s is part of the file o.
PartOf(s, o) == \A i \in DOMAIN s : i \in DOMAIN content[o] /\ s[i] = content[o][i]

LEMMA GotIsPart ==
    ASSUME IInv, SeenFits, NEW q \in Request, req[q].pc = "compare", req[q].blob \in live
    PROVE  PartOf(Seen2(q), req[q].blob)
<1> DEFINE o == req[q].blob
           g == Got(q)
           n == Goal(q) - req[q].pos
<1>1. req[q].pos \in Nat /\ n \in Int
  BY HandlerFacts, StartIsNat DEF IInv, HandlerTypeOK, Goal
<1>2. g = Slice(View(q, o), req[q].pos, n)
  BY DEF Got
<1> HIDE DEF n
<1>3. \A i \in DOMAIN g : i \in DOMAIN content[o] /\ g[i] = content[o][i]
  BY <1>1, <1>2, ReadsContent DEF IInv, WritePc
<1>4. \A i \in DOMAIN req[q].seen : i \in DOMAIN content[o] /\ req[q].seen[i] = content[o][i]
  BY DEF SeenFits
<1>5. Seen2(q) = Overlay(req[q].seen, g)
  BY DEF Seen2
<1> HIDE DEF g, o
<1>6. PartOf(Overlay(req[q].seen, g), o)
  BY <1>3, <1>4 DEF Overlay, PartOf
<1> QED BY <1>5, <1>6 DEF o

LEMMA SentIsPart ==
    ASSUME IInv, SeenFits, NEW q \in Request, req[q].pc = "stream", req[q].blob \in live
    PROVE  PartOf(Overlay(req[q].seen, Sent(q)), req[q].blob)
<1> DEFINE o == req[q].blob
           g == Part(q)
           s == Sent(q)
<1>1. req[q].pos \in Nat /\ BufSize \in Int
  BY HandlerFacts, BufSizeIsPos DEF IInv, HandlerTypeOK
<1>2. g = Slice(View(q, o), req[q].pos, BufSize)
  BY DEF Part
<1>3. \A i \in DOMAIN g : i \in DOMAIN content[o] /\ g[i] = content[o][i]
  BY <1>1, <1>2, ReadsContent DEF IInv, WritePc
<1>4. \A i \in DOMAIN req[q].seen : i \in DOMAIN content[o] /\ req[q].seen[i] = content[o][i]
  BY DEF SeenFits
<1>5. \A i \in DOMAIN s : i \in DOMAIN g /\ s[i] = g[i]
  BY DEF Sent
<1> HIDE DEF g, o, s
<1>6. PartOf(Overlay(req[q].seen, s), o)
  BY <1>3, <1>4, <1>5 DEF Overlay, PartOf
<1> QED BY <1>6 DEF o, s

LEMMA SeenFitsKept ==
    ASSUME IInv, WriterFits, SeenFits, Step, TurnsMade
    PROVE  SeenFits'
<1> SUFFICES ASSUME NEW q \in Request
             PROVE  /\ req'[q].pc \in BeforeReads => req'[q].seen = Nothing
                    /\ req'[q].blob \in live' => \A i \in DOMAIN req'[q].seen :
                        /\ i \in DOMAIN content'[req'[q].blob]
                        /\ req'[q].seen[i] = content'[req'[q].blob][i]
  BY DEF SeenFits
<1>1. req[q].pc \in BeforeReads => req[q].seen = Nothing
  BY DEF SeenFits
\* What was part of the file still is.
<1>2. ASSUME NEW s, req[q].pc \notin BeforeReads, req'[q].blob = req[q].blob,
             req'[q].blob \in live', req[q].blob \in live => PartOf(s, req[q].blob)
      PROVE  \A i \in DOMAIN s : /\ i \in DOMAIN content'[req'[q].blob]
                                 /\ s[i] = content'[req'[q].blob][i]
  <2> DEFINE o == req[q].blob
  <2>1. o \in live
    BY <1>2, FileStays DEF IInv, BeforeReads, BeforeBody
  <2>2. \A i \in DOMAIN content[o] : i \in DOMAIN content'[o] /\ content'[o][i] = content[o][i]
    BY <1>2, <2>1, LiveGrows DEF IInv
  <2> QED BY <1>2, <2>1, <2>2 DEF PartOf
<1>3. req[q].blob \in live => PartOf(req[q].seen, req[q].blob)
  BY DEF SeenFits, PartOf
<1>4. CASE /\ req'[q].seen = req[q].seen /\ req'[q].blob = req[q].blob
           /\ req'[q].pc \in BeforeReads => req[q].pc \in BeforeReads
  <2>1. CASE req[q].pc \in BeforeReads
    BY <1>1, <1>4, <2>1 DEF Nothing
  <2>2. CASE req[q].pc \notin BeforeReads
    BY <1>2, <1>3, <1>4, <2>2
  <2> QED BY <2>1, <2>2
<1>5. CASE req'[q] = req[q]
  BY <1>4, <1>5
<1>6. CASE Walked(q) \/ Answered(q)
  BY <1>4, <1>6 DEF Walked, Walks, Answered, Becomes, BeforeReads, BeforeBody, Unborn, WritePc
<1>7. CASE Named(q)
  <2>1. req[q].pc \in BeforeReads /\ req'[q].seen = req[q].seen
    BY <1>7 DEF Named, Becomes, BeforeReads, BeforeBody, Unborn
  <2> QED BY <1>1, <2>1 DEF Nothing
<1>8. CASE Sized(q) \/ Rewound(q) \/ SoughtEnd(q) \/ Wrote(q)
  <2>1. /\ req[q].pc \in BeforeReads /\ req'[q].seen = req[q].seen
        /\ req'[q].blob = req[q].blob
    BY <1>8 DEF Sized, Rewound, SoughtEnd, Wrote, Becomes, BeforeReads, BeforeBody, WritePc
  <2> QED BY <1>4, <2>1
<1>9. CASE Received(q)
  <2>1. /\ req'[q].seen = req[q].seen /\ req'[q].blob = req[q].blob
        /\ \/ req[q].pc = "upload" 
           \/ req[q].pc = "check" /\ req'[q].pc = "compare"
    BY <1>9 DEF Received, Becomes
  <2> QED BY <1>4, <2>1 DEF BeforeReads, BeforeBody, Unborn, WritePc
<1>10. CASE Compared(q)
  <2>1. /\ req[q].pc = "compare" /\ req'[q].pc \in {"compare", "check"}
        /\ req'[q].seen = Seen2(q) /\ req'[q].blob = req[q].blob
    BY <1>10 DEF Compared, Becomes
  <2>2. req[q].pc \notin BeforeReads /\ req'[q].pc \notin BeforeReads
    BY <2>1 DEF BeforeReads, BeforeBody, Unborn, WritePc
  <2>3. req[q].blob \in live => PartOf(Seen2(q), req[q].blob)
    BY <2>1, GotIsPart
  <2> HIDE DEF Seen2
  <2> QED BY <1>2, <2>1, <2>2, <2>3
<1>11. CASE Streamed(q)
  <2> DEFINE s == Overlay(req[q].seen, Sent(q))
  <2>1. /\ req[q].pc = "stream" /\ req'[q].pc = "stream"
        /\ req'[q].seen = s /\ req'[q].blob = req[q].blob
    BY <1>11 DEF Streamed, Becomes
  <2>2. req[q].pc \notin BeforeReads /\ req'[q].pc \notin BeforeReads
    BY <2>1 DEF BeforeReads, BeforeBody, Unborn, WritePc
  <2>3. req[q].blob \in live => PartOf(s, req[q].blob)
    BY <2>1, SentIsPart
  <2> HIDE DEF s
  <2> QED BY <1>2, <2>1, <2>2, <2>3
<1> QED BY <1>5, <1>6, <1>7, <1>8, <1>9, <1>10, <1>11 DEF TurnsMade, Turn

LEMMA CompareShape ==
    ASSUME IInv, CompareFits, NEW q \in Request, req[q].pc = "compare"
    PROVE  LET k == Cardinality(DOMAIN Got(q)) IN
           /\ k \in Nat /\ Next2(q) = req[q].pos + k /\ Next2(q) <= Goal(q)
           /\ Start(q) <= Next2(q)
           /\ DOMAIN Seen2(q) = Start(q) .. (Next2(q) - 1)
           /\ Next2(q) < Goal(q) => Size(View(q, req[q].blob)) <= Next2(q)
<1> DEFINE a == Start(q)
           p == req[q].pos
           t == Goal(q)
           n == t - p
           g == Got(q)
           k == Cardinality(DOMAIN g)
           c == View(q, req[q].blob)
<1>1. /\ p \in Nat /\ a \in Nat /\ t \in Nat /\ Size(c) \in Nat
  BY HandlerFacts, StartIsNat, ViewIsContent DEF IInv, HandlerTypeOK, Goal
<1>2. a <= p /\ p < t /\ DOMAIN req[q].seen = a .. (p - 1)
  BY DEF CompareFits, ComparePc, Goal
<1>3. n \in Nat
  BY <1>1, <1>2
<1>4. g = Slice(c, p, n)
  BY DEF Got
<1>5. /\ Next2(q) = p + k
      /\ DOMAIN Seen2(q) = DOMAIN req[q].seen \cup DOMAIN g
  BY DEF Next2, Seen2, Overlay
<1> HIDE DEF a, p, t, c, g
<1>6. /\ k \in Nat /\ k <= n
      /\ DOMAIN g = p .. (p + k - 1)
      /\ k < n => Size(c) <= p + k
  BY <1>1, <1>3, <1>4, SliceShape
<1> HIDE DEF k
<1>7. (a .. (p - 1)) \cup (p .. (p + k - 1)) = a .. (p + k - 1)
  BY <1>1, <1>2, <1>6
<1>8. p + k <= t /\ a <= p + k /\ (p + k < t => Size(c) <= p + k)
  BY <1>1, <1>2, <1>6
<1>9. /\ k \in Nat /\ Next2(q) = p + k /\ Next2(q) <= t
      /\ a <= Next2(q)
      /\ Next2(q) < t => Size(c) <= Next2(q)
  BY <1>5, <1>6, <1>8
<1>10. DOMAIN Seen2(q) = a .. (Next2(q) - 1)
  <2>1. DOMAIN Seen2(q) = (a .. (p - 1)) \cup (p .. (p + k - 1))
    BY <1>2, <1>5, <1>6
  <2>2. DOMAIN Seen2(q) = a .. (p + k - 1)
    BY <1>7, <2>1
  <2>3. Next2(q) = p + k
    BY <1>5
  <2> QED BY <1>1, <1>6, <2>2, <2>3
<1> QED BY <1>9, <1>10 DEF a, p, t, c, g, k

\* What an append that compares relies on: the file reaches to its offset.
LEMMA OffsetIsCovered ==
    ASSUME IInv, WriterFits, CompareFits, OpFits, Step, TurnsMade, NEW q \in Request,
           Op(q) = "append", req'[q].pc \in ComparePc \cup {"rewind"},
           req'[q].blob \in live'
    PROVE  \A j \in 0 .. (Call[q].off - 1) : j \in DOMAIN content'[req'[q].blob]
<1> DEFINE o == req[q].blob
<1>1. CASE /\ req[q].pc \in ComparePc \cup {"rewind"} /\ req'[q].blob = o
  <2>1. o \in live
    BY <1>1, FileStays DEF IInv, ComparePc, Unborn
  <2>2. \A j \in 0 .. (Call[q].off - 1) : j \in DOMAIN content[o]
    BY <1>1, <2>1 DEF CompareFits
  <2>3. \A i \in DOMAIN content[o] : i \in DOMAIN content'[o]
    BY <1>1, <2>1, LiveGrows DEF IInv
  <2> QED BY <1>1, <2>2, <2>3
<1>2. CASE Sized(q)
  <2> DEFINE n == Size(content[o])
  <2>1. /\ req[q].pc = "size" /\ req'[q].blob = o
        /\ ~(Call[q].off > Size(View(q, o)))
    BY <1>2 DEF Sized, Becomes, ComparePc
  <2>2. o \in live /\ o \in Request
    BY <2>1, FileStays, HandlerFacts DEF IInv, HandlerTypeOK, Unborn
  <2>3. View(q, o) = content[o]
    BY <2>1, <2>2, NothingWritten DEF IInv, WritePc
  <2>4. n \in Nat /\ DOMAIN content[o] = 0 .. (n - 1)
    BY <2>2, LiveIsPrefix DEF IInv
  <2>5. Call[q].off \in Nat /\ Call[q].off <= n
    BY <2>1, <2>3, <2>4, HandlerFacts DEF IInv
  <2>6. \A i \in DOMAIN content[o] : i \in DOMAIN content'[o]
    BY <2>1, <2>2, LiveGrows DEF IInv
  <2> HIDE DEF n
  <2>7. \A j \in 0 .. (Call[q].off - 1) : j \in DOMAIN content[o]
    BY <2>4, <2>5
  <2> QED BY <2>1, <2>6, <2>7
<1>3. CASE req'[q] = req[q] \/ Rewound(q) \/ Compared(q)
  BY <1>1, <1>3 DEF Rewound, Compared, Becomes, ComparePc
<1>4. CASE Walked(q) \/ Received(q)
  <2>1. req[q].pc = "check" /\ req'[q].blob = o
    BY <1>4 DEF Walked, Walks, Received, Becomes, ComparePc
  <2> QED BY <1>1, <2>1 DEF ComparePc
<1>5. ~Named(q) /\ ~SoughtEnd(q) /\ ~Wrote(q) /\ ~Streamed(q) /\ ~Answered(q)
  BY DEF Named, SoughtEnd, Wrote, Streamed, Answered, Becomes, ComparePc
<1> QED BY <1>2, <1>3, <1>4, <1>5 DEF TurnsMade, Turn

LEMMA CompareFitsKept ==
    ASSUME IInv, WriterFits, SeenFits, CompareFits, OpFits, Step, TurnsMade
    PROVE  CompareFits'
<1> SUFFICES ASSUME NEW q \in Request
             PROVE  /\ req'[q].pc = "rewind" => req'[q].rcvd = 0
                    /\ req'[q].pc \in ComparePc =>
                            DOMAIN req'[q].seen = Start(q) .. (req'[q].pos - 1)
                    /\ req'[q].pc = "compare" =>
                        Start(q) <= req'[q].pos /\ req'[q].pos < Start(q) + req'[q].rcvd
                    /\ req'[q].pc \in {"check", "eof"} =>
                        /\ req'[q].pos = Start(q) + req'[q].rcvd
                        /\ \A i \in DOMAIN req'[q].seen :
                                req'[q].seen[i] = Byte(q, i - Start(q))
                    /\ req'[q].pc = "eof" => req'[q].rcvd = Call[q].len
                    /\ (/\ Op(q) = "append" /\ req'[q].pc \in ComparePc \cup {"rewind"}
                        /\ req'[q].blob \in live') =>
                            \A j \in 0 .. (Call[q].off - 1) : j \in DOMAIN content'[req'[q].blob]
  BY Zenon DEF CompareFits, Op, Start, Byte
<1>1. (/\ Op(q) = "append" /\ req'[q].pc \in ComparePc \cup {"rewind"}
       /\ req'[q].blob \in live') =>
            \A j \in 0 .. (Call[q].off - 1) : j \in DOMAIN content'[req'[q].blob]
  BY OffsetIsCovered
<1>2. /\ req[q].pos \in Nat /\ req[q].rcvd \in Nat /\ Start(q) \in Nat /\ Call[q].len \in Nat
  BY HandlerFacts, StartIsNat DEF IInv, HandlerTypeOK
<1> SUFFICES /\ req'[q].pc = "rewind" => req'[q].rcvd = 0
             /\ req'[q].pc \in ComparePc =>
                     DOMAIN req'[q].seen = Start(q) .. (req'[q].pos - 1)
             /\ req'[q].pc = "compare" =>
                 Start(q) <= req'[q].pos /\ req'[q].pos < Start(q) + req'[q].rcvd
             /\ req'[q].pc \in {"check", "eof"} =>
                 /\ req'[q].pos = Start(q) + req'[q].rcvd
                 /\ \A i \in DOMAIN req'[q].seen : req'[q].seen[i] = Byte(q, i - Start(q))
             /\ req'[q].pc = "eof" => req'[q].rcvd = Call[q].len
  BY <1>1
<1> HIDE DEF Start, Byte
<1>3. /\ req[q].pc = "rewind" => req[q].rcvd = 0
      /\ req[q].pc \in ComparePc => DOMAIN req[q].seen = Start(q) .. (req[q].pos - 1)
      /\ req[q].pc \in {"check", "eof"} =>
            /\ req[q].pos = Start(q) + req[q].rcvd
            /\ \A i \in DOMAIN req[q].seen : req[q].seen[i] = Byte(q, i - Start(q))
  BY DEF CompareFits
<1>4. CASE req'[q] = req[q]
  BY <1>4 DEF CompareFits
<1>5. CASE req'[q].pc \notin ComparePc \cup {"rewind"}
  BY <1>5 DEF ComparePc
<1>6. CASE Walked(q) /\ req'[q].pc = "rewind"
  <2>1. req[q].pc = "open" /\ req'[q].rcvd = req[q].rcvd
    BY <1>6 DEF Walked, Walks, Becomes
  <2> QED BY <1>6, <2>1 DEF IInv, ChunkInHand, BeforeBody, ComparePc
<1>7. CASE Walked(q) /\ req'[q].pc \in ComparePc
  <2>1. /\ req[q].pc = "check" /\ req[q].rcvd = Call[q].len /\ req'[q].pc = "eof"
        /\ req'[q].pos = req[q].pos /\ req'[q].rcvd = req[q].rcvd
        /\ req'[q].seen = req[q].seen
    BY <1>7 DEF Walked, Walks, Becomes, ComparePc
  <2> QED BY <1>3, <2>1 DEF ComparePc
<1>8. CASE Sized(q)
  <2>1. /\ req[q].pc = "size" /\ req'[q].rcvd = req[q].rcvd
        /\ req'[q].pc \in {"rewind", "upload"}
    BY <1>8 DEF Sized, Becomes
  <2> QED BY <2>1 DEF IInv, ChunkInHand, BeforeBody, ComparePc
<1>9. CASE Rewound(q)
  <2>1. /\ req[q].pc = "rewind" /\ req'[q].rcvd = req[q].rcvd
        /\ req'[q].pc \in {"metadata", "check"}
        /\ req'[q].pos = Start(q) /\ req'[q].seen = req[q].seen
    BY <1>9 DEF Rewound, Becomes
  <2>2. req'[q].rcvd = 0 /\ req'[q].seen = Nothing
    BY <1>3, <2>1 DEF SeenFits, BeforeReads
  <2>3. DOMAIN req'[q].seen = {}
    BY <2>2 DEF Nothing
  <2>4. {} = Start(q) .. (Start(q) - 1) /\ Start(q) + 0 = Start(q)
    BY <1>2
  <2> QED BY <2>1, <2>2, <2>3, <2>4
<1>10. CASE Received(q) /\ req'[q].pc \in ComparePc
  <2>1. PICK n \in 1 .. (Call[q].len - req[q].rcvd) :
            /\ req[q].pc = "check" /\ req'[q].pc = "compare"
            /\ req'[q].rcvd = req[q].rcvd + n
            /\ req'[q].pos = req[q].pos /\ req'[q].seen = req[q].seen
    BY <1>10 DEF Received, Becomes, ComparePc
  <2>2. req[q].pos = Start(q) + req[q].rcvd
    BY <1>3, <2>1
  <2>3. DOMAIN req'[q].seen = Start(q) .. (req'[q].pos - 1)
    BY <1>3, <2>1 DEF ComparePc
  <2>4. n \in Nat /\ n > 0
    BY <1>2, <2>1
  <2>5. Start(q) <= req'[q].pos /\ req'[q].pos < Start(q) + req'[q].rcvd
    BY <1>2, <2>1, <2>2, <2>4
  <2> QED BY <2>1, <2>3, <2>5
<1>11. CASE Compared(q)
  <2>1. /\ Start(q) <= Next2(q)
        /\ DOMAIN Seen2(q) = Start(q) .. (Next2(q) - 1)
    BY <1>11, CompareShape DEF Compared
  <2>2. req'[q].pos = Next2(q) /\ req'[q].seen = Seen2(q) /\ req'[q].rcvd = req[q].rcvd
    BY <1>11 DEF Compared, Becomes
  <2>3. Goal(q) = Start(q) + req[q].rcvd
    BY DEF Goal
  <2>4. \/ req'[q].pc = "compare" /\ Next2(q) < Goal(q)
        \/ /\ req'[q].pc = "check" /\ Next2(q) = Goal(q)
           /\ \A i \in DOMAIN Seen2(q) : Seen2(q)[i] = Byte(q, i - Start(q))
    BY <1>11 DEF Compared, Becomes
  <2> QED BY <2>1, <2>2, <2>3, <2>4
<1>12. CASE Named(q) \/ SoughtEnd(q) \/ Wrote(q) \/ Streamed(q) \/ Answered(q)
  BY <1>5, <1>12 DEF Named, SoughtEnd, Wrote, Streamed, Answered, Becomes, ComparePc
<1>13. CASE Received(q) /\ req'[q].pc \notin ComparePc
  BY <1>5, <1>13 DEF Received, Becomes
<1> QED BY <1>4, <1>5, <1>6, <1>7, <1>8, <1>9, <1>10, <1>11, <1>12, <1>13 DEF TurnsMade, Turn

\* What a download reads next.
LEMMA StreamShape ==
    ASSUME IInv, DownloadFits, NEW q \in Request, Op(q) = "explore", req[q].pc = "stream"
    PROVE  DOMAIN Overlay(req[q].seen, Sent(q))
             = {i \in 0 .. ((req[q].pos + Cardinality(DOMAIN Part(q))) - 1) : i < req[q].size}
<1> DEFINE p == req[q].pos
           m == req[q].size
           g == Part(q)
           k == Cardinality(DOMAIN g)
           c == View(q, req[q].blob)
<1>1. p \in Nat /\ m \in Nat /\ Size(c) \in Nat /\ BufSize \in Nat
  BY HandlerFacts, ViewIsContent, BufSizeIsPos DEF IInv, HandlerTypeOK
<1>2. DOMAIN req[q].seen = {i \in 0 .. (p - 1) : i < m}
  BY DEF DownloadFits
<1>3. g = Slice(c, p, BufSize)
  BY DEF Part
<1>4. DOMAIN Overlay(req[q].seen, Sent(q)) = DOMAIN req[q].seen \cup {j \in DOMAIN g : j < m}
  BY DEF Overlay, Sent
<1> HIDE DEF p, m, g, c
<1>5. k \in Nat /\ DOMAIN g = p .. (p + k - 1)
  BY <1>1, <1>3, SliceShape
<1> HIDE DEF k
<1>6. {i \in 0 .. (p - 1) : i < m} \cup {j \in p .. (p + k - 1) : j < m}
        = {i \in 0 .. ((p + k) - 1) : i < m}
  BY <1>1, <1>5
<1>7. DOMAIN Overlay(req[q].seen, Sent(q)) = {i \in 0 .. ((p + k) - 1) : i < m}
  BY <1>2, <1>4, <1>5, <1>6
<1> QED BY <1>7 DEF p, m, g, k

LEMMA DownloadFitsKept ==
    ASSUME IInv, SeenFits, DownloadFits, OpFits, TurnsMade
    PROVE  DownloadFits'
<1> SUFFICES ASSUME NEW q \in Request, Op(q) = "explore"
             PROVE  /\ req'[q].pc = "metadata" => req'[q].pos = 0
                    /\ req'[q].pc = "stream" =>
                        DOMAIN req'[q].seen = {i \in 0 .. (req'[q].pos - 1) : i < req'[q].size}
                    /\ req'[q].resp = "200" => DOMAIN req'[q].seen = 0 .. (req'[q].size - 1)
  BY DEF DownloadFits, Op
<1>1. /\ req[q].pc = "metadata" => req[q].pos = 0
      /\ req[q].pc = "stream" =>
            DOMAIN req[q].seen = {i \in 0 .. (req[q].pos - 1) : i < req[q].size}
  BY DEF DownloadFits
<1>2. req[q].pos \in Nat /\ req[q].size \in Nat
  BY HandlerFacts DEF IInv, HandlerTypeOK
<1>3. CASE req'[q] = req[q]
  BY <1>3 DEF DownloadFits
<1>4. CASE req'[q].pc \notin {"metadata", "stream", "done"} /\ req'[q].resp = req[q].resp
           /\ req[q].pc # "done"
  BY <1>4 DEF IInv, AnsweredIsDone
<1>5. CASE Walked(q)
  <2>1. CASE req[q].pc = "metadata" /\ Walks(q, "stream")
    <3>1. req[q].seen = Nothing
      BY <2>1 DEF SeenFits, BeforeReads
    <3>2. /\ req'[q].pc = "stream" /\ req'[q].pos = 0 /\ req'[q].seen = Nothing
          /\ req'[q].resp = "none"
      BY <1>1, <2>1, <3>1 DEF Walks, Becomes, IInv, AnsweredIsDone
    <3>3. DOMAIN Nothing = {} /\ {i \in 0 .. (0 - 1) : i < req'[q].size} = {}
      BY DEF Nothing
    <3> QED BY <3>2, <3>3
  <2>2. CASE req'[q].pc \notin {"metadata", "stream", "done"}
    BY <1>4, <1>5, <2>2 DEF Walked, Walks
  <2> QED BY <1>5, <2>1, <2>2 DEF Walked, Walks, Becomes
<1>6. CASE Named(q) \/ Sized(q)
  BY <1>4, <1>6 DEF Named, Sized, Becomes
<1>7. CASE Rewound(q)
  <2>1. /\ req'[q].pc = "metadata" /\ req'[q].pos = 0 /\ req'[q].resp = "none"
    BY <1>7 DEF Rewound, Becomes, Start, IInv, AnsweredIsDone
  <2> QED BY <2>1
<1>8. CASE Received(q) \/ SoughtEnd(q) \/ Wrote(q)
  BY <1>4, <1>8 DEF Received, SoughtEnd, Wrote, Becomes
<1>9. CASE Compared(q)
  BY <1>4, <1>9 DEF Compared, Becomes
<1>10. CASE Streamed(q)
  <2>1. /\ req[q].pc = "stream" /\ req'[q].pc = "stream" /\ req'[q].size = req[q].size
        /\ req'[q].pos = req[q].pos + Cardinality(DOMAIN Part(q))
        /\ req'[q].seen = Overlay(req[q].seen, Sent(q))
        /\ req'[q].resp = "none"
    BY <1>10 DEF Streamed, Becomes, IInv, AnsweredIsDone
  <2>2. DOMAIN Overlay(req[q].seen, Sent(q))
          = {i \in 0 .. ((req[q].pos + Cardinality(DOMAIN Part(q))) - 1) : i < req[q].size}
    BY <2>1, StreamShape
  <2> QED BY <2>1, <2>2
<1>11. CASE Answered(q)
  <2>1. /\ req'[q].pc = "done" /\ req'[q].seen = req[q].seen /\ req'[q].size = req[q].size
        /\ Reasons(q, req'[q].resp)
    BY <1>11 DEF Answered, Becomes
  <2>2. req[q].pc \notin {"eof", "commit", "compare"}
    BY DEF OpFits, ComparePc, WritePc
  <2>3. CASE req'[q].resp = "200"
    <3>1. req[q].pc = "stream" /\ req[q].pos >= req[q].size
      BY <2>1, <2>2, <2>3 DEF Reasons
    <3>2. {i \in 0 .. (req[q].pos - 1) : i < req[q].size} = 0 .. (req[q].size - 1)
      BY <1>2, <3>1
    <3> QED BY <1>1, <2>1, <3>1, <3>2
  <2> QED BY <2>1, <2>3
<1> QED BY <1>3, <1>5, <1>6, <1>7, <1>8, <1>9, <1>10, <1>11 DEF TurnsMade, Turn

-----------------------------------------------------------------------------
(* The inductive invariant *)

LEMMA SoloInitHolds == Init => SoloInv
<1> SUFFICES ASSUME Init PROVE SoloInv
  OBVIOUS
<1>1. IInv
  BY InitHolds
<1>2. /\ live = {} /\ DOMAIN files = {}
  BY DEF Init, StoreInit
<1>3. ASSUME NEW r \in Request
      PROVE  /\ req[r].pc = "idle" /\ req[r].blob = r /\ req[r].resp = "none"
             /\ req[r].seen = Nothing /\ req[r].size = 0
  <2>1. req[r] = Handler(r)
    BY DEF Init
  <2> QED BY <2>1 DEF Handler
<1>4. OneWriter /\ NamesFit /\ Creators /\ OpFits
  BY <1>2, <1>3 DEF OneWriter, Active, NamesFit, Creators, OpFits, WritePc, ComparePc
<1>5. WriterFits /\ SeenFits /\ CompareFits /\ DownloadFits
  BY <1>2, <1>3 DEF WriterFits, SeenFits, CompareFits, DownloadFits, WritePc, ComparePc
<1> QED BY <1>1, <1>4, <1>5 DEF SoloInv

LEMMA SoloStepKeeps ==
    ASSUME SoloInv, [Next /\ OneWriter']_vars
    PROVE  SoloInv'
<1> USE DEF SoloInv
<1>1. [Next]_vars
  OBVIOUS
<1>2. IInv'
  BY <1>1, StepKeeps
<1>3. Step
  BY <1>1, EveryStepHasAnEffect DEF IInv
<1>4. TurnsMade
  BY <1>1, EveryHandlerTurns DEF IInv, TurnsMade
<1>5. OneWriter'
  <2>1. CASE UNCHANGED vars
    BY <2>1 DEF OneWriter, Active, Uploads, Op, FileOf, vars, serviceVars
  <2> QED BY <2>1
<1>6. NamesFit' /\ Creators' /\ OpFits'
  BY <1>3, <1>4, NamesKept, CreatorsKept, OpFitsKept DEF IInv
<1>7. WriterFits' /\ SeenFits'
  BY <1>3, <1>4, WriterFitsKept, SeenFitsKept
<1>8. CompareFits' /\ DownloadFits'
  BY <1>3, <1>4, CompareFitsKept, DownloadFitsKept
<1> QED BY <1>2, <1>5, <1>6, <1>7, <1>8

\* While appends are not sent during other uploads to their file, the whole of SoloInv
\* holds in every reachable state, whatever PUTs, downloads, deletions and crashes do.
THEOREM SoloInvariant == SoloSpec => []SoloInv
<1>1. Init => SoloInv
  BY SoloInitHolds
<1>2. SoloInv /\ [Next /\ OneWriter']_vars => SoloInv'
  BY SoloStepKeeps
<1> QED BY <1>1, <1>2, PTL DEF SoloSpec

\* A download has seen only bytes its file has, and a complete one as many as its
\* Content-Length announced (get_explore).
THEOREM DownloadAgreesHolds == SoloSpec => []DownloadAgrees
<1>1. SoloInv => DownloadAgrees
  BY DEF SoloInv, SeenFits, DownloadFits, DownloadAgrees
<1> QED BY <1>1, SoloInvariant, PTL
=============================================================================
