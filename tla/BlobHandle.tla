------------------------------ MODULE BlobHandle ------------------------------
(***************************************************************************)
(* One open file: PostgresFileHandle and the BlobHandle under it, which    *)
(* turns poll-based reads, seeks and writes into statements of one         *)
(* transaction.                                                            *)
(*                                                                         *)
(* storage/src/postgres/blob.rs, storage/src/postgres/mod.rs:44-120        *)
(*                                                                         *)
(* Two things live on separately: the future that the caller of an async   *)
(* method awaits (call), and the operation it has started, which the       *)
(* handle keeps in its state field.  A caller that is cancelled (a timeout *)
(* or select around the method) takes call away and leaves state behind;   *)
(* the statement already sent is executed all the same.                    *)
(*                                                                         *)
(* A chunk stands for the bytes of one append; reads return whole chunks.  *)
(* commit takes the handle by value, so that no method can follow it and   *)
(* FileHandleError::IsShutdown does not occur.                             *)
(***************************************************************************)
EXTENDS Naturals, Sequences

CONSTANTS
    OldLen,     \* chunks in the file when the handle is opened
    MaxRead,    \* largest buffer of a read, in chunks
    MaxCalls,   \* bound on the method calls
    MaxFaults   \* bound on failed statements

ASSUME BoundsAreNat ==
    OldLen \in Nat /\ MaxRead \in Nat /\ MaxCalls \in Nat /\ MaxFaults \in Nat

\* Chunks are numbered in the order in which they were or will be appended.
Old == [i \in 1 .. OldLen |-> i]

VARIABLES
    state,      \* the operation in progress (FileHandleState), or NoOp
    lock,       \* who holds the mutex around inner: "free", "op" or "guard"
    call,       \* the method the caller awaits, or NoCall
    answer,     \* what the last method call ended with
    owner,      \* "open", "dropped" or "panicked": the handle itself
    pos, data,  \* position and contents as the transaction sees them
    txn,        \* "active", "aborted", "committed" or "rolled back"
    file,       \* committed contents
    acked,      \* chunks whose append has answered ok
    from, seen, \* position of the last seek or append, and what was read since
    resumed,    \* the caller went on after it had cancelled a method
    calls, faults

callerVars == <<call, answer, acked, from, seen, resumed, calls>>
txnVars == <<pos, data, txn, file, faults>>
vars == <<state, lock, owner, callerVars, txnVars>>

NoOp == [kind |-> "none", arg |-> 0, phase |-> "none", out |-> <<>>]
NoCall == [op |-> "none", arg |-> 0, stage |-> "none"]

Init ==
    /\ state = NoOp /\ lock = "free" /\ call = NoCall /\ answer = "none"
    /\ owner = "open"
    /\ pos = 0 /\ data = Old /\ txn = "active" /\ file = Old
    /\ acked = <<>> /\ from = 0 /\ seen = <<>> /\ resumed = FALSE
    /\ calls = 0 /\ faults = 0

-----------------------------------------------------------------------------
(* Calling a method *)

\* The kind of operation each stage of a method drives.
Drives(stage) ==
    CASE stage = "read"             -> "Reading"
      [] stage \in {"settle", "seek"} -> "Seeking"
      [] stage = "write"            -> "Writing"
      [] stage = "shutdown"         -> "ShuttingDown"
      [] OTHER                      -> "none"

\* SeekFrom::Start(0) and SeekFrom::End(0).
ToStart == 0
ToEnd   == 1
NewChunk == OldLen + 1 + calls

Methods ==
    [op : {"read"}, arg : 1 .. MaxRead, stage : {"read"}]
      \cup [op : {"seek"}, arg : {ToStart, ToEnd}, stage : {"settle"}]
      \cup [op : {"append"}, arg : {NewChunk}, stage : {"settle"}]
      \cup [op : {"metadata"}, arg : {0}, stage : {"lock"}]
      \cup [op : {"commit"}, arg : {0}, stage : {"shutdown"}]

Call ==
    /\ call = NoCall /\ owner = "open"
    /\ calls < MaxCalls /\ calls' = calls + 1
    /\ call' \in Methods /\ answer' = "none"
    /\ resumed' = (resumed \/ answer = "cancelled")
    /\ UNCHANGED <<state, lock, owner, acked, from, seen, txnVars>>

Operation(kind, arg) == [kind |-> kind, arg |-> arg, phase |-> "sent", out |-> <<>>]

\* Where a seek of the method in progress goes: append seeks to the end.
Target == IF call.op = "append" THEN ToEnd ELSE call.arg

\* poll_read, poll_complete (by way of AsyncSeekExt) and poll_shutdown.
\* A poll finds no operation in progress: it makes one, which takes the mutex
\* and sends its statement.
Start ==
    /\ call # NoCall /\ state = NoOp /\ lock = "free"
    /\ call.stage \in {"read", "settle", "shutdown"}
    /\ state' = Operation(Drives(call.stage),
                          IF call.stage = "settle" THEN Target ELSE call.arg)
    /\ lock' = "op"
    /\ call' = [call EXCEPT !.stage = IF @ = "settle" THEN "seek" ELSE @]
    /\ UNCHANGED <<owner, answer, acked, from, seen, resumed, calls, txnVars>>

\* The handle goes away.  Its transaction rolls back, unless the COMMIT that is
\* already on the wire wins.
Release ==
    /\ state' = NoOp /\ lock' = "free" /\ call' = NoCall
    /\ \/ /\ txn' = IF txn \in {"active", "aborted"} THEN "rolled back" ELSE txn
          /\ UNCHANGED file
       \/ /\ state.phase = "commit sent" /\ txn = "active"
          /\ txn' = "committed" /\ file' = data

\* "file handle future was cancelled in the middle of another operation"
Panic ==
    /\ Release
    /\ owner' = "panicked" /\ answer' = "panic"

Mismatch ==
    /\ call # NoCall /\ state # NoOp
    /\ Drives(call.stage) \notin {"none", state.kind}
    /\ Panic
    /\ UNCHANGED <<acked, from, seen, resumed, calls, pos, data, faults>>

-----------------------------------------------------------------------------
(* Postgres executes the statement that was sent *)

Fails == txn = "aborted" \/ (txn = "active" /\ faults < MaxFaults)
Fail  == faults' = IF txn = "aborted" THEN faults ELSE faults + 1

Min2(a, b) == IF a < b THEN a ELSE b

LoSeek ==
    /\ state.kind = "Seeking" /\ pos' = IF state.arg = ToStart THEN 0 ELSE Len(data)
    /\ state' = [state EXCEPT !.phase = "ok"]
    /\ UNCHANGED <<data, txn, file, faults>>

LoRead ==
    LET end == Min2(pos + state.arg, Len(data)) IN
    /\ state.kind = "Reading" /\ pos' = end
    /\ state' = [state EXCEPT !.phase = "ok", !.out = SubSeq(data, pos + 1, end)]
    /\ UNCHANGED <<data, txn, file, faults>>

LoWrite ==
    /\ state.kind = "Writing" /\ pos' = pos + 1
    /\ data' = SubSeq(data, 1, pos) \o <<state.arg>> \o SubSeq(data, pos + 2, Len(data))
    /\ state' = [state EXCEPT !.phase = "ok"]
    /\ UNCHANGED <<txn, file, faults>>

LoClose ==
    /\ state.kind = "ShuttingDown" /\ state' = [state EXCEPT !.phase = "closed"]
    /\ UNCHANGED <<pos, data, txn, file, faults>>

CloseIgnoresError ==                                                   \* mutant
    /\ state' = [state EXCEPT !.phase = "ok"] /\ UNCHANGED txn
CloseReportsError ==
    /\ state' = [state EXCEPT !.phase = "err"] /\ txn' = "rolled back"

\* An error aborts the transaction; a failed lo_close drops it.
StatementFails ==
    /\ Fails /\ Fail
    /\ \/ /\ state.kind = "ShuttingDown" /\ CloseReportsError
       \/ /\ state.kind # "ShuttingDown"
          /\ state' = [state EXCEPT !.phase = "err"] /\ txn' = "aborted"
    /\ UNCHANGED <<pos, data, file>>

Execute ==
    /\ state.phase = "sent"
    /\ \/ txn = "active" /\ (LoSeek \/ LoRead \/ LoWrite \/ LoClose)
       \/ StatementFails
    /\ UNCHANGED <<lock, owner, callerVars>>

\* lo_close has answered; the next poll sends COMMIT.
SendCommit ==
    /\ call.stage = "shutdown" /\ state.phase = "closed"
    /\ state' = [state EXCEPT !.phase = "commit sent"]
    /\ UNCHANGED <<lock, owner, callerVars, txnVars>>

\* A COMMIT that fails may have taken effect or not.
ExecuteCommit ==
    /\ state.phase = "commit sent"
    /\ \/ /\ state' = [state EXCEPT !.phase = "ok"]
          /\ txn' = "committed" /\ file' = data /\ UNCHANGED faults
       \/ /\ faults < MaxFaults /\ faults' = faults + 1
          /\ state' = [state EXCEPT !.phase = "err"]
          /\ \/ txn' = "committed" /\ file' = data
             \/ txn' = "rolled back" /\ UNCHANGED file
    /\ UNCHANGED <<pos, data, lock, owner, callerVars>>

-----------------------------------------------------------------------------
(* A poll finds its operation finished *)

Finished(stage) ==
    /\ call.stage = stage /\ state.kind = Drives(stage) /\ state.phase \in {"ok", "err"}

Return(a) == call' = NoCall /\ answer' = a

KeepOp == UNCHANGED <<state, lock>>                                    \* mutant
\* self.state = None, and the future's mutex guard is gone with it.
Clear == state' = NoOp /\ lock' = "free"

ReadDone ==
    /\ Finished("read")
    /\ Len(state.out) <= call.arg
    /\ Clear
    /\ Return(state.phase)
    /\ seen' = seen \o state.out
    /\ UNCHANGED <<owner, acked, from, resumed, calls, txnVars>>

\* buf.put_slice: an earlier, larger read was cancelled.
ReadOverflows ==
    /\ Finished("read")
    /\ Len(state.out) > call.arg
    /\ Panic
    /\ UNCHANGED <<acked, from, seen, resumed, calls, pos, data, faults>>

\* AsyncSeekExt waits for an earlier seek before it starts its own.
Settled ==
    /\ Finished("settle")
    /\ \/ /\ state.phase = "err" /\ Clear /\ Return("err")
       \/ /\ state.phase = "ok"
          /\ state' = Operation("Seeking", Target)
          /\ call' = [call EXCEPT !.stage = "seek"]
          /\ UNCHANGED <<lock, answer>>
    /\ UNCHANGED <<owner, acked, from, seen, resumed, calls, txnVars>>

\* append goes on to its write within the same poll.
SeekDone ==
    /\ Finished("seek")
    /\ \/ /\ call.op = "seek" /\ Clear /\ Return(state.phase)
       \/ /\ call.op = "append" /\ state.phase = "err" /\ Clear /\ Return("err")
       \/ /\ call.op = "append" /\ state.phase = "ok"
          /\ state' = Operation("Writing", call.arg)
          /\ call' = [call EXCEPT !.stage = "write"]
          /\ UNCHANGED <<lock, answer>>
    /\ from' = pos /\ seen' = <<>>
    /\ UNCHANGED <<owner, acked, resumed, calls, txnVars>>

WriteDone ==
    /\ Finished("write")
    /\ Clear
    /\ Return(state.phase)
    /\ acked' = IF state.phase = "ok" THEN Append(acked, call.arg) ELSE acked
    /\ from' = pos /\ seen' = <<>>
    /\ UNCHANGED <<owner, resumed, calls, txnVars>>

\* commit consumed the handle.
CommitDone ==
    /\ Finished("shutdown")
    /\ Clear
    /\ Return(IF state.phase = "ok" THEN "committed" ELSE "err")
    /\ owner' = "dropped"
    /\ UNCHANGED <<acked, from, seen, resumed, calls, txnVars>>

-----------------------------------------------------------------------------
(* metadata(): a query under the guard of transaction() *)

LockForQuery ==
    /\ call.stage = "lock" /\ lock = "free"
    /\ lock' = "guard" /\ call' = [call EXCEPT !.stage = "query"]
    /\ UNCHANGED <<state, owner, answer, acked, from, seen, resumed, calls, txnVars>>

KeepGuard == UNCHANGED lock                                            \* mutant
DropGuard == lock' = "free"

\* The row may be missing, which is an error to the caller only.
Query ==
    /\ call.stage = "query"
    /\ \/ /\ txn = "active" /\ \E a \in {"ok", "err"} : Return(a)
          /\ UNCHANGED <<txn, faults>>
       \/ /\ Fails /\ Fail /\ txn' = "aborted" /\ Return("err")
    /\ DropGuard
    /\ UNCHANGED <<state, owner, acked, from, seen, resumed, calls, pos, data, file>>

-----------------------------------------------------------------------------
(* Cancellation and dropping *)

ForgetOp == Clear                                                      \* mutant
KeepsOp == /\ lock' = IF lock = "guard" THEN "free" ELSE lock
           /\ UNCHANGED state

\* The caller stops awaiting a method and keeps the handle.
Cancel ==
    /\ call # NoCall /\ call.op # "commit"
    /\ KeepsOp
    /\ Return("cancelled")
    /\ UNCHANGED <<owner, acked, from, seen, resumed, calls, txnVars>>

\* The handle is dropped, perhaps with the method that borrows it.
Drop ==
    /\ owner = "open" /\ Release
    /\ owner' = "dropped"
    /\ answer' = IF call = NoCall THEN answer ELSE "cancelled"
    /\ UNCHANGED <<acked, from, seen, resumed, calls, pos, data, faults>>

Gone == owner # "open" /\ UNCHANGED vars

-----------------------------------------------------------------------------
(* Specification *)

Poll ==
    \/ Start \/ Mismatch \/ SendCommit \/ ReadDone \/ ReadOverflows
    \/ Settled \/ SeekDone \/ WriteDone \/ CommitDone \/ LockForQuery

Statement == Execute \/ ExecuteCommit \/ Query

Next == Call \/ Poll \/ Statement \/ Cancel \/ Drop \/ Gone

\* A task that awaits a method is polled, and Postgres answers what it was sent.
Spec == Init /\ [][Next]_vars /\ WF_vars(Poll) /\ WF_vars(Statement)

-----------------------------------------------------------------------------
(* Properties *)

\* Every variable has its type, and the mutex is held exactly by an operation in
\* progress or by a query of metadata().
TypeOK ==
    /\ state \in [kind : {"none", "Reading", "Seeking", "Writing", "ShuttingDown"},
                  arg : 0 .. OldLen + MaxCalls + MaxRead + 1,
                  phase : {"none", "sent", "closed", "commit sent", "ok", "err"},
                  out : {state.out}]
    /\ call = NoCall \/ (call.op \in {"read", "seek", "append", "metadata", "commit"})
    /\ owner \in {"open", "dropped", "panicked"} /\ resumed \in BOOLEAN
    /\ txn \in {"active", "aborted", "committed", "rolled back"}
    /\ lock = (IF state # NoOp THEN "op"
               ELSE IF call.stage = "query" THEN "guard" ELSE "free")

\* All or nothing: the file is what it was, or that and exactly the chunks whose
\* append has answered ok (PostgresFileHandle::append, commit), whatever was
\* cancelled, failed or dropped in between, and a commit that answered ok has
\* taken effect.
AllOrNothing ==
    /\ file \in {Old, Old \o acked}
    /\ answer = "committed" => file = Old \o acked

\* Reads hand out the file's chunks without gap or repetition from the last seek
\* on, even if some of them were cancelled after their statement was sent
\* (BlobHandle::poll_read keeps the future of a cancelled read).
ReadsAreContiguous ==
    owner = "open" => seen = SubSeq(data, from + 1, from + Len(seen))

\* A handle panics only on a caller that went on after it had cancelled a method
\* (blob.rs:138-140): a method that answers, with an error too, leaves no operation
\* behind for the next one.  In server/src a cancelled request drops its handle.
NeverPanics == owner = "panicked" => resumed

\* metadata() waits for the mutex of an operation that the caller has cancelled
\* and that nobody polls any more (BlobHandle::transaction).
LeftWaiting == resumed /\ call.stage = "lock" /\ state # NoOp

\* Every other method returns or panics in the end, whatever was cancelled before it
\* and whatever fails: the poll functions end an operation that was left behind, or
\* refuse it.
EveryCallReturns == (call # NoCall) ~> (call = NoCall \/ LeftWaiting)
=============================================================================
