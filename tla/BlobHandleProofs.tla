--------------------------- MODULE BlobHandleProofs ---------------------------
(***************************************************************************)
(* The safety properties of BlobHandle for every file length, buffer size  *)
(* and number of calls and faults.                                         *)
(*                                                                         *)
(* The invariant says what the operation that the handle remembers, the    *)
(* method the caller awaits and the transaction know of each other: a      *)
(* cancelled method leaves its operation behind, and everything hinges on  *)
(* what the next method may take for its own.                              *)
(***************************************************************************)
EXTENDS BlobHandle, SequenceTheorems, TLAPS

Kinds  == {"none", "Reading", "Seeking", "Writing", "ShuttingDown"}
Phases == {"none", "sent", "closed", "commit sent", "ok", "err"}
Ops    == {"none", "read", "seek", "append", "metadata", "commit"}
Stages == {"none", "read", "settle", "seek", "write", "lock", "query", "shutdown"}
Args   == 0 .. (OldLen + MaxCalls + MaxRead + 1)
Chunks == Seq(Nat)

Operations == [kind : Kinds, arg : Args, phase : Phases, out : Chunks]
MethodCalls == [op : Ops, arg : Args, stage : Stages]

\* Every variable, with what TypeOK leaves open.
Typed ==
    /\ state \in Operations /\ call \in MethodCalls
    /\ pos \in Nat /\ from \in Nat /\ calls \in 0 .. MaxCalls /\ faults \in Nat
    /\ data \in Chunks /\ file \in Chunks /\ acked \in Chunks /\ seen \in Chunks
    /\ txn \in {"active", "aborted", "committed", "rolled back"}
    /\ owner \in {"open", "dropped", "panicked"} /\ resumed \in BOOLEAN
    /\ lock \in {"free", "op", "guard"}

\* The mutex, and which stages a method and an operation can be in.
StagesFit ==
    /\ lock = (IF state # NoOp THEN "op"
               ELSE IF call.stage = "query" THEN "guard" ELSE "free")
    /\ state.kind = "none" \/ state.phase = "none" => state = NoOp
    /\ call.op = "none" \/ call.stage = "none" => call = NoCall
    /\ call.stage = "query" => state = NoOp
    /\ call.stage \in {"settle", "seek"} => call.op \in {"seek", "append"}
    /\ call.stage = "write" => call.op = "append"
    /\ call.stage = "shutdown" => call.op = "commit"
    /\ state.phase \in {"closed", "commit sent"} => state.kind = "ShuttingDown"
    /\ owner # "open" => state = NoOp /\ call = NoCall

\* From its seek on, a method drives the operation it has started itself.
OwnOperation ==
    /\ call.stage = "seek"  => state.kind = "Seeking" /\ state.arg = Target
    /\ call.stage = "write" => state.kind = "Writing" /\ state.arg = call.arg

\* What the end of an operation says about the transaction.
TxnFits ==
    /\ state.phase = "err" => txn # "active"
    /\ state.kind = "ShuttingDown" =>
        /\ state.phase = "ok" => txn = "committed"
        /\ state.phase \in {"closed", "commit sent"} => txn = "active"
    /\ txn = "committed" => owner # "open" \/ (state.kind = "ShuttingDown"
                                               /\ state.phase \in {"ok", "err"})
    /\ answer = "committed" => txn = "committed"

\* What the transaction has written, and what of it is committed.
ContentsFit ==
    /\ txn = "committed" => file = Old \o acked
    /\ txn # "committed" => file = Old
    /\ txn = "active" =>
        \/ data = Old \o acked /\ ~(state.kind = "Writing" /\ state.phase = "ok")
        \/ /\ state.kind = "Writing" /\ state.phase = "ok"
           /\ data = (Old \o acked) \o <<state.arg>>
    /\ state.kind = "Writing" /\ state.phase = "ok" => txn = "active"

\* Where the next read continues.
PositionFits ==
    /\ pos <= Len(data)
    /\ from + Len(seen) <= Len(data)
    /\ seen = SubSeq(data, from + 1, from + Len(seen))
    /\ state.phase # "ok" => state.out = <<>>
    /\ txn = "active" =>
        /\ state.kind \in {"none", "ShuttingDown"} => pos = from + Len(seen)
        /\ state.kind = "Reading" => pos = from + Len(seen) + Len(state.out)
    /\ state.kind = "Reading" /\ state.phase = "ok" =>
        /\ from + Len(seen) + Len(state.out) <= Len(data)
        /\ state.out = SubSeq(data, from + Len(seen) + 1,
                                    from + Len(seen) + Len(state.out))
        /\ Len(state.out) <= state.arg
    /\ state.kind = "Seeking" /\ state.phase = "ok" /\ state.arg = ToEnd
        => pos = Len(data)
    /\ state.kind = "Writing" => seen = <<>> /\ pos >= from
    /\ state.kind = "Writing" /\ state.phase = "sent" => pos = Len(data) /\ from = pos

\* A caller that has not gone on after cancelling a method finds no operation but
\* its own.
NoLeftovers ==
    /\ owner = "panicked" => resumed
    /\ ~resumed =>
        /\ call = NoCall => state = NoOp \/ answer = "cancelled"
        /\ call # NoCall /\ state # NoOp =>
            /\ state.kind = Drives(call.stage)
            /\ call.stage # "settle"
            /\ state.kind = "Reading" => state.arg = call.arg

BInv ==
    /\ Typed /\ StagesFit /\ OwnOperation /\ TxnFits
    /\ ContentsFit /\ PositionFits /\ NoLeftovers

-----------------------------------------------------------------------------
(* Records *)

\* The fields of an operation or a call after one of them has changed.
LEMMA NewPhase ==
    ASSUME Typed, NEW p
    PROVE  LET s == [state EXCEPT !.phase = p]
           IN  s.phase = p /\ s.kind = state.kind /\ s.arg = state.arg /\ s.out = state.out
  BY DEF Typed, Operations, MethodCalls

LEMMA NewPhaseAndOutput ==
    ASSUME Typed, NEW p, NEW o
    PROVE  LET s == [state EXCEPT !.phase = p, !.out = o]
           IN  s.phase = p /\ s.kind = state.kind /\ s.arg = state.arg /\ s.out = o
  BY DEF Typed, Operations, MethodCalls

LEMMA NewStage ==
    ASSUME Typed, NEW g
    PROVE  LET c == [call EXCEPT !.stage = g]
           IN  c.stage = g /\ c.op = call.op /\ c.arg = call.arg
  BY DEF Typed, Operations, MethodCalls

LEMMA NoneIs ==
    /\ NoOp.kind = "none" /\ NoOp.arg = 0 /\ NoOp.phase = "none" /\ NoOp.out = <<>>
    /\ NoCall.op = "none" /\ NoCall.arg = 0 /\ NoCall.stage = "none"
  BY DEF NoOp, NoCall

LEMMA DrivesIs ==
    /\ Drives("read") = "Reading" /\ Drives("settle") = "Seeking"
    /\ Drives("seek") = "Seeking" /\ Drives("write") = "Writing"
    /\ Drives("shutdown") = "ShuttingDown" /\ Drives("lock") = "none"
    /\ Drives("query") = "none" /\ Drives("none") = "none"
  BY DEF Drives

-----------------------------------------------------------------------------
(* What the actions that change part of a record do *)

\* The operation in progress goes on: only its phase and output change.
Proceeds(phase, out) ==
    /\ state'.kind = state.kind /\ state'.arg = state.arg
    /\ state'.phase = phase /\ state'.out = out
    /\ UNCHANGED <<lock, owner, callerVars>>

\* A statement is executed, or fails.
Executed ==
    /\ state.phase = "sent" /\ txn = "active" /\ UNCHANGED <<txn, file, faults>>
    /\ \/ /\ state.kind = "Seeking" /\ Proceeds("ok", state.out)
          /\ pos' = (IF state.arg = ToStart THEN 0 ELSE Len(data)) /\ data' = data
       \/ /\ state.kind = "Reading"
          /\ LET end == Min2(pos + state.arg, Len(data)) IN
             pos' = end /\ Proceeds("ok", SubSeq(data, pos + 1, end))
          /\ data' = data
       \/ /\ state.kind = "Writing" /\ Proceeds("ok", state.out)
          /\ pos' = pos + 1
          /\ data' = SubSeq(data, 1, pos) \o <<state.arg>> \o SubSeq(data, pos + 2, Len(data))
       \/ /\ state.kind = "ShuttingDown" /\ Proceeds("closed", state.out)
          /\ UNCHANGED <<pos, data>>

Failed ==
    /\ state.phase = "sent" /\ Proceeds("err", state.out)
    /\ txn \in {"active", "aborted"} /\ txn' \in {"aborted", "rolled back"}
    /\ faults' \in {faults, faults + 1} /\ UNCHANGED <<pos, data, file>>

LEMMA ExecuteEffect ==
    ASSUME Typed, Execute
    PROVE  Executed \/ Failed
<1> USE DEF Execute, callerVars
<1>1. CASE txn = "active" /\ LoSeek
  BY <1>1, NewPhase DEF LoSeek, Executed, Proceeds
<1>2. CASE txn = "active" /\ LoRead
  <2> DEFINE end == Min2(pos + state.arg, Len(data))
             out == SubSeq(data, pos + 1, end)
  <2>1. /\ state.kind = "Reading" /\ pos' = end /\ UNCHANGED <<data, txn, file, faults>>
        /\ state' = [state EXCEPT !.phase = "ok", !.out = out]
    BY <1>2 DEF LoRead
  <2> HIDE DEF out, end
  <2>2. Proceeds("ok", out)
    BY <2>1, NewPhaseAndOutput DEF Proceeds
  <2> QED BY <1>2, <2>1, <2>2 DEF Executed, out, end
<1>3. CASE txn = "active" /\ LoWrite
  BY <1>3, NewPhase DEF LoWrite, Executed, Proceeds
<1>4. CASE txn = "active" /\ LoClose
  BY <1>4, NewPhase DEF LoClose, Executed, Proceeds
<1>5. CASE StatementFails
  <2>1. /\ state' = [state EXCEPT !.phase = "err"] /\ txn' \in {"aborted", "rolled back"}
        /\ UNCHANGED <<pos, data, file>>
    BY <1>5 DEF StatementFails, CloseReportsError
  <2>2. txn \in {"active", "aborted"} /\ faults' \in {faults, faults + 1}
    BY <1>5 DEF StatementFails, Fails, Fail
  <2>3. Proceeds("err", state.out)
    BY <2>1, NewPhase DEF Proceeds
  <2> QED BY <2>1, <2>2, <2>3 DEF Failed
<1> QED BY <1>1, <1>2, <1>3, <1>4, <1>5

CommitSent ==
    /\ call.stage = "shutdown" /\ state.phase = "closed"
    /\ Proceeds("commit sent", state.out) /\ UNCHANGED txnVars

LEMMA SendCommitEffect ==
    ASSUME Typed, SendCommit
    PROVE  CommitSent
  BY NewPhase DEF CommitSent, SendCommit, Proceeds

CommitExecuted ==
    /\ state.phase = "commit sent" /\ UNCHANGED <<pos, data>>
    /\ \/ Proceeds("ok", state.out) /\ txn' = "committed"
       \/ Proceeds("err", state.out) /\ txn' \in {"committed", "rolled back"}
    /\ file' = IF txn' = "committed" THEN data ELSE file
    /\ faults' \in {faults, faults + 1}

LEMMA ExecuteCommitEffect ==
    ASSUME Typed, ExecuteCommit
    PROVE  CommitExecuted
<1>1. /\ state.phase = "commit sent" /\ UNCHANGED <<pos, data, lock, owner, callerVars>>
      /\ \/ state' = [state EXCEPT !.phase = "ok"] /\ txn' = "committed"
         \/ state' = [state EXCEPT !.phase = "err"] /\ txn' \in {"committed", "rolled back"}
      /\ file' = IF txn' = "committed" THEN data ELSE file
      /\ faults' \in {faults, faults + 1}
  BY DEF ExecuteCommit
<1>2. state' = [state EXCEPT !.phase = "ok"] => Proceeds("ok", state.out)
  BY <1>1, NewPhase DEF Proceeds
<1>3. state' = [state EXCEPT !.phase = "err"] => Proceeds("err", state.out)
  BY <1>1, NewPhase DEF Proceeds
<1> QED BY <1>1, <1>2, <1>3 DEF CommitExecuted

\* An operation is made and its statement sent.
Begins(kind, arg) ==
    /\ state'.kind = kind /\ state'.arg = arg
    /\ state'.phase = "sent" /\ state'.out = <<>>

\* The caller goes on to another stage of its method.
Enters(stage) ==
    /\ call'.op = call.op /\ call'.arg = call.arg /\ call'.stage = stage
    /\ answer' = answer

Started ==
    /\ state = NoOp /\ lock' = "op"
    /\ call.stage \in {"read", "settle", "shutdown"}
    /\ Enters(IF call.stage = "settle" THEN "seek" ELSE call.stage)
    /\ Begins(Drives(call.stage), IF call.stage = "settle" THEN Target ELSE call.arg)
    /\ UNCHANGED <<owner, answer, acked, from, seen, resumed, calls, txnVars>>

LEMMA StartEffect ==
    ASSUME Typed, Start
    PROVE  Started
<1>1. call' = [call EXCEPT !.stage = IF call.stage = "settle" THEN "seek" ELSE call.stage]
  BY DEF Start
<1> QED BY <1>1, NewStage DEF Started, Start, Enters, Begins, Operation

SeekSettled ==
    /\ call.stage = "settle" /\ state.kind = "Seeking"
    /\ \/ state.phase = "err" /\ Clear /\ Return("err")
       \/ /\ state.phase = "ok" /\ Enters("seek") /\ lock' = lock
          /\ Begins("Seeking", Target)
    /\ UNCHANGED <<owner, acked, from, seen, resumed, calls, txnVars>>

LEMMA SettledEffect ==
    ASSUME Typed, Settled
    PROVE  SeekSettled
<1>1. Finished("settle") /\ UNCHANGED <<owner, acked, from, seen, resumed, calls, txnVars>>
  BY DEF Settled
<1>2. CASE state.phase = "err" /\ Clear /\ Return("err")
  BY <1>1, <1>2, DrivesIs DEF Finished, SeekSettled
<1>3. CASE /\ state.phase = "ok" /\ state' = Operation("Seeking", Target)
           /\ call' = [call EXCEPT !.stage = "seek"] /\ UNCHANGED <<lock, answer>>
  BY <1>1, <1>3, DrivesIs, NewStage DEF Finished, Enters, SeekSettled, Begins,
     Operation
<1> QED BY <1>2, <1>3 DEF Settled

SeekFinished ==
    /\ call.stage = "seek" /\ state.kind = "Seeking" /\ state.phase \in {"ok", "err"}
    /\ \/ Clear /\ Return(state.phase)
       \/ /\ call.op = "append" /\ state.phase = "ok"
          /\ Enters("write") /\ lock' = lock
          /\ Begins("Writing", call.arg)
    /\ from' = pos /\ seen' = <<>>
    /\ UNCHANGED <<owner, acked, resumed, calls, txnVars>>

LEMMA SeekDoneEffect ==
    ASSUME Typed, SeekDone
    PROVE  SeekFinished
<1>1. /\ Finished("seek") /\ from' = pos /\ seen' = <<>>
      /\ UNCHANGED <<owner, acked, resumed, calls, txnVars>>
  BY DEF SeekDone
<1>2. CASE Clear /\ Return(state.phase)
  BY <1>1, <1>2, DrivesIs DEF Finished, SeekFinished
<1>3. CASE /\ call.op = "append" /\ state.phase = "ok"
           /\ state' = Operation("Writing", call.arg)
           /\ call' = [call EXCEPT !.stage = "write"] /\ UNCHANGED <<lock, answer>>
  BY <1>1, <1>3, DrivesIs, NewStage DEF Finished, Enters, SeekFinished, Begins,
     Operation
<1> QED BY <1>2, <1>3 DEF SeekDone

QueryLocked ==
    /\ call.stage = "lock" /\ lock = "free" /\ lock' = "guard" /\ Enters("query")
    /\ UNCHANGED <<state, owner, acked, from, seen, resumed, calls, txnVars>>

LEMMA LockForQueryEffect ==
    ASSUME Typed, LockForQuery
    PROVE  QueryLocked
  BY NewStage DEF QueryLocked, LockForQuery, Enters

Queried ==
    /\ call.stage = "query" /\ lock' = "free"
    /\ call' = NoCall /\ answer' \in {"ok", "err"}
    /\ \/ UNCHANGED <<txn, faults>>
       \/ /\ txn \in {"active", "aborted"} /\ txn' = "aborted"
          /\ faults' \in {faults, faults + 1}
    /\ UNCHANGED <<state, owner, acked, from, seen, resumed, calls, pos, data, file>>

LEMMA QueryEffect ==
    ASSUME Query
    PROVE  Queried
  BY DEF Queried, Query, Return, Fails, Fail, DropGuard

\* Every step, with what is left to say about it.
Effect ==
    \/ Call \/ Started \/ Mismatch \/ Executed \/ Failed \/ CommitSent \/ CommitExecuted
    \/ ReadDone \/ ReadOverflows \/ SeekSettled \/ SeekFinished \/ WriteDone \/ CommitDone
    \/ QueryLocked \/ Queried \/ Cancel \/ Drop \/ UNCHANGED vars

LEMMA EveryStepHasAnEffect ==
    ASSUME Typed, [Next]_vars
    PROVE  Effect
  BY ExecuteEffect, SendCommitEffect, ExecuteCommitEffect, StartEffect, SettledEffect,
     SeekDoneEffect, LockForQueryEffect, QueryEffect
     DEF Next, Poll, Statement, Gone, Effect

-----------------------------------------------------------------------------
(* Chunks *)

LEMMA PartOf ==
    ASSUME NEW s \in Chunks, NEW a \in 0 .. Len(s), NEW b \in a .. Len(s)
    PROVE  /\ SubSeq(s, a + 1, b) \in Chunks
           /\ Len(SubSeq(s, a + 1, b)) = b - a
<1>1. \A i \in (a + 1) .. b : s[i] \in Nat
  BY ElementOfSeq, LenProperties DEF Chunks
<1>2. Len(s) \in Nat
  BY LenProperties DEF Chunks
<1> QED BY <1>1, <1>2, SubSeqProperties, SubSeqEmpty DEF Chunks

LEMMA PartsJoin ==
    ASSUME NEW s \in Chunks, NEW a \in 0 .. Len(s), NEW b \in a .. Len(s),
           NEW c \in b .. Len(s)
    PROVE  SubSeq(s, a + 1, b) \o SubSeq(s, b + 1, c) = SubSeq(s, a + 1, c)
<1>1. Len(s) \in Nat
  BY LenProperties DEF Chunks
<1>2. /\ a + 1 \in 1 .. Len(s) + 1 /\ b \in (a + 1) - 1 .. Len(s) /\ c \in b .. Len(s)
  BY <1>1
<1> QED BY <1>2, ConcatAdjacentSubSeq DEF Chunks

\* lowrite at the end of a file adds the chunk to it.
LEMMA WriteAtEnd ==
    ASSUME NEW s \in Chunks, NEW x \in Nat
    PROVE  /\ SubSeq(s, 1, Len(s)) \o <<x>> \o SubSeq(s, Len(s) + 2, Len(s)) = s \o <<x>>
           /\ s \o <<x>> \in Chunks /\ Len(s \o <<x>>) = Len(s) + 1
<1>1. Len(s) \in Nat /\ <<x>> \in Chunks /\ Len(<<x>>) = 1
  BY LenProperties DEF Chunks
<1>2. s \o <<x>> \in Chunks /\ Len(s \o <<x>>) = Len(s) + 1
  BY <1>1, ConcatProperties DEF Chunks
<1>3. SubSeq(s, 1, Len(s)) = s
  BY SubSeqFull DEF Chunks
<1>4. SubSeq(s, Len(s) + 2, Len(s)) = <<>>
  BY <1>1, SubSeqEmpty
<1>5. (s \o <<x>>) \o <<>> = s \o <<x>>
  BY <1>2, ConcatEmptySeq DEF Chunks
<1> QED BY <1>2, <1>3, <1>4, <1>5

LEMMA AppendJoins ==
    ASSUME NEW s \in Chunks, NEW t \in Chunks, NEW x \in Nat
    PROVE  s \o Append(t, x) = (s \o t) \o <<x>>
<1>1. Append(t, x) = t \o <<x>> /\ <<x>> \in Chunks
  BY AppendIsConcat DEF Chunks
<1> QED BY <1>1, ConcatAssociative DEF Chunks

-----------------------------------------------------------------------------
(* Types *)

LEMMA NumbersTyped ==
    /\ 0 \in Args /\ Args \subseteq Nat /\ 1 .. MaxRead \subseteq Args
    /\ {ToStart, ToEnd} \subseteq Args
    /\ calls \in Nat /\ calls < MaxCalls => NewChunk \in Args
  BY BoundsAreNat DEF Args, ToStart, ToEnd, NewChunk

LEMMA NoneTyped == NoOp \in Operations /\ NoCall \in MethodCalls
  BY NumbersTyped, EmptySeq DEF NoOp, NoCall, Operations, MethodCalls, Kinds, Phases,
     Ops,
     Stages, Chunks

LEMMA OperationTyped ==
    ASSUME NEW k \in Kinds, NEW a \in Args
    PROVE  Operation(k, a) \in Operations
  BY EmptySeq DEF Operation, Operations, Phases, Chunks

LEMMA DrivesTyped == \A g : Drives(g) \in Kinds
  BY DEF Drives, Kinds

LEMMA MethodsTyped ==
    ASSUME calls \in 0 .. MaxCalls, calls < MaxCalls
    PROVE  Methods \subseteq MethodCalls
<1> SUFFICES ASSUME NEW m \in Methods PROVE m \in MethodCalls
  OBVIOUS
<1>0. calls \in Nat
  BY BoundsAreNat
<1>1. {0, ToStart, ToEnd, NewChunk} \cup 1 .. MaxRead \subseteq Args
  BY <1>0, NumbersTyped
<1>2. PICK o \in Ops, A \in SUBSET Args, g \in Stages :
        m \in [op : {o}, arg : A, stage : {g}]
  BY <1>1 DEF Methods, Ops, Stages
<1> QED BY <1>2 DEF MethodCalls

LEMMA PhaseTyped ==
    ASSUME Typed, NEW p \in Phases
    PROVE  [state EXCEPT !.phase = p] \in Operations
  BY DEF Typed, Operations

LEMMA PhaseAndOutputTyped ==
    ASSUME Typed, NEW p \in Phases, NEW o \in Chunks
    PROVE  [state EXCEPT !.phase = p, !.out = o] \in Operations
  BY DEF Typed, Operations

LEMMA StageTyped ==
    ASSUME Typed, NEW g \in Stages
    PROVE  [call EXCEPT !.stage = g] \in MethodCalls
  BY DEF Typed, MethodCalls

LEMMA StateTypedKept ==
    ASSUME Typed, [Next]_vars, state'.out \in Chunks
    PROVE  state' \in Operations
<1> USE NumbersTyped, NoneTyped DEF Typed
<1>0. call.arg \in Args
  BY DEF MethodCalls
<1>1. Target \in Args /\ call.arg \in Args
  BY <1>0 DEF Target
<1>2. CASE Start
  BY <1>1, <1>2, OperationTyped, DrivesTyped DEF Start
<1>3. CASE Execute
  <2> DEFINE o == SubSeq(data, pos + 1, Min2(pos + state.arg, Len(data)))
  <2>1. \/ state' = [state EXCEPT !.phase = "ok", !.out = o]
        \/ \E p \in Phases : state' = [state EXCEPT !.phase = p]
    BY <1>3 DEF Execute, LoSeek, LoRead, LoWrite, LoClose, StatementFails, CloseReportsError,
       Phases
  <2> HIDE DEF o
  <2>2. CASE state' = [state EXCEPT !.phase = "ok", !.out = o]
    BY <2>2, NewPhaseAndOutput, PhaseAndOutputTyped DEF Phases
  <2>3. CASE \E p \in Phases : state' = [state EXCEPT !.phase = p]
    BY <2>3, PhaseTyped
  <2> QED BY <2>1, <2>2, <2>3
<1>4. CASE SendCommit \/ ExecuteCommit
  <2>1. PICK p \in Phases : state' = [state EXCEPT !.phase = p]
    BY <1>4 DEF SendCommit, ExecuteCommit, Phases
  <2> QED BY <2>1, PhaseTyped
<1>5. CASE Settled \/ SeekDone
  <2>1. \/ state' = NoOp
        \/ \E k \in Kinds, a \in Args : state' = Operation(k, a)
    BY <1>1, <1>5 DEF Settled, SeekDone, Clear, Kinds
  <2> QED BY <2>1, OperationTyped
<1>6. CASE \/ Mismatch \/ ReadDone \/ ReadOverflows \/ WriteDone \/ CommitDone \/ Drop
  BY <1>6 DEF Mismatch, ReadDone, ReadOverflows, WriteDone, CommitDone, Drop, Panic,
     Release, Clear
<1>7. CASE \/ Call \/ LockForQuery \/ Query \/ Cancel \/ Gone \/ UNCHANGED vars
  BY <1>7 DEF Call, LockForQuery, Query, Cancel, KeepsOp, Gone, vars
<1> QED BY <1>2, <1>3, <1>4, <1>5, <1>6, <1>7 DEF Next, Poll, Statement

LEMMA CallTypedKept ==
    ASSUME Typed, [Next]_vars
    PROVE  call' \in MethodCalls
<1> USE NoneTyped DEF Typed
<1>1. CASE Call
  BY <1>1, MethodsTyped DEF Call
<1>2. CASE Start \/ Settled \/ SeekDone \/ LockForQuery
  <2>1. \/ call' = NoCall
        \/ \E g \in Stages : call' = [call EXCEPT !.stage = g]
    <3>1. call.stage \in Stages
      BY DEF MethodCalls
    <3>2. CASE Start
      BY <3>1, <3>2 DEF Start, Stages
    <3> QED BY <1>2, <3>2 DEF Settled, SeekDone, LockForQuery, Return, Stages
  <2> QED BY <2>1, StageTyped
<1>3. CASE \/ Mismatch \/ ReadDone \/ ReadOverflows \/ WriteDone \/ CommitDone \/ Query
           \/ Cancel \/ Drop
  BY <1>3 DEF Mismatch, ReadDone, ReadOverflows, WriteDone, CommitDone, Query, Cancel,
     Drop, Panic, Release, Return
<1>4. CASE \/ Execute \/ SendCommit \/ ExecuteCommit \/ Gone \/ UNCHANGED vars
  BY <1>4 DEF Execute, SendCommit, ExecuteCommit, Gone, vars, callerVars
<1> QED BY <1>1, <1>2, <1>3, <1>4 DEF Next, Poll, Statement
-----------------------------------------------------------------------------
(* The invariant is kept *)

\* Arithmetic on lengths.
LEMMA Sums ==
    ASSUME NEW a \in Nat, NEW b \in Nat, NEW c \in Nat
    PROVE  a + (b + c) = a + b + c /\ a + 1 \in Nat /\ a <= a + 1 /\ (a > b => ~(a <= b))
  OBVIOUS

LEMMA WithinLength ==
    ASSUME NEW a \in Nat, NEW b \in Nat, NEW c \in Nat, NEW d \in Nat, a + b + c <= d
    PROVE  a \in 0 .. d /\ a + b \in a .. d /\ a + b + c \in (a + b) .. d
  OBVIOUS

LEMMA ReadEnd ==
    ASSUME NEW a \in Nat, NEW n \in Nat, NEW d \in Nat, a <= d
    PROVE  LET end == Min2(a + n, d) IN
           /\ a \in 0 .. d /\ end \in a .. d /\ end \in Nat
           /\ end <= a + n /\ end <= d /\ a + (end - a) = end /\ end - a <= n
  BY DEF Min2


LEMMA StagesFitKept ==
    ASSUME StagesFit, Effect
    PROVE  StagesFit'
<1> USE DrivesIs, NoneIs DEF StagesFit, callerVars, txnVars
<1>1. CASE Call
  BY <1>1 DEF Call, Methods, NewChunk, ToStart, ToEnd
<1>2. CASE Started
  BY <1>2 DEF Started, Enters, Begins
<1>3. CASE Mismatch
  BY <1>3 DEF Mismatch, Panic, Release
<1>4. CASE Executed
  BY <1>4 DEF Executed, Proceeds
<1>5. CASE Failed
  BY <1>5 DEF Failed, Proceeds
<1>6. CASE CommitSent
  BY <1>6 DEF CommitSent, Proceeds
<1>7. CASE CommitExecuted
  BY <1>7 DEF CommitExecuted, Proceeds
<1>8. CASE ReadDone
  BY <1>8 DEF ReadDone, Finished, Clear, Return
<1>9. CASE ReadOverflows
  BY <1>9 DEF ReadOverflows, Finished, Panic, Release
<1>10. CASE SeekSettled
  BY <1>10 DEF SeekSettled, Clear, Return, Enters, Begins
<1>11. CASE SeekFinished
  BY <1>11 DEF SeekFinished, Clear, Return, Enters, Begins
<1>12. CASE WriteDone
  BY <1>12 DEF WriteDone, Finished, Clear, Return
<1>13. CASE CommitDone
  BY <1>13 DEF CommitDone, Finished, Clear, Return
<1>14. CASE QueryLocked
  BY <1>14 DEF QueryLocked, Enters
<1>15. CASE Queried
  BY <1>15 DEF Queried
<1>16. CASE Cancel
  BY <1>16 DEF Cancel, KeepsOp, Return
<1>17. CASE Drop
  BY <1>17 DEF Drop, Release
<1>18. CASE UNCHANGED vars
  BY <1>18 DEF vars
<1> QED BY <1>1, <1>2, <1>3, <1>4, <1>5, <1>6, <1>7, <1>8, <1>9, <1>10, <1>11, <1>12,
           <1>13, <1>14, <1>15, <1>16, <1>17, <1>18 DEF Effect

LEMMA OwnOperationKept ==
    ASSUME StagesFit, OwnOperation, Effect
    PROVE  OwnOperation'
<1> USE DrivesIs, NoneIs DEF StagesFit, OwnOperation, Target, callerVars, txnVars
<1>1. CASE Call
  BY <1>1 DEF Call, Methods, NewChunk, ToStart, ToEnd
<1>2. CASE Started
  BY <1>2 DEF Started, Enters, Begins
<1>3. CASE Mismatch
  BY <1>3 DEF Mismatch, Panic, Release
<1>4. CASE Executed
  BY <1>4 DEF Executed, Proceeds
<1>5. CASE Failed
  BY <1>5 DEF Failed, Proceeds
<1>6. CASE CommitSent
  BY <1>6 DEF CommitSent, Proceeds
<1>7. CASE CommitExecuted
  BY <1>7 DEF CommitExecuted, Proceeds
<1>8. CASE ReadDone
  BY <1>8 DEF ReadDone, Finished, Clear, Return
<1>9. CASE ReadOverflows
  BY <1>9 DEF ReadOverflows, Finished, Panic, Release
<1>10. CASE SeekSettled
  BY <1>10 DEF SeekSettled, Clear, Return, Enters, Begins
<1>11. CASE SeekFinished
  BY <1>11 DEF SeekFinished, Clear, Return, Enters, Begins
<1>12. CASE WriteDone
  BY <1>12 DEF WriteDone, Finished, Clear, Return
<1>13. CASE CommitDone
  BY <1>13 DEF CommitDone, Finished, Clear, Return
<1>14. CASE QueryLocked
  BY <1>14 DEF QueryLocked, Enters
<1>15. CASE Queried
  BY <1>15 DEF Queried
<1>16. CASE Cancel
  BY <1>16 DEF Cancel, KeepsOp, Return
<1>17. CASE Drop
  BY <1>17 DEF Drop, Release
<1>18. CASE UNCHANGED vars
  BY <1>18 DEF vars
<1> QED BY <1>1, <1>2, <1>3, <1>4, <1>5, <1>6, <1>7, <1>8, <1>9, <1>10, <1>11, <1>12,
           <1>13, <1>14, <1>15, <1>16, <1>17, <1>18 DEF Effect

LEMMA TxnFitsKept ==
    ASSUME StagesFit, TxnFits, Effect
    PROVE  TxnFits'
<1> USE DrivesIs, NoneIs DEF StagesFit, TxnFits, callerVars, txnVars
<1>1. CASE Call
  BY <1>1 DEF Call, Methods, NewChunk, ToStart, ToEnd
<1>2. CASE Started
  BY <1>2 DEF Started, Enters, Begins
<1>3. CASE Mismatch
  BY <1>3 DEF Mismatch, Panic, Release
<1>4. CASE Executed
  BY <1>4 DEF Executed, Proceeds
<1>5. CASE Failed
  BY <1>5 DEF Failed, Proceeds
<1>6. CASE CommitSent
  BY <1>6 DEF CommitSent, Proceeds
<1>7. CASE CommitExecuted
  BY <1>7 DEF CommitExecuted, Proceeds
<1>8. CASE ReadDone
  BY <1>8 DEF ReadDone, Finished, Clear, Return
<1>9. CASE ReadOverflows
  BY <1>9 DEF ReadOverflows, Finished, Panic, Release
<1>10. CASE SeekSettled
  BY <1>10 DEF SeekSettled, Clear, Return, Enters, Begins
<1>11. CASE SeekFinished
  BY <1>11 DEF SeekFinished, Clear, Return, Enters, Begins
<1>12. CASE WriteDone
  BY <1>12 DEF WriteDone, Finished, Clear, Return
<1>13. CASE CommitDone
  BY <1>13 DEF CommitDone, Finished, Clear, Return
<1>14. CASE QueryLocked
  BY <1>14 DEF QueryLocked, Enters
<1>15. CASE Queried
  BY <1>15 DEF Queried
<1>16. CASE Cancel
  BY <1>16 DEF Cancel, KeepsOp, Return
<1>17. CASE Drop
  BY <1>17 DEF Drop, Release
<1>18. CASE UNCHANGED vars
  BY <1>18 DEF vars
<1> QED BY <1>1, <1>2, <1>3, <1>4, <1>5, <1>6, <1>7, <1>8, <1>9, <1>10, <1>11, <1>12,
           <1>13, <1>14, <1>15, <1>16, <1>17, <1>18 DEF Effect

\* A read that the caller has started itself fits its buffer.
LEMMA ReadFits ==
    ASSUME Typed, PositionFits, NoLeftovers, ~resumed, Finished("read")
    PROVE  Len(state.out) <= call.arg
<1>1. /\ call # NoCall /\ state # NoOp /\ state.kind = "Reading"
      /\ state.phase \in {"ok", "err"}
  BY NoneIs, DrivesIs DEF Finished
<1>2. state.arg = call.arg
  BY <1>1 DEF NoLeftovers
<1>3. CASE state.phase = "ok"
  BY <1>1, <1>2, <1>3 DEF PositionFits
<1>4. CASE state.phase = "err"
  <2>1. state.out = <<>> /\ call.arg \in Nat
    BY <1>4, NumbersTyped DEF PositionFits, Typed, MethodCalls
  <2> QED BY <2>1, EmptySeq
<1> QED BY <1>1, <1>3, <1>4

LEMMA NoLeftoversKept ==
    ASSUME Typed, StagesFit, OwnOperation, PositionFits, NoLeftovers, Effect
    PROVE  NoLeftovers'
<1> USE DrivesIs, NoneIs DEF StagesFit, OwnOperation, NoLeftovers, callerVars, txnVars
<1>1. CASE Call
  BY <1>1 DEF Call, Methods, NewChunk, ToStart, ToEnd
<1>2. CASE Started
  BY <1>2 DEF Started, Enters, Begins
<1>3. CASE Mismatch
  BY <1>3 DEF Mismatch, Panic, Release
<1>4. CASE Executed
  BY <1>4 DEF Executed, Proceeds
<1>5. CASE Failed
  BY <1>5 DEF Failed, Proceeds
<1>6. CASE CommitSent
  BY <1>6 DEF CommitSent, Proceeds
<1>7. CASE CommitExecuted
  <2>1. /\ state # NoOp /\ state'.kind = state.kind /\ state'.arg = state.arg
        /\ UNCHANGED <<lock, owner, call, answer, resumed>>
    BY <1>7 DEF CommitExecuted, Proceeds
  <2> QED BY <2>1
<1>8. CASE ReadDone
  BY <1>8 DEF ReadDone, Finished, Clear, Return
<1>9. CASE ReadOverflows
  <2>1. Len(state.out) \in Nat /\ call.arg \in Nat
    BY LenProperties, NumbersTyped DEF Typed, Operations, MethodCalls, Chunks
  <2>2. Finished("read") /\ Len(state.out) > call.arg
    BY <1>9 DEF ReadOverflows
  <2>3. ~(Len(state.out) <= call.arg)
    BY <2>1, <2>2, Sums
  <2>4. resumed
    BY <2>2, <2>3, ReadFits
  <2> QED BY <1>9, <2>4 DEF ReadOverflows
<1>10. CASE SeekSettled
  BY <1>10 DEF SeekSettled, Clear, Return, Enters, Begins
<1>11. CASE SeekFinished
  BY <1>11 DEF SeekFinished, Clear, Return, Enters, Begins
<1>12. CASE WriteDone
  BY <1>12 DEF WriteDone, Finished, Clear, Return
<1>13. CASE CommitDone
  BY <1>13 DEF CommitDone, Finished, Clear, Return
<1>14. CASE QueryLocked
  BY <1>14 DEF QueryLocked, Enters
<1>15. CASE Queried
  BY <1>15 DEF Queried
<1>16. CASE Cancel
  BY <1>16 DEF Cancel, KeepsOp, Return
<1>17. CASE Drop
  BY <1>17 DEF Drop, Release
<1>18. CASE UNCHANGED vars
  BY <1>18 DEF vars
<1> QED BY <1>1, <1>2, <1>3, <1>4, <1>5, <1>6, <1>7, <1>8, <1>9, <1>10, <1>11, <1>12,
           <1>13, <1>14, <1>15, <1>16, <1>17, <1>18 DEF Effect

\* What has been read after a seek or a write: nothing.
LEMMA NothingRead ==
    ASSUME NEW s \in Chunks, NEW p \in Nat, p <= Len(s)
    PROVE  /\ Len(<<>>) = 0 /\ p + Len(<<>>) = p /\ p + Len(<<>>) <= Len(s)
           /\ <<>> = SubSeq(s, p + 1, p + Len(<<>>))
<1>1. Len(<<>>) = 0
  BY EmptySeq
<1>2. SubSeq(s, p + 1, p) = <<>>
  BY SubSeqEmpty
<1> QED BY <1>1, <1>2

LEMMA LengthsTyped ==
    ASSUME Typed
    PROVE  /\ Len(data) \in Nat /\ Len(seen) \in Nat /\ Len(state.out) \in Nat
           /\ Len(file) \in Nat /\ Len(acked) \in Nat
           /\ state.arg \in Nat /\ call.arg \in Nat /\ pos \in Nat /\ from \in Nat
  BY LenProperties, NumbersTyped DEF Typed, Operations, MethodCalls, Chunks

\* What a statement does to the position and the contents, given where it starts.
LEMMA PositionAfterSeek ==
    ASSUME Typed, PositionFits, Executed, state.kind = "Seeking"
    PROVE  PositionFits'
<1>1. /\ Proceeds("ok", state.out) /\ data' = data
      /\ pos' = (IF state.arg = ToStart THEN 0 ELSE Len(data))
  BY DEF Executed
<1>2. pos' <= Len(data) /\ (state.arg = ToEnd => pos' = Len(data))
  BY <1>1, LengthsTyped DEF ToStart, ToEnd
<1> QED BY <1>1, <1>2 DEF PositionFits, Proceeds, callerVars

LEMMA PositionAfterRead ==
    ASSUME Typed, PositionFits, Executed, state.kind = "Reading"
    PROVE  PositionFits'
<1> DEFINE end == Min2(pos + state.arg, Len(data))
           out == SubSeq(data, pos + 1, end)
<1>1. /\ pos' = end /\ Proceeds("ok", out) /\ data' = data
      /\ state.phase = "sent" /\ txn = "active" /\ txn' = txn
  BY DEF Executed
<1>2. state.out = <<>>
  BY <1>1 DEF PositionFits
<1>3. pos = from + Len(seen)
  BY <1>1, <1>2, LengthsTyped, EmptySeq DEF PositionFits, Typed
<1>4. /\ pos \in Nat /\ Len(data) \in Nat /\ state.arg \in Nat /\ pos <= Len(data)
  BY LengthsTyped DEF PositionFits
<1>5. /\ pos \in 0 .. Len(data) /\ end \in pos .. Len(data) /\ end <= pos + state.arg
      /\ end \in Nat /\ end <= Len(data)
  BY <1>4, ReadEnd
<1> HIDE DEF end
<1>9. Len(out) = end - pos
  BY <1>5, PartOf DEF Typed
<1> HIDE DEF out
<1>6. /\ from + Len(seen) + Len(out) = end /\ Len(out) <= state.arg
      /\ end <= Len(data)
  BY <1>3, <1>4, <1>5, <1>9
<1>7. out = SubSeq(data, from + Len(seen) + 1, from + Len(seen) + Len(out))
  BY <1>3, <1>6 DEF out
<1>8. /\ state'.kind = "Reading" /\ state'.phase = "ok" /\ state'.arg = state.arg
      /\ state'.out = out /\ from' = from /\ seen' = seen
  BY <1>1 DEF Proceeds, callerVars
<1> QED BY <1>1, <1>6, <1>7, <1>8 DEF PositionFits

LEMMA PositionAfterWrite ==
    ASSUME Typed, PositionFits, Executed, state.kind = "Writing"
    PROVE  /\ PositionFits'
           /\ data' = data \o <<state.arg>> /\ data' \in Chunks
<1>1. /\ Proceeds("ok", state.out) /\ pos' = pos + 1 /\ state.phase = "sent"
      /\ data' = SubSeq(data, 1, pos) \o <<state.arg>> \o SubSeq(data, pos + 2, Len(data))
  BY DEF Executed
<1>2. pos = Len(data) /\ from = pos /\ seen = <<>>
  BY <1>1 DEF PositionFits
<1>8. data \in Chunks /\ state.arg \in Nat /\ Len(data) \in Nat /\ from \in Nat
  BY LengthsTyped DEF Typed
<1>3. /\ data' = data \o <<state.arg>> /\ data' \in Chunks
      /\ Len(data') = Len(data) + 1
  BY <1>1, <1>2, <1>8, WriteAtEnd
<1>4. pos' = Len(data') /\ from \in Nat /\ from <= Len(data') /\ pos' >= from
  BY <1>1, <1>2, <1>3, <1>8, Sums
<1>5. /\ from + Len(<<>>) <= Len(data')
      /\ <<>> = SubSeq(data', from + 1, from + Len(<<>>))
  BY <1>3, <1>4, NothingRead
<1>6. /\ state'.kind = "Writing" /\ state'.phase = "ok" /\ from' = from /\ seen' = <<>>
  BY <1>1, <1>2 DEF Proceeds, callerVars
<1>7. pos' <= Len(data')
  BY <1>3, <1>4, <1>8
<1> QED BY <1>3, <1>4, <1>5, <1>6, <1>7 DEF PositionFits

LEMMA PositionAfterStart ==
    ASSUME Typed, StagesFit, PositionFits, Started
    PROVE  PositionFits'
<1>1. /\ state.kind = "none" /\ state.phase = "none"
      /\ state'.phase = "sent" /\ state'.out = <<>>
      /\ state'.kind \in {"Reading", "Seeking", "ShuttingDown"}
      /\ UNCHANGED <<from, seen, txnVars>>
  BY NoneIs, DrivesIs DEF Started, Begins
<1>2. from + Len(seen) + Len(<<>>) = from + Len(seen)
  <2>1. from \in Nat /\ Len(seen) \in Nat /\ Len(<<>>) = 0
    BY LengthsTyped, EmptySeq
  <2> QED BY <2>1
<1> QED BY <1>1, <1>2 DEF PositionFits, txnVars

LEMMA PositionAfterReadDone ==
    ASSUME Typed, PositionFits, ReadDone
    PROVE  PositionFits'
<1>1. /\ state'.kind = "none" /\ state'.phase = "none" /\ state'.out = <<>>
      /\ state.kind = "Reading" /\ state.phase \in {"ok", "err"}
      /\ seen' = seen \o state.out /\ UNCHANGED <<from, txnVars>>
  BY NoneIs, DrivesIs DEF ReadDone, Finished, Clear
<1>2. /\ seen \in Chunks /\ state.out \in Chunks /\ data \in Chunks
      /\ Len(data) \in Nat /\ Len(seen) \in Nat /\ Len(state.out) \in Nat /\ from \in Nat
  BY LengthsTyped DEF Typed, Operations
<1>3. Len(seen') = Len(seen) + Len(state.out)
  BY <1>1, <1>2, ConcatProperties DEF Chunks
<1>4. from + Len(seen') = from + Len(seen) + Len(state.out)
  <2> DEFINE m == Len(seen)
             n == Len(state.out)
  <2>1. m \in Nat /\ n \in Nat /\ from \in Nat
    BY <1>2
  <2> HIDE DEF m, n
  <2>2. from + (m + n) = from + m + n
    BY <2>1, Sums
  <2> QED BY <1>3, <2>2 DEF m, n
<1>5. CASE state.phase = "ok"
  <2>1. /\ from + Len(seen) + Len(state.out) <= Len(data)
        /\ state.out = SubSeq(data, from + Len(seen) + 1,
                                    from + Len(seen) + Len(state.out))
    BY <1>1, <1>5 DEF PositionFits
  <2>2. /\ from \in 0 .. Len(data) /\ from + Len(seen) \in from .. Len(data)
        /\ from + Len(seen) + Len(state.out) \in from + Len(seen) .. Len(data)
    BY <1>2, <2>1, WithinLength
  <2>3. seen = SubSeq(data, from + 1, from + Len(seen))
    BY DEF PositionFits
  <2>4. seen' = SubSeq(data, from + 1, from + Len(seen'))
    BY <1>1, <1>2, <1>4, <2>1, <2>2, <2>3, PartsJoin
  <2> QED BY <1>1, <1>4, <2>1, <2>4 DEF PositionFits, txnVars
<1>6. CASE state.phase = "err"
  <2>1. state.out = <<>>
    BY <1>6 DEF PositionFits
  <2>2. seen' = seen
    BY <1>1, <1>2, <2>1, ConcatEmptySeq DEF Chunks
  <2>3. from + Len(seen) + Len(state.out) = from + Len(seen)
    BY <1>2, <1>4, <2>2
  <2> QED BY <1>1, <2>2, <2>3 DEF PositionFits, txnVars
<1> QED BY <1>1, <1>5, <1>6

LEMMA PositionFitsKept ==
    ASSUME Typed, StagesFit, OwnOperation, TxnFits, PositionFits, Effect
    PROVE  PositionFits'
<1> USE DrivesIs, NoneIs DEF StagesFit, TxnFits, PositionFits, callerVars, txnVars
<1>1. CASE Call
  BY <1>1 DEF Call, Methods, NewChunk, ToStart, ToEnd
<1>2. CASE Started
  BY <1>2, PositionAfterStart
<1>3. CASE Mismatch
  BY <1>3 DEF Mismatch, Panic, Release
<1>4. CASE Executed
  <2>1. CASE state.kind \in {"Seeking", "Reading", "Writing"}
    BY <1>4, <2>1, PositionAfterSeek, PositionAfterRead, PositionAfterWrite
  <2>2. CASE state.kind = "ShuttingDown"
    BY <1>4, <2>2 DEF Executed, Proceeds
  <2> QED BY <1>4, <2>1, <2>2 DEF Executed
<1>5. CASE Failed
  BY <1>5 DEF Failed, Proceeds
<1>6. CASE CommitSent
  BY <1>6 DEF CommitSent, Proceeds
<1>7. CASE CommitExecuted
  BY <1>7 DEF CommitExecuted, Proceeds
<1>8. CASE ReadDone
  BY <1>8, PositionAfterReadDone
<1>9. CASE ReadOverflows
  BY <1>9 DEF ReadOverflows, Finished, Panic, Release
<1>10. CASE SeekSettled
  BY <1>10 DEF SeekSettled, Clear, Return, Enters, Begins
<1>11. CASE SeekFinished
  <2>1. from' = pos /\ seen' = <<>> /\ UNCHANGED txnVars /\ pos <= Len(data)
    BY <1>11 DEF SeekFinished
  <2>2. /\ pos + Len(<<>>) = pos /\ pos + Len(<<>>) <= Len(data)
        /\ <<>> = SubSeq(data, pos + 1, pos + Len(<<>>))
    BY <2>1, NothingRead DEF Typed
  <2>3. CASE Clear
    BY <2>1, <2>2, <2>3 DEF Clear
  <2>4. CASE call.op = "append" /\ state.phase = "ok" /\ Begins("Writing", call.arg)
    <3>1. state.kind = "Seeking" /\ state.arg = ToEnd
      BY <1>11, <2>4 DEF SeekFinished, OwnOperation, Target
    <3>2. pos = Len(data) /\ pos >= pos
      BY <2>4, <3>1 DEF Typed
    <3> QED BY <2>1, <2>2, <2>4, <3>2 DEF Begins
  <2> QED BY <1>11, <2>3, <2>4 DEF SeekFinished
<1>12. CASE WriteDone
  <2>1. from' = pos /\ seen' = <<>> /\ UNCHANGED txnVars /\ pos <= Len(data) /\ Clear
    BY <1>12 DEF WriteDone
  <2>2. /\ pos + Len(<<>>) = pos /\ pos + Len(<<>>) <= Len(data)
        /\ <<>> = SubSeq(data, pos + 1, pos + Len(<<>>))
    BY <2>1, NothingRead DEF Typed
  <2> QED BY <2>1, <2>2 DEF Clear
<1>13. CASE CommitDone
  BY <1>13 DEF CommitDone, Finished, Clear, Return
<1>14. CASE QueryLocked
  BY <1>14 DEF QueryLocked, Enters
<1>15. CASE Queried
  BY <1>15 DEF Queried
<1>16. CASE Cancel
  BY <1>16 DEF Cancel, KeepsOp, Return
<1>17. CASE Drop
  BY <1>17 DEF Drop, Release
<1>18. CASE UNCHANGED vars
  BY <1>18 DEF vars
<1> QED BY <1>1, <1>2, <1>3, <1>4, <1>5, <1>6, <1>7, <1>8, <1>9, <1>10, <1>11, <1>12,
           <1>13, <1>14, <1>15, <1>16, <1>17, <1>18 DEF Effect

LEMMA OldTyped == Old \in Chunks
  BY BoundsAreNat, IsASeq DEF Old, Chunks

LEMMA ContentsFitKept ==
    ASSUME Typed, StagesFit, OwnOperation, TxnFits, ContentsFit, PositionFits, Effect
    PROVE  ContentsFit'
<1> USE DrivesIs, NoneIs DEF StagesFit, TxnFits, ContentsFit, callerVars, txnVars
<1>1. CASE Call
  BY <1>1 DEF Call, Methods, NewChunk, ToStart, ToEnd
<1>2. CASE Started
  BY <1>2 DEF Started, Enters, Begins
<1>3. CASE Mismatch
  BY <1>3 DEF Mismatch, Panic, Release
<1>4. CASE Executed
  <2>1. CASE state.kind = "Writing"
    <3>1. data' = data \o <<state.arg>>
      BY <1>4, <2>1, PositionAfterWrite
    <3> QED BY <1>4, <2>1, <3>1 DEF Executed, Proceeds
  <2>2. CASE state.kind \in {"Seeking", "Reading", "ShuttingDown"}
    BY <1>4, <2>2 DEF Executed, Proceeds
  <2> QED BY <1>4, <2>1, <2>2 DEF Executed
<1>5. CASE Failed
  BY <1>5 DEF Failed, Proceeds
<1>6. CASE CommitSent
  BY <1>6 DEF CommitSent, Proceeds
<1>7. CASE CommitExecuted
  BY <1>7 DEF CommitExecuted, Proceeds
<1>8. CASE ReadDone
  BY <1>8 DEF ReadDone, Finished, Clear, Return
<1>9. CASE ReadOverflows
  BY <1>9 DEF ReadOverflows, Finished, Panic, Release
<1>10. CASE SeekSettled
  BY <1>10 DEF SeekSettled, Clear, Return, Enters, Begins
<1>11. CASE SeekFinished
  BY <1>11 DEF SeekFinished, Clear, Return, Enters, Begins
<1>12. CASE WriteDone
  <2>1. /\ state.kind = "Writing" /\ state.phase \in {"ok", "err"}
        /\ state.arg = call.arg
        /\ state'.kind = "none" /\ UNCHANGED txnVars /\ txn # "committed"
        /\ acked' = IF state.phase = "ok" THEN Append(acked, call.arg) ELSE acked
    BY <1>12 DEF WriteDone, Finished, Clear, OwnOperation
  <2>2. Old \o Append(acked, call.arg) = (Old \o acked) \o <<call.arg>>
    BY OldTyped, LengthsTyped, AppendJoins DEF Typed
  <2> QED BY <2>1, <2>2
<1>13. CASE CommitDone
  BY <1>13 DEF CommitDone, Finished, Clear, Return
<1>14. CASE QueryLocked
  BY <1>14 DEF QueryLocked, Enters
<1>15. CASE Queried
  BY <1>15 DEF Queried
<1>16. CASE Cancel
  BY <1>16 DEF Cancel, KeepsOp, Return
<1>17. CASE Drop
  BY <1>17 DEF Drop, Release
<1>18. CASE UNCHANGED vars
  BY <1>18 DEF vars
<1> QED BY <1>1, <1>2, <1>3, <1>4, <1>5, <1>6, <1>7, <1>8, <1>9, <1>10, <1>11, <1>12,
           <1>13, <1>14, <1>15, <1>16, <1>17, <1>18 DEF Effect

LEMMA CallsTyped ==
    ASSUME Typed, Call
    PROVE  calls' \in 0 .. MaxCalls
<1>1. calls' = calls + 1 /\ calls < MaxCalls
  BY DEF Call
<1>2. calls \in 0 .. MaxCalls /\ MaxCalls \in Nat
  BY BoundsAreNat DEF Typed
<1> QED BY <1>1, <1>2

\* The variables other than the two records.
LEMMA RestTypedKept ==
    ASSUME Typed, StagesFit, PositionFits, Effect
    PROVE  /\ state'.out \in Chunks
           /\ pos' \in Nat /\ from' \in Nat /\ calls' \in 0 .. MaxCalls /\ faults' \in Nat
           /\ data' \in Chunks /\ file' \in Chunks /\ acked' \in Chunks /\ seen' \in Chunks
           /\ txn' \in {"active", "aborted", "committed", "rolled back"}
           /\ owner' \in {"open", "dropped", "panicked"} /\ resumed' \in BOOLEAN
           /\ lock' \in {"free", "op", "guard"}
<1>1. state.out \in Chunks /\ NoOp.out = <<>> /\ <<>> \in Chunks
  BY NoneIs, EmptySeq DEF Typed, Operations, Chunks
<1> USE <1>1 DEF Typed, callerVars, txnVars
<1>2. CASE Call
  BY <1>2, CallsTyped DEF Call
<1>3. CASE Executed
  <2>1. CASE state.kind = "Seeking"
    BY <1>3, <2>1, LengthsTyped DEF Executed, Proceeds
  <2>2. CASE state.kind = "Reading"
    <3> DEFINE end == Min2(pos + state.arg, Len(data))
    <3>0. /\ pos \in Nat /\ Len(data) \in Nat /\ state.arg \in Nat /\ pos <= Len(data)
      BY LengthsTyped DEF PositionFits
    <3>1. pos \in 0 .. Len(data) /\ end \in pos .. Len(data) /\ end \in Nat
      BY <3>0, ReadEnd
    <3>2. SubSeq(data, pos + 1, end) \in Chunks
      BY <3>1, PartOf
    <3> HIDE DEF end
    <3> QED BY <1>3, <2>2, <3>1, <3>2 DEF Executed, Proceeds, end
  <2>3. CASE state.kind = "Writing"
    <3>1. data' \in Chunks
      BY <1>3, <2>3, PositionAfterWrite
    <3> QED BY <1>3, <2>3, <3>1 DEF Executed, Proceeds
  <2>4. CASE state.kind = "ShuttingDown"
    BY <1>3, <2>4 DEF Executed, Proceeds
  <2> QED BY <1>3, <2>1, <2>2, <2>3, <2>4 DEF Executed
<1>4. CASE Failed \/ CommitSent \/ CommitExecuted
  <2>0. faults + 1 \in Nat
    BY Sums
  <2>1. CASE Failed
    BY <1>1, <2>0, <2>1 DEF Failed, Proceeds
  <2>2. CASE CommitSent
    BY <1>1, <2>2 DEF CommitSent, Proceeds
  <2>3. CASE CommitExecuted
    BY <1>1, <2>0, <2>3 DEF CommitExecuted, Proceeds
  <2> QED BY <1>4, <2>1, <2>2, <2>3
<1>5. CASE Started \/ QueryLocked \/ Queried \/ Cancel
  <2>1. CASE Started
    BY <1>1, <2>1 DEF Started, Begins
  <2>2. CASE QueryLocked
    BY <1>1, <2>2 DEF QueryLocked
  <2>0. faults + 1 \in Nat
    BY Sums
  <2>3. CASE Queried
    BY <1>1, <2>0, <2>3 DEF Queried
  <2>4. CASE Cancel
    BY <1>1, <2>4 DEF Cancel, KeepsOp
  <2> QED BY <1>5, <2>1, <2>2, <2>3, <2>4
<1>6. CASE ReadDone
  <2>1. seen \o state.out \in Chunks
    BY ConcatProperties DEF Chunks
  <2> QED BY <1>6, <2>1 DEF ReadDone, Clear
<1>7. CASE WriteDone
  <2>1. Append(acked, call.arg) \in Chunks
    BY LengthsTyped, AppendProperties DEF Chunks
  <2> QED BY <1>7, <2>1 DEF WriteDone, Clear
<1>8. CASE SeekSettled \/ SeekFinished \/ CommitDone
  BY <1>8 DEF SeekSettled, SeekFinished, CommitDone, Clear, Begins
<1>9. CASE Mismatch \/ ReadOverflows \/ Drop
  BY <1>9 DEF Mismatch, ReadOverflows, Drop, Panic, Release
<1>10. CASE UNCHANGED vars
  BY <1>10 DEF vars
<1> QED BY <1>2, <1>3, <1>4, <1>5, <1>6, <1>7, <1>8, <1>9, <1>10 DEF Effect

LEMMA TypedKept ==
    ASSUME Typed, StagesFit, PositionFits, [Next]_vars
    PROVE  Typed'
<1>1. Effect
  BY EveryStepHasAnEffect
<1>2. state' \in Operations /\ call' \in MethodCalls
  BY <1>1, RestTypedKept, StateTypedKept, CallTypedKept
<1> QED BY <1>1, <1>2, RestTypedKept DEF Typed

LEMMA InitHolds == Init => BInv
<1> SUFFICES ASSUME Init PROVE BInv
  OBVIOUS
<1> USE NoneIs, NoneTyped, OldTyped DEF Init
<1>1. /\ Len(Old) \in Nat /\ <<>> \in Chunks /\ Len(<<>>) = 0
      /\ Old \o <<>> = Old /\ SubSeq(Old, 0 + 1, 0) = <<>>
  BY LenProperties, EmptySeq, ConcatEmptySeq, SubSeqEmpty DEF Chunks
<1>2. Typed
  <2>1. 0 \in 0 .. MaxCalls
    BY BoundsAreNat
  <2> QED BY <1>1, <2>1 DEF Typed
<1>3. StagesFit /\ OwnOperation /\ TxnFits /\ NoLeftovers
  BY DEF StagesFit, OwnOperation, TxnFits, NoLeftovers
<1>4. ContentsFit
  BY <1>1 DEF ContentsFit
<1>5. PositionFits
  BY <1>1 DEF PositionFits
<1> QED BY <1>2, <1>3, <1>4, <1>5 DEF BInv

LEMMA StepKeeps == BInv /\ [Next]_vars => BInv'
<1> SUFFICES ASSUME BInv, [Next]_vars PROVE BInv'
  OBVIOUS
<1>1. Effect
  BY EveryStepHasAnEffect DEF BInv
<1> QED BY <1>1, TypedKept, StagesFitKept, OwnOperationKept, TxnFitsKept,
           ContentsFitKept,
        PositionFitsKept, NoLeftoversKept DEF BInv

-----------------------------------------------------------------------------
(* The theorems *)

\* In every run of one handle (BlobHandle and PostgresFileHandle, with their callers
\* and Postgres) the operation, the method, the transaction and the contents fit
\* each other as BInv says.
THEOREM HandleInvariant == Spec => []BInv
  BY InitHolds, StepKeeps, PTL DEF Spec

\* The record types, and the mutex around BlobHandle's inner transaction: an
\* operation in progress holds it, or the query of metadata(), or nobody.
THEOREM HandleTypes == Spec => []TypeOK
<1>1. BInv => TypeOK
  <2> SUFFICES ASSUME BInv PROVE TypeOK
    OBVIOUS
  <2>1. state \in [kind : Kinds, arg : Args, phase : Phases, out : {state.out}]
    BY DEF BInv, Typed, Operations
  <2>2. call = NoCall \/ call.op \in {"read", "seek", "append", "metadata", "commit"}
    BY DEF BInv, Typed, StagesFit, MethodCalls, Ops
  <2> QED BY <2>1, <2>2 DEF BInv, Typed, StagesFit, TypeOK, Kinds, Phases, Args
<1> QED BY <1>1, HandleInvariant, PTL

\* Whatever is cancelled, fails or is dropped: the committed file is what it was, or
\* that and the chunks whose append (PostgresFileHandle::append) has answered ok;
\* and it has them if commit has answered ok.
THEOREM AllOrNothingHolds == Spec => []AllOrNothing
<1>1. BInv => AllOrNothing
  BY DEF BInv, ContentsFit, TxnFits, AllOrNothing
<1> QED BY <1>1, HandleInvariant, PTL

\* Between two seeks the reads of a handle (BlobHandle::poll_read) hand out the
\* chunks of the file without gap or repetition, cancelled ones included.
THEOREM ReadsAreContiguousHolds == Spec => []ReadsAreContiguous
<1>1. BInv => ReadsAreContiguous
  BY DEF BInv, PositionFits, ReadsAreContiguous
<1> QED BY <1>1, HandleInvariant, PTL

\* "file handle future was cancelled in the middle of another operation" (the panic
\* of poll_read, start_seek, poll_write and poll_shutdown) and the overflow of a
\* read's buffer need a caller that goes on after cancelling a method.
THEOREM NeverPanicsHolds == Spec => []NeverPanics
<1>1. BInv => NeverPanics
  BY DEF BInv, NoLeftovers, NeverPanics
<1> QED BY <1>1, HandleInvariant, PTL
=============================================================================
