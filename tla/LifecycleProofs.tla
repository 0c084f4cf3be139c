---------------------------- MODULE LifecycleProofs ----------------------------
(***************************************************************************)
(* TypeOK, GracefulStop and OneLateBatch, for any requests, files and      *)
(* bounds.                                                                 *)
(***************************************************************************)
EXTENDS Lifecycle, SequenceTheorems, TLAPS

-----------------------------------------------------------------------------
(* OneLateBatch *)

\* Only a task at "begin" can begin a late batch, and after it the task passes
\* CheckCancelled, which sees the token.
LateInv ==
    /\ late \in {0, 1}
    /\ ~ terminate => late = 0
    /\ terminate /\ late = 1 => loop # "begin"

LEMMA LateStep == LateInv /\ [Next]_vars => LateInv'
<1> SUFFICES ASSUME LateInv, [Next]_vars PROVE LateInv'
  OBVIOUS
<1> USE DEF LateInv
<1>exit. ASSUME NEW how, Exit(how), terminate' = terminate \/ terminate'
         PROVE  LateInv'
  BY <1>exit DEF Exit
<1>1. CASE Launch
  BY <1>1 DEF Launch
<1>2. CASE Kill \/ StartFails \/ ListenerFails \/ Join \/ JoinFails
  BY <1>2, <1>exit DEF Kill, StartFails, ListenerFails, Join, JoinFails
<1>3. CASE CtrlC
  BY <1>3 DEF CtrlC, taskVars
<1>4. CASE SpawnTasks
  BY <1>4 DEF SpawnTasks
<1>5. CASE Wake
  BY <1>5 DEF Wake, AfterTick
<1>6. CASE CheckCancelled
  BY <1>6 DEF CheckCancelled
<1>7. CASE BatchBegins
  BY <1>7 DEF BatchBegins
<1>8. CASE BatchDone \/ BatchFails
  BY <1>8 DEF BatchDone, BatchFails, EndBatch, AfterError
<1>9. CASE UNCHANGED <<terminate, loop, late>>
  BY <1>9
<1> QED
  <2>1. ListenForCtrlC \/ Bind \/ Drain \/ Drained \/ Gone \/ UNCHANGED vars
          => UNCHANGED <<terminate, loop, late>>
    BY DEF ListenForCtrlC, Bind, Drain, Drained, Gone, vars, taskVars
  <2>2. Tick \/ (\E r \in Request : Accept(r) \/ Finish(r)) \/ (\E f \in File : Expire(f))
          => UNCHANGED <<terminate, loop, late>>
    BY DEF Tick, Accept, Finish, Expire, taskVars
  <2> QED
    BY <1>1, <1>2, <1>3, <1>4, <1>5, <1>6, <1>7, <1>8, <1>9, <2>1, <2>2
       DEF Next, StartUp, Listener, Maintenance

\* Of the ticks that are due when the token is cancelled, one at most still leads
\* to a batch (start_maintenance_tasks).
THEOREM OneLateBatchHolds == Spec => []OneLateBatch
<1>1. Init => LateInv
  BY DEF Init, LateInv
<1>2. LateInv => OneLateBatch
  BY DEF LateInv, OneLateBatch
<1> QED BY <1>1, <1>2, LateStep, PTL DEF Spec

-----------------------------------------------------------------------------
(* GracefulStop *)

\* Connections are cut at the end of a process only, and the listener is closed
\* when none is open any more.
StopInv ==
    /\ conns \in [Request -> {"none", "open", "over", "cut"}]
    /\ main \in {"off", "starting", "binding", "serving", "stopped", "failed", "killed"}
    /\ listener \in {"off", "accepting", "draining", "closed"}
    /\ listener # "off" => main = "serving"
    /\ listener = "closed" => Open = {}
    /\ main \in {"off", "starting", "binding", "serving"} =>
         \A r \in Request : conns[r] # "cut"
    /\ GracefulStop

LEMMA StopStep == StopInv /\ [Next]_vars => StopInv'
<1> SUFFICES ASSUME StopInv, [Next]_vars PROVE StopInv'
  OBVIOUS
<1> USE DEF StopInv, GracefulStop, Open
<1>exit. ASSUME NEW how \in {"failed", "killed"}, Exit(how)
         PROVE  StopInv'
  BY <1>exit DEF Exit
<1>join. CASE Join
  <2>1. Open = {} /\ loop = "ended" /\ \A r \in Request : conns[r] # "cut"
    BY <1>join DEF Join, BothHalves
  <2>2. main' = "stopped" /\ loop' = "ended" /\ listener' = "off" /\ conns' = conns
    BY <1>join, <2>1 DEF Join, Exit, BothHalves
  <2>3. \A r \in Request : conns[r] \in {"none", "over"}
    BY <2>1
  <2> QED BY <2>2, <2>3
<1>1. CASE Kill \/ StartFails \/ ListenerFails \/ JoinFails
  BY <1>1, <1>exit DEF Kill, StartFails, ListenerFails, JoinFails
<1>2. CASE Launch
  BY <1>2 DEF Launch
<1>3. CASE SpawnTasks
  BY <1>3 DEF SpawnTasks, serverVars
<1>4. CASE Bind
  BY <1>4 DEF Bind, taskVars
<1>5. ASSUME NEW r \in Request, Accept(r) PROVE StopInv'
  BY <1>5 DEF Accept, taskVars
<1>6. ASSUME NEW r \in Request, Finish(r) PROVE StopInv'
  <2>1. conns' = [conns EXCEPT ![r] = "over"] /\ Open' \subseteq Open
    BY <1>6 DEF Finish
  <2> QED BY <1>6, <2>1 DEF Finish
<1>7. CASE Drain \/ Drained
  BY <1>7 DEF Drain, Drained, taskVars
<1>8. CASE Wake \/ CheckCancelled \/ BatchBegins \/ BatchDone \/ BatchFails
  <2>1. UNCHANGED <<main, serverVars>> /\ loop # "ended"
    BY <1>8 DEF Wake, CheckCancelled, BatchBegins, BatchDone, BatchFails
  <2> QED BY <2>1 DEF serverVars
<1>9. CASE UNCHANGED <<main, serverVars, loop>>
  BY <1>9 DEF serverVars
<1> QED
  <2>1. ListenForCtrlC \/ CtrlC \/ Tick \/ Gone \/ (\E f \in File : Expire(f)) \/ UNCHANGED vars
          => UNCHANGED <<main, serverVars, loop>>
    BY DEF ListenForCtrlC, CtrlC, Tick, Gone, Expire, vars, taskVars
  <2> QED
    BY <1>join, <1>1, <1>2, <1>3, <1>4, <1>5, <1>6, <1>7, <1>8, <1>9, <2>1
       DEF Next, StartUp, Listener, Maintenance

\* If main returns Ok, no request and no batch was cut off (main, try_join!).
THEOREM GracefulStopHolds == Spec => []GracefulStop
<1>1. Init => StopInv
  BY DEF Init, StopInv, GracefulStop, Open
<1>2. StopInv => GracefulStop
  BY DEF StopInv
<1> QED BY <1>1, <1>2, StopStep, PTL DEF Spec

-----------------------------------------------------------------------------
(* TypeOK *)

\* The task is alive only while the process runs, and the running batch is part
\* of the backlog, which only grows at its end meanwhile.
TypeInv ==
    /\ TypeOK
    /\ batch \in Seq(File) /\ Len(batch) <= Len(backlog)
    /\ Alive => Running
    /\ ~ Running => waits = {}

\* What the statement leaves of the backlog is a backlog again.
LEMMA RemainingIsSeq == TypeInv => Remaining \in Seq(File)
<1> SUFFICES ASSUME TypeInv PROVE Remaining \in Seq(File)
  OBVIOUS
<1> DEFINE Fits(i) == SubSeq(backlog, i, i + Len(batch) - 1) = batch
           at == CHOOSE i \in 1 .. Len(backlog) + 1 : Fits(i)
<1>1. /\ backlog \in Seq(File) /\ batch \in Seq(File)
      /\ Len(backlog) \in Nat /\ Len(batch) \in Nat
      /\ batch = SubSeq(backlog, 1, Len(batch))
  BY DEF TypeInv, TypeOK
<1>2. 1 + Len(batch) - 1 = Len(batch) /\ 1 \in 1 .. Len(backlog) + 1
  BY <1>1
<1>3. Fits(1)
  BY <1>1, <1>2
<1>4. at \in 1 .. Len(backlog) + 1
  <2> HIDE DEF Fits
  <2> QED BY <1>2, <1>3
<1>5. Remaining = SubSeq(backlog, 1, at - 1) \o <<>> \o SubSeq(backlog, at + Len(batch), Len(backlog))
  BY DEF Remaining, ReplaceSubSeqAt
<1> HIDE DEF at
<1>6. at - 1 \in Int /\ at + Len(batch) \in Int /\ at - 1 <= Len(backlog) /\ at + Len(batch) >= 1
  BY <1>1, <1>4
<1>7. \A i \in 1 .. Len(backlog) : backlog[i] \in File
  BY <1>1
<1>8. SubSeq(backlog, 1, at - 1) \in Seq(File)
  <2>1. \A i \in 1 .. at - 1 : backlog[i] \in File
    BY <1>1, <1>6, <1>7
  <2> QED BY <2>1, <1>6, SubSeqProperties
<1>9. SubSeq(backlog, at + Len(batch), Len(backlog)) \in Seq(File)
  <2>1. \A i \in at + Len(batch) .. Len(backlog) : backlog[i] \in File
    BY <1>1, <1>6, <1>7
  <2> QED BY <1>1, <2>1, <1>6, SubSeqProperties
<1> QED BY <1>5, <1>8, <1>9, ConcatProperties, ConcatEmptySeq

\* An expired file joins the backlog behind the running batch.
LEMMA ExpireKeepsBatch ==
  ASSUME TypeInv, NEW f \in File, Expire(f)
  PROVE  TypeInv'
<1>1. backlog \in Seq(File) /\ batch \in Seq(File) /\ Len(batch) \in Nat
      /\ Len(backlog) \in Nat /\ Len(batch) <= Len(backlog)
      /\ batch = SubSeq(backlog, 1, Len(batch))
  BY DEF TypeInv, TypeOK
<1>2. backlog' = Append(backlog, f)
      /\ UNCHANGED <<main, ctrlC, terminate, listener, conns, loop, ticks, batch, waits, late, faults>>
  BY DEF Expire, serverVars, taskVars
<1>3. backlog' \in Seq(File) /\ Len(backlog') = Len(backlog) + 1
      /\ \A i \in 1 .. Len(backlog) : backlog'[i] = backlog[i]
  BY <1>1, <1>2, AppendProperties
<1>4. SubSeq(backlog', 1, Len(batch)) = SubSeq(backlog, 1, Len(batch))
  <2>1. \A i \in 1 .. Len(batch) : backlog'[i] = backlog[i] /\ backlog[i] \in File
    BY <1>1, <1>3
  <2> QED BY <1>1, <1>3, <2>1
<1>5. batch' = batch /\ batch' = SubSeq(backlog', 1, Len(batch')) /\ Len(batch') <= Len(backlog')
  BY <1>1, <1>2, <1>3, <1>4
<1> QED BY <1>2, <1>3, <1>5 DEF TypeInv, TypeOK, Open, Alive, Running

\* A batch begins with the oldest files.
LEMMA OldestAreFirst ==
  ASSUME TypeInv
  PROVE  /\ OldestFirst \in Seq(File) /\ Len(OldestFirst) <= Len(backlog)
         /\ OldestFirst = SubSeq(backlog, 1, Len(OldestFirst))
<1> DEFINE n == Least(BatchSize, Len(backlog))
<1>1. backlog \in Seq(File) /\ Len(backlog) \in Nat
  BY DEF TypeInv, TypeOK
<1>2. n \in Nat /\ n <= Len(backlog)
  BY <1>1, BatchSizeIsPos DEF Least
<1>3. OldestFirst = SubSeq(backlog, 1, n)
  BY DEF OldestFirst
<1> HIDE DEF n
<1>4. \A i \in 1 .. n : backlog[i] \in File
  BY <1>1, <1>2
<1>5. SubSeq(backlog, 1, n) \in Seq(File) /\ Len(SubSeq(backlog, 1, n)) = n
  BY <1>1, <1>2, <1>4, SubSeqProperties
<1> QED BY <1>2, <1>3, <1>5

\* The end of the process, however it comes about.
LEMMA ExitKeepsTypes ==
  ASSUME TypeInv, NEW how \in {"stopped", "failed", "killed"}, Exit(how),
         terminate' \in BOOLEAN, faults' \in 0 .. MaxFaults
  PROVE  TypeInv'
<1>1. backlog' \in Seq(File) /\ Len(backlog') \in Nat
  BY RemainingIsSeq DEF Exit, TypeInv, TypeOK
<1>2. batch' = <<>> /\ batch' \in Seq(File) /\ Len(batch') = 0 /\ waits' = {}
  BY DEF Exit
<1>3. batch' = SubSeq(backlog', 1, Len(batch'))
  BY <1>2, SubSeqEmpty
<1>4. conns' \in [Request -> {"none", "open", "over", "cut"}]
  BY DEF Exit, TypeInv, TypeOK
<1>5. loop' \in {"off", "ended", "panicked", "cut"}
  BY DEF Exit
<1>6. main' \in {"stopped", "failed", "killed"} /\ ctrlC' = "off" /\ listener' = "off"
      /\ ticks' = 0 /\ late' \in Nat
  BY DEF Exit, TypeInv, TypeOK
<1>7. ticks' \in 0 .. MaxMissed
  BY <1>6, LifecycleBounds
<1> QED BY <1>1, <1>2, <1>3, <1>4, <1>5, <1>6, <1>7 DEF TypeInv, TypeOK, Alive, Running

LEMMA TypeStep == TypeInv /\ [Next]_vars => TypeInv'
<1> SUFFICES ASSUME TypeInv, [Next]_vars PROVE TypeInv'
  OBVIOUS
<1>exit. ASSUME NEW how \in {"stopped", "failed", "killed"}, Exit(how),
                terminate' \in BOOLEAN, Fault \/ UNCHANGED faults
         PROVE  TypeInv'
  <2>1. faults' \in 0 .. MaxFaults
    BY <1>exit, LifecycleBounds DEF Fault, TypeInv, TypeOK
  <2> QED BY <1>exit, <2>1, ExitKeepsTypes
<1>1. CASE Kill \/ StartFails \/ ListenerFails \/ Join \/ JoinFails
  <2>1. terminate \in BOOLEAN
    BY DEF TypeInv, TypeOK
  <2> QED BY <1>1, <1>exit, <2>1 DEF Kill, StartFails, ListenerFails, Join, JoinFails
<1>2. CASE \E f \in File : Expire(f)
  BY <1>2, ExpireKeepsBatch
\* What touches neither the backlog nor the batch.
<1> DEFINE Others ==
      /\ main \in {"off", "starting", "binding", "serving", "stopped", "failed", "killed"}
      /\ ctrlC \in {"off", "spawned", "listening"}
      /\ terminate \in BOOLEAN
      /\ listener \in {"off", "accepting", "draining", "closed"}
      /\ conns \in [Request -> {"none", "open", "over", "cut"}]
      /\ loop \in {"off", "select", "check", "begin", "running", "ended", "panicked", "cut"}
      /\ ticks \in 0 .. MaxMissed /\ late \in Nat /\ faults \in 0 .. MaxFaults
      /\ waits \subseteq Open
      /\ Alive => Running
      /\ ~ Running => waits = {}
<1> DEFINE Batch ==
      /\ backlog \in Seq(File) /\ batch = SubSeq(backlog, 1, Len(batch))
      /\ batch \in Seq(File) /\ Len(batch) <= Len(backlog)
<1>3. TypeInv <=> Others /\ Batch
  BY DEF TypeInv, TypeOK
<1>4. TypeInv' <=> Others' /\ Batch'
  BY DEF TypeInv, TypeOK
<1>5. UNCHANGED <<backlog, batch>> => Batch'
  BY <1>3
<1> HIDE DEF Batch
<1>6. CASE Launch
  <2>1. Others'
    BY <1>3, <1>6 DEF Launch, Open, Alive, Running
  <2> QED BY <1>4, <1>5, <1>6, <2>1 DEF Launch
<1>7. CASE SpawnTasks \/ ListenForCtrlC \/ Bind \/ CtrlC
  <2>1. CASE SpawnTasks
    <3>1. ticks' \in 0 .. MaxMissed
      BY <2>1, LifecycleBounds DEF SpawnTasks
    <3>2. Others'
      BY <1>3, <2>1, <3>1 DEF SpawnTasks, serverVars, Open, Alive, Running
    <3> QED BY <1>4, <1>5, <2>1, <3>2 DEF SpawnTasks
  <2>2. CASE ListenForCtrlC \/ CtrlC
    <3>1. Others' /\ UNCHANGED <<backlog, batch>>
      BY <1>3, <2>2 DEF ListenForCtrlC, CtrlC, serverVars, taskVars, Open, Alive, Running
    <3> QED BY <1>4, <1>5, <3>1
  <2>3. CASE Bind
    <3>1. Others' /\ UNCHANGED <<backlog, batch>>
      BY <1>3, <2>3 DEF Bind, taskVars, Open, Alive, Running
    <3> QED BY <1>4, <1>5, <3>1
  <2> QED BY <1>7, <2>1, <2>2, <2>3
<1>8. ASSUME NEW r \in Request, Accept(r) \/ Finish(r) PROVE TypeInv'
  <2>1. CASE Accept(r)
    <3>1. Others'
      BY <1>3, <2>1 DEF Accept, taskVars, Open, Alive, Running
    <3> QED BY <1>4, <1>5, <2>1, <3>1 DEF Accept, taskVars
  <2>2. CASE Finish(r)
    <3>1. Others'
      BY <1>3, <2>2 DEF Finish, Open, Alive, Running
    <3> QED BY <1>4, <1>5, <2>2, <3>1 DEF Finish
  <2> QED BY <1>8, <2>1, <2>2
<1>9. CASE Drain \/ Drained
  <2>1. Others' /\ UNCHANGED <<backlog, batch>>
    BY <1>3, <1>9 DEF Drain, Drained, taskVars, Open, Alive, Running
  <2> QED BY <1>4, <1>5, <2>1
<1>10. CASE Tick \/ Wake \/ CheckCancelled
  <2>1. Others' /\ UNCHANGED <<backlog, batch>>
    BY <1>3, <1>10, LifecycleBounds
       DEF Tick, Wake, CheckCancelled, AfterTick, serverVars, Open, Alive, Running
  <2> QED BY <1>4, <1>5, <2>1
<1>11. CASE BatchBegins
  <2>1. Others'
    BY <1>3, <1>11 DEF BatchBegins, serverVars, Open, Alive, Running
  <2>2. Batch'
    <3>1. batch' = OldestFirst /\ backlog' = backlog
      BY <1>11 DEF BatchBegins
    <3> QED BY <1>3, <3>1, OldestAreFirst DEF Batch
  <2> QED BY <1>4, <2>1, <2>2
<1>12. CASE BatchDone \/ BatchFails
  <2>1. Others'
    <3>1. faults' \in 0 .. MaxFaults
      BY <1>3, <1>12, LifecycleBounds DEF BatchDone, BatchFails, Fault
    <3>2. /\ UNCHANGED <<main, ctrlC, terminate, listener, conns, ticks, late>>
          /\ loop = "running" /\ loop' \in {"select", "panicked"} /\ waits' = {}
      BY <1>12 DEF BatchDone, BatchFails, EndBatch, AfterError, serverVars
    <3> QED BY <1>3, <3>1, <3>2 DEF Open, Alive, Running
  <2>2. Batch'
    <3>1. batch' = <<>> /\ backlog' \in Seq(File)
      BY <1>12, RemainingIsSeq DEF BatchDone, BatchFails, EndBatch, TypeInv, TypeOK
    <3>2. batch' = SubSeq(backlog', 1, Len(batch')) /\ Len(batch') = 0
      BY <3>1, SubSeqEmpty
    <3> QED BY <3>1, <3>2 DEF Batch
  <2> QED BY <1>4, <2>1, <2>2
<1>13. CASE Gone \/ UNCHANGED vars
  <2>1. Others' /\ UNCHANGED <<backlog, batch>>
    BY <1>3, <1>13 DEF Gone, vars, serverVars, taskVars, Open, Alive, Running
  <2> QED BY <1>4, <1>5, <2>1
<1> QED
  BY <1>1, <1>2, <1>6, <1>7, <1>8, <1>9, <1>10, <1>11, <1>12, <1>13
     DEF Next, StartUp, Listener, Maintenance

\* The state of main, its two tasks and the listener is what the code can be in; a
\* running batch holds the oldest expired files (delete_old_files_batch), and it
\* waits for open requests only.
THEOREM LifecycleTypes == Spec => []TypeOK
<1>1. Init => TypeInv
  <2>1. <<>> = SubSeq(<<>>, 1, Len(<<>>)) /\ Len(<<>>) = 0
    BY SubSeqEmpty
  <2>2. 0 \in 0 .. MaxMissed /\ 0 \in 0 .. MaxFaults /\ <<>> \in Seq(File)
    BY LifecycleBounds
  <2>3. Init => /\ backlog \in Seq(File) /\ batch \in Seq(File)
                /\ batch = SubSeq(backlog, 1, Len(batch)) /\ Len(batch) <= Len(backlog)
    BY <2>1, <2>2 DEF Init
  <2>4. Init => conns \in [Request -> {"none", "open", "over", "cut"}] /\ waits \subseteq Open
    BY DEF Init
  <2>5. Init => ticks \in 0 .. MaxMissed /\ late \in Nat /\ faults \in 0 .. MaxFaults
    BY <2>2 DEF Init
  <2>6. Init => /\ main = "off" /\ ctrlC = "off" /\ terminate \in BOOLEAN
                /\ listener = "off" /\ loop = "off" /\ waits = {}
    BY DEF Init
  <2> QED BY <2>3, <2>4, <2>5, <2>6 DEF TypeInv, TypeOK, Alive, Running
<1>2. TypeInv => TypeOK
  BY DEF TypeInv
<1> QED BY <1>1, <1>2, TypeStep, PTL DEF Spec
=============================================================================
