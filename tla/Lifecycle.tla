------------------------------- MODULE Lifecycle -------------------------------
(***************************************************************************)
(* The serving process from its start to its end: start-up, the listener,  *)
(* the maintenance task with its interval, ctrl-c and the graceful         *)
(* shutdown, which joins listener and task.                                *)
(*                                                                         *)
(* server/src/main.rs:86-132, server/src/tasks.rs                          *)
(*                                                                         *)
(* The process can end in three ways: "stopped" (main returns Ok),         *)
(* "failed" (main returns an error) and "killed".  In each the runtime is  *)
(* gone, and what still ran on it is cut off.  A supervisor may start it   *)
(* again.  Requests and batches are atomic here but for the waiting of a   *)
(* batch for the locks of uploads; Service says what they do.              *)
(***************************************************************************)
EXTENDS Naturals, Sequences, SequencesExt

CONSTANTS
    Request,    \* requests; one that is over may come again
    File,       \* names of files that expire, again and again
    BatchSize,  \* rows that one batch deletes (1000 in the code)
    MaxMissed,  \* bound on the ticks that wait while a batch runs
    MaxFaults   \* bound on kills and errors

ASSUME BatchSizeIsPos == BatchSize \in Nat \ {0}
ASSUME LifecycleBounds == MaxMissed \in Nat \ {0} /\ MaxFaults \in Nat

VARIABLES
    main,       \* where main() stands, or how it ended
    ctrlC,      \* the task that waits for ctrl-c: "off", "spawned", "listening"
    terminate,  \* the CancellationToken
    listener,   \* "off", "accepting", "draining" or "closed"
    conns,      \* each request: "none", "open", "over" or "cut"
    loop,       \* where the maintenance task stands, or how it ended
    ticks,      \* ticks of the interval that are due
    batch,      \* the expired files that the running batch deletes
    waits,      \* uploads whose locks the running batch waits for
    backlog,    \* expired files in the order of delete_after
    late,       \* batches begun after the cancellation
    faults

taskVars == <<loop, ticks, batch, waits, late>>
serverVars == <<listener, conns>>
vars == <<main, ctrlC, terminate, serverVars, taskVars, backlog, faults>>

Running == main \in {"starting", "binding", "serving"}
Open == {r \in Request : conns[r] = "open"}

Init ==
    /\ main = "off" /\ ctrlC = "off" /\ terminate = FALSE
    /\ listener = "off" /\ conns = [r \in Request |-> "none"]
    /\ loop = "off" /\ ticks = 0 /\ batch = <<>> /\ waits = {} /\ late = 0
    /\ backlog = <<>> /\ faults = 0

Fault == faults < MaxFaults /\ faults' = faults + 1

-----------------------------------------------------------------------------
(* The end of the process *)

\* The batch's rows are neighbours in the order of delete_after; the statement
\* deletes exactly them.
Remaining ==
    LET at == CHOOSE i \in 1 .. Len(backlog) + 1 :
                  SubSeq(backlog, i, i + Len(batch) - 1) = batch
    IN  ReplaceSubSeqAt(at, <<>>, batch, backlog)

\* A statement whose connection closes may take effect or not.
Exit(how) ==
    /\ main' = how /\ ctrlC' = "off" /\ listener' = "off"
    /\ conns' = [r \in Request |-> IF r \in Open THEN "cut" ELSE conns[r]]
    /\ loop' = CASE loop = "running"                -> "cut"
                 [] loop \in {"ended", "panicked"} -> loop
                 [] OTHER                           -> "off"
    /\ ticks' = 0 /\ batch' = <<>> /\ waits' = {}
    /\ backlog' \in {backlog, Remaining}
    /\ UNCHANGED late

\* The process dies, for instance of a ctrl-c that nothing listens for yet.
Kill ==
    /\ Running /\ Fault
    /\ Exit("killed")
    /\ UNCHANGED terminate

-----------------------------------------------------------------------------
(* Start-up *)

Launch ==
    /\ main \in {"off", "failed", "killed"}
    /\ main' = "starting" /\ terminate' = FALSE
    /\ conns' = [r \in Request |-> "none"] /\ loop' = "off" /\ late' = 0
    /\ UNCHANGED <<ctrlC, listener, ticks, batch, waits, backlog, faults>>

\* AppStateInner::new has connected and migrated; two tasks are spawned.  The
\* first tick of an interval is due at once.
SpawnTasks ==
    /\ main = "starting" /\ main' = "binding"
    /\ ctrlC' = "spawned" /\ loop' = "select" /\ ticks' = 1
    /\ UNCHANGED <<terminate, serverVars, batch, waits, late, backlog, faults>>

ListenForCtrlC ==
    /\ ctrlC = "spawned" /\ ctrlC' = "listening"
    /\ UNCHANGED <<main, terminate, serverVars, taskVars, backlog, faults>>

Bind ==
    /\ main = "binding" /\ main' = "serving" /\ listener' = "accepting"
    /\ UNCHANGED <<ctrlC, terminate, conns, taskVars, backlog, faults>>

\* Connecting, migrating or binding fails, and main returns the error.
StartFails ==
    /\ main \in {"starting", "binding"} /\ Fault
    /\ Exit("failed")
    /\ UNCHANGED terminate

CtrlC ==
    /\ ctrlC = "listening" /\ ~ terminate /\ terminate' = TRUE
    /\ UNCHANGED <<main, ctrlC, serverVars, taskVars, backlog, faults>>

-----------------------------------------------------------------------------
(* The listener: axum::serve with graceful shutdown *)

Accept(r) ==
    /\ listener = "accepting" /\ conns[r] \in {"none", "over"}
    /\ conns' = [conns EXCEPT ![r] = "open"]
    /\ UNCHANGED <<main, ctrlC, terminate, listener, taskVars, backlog, faults>>

\* The request is answered, or its client goes away.
Finish(r) ==
    /\ conns[r] = "open" /\ conns' = [conns EXCEPT ![r] = "over"]
    /\ waits' = waits \ {r}
    /\ UNCHANGED <<main, ctrlC, terminate, listener, loop, ticks, batch, late,
                   backlog, faults>>

NotWired == FALSE                                                      \* mutant
\* with_graceful_shutdown(terminate.cancelled_owned())
ShutdownSignal == terminate

\* No new connections; those that are open are waited for, however long.
Drain ==
    /\ listener = "accepting" /\ ShutdownSignal /\ listener' = "draining"
    /\ UNCHANGED <<main, ctrlC, terminate, conns, taskVars, backlog, faults>>

Drained ==
    /\ listener = "draining" /\ Open = {} /\ listener' = "closed"
    /\ UNCHANGED <<main, ctrlC, terminate, conns, taskVars, backlog, faults>>

\* The token is cancelled, but try_join! returns the error in the same poll.  (The
\* error is in the type of axum::serve, which retries accept and returns none yet.)
ListenerFails ==
    /\ listener \in {"accepting", "draining"} /\ Fault
    /\ terminate' = TRUE
    /\ Exit("failed")

-----------------------------------------------------------------------------
(* The maintenance task *)

Alive == loop \in {"select", "check", "begin", "running"}

\* Another 120 s are over.  Missed ticks are made up for (MissedTickBehavior::Burst).
Tick ==
    /\ Alive /\ ticks < MaxMissed /\ ticks' = ticks + 1
    /\ UNCHANGED <<main, ctrlC, terminate, serverVars, loop, batch, waits, late,
                   backlog, faults>>

BeginUnchecked == "begin"                                              \* mutant
\* Both arms of the select lead to the test of is_cancelled.
AfterTick == "check"

\* When both are ready, select! chooses at random.
Wake ==
    /\ loop = "select"
    /\ \/ ticks > 0 /\ ticks' = ticks - 1 /\ loop' = AfterTick
       \/ terminate /\ loop' = "check" /\ UNCHANGED ticks
    /\ UNCHANGED <<main, ctrlC, terminate, serverVars, batch, waits, late,
                   backlog, faults>>

CheckCancelled ==
    /\ loop = "check" /\ loop' = IF terminate THEN "ended" ELSE "begin"
    /\ UNCHANGED <<main, ctrlC, terminate, serverVars, ticks, batch, waits, late,
                   backlog, faults>>

Least(a, b) == IF a < b THEN a ELSE b

NewestFirst == SubSeq(Reverse(backlog), 1, Least(BatchSize, Len(backlog)))  \* mutant
\* order by delete_after asc ... limit 1000
OldestFirst == SubSeq(backlog, 1, Least(BatchSize, Len(backlog)))

\* The batch takes its snapshot; it may have to wait for uploads in progress.
BatchBegins ==
    /\ loop = "begin" /\ loop' = "running"
    /\ batch' = OldestFirst
    /\ waits' \in SUBSET Open
    /\ late' = IF terminate THEN late + 1 ELSE late
    /\ UNCHANGED <<main, ctrlC, terminate, serverVars, ticks, backlog, faults>>

EndBatch(next) == loop' = next /\ batch' = <<>> /\ waits' = {}

BatchDone ==
    /\ loop = "running" /\ waits = {}
    /\ EndBatch("select")
    /\ backlog' = Remaining
    /\ UNCHANGED <<main, ctrlC, terminate, serverVars, ticks, late, faults>>

LoopGivesUp == "ended"                                                 \* mutant
\* An error is logged.
AfterError == "select"

BatchFails ==
    /\ loop = "running" /\ Fault
    /\ \E next \in {AfterError, "panicked"} : EndBatch(next)
    /\ UNCHANGED <<main, ctrlC, terminate, serverVars, ticks, late, backlog>>

-----------------------------------------------------------------------------
(* try_join! *)

EitherHalf == listener = "closed" \/ loop = "ended"                    \* mutant
BothHalves == listener = "closed" /\ loop = "ended"

Join ==
    /\ main = "serving" /\ BothHalves
    /\ Exit("stopped")
    /\ UNCHANGED <<terminate, faults>>

\* The task panicked: its JoinHandle resolves to an error.
JoinFails ==
    /\ main = "serving" /\ loop = "panicked"
    /\ Exit("failed")
    /\ UNCHANGED <<terminate, faults>>

-----------------------------------------------------------------------------
(* Specification *)

\* The delete_after of a file passes.
Expire(f) ==
    /\ f \notin ToSet(backlog) /\ backlog' = Append(backlog, f)
    /\ UNCHANGED <<main, ctrlC, terminate, serverVars, taskVars, faults>>

\* A server that was asked to stop is not started again.
Gone == main = "stopped" /\ UNCHANGED vars

StartUp == SpawnTasks \/ Bind
Listener == Drain \/ Drained \/ Join \/ JoinFails
Maintenance == Wake \/ CheckCancelled \/ BatchBegins \/ BatchDone

Next ==
    \/ Launch \/ Kill \/ StartFails \/ CtrlC \/ ListenForCtrlC \/ Tick
    \/ StartUp \/ Listener \/ ListenerFails \/ Maintenance \/ BatchFails
    \/ \E r \in Request : Accept(r) \/ Finish(r)
    \/ \E f \in File : Expire(f)
    \/ Gone

\* tokio polls every task that is ready, the clock goes on, and every request
\* ends: its body arrives or its client goes away.
Fairness ==
    /\ WF_vars(StartUp) /\ WF_vars(Listener)
    /\ WF_vars(Maintenance) /\ WF_vars(Tick)
    /\ \A r \in Request : WF_vars(Finish(r))

Spec == Init /\ [][Next]_vars /\ Fairness

-----------------------------------------------------------------------------
(* Properties *)

\* Every variable has its type; the files of a running batch are the oldest of
\* the backlog, and it waits for open requests only (mod.rs:296-302).
TypeOK ==
    /\ main \in {"off", "starting", "binding", "serving", "stopped", "failed", "killed"}
    /\ ctrlC \in {"off", "spawned", "listening"}
    /\ terminate \in BOOLEAN
    /\ listener \in {"off", "accepting", "draining", "closed"}
    /\ conns \in [Request -> {"none", "open", "over", "cut"}]
    /\ loop \in {"off", "select", "check", "begin", "running", "ended", "panicked", "cut"}
    /\ ticks \in 0 .. MaxMissed /\ late \in Nat /\ faults \in 0 .. MaxFaults
    /\ backlog \in Seq(File) /\ batch = SubSeq(backlog, 1, Len(batch))
    /\ waits \subseteq Open

\* If main returns Ok, no request and no batch was cut off (main.rs:114-127:
\* the listener drains and both halves are joined), whenever ctrl-c came.
GracefulStop ==
    main = "stopped" => loop = "ended" /\ \A r \in Request : conns[r] \in {"none", "over"}

\* Of the ticks that are due when the token is cancelled, one at most still
\* leads to a batch: the one that had passed is_cancelled (tasks.rs:20-26).
OneLateBatch == late <= 1

\* Cancelling the token ends the process, wherever start-up, listener and task
\* stand, provided every request ends (main.rs:98, 112 and tasks.rs:24).
ShutdownCompletes == terminate ~> ~ Running

\* The process does not go on with only one of its halves: no server without
\* expiry, no expiry without server (main.rs:114-127, tasks.rs:29-31).
NoHalfServer ==
    (main = "serving" /\ (~ Alive \/ listener # "accepting")) ~> (main # "serving")

\* While the server runs no expired file waits for ever, although a batch takes
\* BatchSize files only, others expire all the time, and batches fail or wait for
\* uploads (the order by delete_after, mod.rs:299-301).
BacklogDrains ==
    \A f \in File : (f \in ToSet(backlog)) ~> (f \notin ToSet(backlog) \/ terminate \/ ~ Running)
=============================================================================
