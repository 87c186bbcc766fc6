-------------------------- MODULE TrafficBatchProofs --------------------------
(***************************************************************************)
(* Proofs about a sharded measurement, for every set of shards and any     *)
(* number of crashes, kills, lost commands and deadlines: a closed token   *)
(* is silent, what the ledger holds for cleaned up is closed, the shards   *)
(* send in one epoch and are published together, and whatever runs in a    *)
(* Pod is named in the ledger.                                             *)
(*                                                                         *)
(* The argument rests on the directory of a token: it is made once, by the *)
(* worker or by the command that cancels it, and files are never removed.  *)
(***************************************************************************)
EXTENDS TrafficBatch, TLAPS

\* A worker and the files in its directory.
TokenKept ==
    \A w \in Worker :
        /\ proc[w] \in Alive => Has(w, "directory")
        /\ dir[w] # {} => Has(w, "directory")
        /\ ~Has(w, "directory") => proc[w] \in {"none", "sent"}
        /\ proc[w] \in {"none", "sent", "made", "launch"} => child[w] = "none"
        /\ proc[w] \in {"none", "sent", "made", "launch", "forked"} => ~Has(w, "children")
        /\ proc[w] \in {"arming", "running"} => Has(w, "children")
        /\ Has(w, "ready") => Has(w, "children")
        /\ Has(w, "release") => Has(w, "ready") /\ w[2] = "client"
        /\ child[w] \in {"checked", "sending"} => Has(w, "release")
        /\ proc[w] = "closing" =>
              Has(w, "cancelling") /\ child[w] \notin {"checked", "sending"}
        /\ cancel[w] = "reserved" \/ stray[w] = "reserved" =>
              /\ Has(w, "directory") /\ proc[w] \in {"none", "sent", "gone"}
              /\ child[w] = "none" /\ ~Has(w, "children")
        /\ cancel[w] = "ok" => Has(w, "closed")

\* A worker is started once, after the window was reserved, and a client after
\* its server was ready.
StartedOnce ==
    /\ host = "plan" => \A w \in Worker : proc[w] = "none"
    /\ host = "plan" => \A s \in Shards : thread[s] = "off"
    /\ host # "plan" => \A s \in Shards : window[s] # "none"
    /\ host = "recover" => \A s, t \in Shards :
          thread[s] # "off" /\ thread[t] # "off" => s = t
    /\ \A s \in Shards :
          /\ thread[s] = "servers" => proc[<<s, "server">>] = "none"
          /\ thread[s] \in {"servers", "readiness"} => proc[<<s, "client">>] = "none"
          /\ proc[<<s, "client">>] # "none" => Has(<<s, "server">>, "ready")

\* The release of a client follows the barrier, and the barrier every shard.
Barrier ==
    /\ \A s \in Shards : Has(<<s, "client">>, "release") => verdict = "go"
    /\ sent # {} => verdict = "go"
    /\ verdict = "go" => arrived = Shards
    /\ \A s \in arrived : Has(<<s, "client">>, "ready")

\* A shard without an error has been measured, and cleaned up at its end.
Measured ==
    /\ \A s \in Shards : host = "run" /\ s \notin failed =>
          /\ thread[s] \in {"sweep1", "join", "sweep2", "ended"} => s \in sent
          /\ thread[s] = "ended" => \A w \in Pods(s) : Has(w, "closed")
    /\ \A s \in Shards : window[s] = "accepted" => host = "done"

\* The inductive invariant.
IInv == /\ TypeOK /\ TokenKept /\ StartedOnce /\ Barrier /\ Measured
        /\ ClosedMeansSilent /\ VerifiedMeansClosed /\ AcceptedMeasured /\ Owned
-----------------------------------------------------------------------------
\* The steps of a worker and its cancel command, of a shard, and of the host.
WorkerStep(w) == Pod(w) \/ Expire(w) \/ Kill(w) \/ LoseCancel(w) \/ TimeOut(w)
ShardStep(s) == Thread(s) \/ EndFlow(s) \/ RecoverWindow(s) \/ Deadline(s)
HostStep == Reserve \/ Publish \/ Reject \/ CleanupDone \/ Crash

\* A step is of a worker, of a shard's thread or of the host.
LEMMA NextSteps ==
    Next => \/ \E w \in Worker : WorkerStep(w)
            \/ \E s \in Shards : ShardStep(s)
            \/ HostStep
BY DEF Next, Fault, WorkerStep, ShardStep, HostStep

-----------------------------------------------------------------------------
\* Types

\* A step of a worker.
LEMMA WorkerTypes ==
    ASSUME TypeOK, TokenKept, NEW w \in Worker, WorkerStep(w)
    PROVE  TypeOK'
<1> USE DEF TypeOK, TokenKept, File, ProcPc, Answered, Stage, commands, Alive, Add, Has, hostVars
<1>1. CASE Make(w)
  BY <1>1 DEF Make
<1>2. CASE Own(w)
  BY <1>2 DEF Own
<1>3. CASE Fork(w)
  BY <1>3 DEF Fork
<1>4. CASE RecordChild(w)
  BY <1>4 DEF RecordChild
<1>5. CASE Ready(w)
  BY <1>5 DEF Ready
<1>6. CASE Exit(w)
  BY <1>6 DEF Exit
<1>7. CASE Cleanup(w)
  BY <1>7 DEF Cleanup
<1>8. CASE CloseDir(w)
  BY <1>8 DEF CloseDir
<1>9. CASE Launch(w)
  BY <1>9 DEF Launch
<1>10. CASE Send(w)
  BY <1>10 DEF Send
<1>11. CASE GiveUp(w)
  BY <1>11 DEF GiveUp
<1>12. CASE Expire(w)
  BY BatchAssumption, <1>12 DEF Expire, Mishap
<1>13. CASE Kill(w)
  BY BatchAssumption, <1>13 DEF Kill, Mishap
<1>14. ASSUME NEW h, Cancellation(w, h) PROVE TypeOK'
  <2>1. CASE ReserveToken(w, h)
    BY <2>1 DEF ReserveToken, At, Answer
  <2>2. CASE SealToken(w, h)
    BY <2>2 DEF SealToken, At, Answer
  <2>3. CASE FindClosed(w, h)
    BY <2>3 DEF FindClosed, At, Answer, podVars
  <2>4. CASE MarkCancelling(w, h)
    BY <2>4 DEF MarkCancelling, At, Answer
  <2>5. CASE Signal(w, h)
    BY <2>5 DEF Signal, At, Answer
  <2>6. CASE CloseOrphans(w, h)
    BY <2>6 DEF CloseOrphans, Orphaned, At, Answer
  <2>7. CASE LeaveOrphans(w, h)
    BY <2>7 DEF LeaveOrphans, Orphaned, At, Answer
  <2>8. CASE RefuseCancel(w, h)
    BY <2>8 DEF RefuseCancel, At, Answer, podVars
  <2>9. QED
    BY <1>14, <2>1, <2>2, <2>3, <2>4, <2>5, <2>6, <2>7, <2>8 DEF Cancellation
<1>15. CASE LoseCancel(w)
  BY BatchAssumption, <1>15 DEF LoseCancel, Mishap, podVars
<1>16. CASE Return(w)
  BY <1>16 DEF Return, podVars
<1>17. CASE TimeOut(w)
  BY BatchAssumption, <1>17 DEF TimeOut, Mishap, podVars
<1>18. QED
  BY <1>1, <1>2, <1>3, <1>4, <1>5, <1>6, <1>7, <1>8, <1>9, <1>10, <1>11, <1>12,
     <1>13, <1>14, <1>15, <1>16, <1>17
     DEF WorkerStep, Pod, Supervisor, Flow

\* A step of a shard.
LEMMA ShardTypes ==
    ASSUME TypeOK, StartedOnce, NEW s \in Shards, ShardStep(s)
    PROVE  TypeOK'
<1> USE DEF TypeOK, StartedOnce, File, ProcPc, ThreadPc, Answered, Stage, Worker, Add,
            Has, hostVars, commands
<1>1. CASE EndFlow(s)
  BY <1>1 DEF EndFlow
<1>2. CASE StartServer(s)
  BY <1>2 DEF StartServer, StartWorker, Goto
<1>3. CASE StartClient(s)
  BY <1>3 DEF StartClient, StartWorker, Goto
<1>4. CASE Arrive(s)
  BY <1>4 DEF Arrive, Goto, podVars
<1>5. CASE Release(s)
  BY <1>5 DEF Release, Goto
<1>6. CASE Collect(s)
  BY <1>6 DEF Collect, Goto, SendCancels, podVars
<1>7. CASE Abort(s)
  BY <1>7 DEF Abort, Fail, Goto, SendCancels, podVars
<1>8. CASE Deadline(s)
  BY BatchAssumption, <1>8 DEF Deadline, Fail, Goto, SendCancels, podVars, Mishap
<1>9. CASE Sweep1(s)
  BY <1>9 DEF Sweep1, Goto, Note, podVars
<1>10. CASE Join(s)
  BY <1>10 DEF Join, Goto, SendCancels, podVars
<1>11. CASE Sweep2(s)
  BY <1>11 DEF Sweep2, Wake, Goto, Note, podVars
<1>12. CASE RecoverWindow(s)
  BY <1>12 DEF RecoverWindow, SendCancels, podVars
<1>13. CASE MarkVerified(s)
  BY <1>13 DEF MarkVerified, Goto, podVars
<1>14. CASE Refuse(s)
  BY BatchAssumption, <1>14 DEF Refuse, Wake, Goto, podVars, Mishap
<1>15. QED
  BY <1>1, <1>2, <1>3, <1>4, <1>5, <1>6, <1>7, <1>8, <1>9, <1>10, <1>11, <1>12,
     <1>13, <1>14
     DEF ShardStep, Thread

\* A step of the host.
LEMMA HostTypes ==
    ASSUME TypeOK, HostStep
    PROVE  TypeOK'
<1> USE DEF TypeOK, ThreadPc, Answered, Stage, Has, hostVars, commands
<1>1. CASE Reserve
  BY <1>1 DEF Reserve, podVars
<1>2. CASE Publish
  BY <1>2 DEF Publish, podVars
<1>3. CASE Reject
  BY BatchAssumption, <1>3 DEF Reject, podVars, Mishap
<1>4. CASE CleanupDone
  BY <1>4 DEF CleanupDone, podVars
<1>5. CASE Crash
  BY BatchAssumption, <1>5 DEF Crash, podVars, Mishap
<1>6. QED
  BY <1>1, <1>2, <1>3, <1>4, <1>5
     DEF HostStep

-----------------------------------------------------------------------------
\* The worker and its directory

\* A step of a worker.
LEMMA WorkerToken ==
    ASSUME TypeOK, TokenKept, ClosedMeansSilent, NEW w \in Worker, WorkerStep(w)
    PROVE  (TokenKept /\ ClosedMeansSilent)'
<1> USE DEF TypeOK, TokenKept, ClosedMeansSilent, File, Alive, Answered, Stage, commands, Add,
            Has, hostVars
<1>1. CASE Make(w)
  BY <1>1 DEF Make
<1>2. CASE Own(w)
  BY <1>2 DEF Own
<1>3. CASE Fork(w)
  BY <1>3 DEF Fork
<1>4. CASE RecordChild(w)
  BY <1>4 DEF RecordChild
<1>5. CASE Ready(w)
  BY <1>5 DEF Ready
<1>6. CASE Exit(w)
  BY <1>6 DEF Exit
<1>7. CASE Cleanup(w)
  BY <1>7 DEF Cleanup
<1>8. CASE CloseDir(w)
  BY <1>8 DEF CloseDir
<1>9. CASE Launch(w)
  BY <1>9 DEF Launch
<1>10. CASE Send(w)
  BY <1>10 DEF Send
<1>11. CASE GiveUp(w)
  BY <1>11 DEF GiveUp
<1>12. CASE Expire(w)
  BY <1>12 DEF Expire, Mishap
<1>13. CASE Kill(w)
  BY <1>13 DEF Kill, Mishap
<1>14. ASSUME NEW h, Cancellation(w, h) PROVE (TokenKept /\ ClosedMeansSilent)'
  <2>1. CASE ReserveToken(w, h)
    BY <2>1 DEF ReserveToken, At, Answer
  <2>2. CASE SealToken(w, h)
    BY <2>2 DEF SealToken, At, Answer
  <2>3. CASE FindClosed(w, h)
    BY <2>3 DEF FindClosed, At, Answer, podVars
  <2>4. CASE MarkCancelling(w, h)
    BY <2>4 DEF MarkCancelling, At, Answer
  <2>5. CASE Signal(w, h)
    BY <2>5 DEF Signal, At, Answer
  <2>6. CASE CloseOrphans(w, h)
    BY <2>6 DEF CloseOrphans, Orphaned, At, Answer
  <2>7. CASE LeaveOrphans(w, h)
    BY <2>7 DEF LeaveOrphans, Orphaned, At, Answer
  <2>8. CASE RefuseCancel(w, h)
    BY <2>8 DEF RefuseCancel, At, Answer, podVars
  <2>9. QED
    BY <1>14, <2>1, <2>2, <2>3, <2>4, <2>5, <2>6, <2>7, <2>8 DEF Cancellation
<1>15. CASE LoseCancel(w)
  BY <1>15 DEF LoseCancel, Mishap, podVars
<1>16. CASE Return(w) \/ TimeOut(w)
  BY <1>16 DEF Return, podVars, TimeOut, Mishap
<1>17. QED
  BY <1>1, <1>2, <1>3, <1>4, <1>5, <1>6, <1>7, <1>8, <1>9, <1>10, <1>11, <1>12,
     <1>13, <1>14, <1>15, <1>16
     DEF WorkerStep, Pod, Supervisor, Flow

\* A step of a shard.
LEMMA ShardToken ==
    ASSUME TypeOK, TokenKept, StartedOnce, ClosedMeansSilent, NEW s \in Shards, ShardStep(s)
    PROVE  (TokenKept /\ ClosedMeansSilent)'
<1> USE DEF TypeOK, TokenKept, StartedOnce, ClosedMeansSilent, Alive, Worker,
            Pods, Add, Has, hostVars, commands
<1>1. CASE EndFlow(s)
  <2>1. Has(<<s, "client">>, "release") /\ Has(<<s, "server">>, "children")
        /\ Has(<<s, "client">>, "children")
    BY <1>1 DEF EndFlow
  <2>2. \A w \in Worker : w \in Pods(s) => Has(w, "children")
    BY <2>1
  <2>3. QED BY <1>1, <2>2 DEF EndFlow
<1>2. CASE StartServer(s)
  <2> DEFINE v == <<s, "server">>
  <2>1. v \in Worker /\ proc[v] = "none"
    BY <1>2 DEF StartServer, StartWorker
  <2>2. proc' = [proc EXCEPT ![v] = "sent"] /\ UNCHANGED <<child, dir, cancel, stray>>
    BY <1>2 DEF StartServer, StartWorker
  <2> HIDE DEF v
  <2>3. QED BY <2>1, <2>2
<1>3. CASE StartClient(s)
  BY <1>3 DEF StartClient, StartWorker, Goto
<1>4. CASE Release(s)
  <2> DEFINE v == <<s, "client">>
  <2>1. v \in Worker /\ v[2] = "client" /\ Has(v, "ready") /\ child[v] = "armed"
    BY <1>4 DEF Release, Armed
  <2>2. dir' = [dir EXCEPT ![v] = @ \cup {"release"}] /\ UNCHANGED <<proc, child, cancel, stray>>
    BY <1>4 DEF Release
  <2> HIDE DEF v
  <2>3. QED BY <2>1, <2>2
<1>5. CASE Arrive(s) \/ Collect(s) \/ Abort(s) \/ Deadline(s) \/ Sweep1(s) \/
          Join(s) \/ Sweep2(s) \/ Refuse(s) \/ RecoverWindow(s) \/ MarkVerified(s)
  BY <1>5 DEF Arrive, Goto, podVars, Collect, SendCancels, Abort, Fail, Deadline, Mishap,
     Sweep1, Note, Join, Sweep2, Refuse, Wake, RecoverWindow, MarkVerified
<1>6. QED
  BY <1>1, <1>2, <1>3, <1>4, <1>5
     DEF ShardStep, Thread

\* A step of the host.
LEMMA HostToken ==
    ASSUME TypeOK, TokenKept, ClosedMeansSilent, HostStep
    PROVE  (TokenKept /\ ClosedMeansSilent)'
BY DEF HostStep, Reserve, Publish, Reject, CleanupDone, Crash, podVars, commands, TypeOK, TokenKept,
   ClosedMeansSilent, Has

-----------------------------------------------------------------------------
\* The host, the barrier and the ledger
\* What a step of a worker leaves alone: files are only added, the release is
\* the host's, and a worker that was not started stays so.
LEMMA WorkerFrame ==
    ASSUME TypeOK, NEW w \in Worker, WorkerStep(w)
    PROVE  /\ UNCHANGED <<window, host, thread, failed, arrived, verdict, sent>>
           /\ \A v \in Worker :
                 /\ dir[v] \subseteq dir'[v]
                 /\ Has(v, "release")' => Has(v, "release")
                 /\ proc[v] = "none" <=> proc'[v] = "none"
<1> USE DEF TypeOK, Add, Has, hostVars, Answered, Stage, commands, Alive
<1>1. CASE Supervisor(w)
  BY <1>1 DEF Supervisor, Make, Own, Fork, RecordChild, Ready, Exit, Cleanup, CloseDir
<1>2. CASE Flow(w) \/ Expire(w) \/ Kill(w) \/ LoseCancel(w) \/ Return(w) \/ TimeOut(w)
  BY <1>2 DEF Flow, Launch, Send, GiveUp, Expire, Mishap, Kill, LoseCancel, Return, TimeOut,
     podVars
<1>3. ASSUME NEW h, Cancellation(w, h)
      PROVE  /\ UNCHANGED <<window, host, thread, failed, arrived, verdict, sent>>
             /\ \A v \in Worker :
                   /\ dir[v] \subseteq dir'[v]
                   /\ Has(v, "release")' => Has(v, "release")
                   /\ proc[v] = "none" <=> proc'[v] = "none"
  BY <1>3 DEF Cancellation, ReserveToken, SealToken, FindClosed, MarkCancelling, Signal,
     CloseOrphans, LeaveOrphans, RefuseCancel, podVars
<1>4. QED
  BY <1>1, <1>2, <1>3 DEF WorkerStep, Pod

\* A worker is started by its shard's thread, from a phase that is not repeated.
LEMMA StartedOnceKept ==
    ASSUME TypeOK, TokenKept, StartedOnce, Next
    PROVE  StartedOnce'
<1> USE DEF TypeOK, StartedOnce, Worker, Has, Pods, hostVars, commands, Add
<1>1. ASSUME NEW w \in Worker, WorkerStep(w) PROVE StartedOnce'
  BY <1>1, WorkerFrame
<1>2. ASSUME NEW s \in Shards, ShardStep(s) PROVE StartedOnce'
  <2>1. CASE StartServer(s)
    BY <2>1 DEF StartServer, StartWorker, Goto
  <2>2. CASE StartClient(s)
    BY <2>2, ZenonT(60) DEF StartClient, StartWorker, Goto
  <2>3. CASE RecoverWindow(s)
    BY <2>3 DEF RecoverWindow, SendCancels, podVars
  <2>4. CASE MarkVerified(s)
    BY <2>4 DEF MarkVerified, Goto, podVars
  <2>5. CASE EndFlow(s)
    BY <2>5 DEF EndFlow
  <2>6. CASE Release(s)
    BY <2>6 DEF Release, Goto
  <2>7. CASE Arrive(s) \/ Collect(s) \/ Abort(s) \/ Deadline(s) \/
            Sweep1(s) \/ Join(s) \/ Sweep2(s) \/ Refuse(s)
    BY <2>7 DEF Arrive, Goto, podVars, Collect, SendCancels, Abort, Fail, Deadline,
       Mishap, Sweep1, Note, Join, Sweep2, Refuse, Wake
  <2>8. QED BY <1>2, <2>1, <2>2, <2>3, <2>4, <2>5, <2>6, <2>7 DEF ShardStep, Thread
<1>3. CASE HostStep
  BY <1>3 DEF HostStep, Reserve, podVars, Publish, Reject, Mishap, CleanupDone, Crash
<1>4. QED BY <1>1, <1>2, <1>3, NextSteps

\* The verdict is set when the last shard arrives, with its client armed.
LEMMA BarrierKept ==
    ASSUME TypeOK, TokenKept, Barrier, Next
    PROVE  Barrier'
<1> USE DEF TypeOK, TokenKept, Barrier, Worker, Add, Has, Armed, hostVars, commands
<1>1. ASSUME NEW w \in Worker, WorkerStep(w) PROVE Barrier'
  BY <1>1, WorkerFrame
<1>2. ASSUME NEW s \in Shards, ShardStep(s) PROVE Barrier'
  <2>1. CASE EndFlow(s)
    BY <2>1 DEF EndFlow
  <2>2. CASE Arrive(s)
    BY <2>2, ZenonT(60) DEF Arrive, Goto, podVars
  <2>3. CASE Release(s)
    BY <2>3 DEF Release, Goto
  <2>4. CASE StartServer(s) \/ StartClient(s) \/ Collect(s) \/ Abort(s) \/
            Deadline(s) \/ Sweep1(s) \/ Join(s) \/ Sweep2(s) \/ Refuse(s) \/
            RecoverWindow(s) \/ MarkVerified(s)
    BY <2>4 DEF StartServer, StartWorker, Goto, StartClient, Collect, SendCancels,
       podVars, Abort, Fail, Deadline, Mishap, Sweep1, Note, Join, Sweep2, Refuse, Wake,
       RecoverWindow, MarkVerified
  <2>5. QED BY <1>2, <2>1, <2>2, <2>3, <2>4 DEF ShardStep, Thread
<1>3. CASE HostStep
  BY <1>3 DEF HostStep, Reserve, podVars, Publish, Reject, Mishap, CleanupDone, Crash
<1>4. QED BY <1>1, <1>2, <1>3, NextSteps

\* A shard reaches its end without an error only by Collect and Sweep2.
LEMMA MeasuredKept ==
    ASSUME TypeOK, TokenKept, Measured, Next
    PROVE  Measured'
<1> USE DEF TypeOK, TokenKept, Measured, Worker, Pods, Add, Has, Swept,
            SweepFailed, hostVars, commands
<1>1. ASSUME NEW w \in Worker, WorkerStep(w) PROVE Measured'
  BY <1>1, WorkerFrame
<1>2. ASSUME NEW s \in Shards, ShardStep(s) PROVE Measured'
  <2>1. CASE EndFlow(s)
    BY <2>1 DEF EndFlow
  <2>2. CASE Release(s)
    BY <2>2 DEF Release, Goto
  <2>3. CASE Collect(s)
    BY <2>3 DEF Collect, Goto, SendCancels, podVars
  <2>4. CASE Abort(s)
    BY <2>4 DEF Abort, Fail, Goto, SendCancels, podVars
  <2>5. CASE Deadline(s)
    BY <2>5 DEF Deadline, Fail, Goto, SendCancels, podVars, Mishap
  <2>6. CASE Sweep2(s)
    <3>1. /\ host = "run" /\ thread[s] = "sweep2" /\ Swept(s)
          /\ failed' = IF SweepFailed(s) THEN failed \cup {s} ELSE failed
          /\ thread' = [thread EXCEPT ![s] = "ended"] /\ UNCHANGED <<window, host, sent, dir>>
      BY <2>6 DEF Sweep2, Wake, Goto, Note, podVars
    <3>2. s \notin failed' => \A w \in Pods(s) : Has(w, "closed")
      BY <3>1
    <3>3. \A t \in Shards : /\ t \notin failed' => t \notin failed
                            /\ thread'[t] = IF t = s THEN "ended" ELSE thread[t]
      BY <3>1
    <3>4. \A t \in Shards : host = "run" /\ t \notin failed' /\ thread'[t] = "ended" =>
             \A w \in Pods(t) : Has(w, "closed")
      BY <3>2, <3>3, ZenonT(60)
    <3>5. \A t \in Shards : host = "run" /\ t \notin failed'
             /\ thread'[t] \in {"sweep1", "join", "sweep2", "ended"} => t \in sent
      BY <3>1, <3>3, ZenonT(60)
    <3>6. \A t \in Shards : window'[t] = "accepted" => host' = "done"
      BY <3>1
    <3>7. host' = host /\ sent' = sent /\ dir' = dir
      BY <3>1
    <3> HIDE DEF Pods, Swept, SweepFailed, TokenKept
    <3>8. QED BY <3>4, <3>5, <3>6, <3>7
  <2>7. CASE StartServer(s) \/ StartClient(s) \/ Arrive(s) \/ Sweep1(s) \/
            Join(s) \/ Refuse(s) \/ RecoverWindow(s) \/ MarkVerified(s)
    BY <2>7 DEF StartServer, StartWorker, Goto, StartClient, Arrive, podVars, Sweep1,
       Note, Join, Refuse, Wake, Mishap, SendCancels, RecoverWindow, MarkVerified
  <2>8. QED BY <1>2, <2>1, <2>2, <2>3, <2>4, <2>5, <2>6, <2>7 DEF ShardStep, Thread
<1>3. CASE HostStep
  BY <1>3 DEF HostStep, Reserve, podVars, Publish, Reject, Mishap, CleanupDone, Crash
<1>4. QED BY <1>1, <1>2, <1>3, NextSteps

\* A window is marked when both its cancellations have found a closed token.
LEMMA VerifiedMeansClosedKept ==
    ASSUME TypeOK, TokenKept, Measured, VerifiedMeansClosed, Next
    PROVE  VerifiedMeansClosed'
<1> USE DEF TypeOK, TokenKept, Measured, VerifiedMeansClosed, Worker, Pods, Add, Has,
            Swept, SweepFailed, hostVars, commands
<1>1. ASSUME NEW w \in Worker, WorkerStep(w) PROVE VerifiedMeansClosed'
  BY <1>1, WorkerFrame, ZenonT(60)
<1>2. ASSUME NEW s \in Shards, ShardStep(s) PROVE VerifiedMeansClosed'
  <2>1. CASE Release(s)
    <3>1. \A w \in Worker : dir[w] \subseteq dir'[w]
      BY <2>1 DEF Release
    <3>2. window' = window
      BY <2>1 DEF Release
    <3>3. QED BY <3>1, <3>2
  <2>2. CASE MarkVerified(s)
    <3>1. /\ Swept(s) /\ dir' = dir
          /\ window' = IF SweepFailed(s) THEN window ELSE [window EXCEPT ![s] = "verified"]
      BY <2>2 DEF MarkVerified, podVars
    <3>2. ~SweepFailed(s) => \A w \in Pods(s) : Has(w, "closed")
      BY <3>1
    <3>3. ASSUME NEW t \in Shards, window'[t] \in {"verified", "accepted"}
          PROVE  \A w \in Pods(t) : Has(w, "closed")
      BY <3>1, <3>2, <3>3, ZenonT(60)
    <3>4. QED BY <3>1, <3>3
  <2>3. CASE EndFlow(s) \/ StartServer(s) \/ StartClient(s) \/
            Arrive(s) \/ Collect(s) \/ Abort(s) \/ Deadline(s) \/
            Sweep1(s) \/ Join(s) \/ Sweep2(s) \/ Refuse(s) \/ RecoverWindow(s)
    BY <2>3, ZenonT(60) DEF EndFlow, StartServer, StartWorker, Goto, StartClient, Arrive, podVars,
       Collect, SendCancels, Abort, Fail, Deadline, Mishap, Sweep1, Note, Join,
       Sweep2, Refuse, Wake, RecoverWindow
  <2>4. QED BY <1>2, <2>1, <2>2, <2>3 DEF ShardStep, Thread
<1>3. CASE HostStep
  BY <1>3, ZenonT(60) DEF HostStep, Reserve, podVars, Publish, Reject, Mishap, CleanupDone, Crash
<1>4. QED BY <1>1, <1>2, <1>3, NextSteps

\* All windows are accepted at once, when every shard was measured.
LEMMA AcceptedMeasuredKept ==
    ASSUME TypeOK, Measured, AcceptedMeasured, Next
    PROVE  AcceptedMeasured'
<1> USE DEF TypeOK, Measured, AcceptedMeasured, hostVars, commands
<1>1. ASSUME NEW w \in Worker, WorkerStep(w) PROVE AcceptedMeasured'
  BY <1>1, WorkerFrame
<1>2. ASSUME NEW s \in Shards, ShardStep(s) PROVE AcceptedMeasured'
  <2>1. CASE EndFlow(s)
    BY <2>1 DEF EndFlow
  <2>2. CASE MarkVerified(s)
    BY <2>2 DEF MarkVerified, Goto, podVars
  <2>3. CASE StartServer(s) \/ StartClient(s) \/ Arrive(s) \/
            Release(s) \/ Collect(s) \/ Abort(s) \/ Deadline(s) \/
            Sweep1(s) \/ Join(s) \/ Sweep2(s) \/ Refuse(s) \/ RecoverWindow(s)
    BY <2>3 DEF StartServer, StartWorker, Goto, StartClient, Arrive, podVars, Release,
       Collect, SendCancels, Abort, Fail, Deadline, Mishap, Sweep1, Note, Join,
       Sweep2, Refuse, Wake, RecoverWindow
  <2>4. QED BY <1>2, <2>1, <2>2, <2>3 DEF ShardStep, Thread
<1>3. CASE HostStep
  <2>1. CASE Reserve
    BY <2>1 DEF Reserve, podVars
  <2>2. CASE Publish
    BY <2>2 DEF Publish, podVars
  <2>3. CASE Reject \/ CleanupDone \/ Crash
    BY <2>3 DEF Reject, CleanupDone, Crash, Mishap, podVars
  <2>4. QED BY <1>3, <2>1, <2>2, <2>3 DEF HostStep
<1>4. QED BY <1>1, <1>2, <1>3, NextSteps

\* The window was reserved before the worker was sent.
LEMMA OwnedKept ==
    ASSUME TypeOK, StartedOnce, Owned, Next
    PROVE  Owned'
<1> USE DEF TypeOK, StartedOnce, Owned, Worker, Pods, hostVars, commands
<1>1. ASSUME NEW w \in Worker, WorkerStep(w) PROVE Owned'
  BY <1>1, WorkerFrame
<1>2. ASSUME NEW s \in Shards, ShardStep(s) PROVE Owned'
  <2>1. CASE StartServer(s)
    BY <2>1 DEF StartServer, StartWorker, Goto
  <2>2. CASE StartClient(s)
    BY <2>2 DEF StartClient, StartWorker, Goto
  <2>3. CASE MarkVerified(s)
    BY <2>3 DEF MarkVerified, Goto, podVars
  <2>4. CASE EndFlow(s) \/ Arrive(s) \/ Release(s) \/ Collect(s) \/
            Abort(s) \/ Deadline(s) \/ Sweep1(s) \/ Join(s) \/
            Sweep2(s) \/ Refuse(s) \/ RecoverWindow(s)
    BY <2>4 DEF EndFlow, Arrive, Goto, podVars, Release, Collect, SendCancels, Abort,
       Fail, Deadline, Mishap, Sweep1, Note, Join, Sweep2, Refuse, Wake, RecoverWindow
  <2>5. QED BY <1>2, <2>1, <2>2, <2>3, <2>4 DEF ShardStep, Thread
<1>3. CASE HostStep
  BY <1>3 DEF HostStep, Reserve, podVars, Publish, Reject, Mishap, CleanupDone, Crash
<1>4. QED BY <1>1, <1>2, <1>3, NextSteps

-----------------------------------------------------------------------------
\* At first nothing was started.
LEMMA InitIInv == Init => IInv
<1> SUFFICES ASSUME Init PROVE IInv
  OBVIOUS
<1>1. TypeOK
  BY BatchAssumption DEF Init, TypeOK, ThreadPc, ProcPc, File, Answered, Stage, Has
<1>2. TokenKept /\ ClosedMeansSilent
  BY DEF Init, TokenKept, ClosedMeansSilent, Has, Alive
<1>3. StartedOnce /\ Owned
  BY DEF Init, StartedOnce, Owned, Worker
<1>4. Barrier /\ Measured /\ VerifiedMeansClosed /\ AcceptedMeasured
  BY DEF Init, Barrier, Measured, VerifiedMeansClosed, AcceptedMeasured, Has, Worker
<1>5. QED BY <1>1, <1>2, <1>3, <1>4 DEF IInv

\* The invariant holds in every state.
LEMMA Invariant == Spec => []IInv
<1>1. IInv /\ [Next]_vars => IInv'
  <2> SUFFICES ASSUME IInv, [Next]_vars PROVE IInv'
    OBVIOUS
  <2>1. CASE UNCHANGED vars
    BY <2>1 DEF vars, IInv, TypeOK, TokenKept, StartedOnce, Barrier, Measured,
       ClosedMeansSilent, VerifiedMeansClosed, AcceptedMeasured, Owned, Has
  <2>2. CASE Next
    <3> USE DEF IInv
    <3>1. TypeOK' /\ (TokenKept /\ ClosedMeansSilent)'
      <4>1. ASSUME NEW w \in Worker, WorkerStep(w)
            PROVE  TypeOK' /\ (TokenKept /\ ClosedMeansSilent)'
        BY <4>1, WorkerTypes, WorkerToken
      <4>2. ASSUME NEW s \in Shards, ShardStep(s)
            PROVE  TypeOK' /\ (TokenKept /\ ClosedMeansSilent)'
        BY <4>2, ShardTypes, ShardToken
      <4>3. CASE HostStep
        BY <4>3, HostTypes, HostToken
      <4>4. QED BY <2>2, <4>1, <4>2, <4>3, NextSteps
    <3>2. StartedOnce' /\ Barrier' /\ Measured'
      BY <2>2, StartedOnceKept, BarrierKept, MeasuredKept
    <3>3. VerifiedMeansClosed' /\ AcceptedMeasured' /\ Owned'
      BY <2>2, VerifiedMeansClosedKept, AcceptedMeasuredKept, OwnedKept
    <3>4. QED BY <3>1, <3>2, <3>3
  <2>3. QED BY <2>1, <2>2
<1>2. QED BY InitIInv, <1>1, PTL DEF Spec

\* The ledger, the threads and the Pods are well typed, and no thread of a
\* window runs in a host that has left it.
THEOREM TypeCorrect == Spec => []TypeOK
BY Invariant, PTL DEF IInv

\* A closed token is silent: nothing of it sends, or can still start to, however
\* late its worker's command arrives.
THEOREM Silent == Spec => []ClosedMeansSilent
BY Invariant, PTL DEF IInv

\* A window the ledger holds for cleaned up, or accepted, is closed in both Pods.
THEOREM Verified == Spec => []VerifiedMeansClosed
BY Invariant, PTL DEF IInv

\* No shard sends before every shard was armed.
THEOREM Epoch == Spec => []OneEpoch
<1>1. IInv => OneEpoch
  BY DEF IInv, TypeOK, TokenKept, Barrier, OneEpoch, Has, Worker
<1>2. QED BY Invariant, <1>1, PTL

\* The windows are accepted together, and only when every flow was sent.
THEOREM Accepted == Spec => []AcceptedMeasured
BY Invariant, PTL DEF IInv

\* Whatever runs in a Pod is named in the ledger.
THEOREM Named == Spec => []Owned
BY Invariant, PTL DEF IInv

===============================================================================
