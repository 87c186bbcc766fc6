------------------------------ MODULE TrafficBatch ------------------------------
(***************************************************************************)
(* One sharded measurement of a round (traffic/batch.py, protocol.py): the *)
(* shards are reserved together in the ledger, each shard's thread starts  *)
(* a worker in the receiver's Pod and one in the UE's Pod, all shards pass *)
(* one barrier, and the window is published as a whole or cancelled shard  *)
(* by shard.  The workers are shell scripts (WORKER_SCRIPT) that meet the  *)
(* host only in a directory of their Pod named by the token.               *)
(*                                                                         *)
(* Limitations.  The attached execution only; a worker has one child.      *)
(* Deadlines may pass at any time; the content of the evidence is left     *)
(* out.  A command that holds control.lock is one step.  A command the     *)
(* host has given up runs on beside the next one, at most one per worker.  *)
(***************************************************************************)
EXTENDS FiniteSets, Naturals

CONSTANTS
    Shards,
    MaxMishap    \* bound: crashes, lost commands, killed workers, deadlines

ASSUME BatchAssumption == IsFiniteSet(Shards) /\ Shards # {} /\ MaxMishap \in Nat

Worker == Shards \X {"server", "client"}

VARIABLES
    window,   \* durable: the traffic_window actions of the round
    host,     \* what the coordinator's process is doing
    thread,   \* the threads that run the shards
    failed,   \* shards whose thread has met an error
    arrived,  \* the shards that wait in BatchReleaseBarrier
    verdict,  \* its outcome
    future,   \* what the host knows of each worker it started
    proc,     \* the supervisor of each worker
    child,    \* the process of iperf3 each worker starts
    dir,      \* the files in each worker's directory
    cancel,   \* the cancel command in each Pod whose answer the host waits for
    stray,    \* one that the host has given up and that runs on
    sent,     \* history: the flows that were sent to their end
    mishaps

hostVars == <<window, host, thread, failed, arrived, verdict, future>>
podVars == <<proc, child, dir, sent>>
commands == <<cancel, stray>>
vars == <<window, host, thread, failed, arrived, verdict, future, proc, child, dir,
          cancel, stray, sent, mishaps>>

File == {"directory", "owner", "children", "ready", "release", "cancelling", "closed"}
ThreadPc == {"off", "servers", "readiness", "clients", "barrier", "waiting", "release",
             "collect", "sweep1", "join", "sweep2", "ended"}
ProcPc == {"none", "sent", "made", "launch", "forked", "arming", "running", "cleanup",
           "closing", "gone"}
Alive == {"made", "launch", "forked", "arming", "running", "cleanup", "closing"}
Answered == {"none", "ok", "error"}
Stage == {"sent", "reserved", "marked", "signalled"} \cup Answered

Pods(s) == {<<s, "server">>, <<s, "client">>}
Mishap == mishaps < MaxMishap /\ mishaps' = mishaps + 1
Goto(s, l) == thread' = [thread EXCEPT ![s] = l]
Has(w, f) == f \in dir[w]
Add(w, fs) == dir' = [dir EXCEPT ![w] = @ \cup fs]

Init ==
    /\ window = [s \in Shards |-> "none"] /\ host = "plan"
    /\ thread = [s \in Shards |-> "off"] /\ failed = {}
    /\ arrived = {} /\ verdict = "open"
    /\ future = [w \in Worker |-> "none"]
    /\ proc = [w \in Worker |-> "none"] /\ child = [w \in Worker |-> "none"]
    /\ dir = [w \in Worker |-> {}] /\ cancel = [w \in Worker |-> "none"]
    /\ stray = [w \in Worker |-> "none"]
    /\ sent = {} /\ mishaps = 0

-----------------------------------------------------------------------------
\* The worker of a shard in a Pod (WORKER_SCRIPT, roles server and client)

\* A bug: the directory of a token may exist already.
MakeAnyway(w) ==
    /\ proc[w] = "sent"
    /\ Add(w, {"directory"}) /\ proc' = [proc EXCEPT ![w] = "made"]
    /\ UNCHANGED <<hostVars, child, sent, commands, mishaps>>

\* The command arrives, be the host alive or not.  A used token ends it.
Make(w) ==
    /\ proc[w] = "sent"
    /\ IF Has(w, "directory")
       THEN proc' = [proc EXCEPT ![w] = "gone"] /\ UNCHANGED dir
       ELSE proc' = [proc EXCEPT ![w] = "made"] /\ Add(w, {"directory"})
    /\ UNCHANGED <<hostVars, child, sent, commands, mishaps>>

\* The owner is written and the traps are set.
Own(w) ==
    /\ proc[w] = "made"
    /\ proc' = [proc EXCEPT ![w] = "launch"] /\ Add(w, {"owner"})
    /\ UNCHANGED <<hostVars, child, sent, commands, mishaps>>

\* setsid ... & : a receiver listens at once, a sender waits for the release.
Fork(w) ==
    /\ proc[w] = "launch" /\ proc' = [proc EXCEPT ![w] = "forked"]
    /\ child' = [child EXCEPT ![w] = IF w[2] = "server" THEN "listening" ELSE "armed"]
    /\ UNCHANGED <<hostVars, dir, sent, commands, mishaps>>

\* The child is recorded, in the supervisor and in the directory.
RecordChild(w) ==
    /\ proc[w] = "forked" /\ proc' = [proc EXCEPT ![w] = "arming"]
    /\ Add(w, {"children"})
    /\ UNCHANGED <<hostVars, child, sent, commands, mishaps>>

Ready(w) ==
    /\ proc[w] = "arming" /\ child[w] \in {"listening", "armed"}
    /\ proc' = [proc EXCEPT ![w] = "running"] /\ Add(w, {"ready"})
    /\ UNCHANGED <<hostVars, child, sent, commands, mishaps>>

\* The child has ended: the EXIT trap runs.
Exit(w) ==
    /\ proc[w] \in {"arming", "running"} /\ child[w] = "gone"
    /\ proc' = [proc EXCEPT ![w] = "cleanup"]
    /\ UNCHANGED <<hostVars, child, dir, sent, commands, mishaps>>

\* cleanup: the children it knows of are killed and waited for.
Cleanup(w) ==
    /\ proc[w] = "cleanup" /\ proc' = [proc EXCEPT ![w] = "closing"]
    /\ Add(w, {"cancelling"})
    /\ child' = IF Has(w, "children") THEN [child EXCEPT ![w] = "gone"] ELSE child
    /\ UNCHANGED <<hostVars, sent, commands, mishaps>>

CloseDir(w) ==
    /\ proc[w] = "closing" /\ proc' = [proc EXCEPT ![w] = "gone"]
    /\ Add(w, {"closed"})
    /\ UNCHANGED <<hostVars, child, sent, commands, mishaps>>

\* A sender has seen the release and no sign of cancellation.
Launch(w) ==
    /\ child[w] = "armed" /\ Has(w, "release")
    /\ dir[w] \cap {"cancelling", "closed"} = {} /\ proc[w] \in Alive
    /\ child' = [child EXCEPT ![w] = "checked"]
    /\ UNCHANGED <<hostVars, proc, dir, sent, commands, mishaps>>

\* The last check and the start of iperf3 are not atomic.
Send(w) ==
    /\ child[w] = "checked" /\ child' = [child EXCEPT ![w] = "sending"]
    /\ UNCHANGED <<hostVars, proc, dir, sent, commands, mishaps>>

\* The flow ends; a receiver takes one flow.
EndFlow(s) ==
    /\ child[<<s, "client">>] = "sending"
    /\ sent' = IF child[<<s, "server">>] = "listening" THEN sent \cup {s} ELSE sent
    /\ child' = [w \in Worker |-> IF w \in Pods(s) THEN "gone" ELSE child[w]]
    /\ UNCHANGED <<hostVars, proc, dir, commands, mishaps>>

\* A child ends without a flow: cancelled, without its supervisor, or timed out.
GiveUp(w) ==
    /\ \/ child[w] \in {"armed", "checked"}
          /\ (dir[w] \cap {"cancelling", "closed"} # {} \/ proc[w] \notin Alive)
       \/ child[w] = "listening" /\ (proc[w] \notin Alive \/ child[<<w[1], "client">>] = "gone")
    /\ child' = [child EXCEPT ![w] = "gone"]
    /\ UNCHANGED <<hostVars, proc, dir, sent, commands, mishaps>>

\* A child, or a supervisor that waits for it to be ready, runs out of time.
Expire(w) ==
    /\ Mishap
    /\ \/ /\ child[w] \in {"armed", "checked", "listening"}
          /\ child' = [child EXCEPT ![w] = "gone"] /\ UNCHANGED proc
       \/ /\ proc[w] = "arming"
          /\ proc' = [proc EXCEPT ![w] = "cleanup"] /\ UNCHANGED child
    /\ UNCHANGED <<hostVars, dir, sent, commands>>

\* The supervisor is killed from outside.
Kill(w) ==
    /\ proc[w] \in Alive /\ Mishap
    /\ proc' = [proc EXCEPT ![w] = "gone"]
    /\ UNCHANGED <<hostVars, child, dir, sent, commands>>

-----------------------------------------------------------------------------
\* The cancel command (WORKER_SCRIPT, role cancel)

\* How far the command of hand h has come, and its next stage: the hand is the
\* host, or a host that has given the command up.
At(w, h) == IF h = "host" THEN cancel[w] ELSE stray[w]
Answer(w, h, a) ==
    IF h = "host" THEN cancel' = [cancel EXCEPT ![w] = a] /\ UNCHANGED stray
                  ELSE stray' = [stray EXCEPT ![w] = a] /\ UNCHANGED cancel

\* A bug: an absent token is taken for a clean one.
ReserveNothing(w, h) ==
    /\ At(w, h) = "sent" /\ ~Has(w, "directory") /\ Answer(w, h, "ok")
    /\ UNCHANGED <<hostVars, podVars, mishaps>>

\* An absent token is reserved, so that a delayed worker never starts.
ReserveToken(w, h) ==
    /\ At(w, h) = "sent" /\ ~Has(w, "directory")
    /\ Answer(w, h, "reserved") /\ Add(w, {"directory"})
    /\ UNCHANGED <<hostVars, proc, child, sent, mishaps>>

SealToken(w, h) ==
    /\ At(w, h) = "reserved" /\ Answer(w, h, "ok") /\ Add(w, {"closed"})
    /\ UNCHANGED <<hostVars, proc, child, sent, mishaps>>

FindClosed(w, h) ==
    /\ At(w, h) \in {"sent", "signalled"} /\ Has(w, "closed") /\ Answer(w, h, "ok")
    /\ UNCHANGED <<hostVars, podVars, mishaps>>

MarkCancelling(w, h) ==
    /\ At(w, h) = "sent" /\ Has(w, "directory") /\ ~Has(w, "closed")
    /\ Answer(w, h, "marked") /\ Add(w, {"cancelling"})
    /\ UNCHANGED <<hostVars, proc, child, sent, mishaps>>

\* TERM runs the EXIT trap, if it is set; the trap itself is not protected.
Signal(w, h) ==
    /\ At(w, h) = "marked" /\ Has(w, "owner") /\ proc[w] \in Alive
    /\ \/ proc[w] \in {"launch", "cleanup", "closing"} /\ proc' = [proc EXCEPT ![w] = "gone"]
       \/ proc[w] \notin {"cleanup", "closing"} /\ proc' = [proc EXCEPT ![w] = "cleanup"]
    /\ Answer(w, h, "signalled")
    /\ UNCHANGED <<hostVars, child, dir, sent, mishaps>>

\* The supervisor is gone, and the children it had recorded are all known.
Orphaned(w, h) ==
    At(w, h) = "marked" /\ proc[w] = "gone" /\ {"owner", "ready"} \subseteq dir[w]

\* Without a supervisor the recorded children are killed and waited for.
CloseOrphans(w, h) ==
    /\ Orphaned(w, h) /\ ~Has(w, "closed")
    /\ Answer(w, h, "ok") /\ Add(w, {"closed"}) /\ child' = [child EXCEPT ![w] = "gone"]
    /\ UNCHANGED <<hostVars, proc, sent, mishaps>>

\* A group outlives the wait, or its evidence cannot be retained.
LeaveOrphans(w, h) ==
    /\ Orphaned(w, h) /\ Answer(w, h, "error")
    /\ child' = [child EXCEPT ![w] = "gone"] \/ UNCHANGED child
    /\ UNCHANGED <<hostVars, proc, dir, sent, mishaps>>

\* No owner or no complete record of the children, a token closed meanwhile, whose
\* records its supervisor removes, or no marker in time.
RefuseCancel(w, h) ==
    /\ \/ At(w, h) = "marked" /\ ~Has(w, "owner")
       \/ At(w, h) = "marked" /\ proc[w] = "gone" /\ (~Has(w, "ready") \/ Has(w, "closed"))
       \/ At(w, h) = "signalled" /\ ~Has(w, "closed")
    /\ Answer(w, h, "error")
    /\ UNCHANGED <<hostVars, podVars, mishaps>>

\* The host gives the command up.  In the Pod it may still arrive, or run on.
LoseCancel(w) ==
    /\ cancel[w] \notin {"none", "error"} /\ Mishap
    /\ cancel' = [cancel EXCEPT ![w] = "error"]
    /\ stray' = [stray EXCEPT ![w] = cancel[w]] \/ UNCHANGED stray
    /\ UNCHANGED <<hostVars, podVars>>

-----------------------------------------------------------------------------
\* The thread of a shard (BatchTraffic.sample)

SendCancels(ws) ==
    cancel' = [w \in Worker |-> IF w \in ws THEN "sent" ELSE cancel[w]] /\ UNCHANGED stray

\* The failure of a shard: cleanup begins.
Fail(s) ==
    /\ failed' = failed \cup {s} /\ Goto(s, "sweep1") /\ SendCancels(Pods(s))

StartWorker(s, from, role, to) ==
    /\ host = "run" /\ thread[s] = from /\ Goto(s, to)
    /\ proc' = [proc EXCEPT ![<<s, role>>] = "sent"]
    /\ future' = [future EXCEPT ![<<s, role>>] = "pending"]
    /\ UNCHANGED <<window, host, failed, arrived, verdict, child, dir, commands, sent, mishaps>>

StartServer(s) == StartWorker(s, "servers", "server", "readiness")

\* A shard that fails wakes the others in the barrier.
Wake(s) == verdict' = IF s \in failed' /\ verdict = "open" THEN "abort" ELSE verdict

\* The native bindings have changed: no worker is started and nothing is swept.
Refuse(s) ==
    /\ host = "run" /\ thread[s] = "servers" /\ Mishap
    /\ failed' = failed \cup {s} /\ Goto(s, "ended") /\ Wake(s)
    /\ UNCHANGED <<window, host, arrived, future, podVars, commands>>

\* _wait_ready of the receivers, then the clients are submitted.
StartClient(s) == Has(<<s, "server">>, "ready") /\ StartWorker(s, "readiness", "client", "clients")

\* client_ready: every process of the client is alive and armed.
Armed(w) ==
    /\ dir[w] \cap {"cancelling", "closed"} = {} /\ Has(w, "ready")
    /\ proc[w] \in Alive /\ child[w] = "armed"

\* A bug: a shard passes the barrier alone.
ArriveAlone(s) ==
    /\ host = "run" /\ thread[s] = "clients" /\ Armed(<<s, "client">>)
    /\ arrived' = arrived \cup {s} /\ Goto(s, "waiting")
    /\ verdict' = IF verdict = "open" THEN "go" ELSE verdict
    /\ UNCHANGED <<window, host, failed, future, podVars, commands, mishaps>>

\* schedule: the last shard that arrives sets the release of all.
Arrive(s) ==
    /\ host = "run" /\ thread[s] = "clients" /\ Armed(<<s, "client">>)
    /\ arrived' = arrived \cup {s} /\ Goto(s, "waiting")
    /\ verdict' = IF verdict = "open" /\ arrived' = Shards THEN "go" ELSE verdict
    /\ UNCHANGED <<window, host, failed, future, podVars, commands, mishaps>>

\* The release of a client, which must still be ready.
Release(s) ==
    /\ host = "run" /\ thread[s] = "waiting" /\ verdict = "go"
    /\ Armed(<<s, "client">>)
    /\ Add(<<s, "client">>, {"release"}) /\ Goto(s, "collect")
    /\ UNCHANGED <<window, host, failed, arrived, verdict, future, proc, child, commands,
                   sent, mishaps>>

\* _worker_output of both workers.
Collect(s) ==
    /\ host = "run" /\ thread[s] = "collect"
    /\ s \in sent /\ \A w \in Pods(s) : future[w] = "done"
    /\ Goto(s, "sweep1") /\ SendCancels(Pods(s))
    /\ UNCHANGED <<window, host, failed, arrived, verdict, future, podVars, mishaps>>

\* The command of a worker returns when the worker has ended.
Return(w) ==
    /\ future[w] = "pending" /\ proc[w] = "gone"
    /\ future' = [future EXCEPT ![w] = "done"]
    /\ UNCHANGED <<window, host, thread, failed, arrived, verdict, podVars, commands, mishaps>>

\* Or its transport gives up, and the worker lives on.
TimeOut(w) ==
    /\ future[w] = "pending" /\ Mishap
    /\ future' = [future EXCEPT ![w] = "lost"]
    /\ UNCHANGED <<window, host, thread, failed, arrived, verdict, podVars, commands>>

Ended(w) == future[w] \in {"done", "lost"}

\* A phase that cannot succeed any more: a worker has ended without the evidence
\* the phase waits for, or the barrier has failed.
Hopeless(s) ==
    \/ thread[s] = "readiness" /\ Ended(<<s, "server">>)
    \/ thread[s] = "clients" /\ Ended(<<s, "client">>)
    \/ thread[s] = "waiting" /\ verdict = "abort"
    \/ thread[s] = "waiting" /\ verdict = "go" /\ ~Armed(<<s, "client">>)
    \/ /\ thread[s] = "collect"
       /\ \E w \in Pods(s) : future[w] = "lost" \/ (future[w] = "done" /\ s \notin sent)

Abort(s) ==
    /\ host = "run" /\ Hopeless(s) /\ Fail(s)
    /\ UNCHANGED <<window, host, arrived, verdict, future, podVars, mishaps>>

\* The deadline of a phase, or the cancel flag of the coordinator.  In the barrier
\* it fails every shard.
Deadline(s) ==
    /\ host = "run" /\ thread[s] \in {"readiness", "clients", "waiting", "collect"}
    /\ Mishap /\ Fail(s)
    /\ verdict' = IF thread[s] = "waiting" /\ verdict = "open" THEN "abort" ELSE verdict
    /\ UNCHANGED <<window, host, arrived, future, podVars>>

Swept(s) == \A w \in Pods(s) : cancel[w] \in {"ok", "error"}
SweepFailed(s) == \E w \in Pods(s) : cancel[w] = "error"
Note(s) == failed' = IF SweepFailed(s) THEN failed \cup {s} ELSE failed

Sweep1(s) ==
    /\ host = "run" /\ thread[s] = "sweep1" /\ Swept(s) /\ Note(s) /\ Goto(s, "join")
    /\ UNCHANGED <<window, host, arrived, verdict, future, podVars, commands, mishaps>>

\* executor.shutdown: every command has returned before the second sweep.
Join(s) ==
    /\ host = "run" /\ thread[s] = "join" /\ \A w \in Pods(s) : future[w] # "pending"
    /\ Goto(s, "sweep2") /\ SendCancels(Pods(s))
    /\ UNCHANGED <<window, host, failed, arrived, verdict, future, podVars, mishaps>>

Sweep2(s) ==
    /\ host = "run" /\ thread[s] = "sweep2" /\ Swept(s)
    /\ Note(s) /\ Goto(s, "ended") /\ Wake(s)
    /\ UNCHANGED <<window, host, arrived, future, podVars, commands, mishaps>>

-----------------------------------------------------------------------------
\* The coordinator and the ledger

\* A bug: the shards are reserved and started one by one.
ReserveOne ==
    /\ host = "plan" /\ host' = "run"
    /\ \E s \in Shards : window' = [window EXCEPT ![s] = "reserved"]
    /\ thread' = [s \in Shards |-> "servers"]
    /\ UNCHANGED <<failed, arrived, verdict, future, podVars, commands, mishaps>>

\* reserve_batch_actions: all intents in one transaction, before any worker.
Reserve ==
    /\ host = "plan" /\ host' = "run"
    /\ window' = [s \in Shards |-> "reserved"]
    /\ thread' = [s \in Shards |-> "servers"]
    /\ UNCHANGED <<failed, arrived, verdict, future, podVars, commands, mishaps>>

\* A bug: the window is published while its shards collect the evidence.
PublishEarly ==
    /\ host = "run" /\ failed = {}
    /\ \A s \in Shards : thread[s] \in {"collect", "sweep1", "join", "sweep2", "ended"}
    /\ window' = [s \in Shards |-> "accepted"] /\ host' = "done"
    /\ UNCHANGED <<thread, failed, arrived, verdict, future, podVars, commands, mishaps>>

\* finish_batch_shards, of exact receipts of every shard.
Publish ==
    /\ host = "run" /\ \A s \in Shards : thread[s] = "ended" /\ s \notin failed
    /\ window' = [s \in Shards |-> "accepted"] /\ host' = "done"
    /\ UNCHANGED <<thread, failed, arrived, verdict, future, podVars, commands, mishaps>>

\* A shard has failed, or the round was stopped meanwhile: nothing is published.
Reject ==
    /\ host = "run" /\ \A s \in Shards : thread[s] = "ended"
    /\ IF failed = {} THEN Mishap ELSE UNCHANGED mishaps
    /\ host' = "cleanup"
    /\ UNCHANGED <<window, thread, failed, arrived, verdict, future, podVars, commands>>

\* _cleanup: one window after the other is cancelled and marked.
RecoverWindow(s) ==
    /\ host = "cleanup" /\ window[s] = "reserved"
    /\ SendCancels(Pods(s)) /\ host' = "recover"
    /\ thread' = [t \in Shards |-> IF t = s THEN "sweep1" ELSE "off"]
    /\ UNCHANGED <<window, failed, arrived, verdict, future, podVars, mishaps>>

\* cleanupVerified; a refused cancellation is retried by the coordinator.
MarkVerified(s) ==
    /\ host = "recover" /\ thread[s] = "sweep1" /\ Swept(s)
    /\ host' = "cleanup" /\ Goto(s, "off")
    /\ window' = IF SweepFailed(s) THEN window ELSE [window EXCEPT ![s] = "verified"]
    /\ UNCHANGED <<failed, arrived, verdict, future, podVars, commands, mishaps>>

CleanupDone ==
    /\ host = "cleanup" /\ host' = "done"
    /\ \A s \in Shards : window[s] # "reserved"
    /\ UNCHANGED <<window, thread, failed, arrived, verdict, future, podVars, commands, mishaps>>

\* The process of the coordinator crashes and restarts; workers and commands that
\* were sent go on, and cancel commands of ws do.
Crash ==
    /\ host \in {"run", "cleanup", "recover"} /\ Mishap /\ host' = "cleanup"
    /\ thread' = [s \in Shards |-> "off"]
    /\ future' = [w \in Worker |-> "none"]
    /\ cancel' = [w \in Worker |-> "none"]
    /\ \E ws \in SUBSET Worker :
          stray' = [w \in Worker |-> IF w \in ws THEN cancel[w] ELSE stray[w]]
    /\ UNCHANGED <<window, failed, arrived, verdict, podVars>>

-----------------------------------------------------------------------------

Supervisor(w) == Make(w) \/ Own(w) \/ Fork(w) \/ RecordChild(w) \/ Ready(w) \/ Exit(w)
                 \/ Cleanup(w) \/ CloseDir(w)
Flow(w) == Launch(w) \/ Send(w) \/ GiveUp(w)
Cancellation(w, h) ==
    \/ ReserveToken(w, h) \/ SealToken(w, h) \/ FindClosed(w, h) \/ MarkCancelling(w, h)
    \/ Signal(w, h) \/ CloseOrphans(w, h) \/ LeaveOrphans(w, h) \/ RefuseCancel(w, h)
Thread(s) == StartServer(s) \/ Refuse(s) \/ StartClient(s) \/ Arrive(s) \/ Release(s) \/ Collect(s)
             \/ Abort(s) \/ Sweep1(s) \/ Join(s) \/ Sweep2(s) \/ MarkVerified(s)
Pod(w) == Supervisor(w) \/ Flow(w) \/ (\E h \in {"host", "stray"} : Cancellation(w, h)) \/ Return(w)
Fault == \/ \E w \in Worker : Expire(w) \/ Kill(w) \/ LoseCancel(w) \/ TimeOut(w)
         \/ \E s \in Shards : Deadline(s)
         \/ Crash

Next ==
    \/ Reserve \/ Publish \/ Reject \/ CleanupDone
    \/ \E s \in Shards : Thread(s) \/ EndFlow(s) \/ RecoverWindow(s)
    \/ \E w \in Worker : Pod(w)
    \/ Fault

Spec == Init /\ [][Next]_vars

-----------------------------------------------------------------------------
\* Properties

TypeOK ==
    /\ window \in [Shards -> {"none", "reserved", "verified", "accepted"}]
    /\ host \in {"plan", "run", "cleanup", "recover", "done"}
    /\ thread \in [Shards -> ThreadPc] /\ failed \subseteq Shards
    /\ arrived \subseteq Shards /\ verdict \in {"open", "go", "abort"}
    /\ future \in [Worker -> {"none", "pending", "done", "lost"}]
    /\ proc \in [Worker -> ProcPc]
    /\ child \in [Worker -> {"none", "listening", "armed", "checked", "sending", "gone"}]
    /\ dir \in [Worker -> SUBSET File]
    /\ cancel \in [Worker -> Stage] /\ stray \in [Worker -> Stage]
    /\ sent \subseteq Shards /\ mishaps \in 0..MaxMishap
    /\ \A s \in Shards : thread[s] \notin {"off", "ended"} =>
          host = "run" \/ (host = "recover" /\ thread[s] = "sweep1")
    /\ \A w \in Worker : Has(w, "closed") => Has(w, "directory")

\* A token that is closed is silent: no sender of it runs or may still launch, and
\* no delayed command starts one.
ClosedMeansSilent ==
    \A w \in Worker : Has(w, "closed") =>
        child[w] \notin {"checked", "sending"} /\ proc[w] \in {"none", "sent", "gone"}

\* A window the ledger holds for cleaned up is closed in both Pods, whatever
\* commands were lost, delayed or repeated.
VerifiedMeansClosed ==
    \A s \in Shards : window[s] \in {"verified", "accepted"} =>
        \A w \in Pods(s) : Has(w, "closed")

\* No shard sends before every shard was armed: one release epoch for all.
OneEpoch ==
    (\E s \in Shards : child[<<s, "client">>] \in {"checked", "sending"} \/ s \in sent)
        => \A s \in Shards : Has(<<s, "client">>, "ready")

\* The window is published only when every flow was sent to its end.
AcceptedMeasured ==
    (\E s \in Shards : window[s] = "accepted") =>
        sent = Shards /\ \A s \in Shards : window[s] = "accepted"

\* Whatever runs in a Pod is named in the ledger, so that a restart finds it.
Owned ==
    \A w \in Worker : proc[w] # "none" => window[w[1]] # "none"

=============================================================================
