------------------------------ MODULE WorkerHealth ------------------------------
(* The worker process around the job queue: its loop, the task beside it     *)
(* that writes heartbeats, its shutdown, and the readiness check that reads  *)
(* the latest heartbeat (app/shared/jobs, worker heartbeat service and       *)
(* repository; check_worker_readiness).  The task and the loop share one     *)
(* event loop: a handler that blocks it stops the beats as well.             *)
EXTENDS Integers

CONSTANTS
  Processes,     \* worker processes, each started once
  InstanceOf,    \* instance id of a process; a restarted container reuses it
  StaleAfter,    \* WORKER_HEARTBEAT_STALE_SECONDS
  LastSecond,    \* bound: time
  HealthFaults   \* bound: failing writes, raising iterations and crashes

ASSUME WorkerHealthAssumption ==
  StaleAfter \in Nat \ {0} /\ LastSecond \in Nat \ {0} /\ HealthFaults \in Nat

VARIABLES
  now,           \* the database's and the processes' clock
  heartbeat,     \* row of an instance: [status, at, made]
  process,       \* the loop: [at, stop, claimsSince, endedAt]; endedAt 0 is "in order"
  beat,          \* the heartbeat task of a process
  healthFaults
healthVars == <<now, heartbeat, process, beat, healthFaults>>

Instances == {InstanceOf[p] : p \in Processes}
NoRow == [status |-> "none", at |-> 0, made |-> 0]
Alive(p) == process[p].at \notin {"off", "gone"}

HealthTypeOK ==
  /\ now \in 0..LastSecond
  /\ heartbeat \in [Instances -> [status : {"none", "running", "stopped"},
                                  at : 0..LastSecond, made : 0..LastSecond]]
  /\ process \in [Processes -> [at : {"off", "looking", "job", "idle", "check", "closing",
                                      "stopping", "gone"},
                                stop : BOOLEAN, claimsSince : 0..2, endedAt : 0..LastSecond]]
  /\ beat \in [Processes -> {"off", "writing", "waiting", "failed", "ended"}]
  /\ healthFaults \in 0..HealthFaults

HealthInit ==
  /\ now = 1 /\ heartbeat = [i \in Instances |-> NoRow]
  /\ process = [p \in Processes |->
       [at |-> "off", stop |-> FALSE, claimsSince |-> 0, endedAt |-> 0]]
  /\ beat = [p \in Processes |-> "off"] /\ healthFaults = 0

HealthFails == healthFaults < HealthFaults /\ healthFaults' = healthFaults + 1
LoopTo(p, at) == process' = [process EXCEPT ![p].at = at]
TimePasses ==
  /\ now < LastSecond /\ now' = now + 1
  /\ UNCHANGED <<heartbeat, process, beat, healthFaults>>

-----------------------------------------------------------------------------
(* run_worker_forever. *)
StartWorker(p) ==
  /\ process[p].at = "off"
  /\ \A o \in Processes : Alive(o) => InstanceOf[o] # InstanceOf[p]
  /\ LoopTo(p, "looking")
  /\ beat' = [beat EXCEPT ![p] = "writing"]
  /\ UNCHANGED <<now, heartbeat, healthFaults>>

\* SIGINT and SIGTERM only set the event; the job under way is finished.
Signal(p) ==
  /\ Alive(p) /\ ~process[p].stop
  /\ process' = [process EXCEPT ![p].stop = TRUE]
  /\ UNCHANGED <<now, heartbeat, beat, healthFaults>>

\* run_once claims a job, or finds none and the loop sleeps.
TakeJob(p) ==
  /\ process[p].at = "looking"
  /\ process' = [process EXCEPT ![p].at = "job",
       ![p].claimsSince = IF beat[p] = "failed" /\ @ < 2 THEN @ + 1 ELSE @]
  /\ UNCHANGED <<now, heartbeat, beat, healthFaults>>
FindNoJob(p) ==
  /\ process[p].at = "looking" /\ LoopTo(p, "idle")
  /\ UNCHANGED <<now, heartbeat, beat, healthFaults>>
JobOrSleepEnds(p) ==
  /\ process[p].at \in {"job", "idle"} /\ LoopTo(p, "check")
  /\ UNCHANGED <<now, heartbeat, beat, healthFaults>>
IterationRaises(p) ==
  /\ process[p].at \in {"looking", "job"} /\ HealthFails
  /\ LoopTo(p, "closing")
  /\ UNCHANGED <<now, heartbeat, beat>>

\* Mutation: the heartbeat task is not looked at.
StopOnly(p) == process[p].stop
MustClose(p) == process[p].stop \/ beat[p] = "failed"

\* The end of an iteration; nothing is awaited before the next one begins.
EndIteration(p) ==
  /\ process[p].at = "check"
  /\ LoopTo(p, IF MustClose(p) THEN "closing" ELSE "looking")
  /\ UNCHANGED <<now, heartbeat, beat, healthFaults>>

-----------------------------------------------------------------------------
(* The heartbeat task and its row. *)
Upsert(p, status) ==
  heartbeat' = [heartbeat EXCEPT ![InstanceOf[p]] =
    [status |-> status, at |-> now, made |-> IF @.status = "none" THEN now ELSE @.made]]

BeatIsDue(p) ==
  /\ beat[p] = "waiting" /\ Alive(p) /\ ~process[p].stop
  /\ beat' = [beat EXCEPT ![p] = "writing"]
  /\ UNCHANGED <<now, heartbeat, process, healthFaults>>
WriteBeat(p) ==
  /\ beat[p] = "writing"
  /\ Upsert(p, "running")
  /\ beat' = [beat EXCEPT ![p] = "waiting"]
  /\ UNCHANGED <<now, process, healthFaults>>
BeatFails(p) ==
  /\ beat[p] = "writing" /\ Alive(p) /\ HealthFails
  /\ beat' = [beat EXCEPT ![p] = "failed"]
  /\ UNCHANGED <<now, heartbeat, process>>

\* Shutdown cancels the task and awaits it; a write in flight may have landed.
\* Mutation: the task is cancelled and not awaited.
LeavesTask(p) == UNCHANGED <<heartbeat, beat>>
AwaitTask(p) ==
  /\ beat' = [beat EXCEPT ![p] = "ended"]
  /\ \/ UNCHANGED heartbeat
     \/ beat[p] = "writing" /\ Upsert(p, "running")
Close(p) ==
  /\ process[p].at = "closing"
  /\ AwaitTask(p)
  /\ LoopTo(p, "stopping")
  /\ UNCHANGED <<now, healthFaults>>

\* The row is marked stopped; a failure of that write is only logged.
MarkStopped(p) ==
  /\ process[p].at = "stopping"
  /\ Upsert(p, "stopped")
  /\ process' = [process EXCEPT ![p].at = "gone", ![p].endedAt = 0]
  /\ UNCHANGED <<now, beat, healthFaults>>
EndUnmarked(p) ==
  /\ process[p].at = "stopping" \/ Alive(p)
  /\ HealthFails
  /\ process' = [process EXCEPT ![p].at = "gone", ![p].endedAt = now]
  /\ beat' = [beat EXCEPT ![p] = "ended"]
  /\ UNCHANGED <<now, heartbeat>>

-----------------------------------------------------------------------------
HealthStep(p) ==
  \/ StartWorker(p) \/ Signal(p) \/ TakeJob(p) \/ FindNoJob(p) \/ JobOrSleepEnds(p)
  \/ IterationRaises(p) \/ EndIteration(p) \/ BeatIsDue(p) \/ WriteBeat(p) \/ BeatFails(p)
  \/ Close(p) \/ MarkStopped(p) \/ EndUnmarked(p)
HealthNext == TimePasses \/ \E p \in Processes : HealthStep(p)
HealthSpec == HealthInit /\ [][HealthNext]_healthVars

-----------------------------------------------------------------------------
(* get_latest_worker_heartbeat: latest by time, then by creation; rows equal *)
(* in both come in any order.                                                *)
Heartbeats == {i \in Instances : heartbeat[i].status # "none"}
LatestRows ==
  {i \in Heartbeats : \A o \in Heartbeats :
     \/ heartbeat[o].at < heartbeat[i].at
     \/ heartbeat[o].at = heartbeat[i].at /\ heartbeat[o].made <= heartbeat[i].made}

\* Mutation: a running row is fresh however old.
FreshAlways(i) == TRUE
Fresh(i) == heartbeat[i].at >= now - StaleAfter

WorkerMayLookReady == \E i \in LatestRows : heartbeat[i].status = "running" /\ Fresh(i)

(* A worker that looks ready is there, or died without a word no longer than *)
(* the stale bound ago: a process that shut down in order is never shown     *)
(* running again, whatever beat was in flight when it closed                 *)
(* (run_worker_forever, check_worker_readiness).                             *)
ReadyMeansAlive ==
  WorkerMayLookReady =>
    \E p \in Processes :
      \/ Alive(p)
      \/ process[p].at = "gone" /\ process[p].endedAt > 0 /\ process[p].endedAt >= now - StaleAfter

(* A worker that lost its heartbeat takes at most the job it was looking for *)
(* at that moment, and then no other (run_worker_forever's heartbeat_task    *)
(* check).                                                                   *)
LostBeatEndsWork == \A p \in Processes : process[p].claimsSince <= 1
=============================================================================
