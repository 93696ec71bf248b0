----------------------------- MODULE ProverSwarm -----------------------------
(***************************************************************************)
(* The prover swarm: a queue of proof jobs, kept in memory and in RocksDB, *)
(* which are assigned to the best registered prover, completed, failed or  *)
(* timed out (src/orchestration/ProverSwarm.cpp, include/ProverSwarm.h).   *)
(*                                                                         *)
(* Every operation holds mu_ from its first line to its last, so each is   *)
(* one action.  Jobs and provers are only in RocksDB; queue_order_ is in   *)
(* memory with a copy in RocksDB.  A write may fail (WriteOutcomes).       *)
(* Reputation, capacity and latency are doubles in the code, and multiples *)
(* of 1/Scale here (latency in seconds).  metrics_, which only getMetrics  *)
(* reads, is left out.                                                     *)
(***************************************************************************)
EXTENDS Integers, Sequences, SequencesExt, Maps, JsonNumber

CONSTANTS
  JobIds,         \* job ids
  ProverKeys,     \* public keys, integers in the order RocksDB iterates them
  NoProver,       \* the empty assigned_prover of a job that waits
  Latencies,      \* latency_ms a result may be recorded with
  Scale,          \* the units of 1.0
  Alpha, Beta,    \* config_.alpha and config_.beta
  Timeout,        \* config_.timeout_ms
  StartTime,      \* the clock, bounded by MaxTime
  MaxTime,
  MaxRetries,     \* bound on retry_count
  WriteOutcomes   \* the results of db_->Write and db_->Put: a subset of BOOLEAN

ASSUME SwarmAssumption ==
  /\ ProverKeys \subseteq Nat /\ NoProver \notin ProverKeys
  /\ Latencies \subseteq Nat
  /\ Scale \in Nat \ {0} /\ Alpha \in Nat /\ Beta \in Nat
  /\ Timeout \in Nat /\ StartTime \in Nat /\ MaxTime \in Nat /\ MaxRetries \in Nat
  /\ WriteOutcomes \subseteq BOOLEAN
  /\ \A time \in {StartTime, MaxTime} : time < 1000 * Exact  \* as far as DecimalUnits go

VARIABLES
  queue,          \* queue_order_
  queueOnDisk,    \* the "queue_order" key
  jobs,           \* the "jobs/" keys
  provers,        \* the column family of the provers
  now,            \* system_clock
  dropped         \* history: jobs a recordJobSuccess took off the queue in vain

swarmVars == <<queue, queueOnDisk, jobs, provers, now, dropped>>

ProverIdentity ==
  [reputation : Nat, capacity : Nat, latency : Nat, banned : BOOLEAN]

ProverJob ==
  [assigned : ProverKeys \cup {NoProver}, at : Nat, completed : BOOLEAN,
   retries : 0 .. MaxRetries]

NewIdentity ==
  [reputation |-> Scale \div 2, capacity |-> Scale, latency |-> 0, banned |-> FALSE]

NewJob == [assigned |-> NoProver, at |-> 0, completed |-> FALSE, retries |-> 0]

SwarmInit ==
  /\ queue = <<>> /\ queueOnDisk = <<>>
  /\ jobs = EmptyMap /\ provers = EmptyMap
  /\ now = StartTime
  /\ dropped = {}

-----------------------------------------------------------------------------

Waiting(job) ==
  [assigned |-> NoProver, at |-> 0, completed |-> job.completed, retries |-> job.retries]

AssignedTo(job, p) ==
  [assigned |-> p, at |-> RoundTrip(now), completed |-> job.completed, retries |-> job.retries + 1]

\* Fault: the penalty is not stopped at zero.
PenalisedBelowZero(prover) == [prover EXCEPT !.reputation = @ - Beta]

Penalised(prover) ==
  [prover EXCEPT !.reputation = IF @ < Beta THEN 0 ELSE @ - Beta]

\* The code's average of the old and the new latency.
Rewarded(prover, latency) ==
  [reputation |-> prover.reputation + Alpha \div (1 + latency), capacity |-> prover.capacity,
   latency |-> (prover.latency + latency) \div 2, banned |-> prover.banned]

Banned(prover) ==
  [reputation |-> 0, capacity |-> prover.capacity, latency |-> prover.latency, banned |-> TRUE]

Score(prover) == prover.reputation + prover.capacity - prover.latency

\* best_score starts at -1.0 and only a higher score replaces it.
BestProvers ==
  LET able == {p \in DOMAIN provers :
                 ~provers[p].banned /\ Score(provers[p]) > -Scale}
  IN  {p \in able :
         \A q \in able \ {p} :
           \/ Score(provers[p]) > Score(provers[q])
           \/ Score(provers[p]) = Score(provers[q]) /\ p < q}

Open(job) == job \in DOMAIN jobs /\ ~jobs[job].completed

\* The provers p of a set of jobs, with the penalty each gets: the record is
\* fetched before the batch is written, so several jobs cost it only one Beta.
PenaltiesFor(late) ==
  [p \in {jobs[job].assigned : job \in late} \cap DOMAIN provers |->
     Penalised(provers[p])]

-----------------------------------------------------------------------------

\* Fault: no pop_back when the write fails.
SubmitWithoutRollback(job) ==
  /\ job \notin DOMAIN jobs
  /\ queue' = Append(queue, job)
  /\ \E ok \in WriteOutcomes :
       /\ queueOnDisk' = IF ok THEN queue' ELSE queueOnDisk
       /\ jobs' = IF ok THEN Put(jobs, job, NewJob) ELSE jobs
  /\ UNCHANGED <<provers, now, dropped>>

\* A submission that is not written leaves the queue as it was (pop_back).
SubmitJob(job) ==
  /\ job \notin DOMAIN jobs
  /\ \E ok \in WriteOutcomes :
       /\ queue' = IF ok THEN Append(queue, job) ELSE queue
       /\ queueOnDisk' = IF ok THEN queue' ELSE queueOnDisk
       /\ jobs' = IF ok THEN Put(jobs, job, NewJob) ELSE jobs
  /\ UNCHANGED <<provers, now, dropped>>

\* The first open job of the queue that waits, or a later one when saveJob
\* fails for those before it.
AssignJob(i) ==
  LET Waits(k) == Open(queue[k]) /\ jobs[queue[k]].assigned = NoProver
  IN  /\ Waits(i)
      /\ FALSE \in WriteOutcomes \/ \A k \in 1 .. i - 1 : ~Waits(k)
      /\ jobs[queue[i]].retries < MaxRetries
      /\ \E p \in BestProvers :
           jobs' = [jobs EXCEPT ![queue[i]] = AssignedTo(@, p)]
      /\ UNCHANGED <<queue, queueOnDisk, provers, now, dropped>>

\* Fault: a completed job is not recognised.
SucceedAgain(job, latency) ==
  /\ job \in DOMAIN jobs
  /\ queue' = RemoveFirst(queue, job)
  /\ queueOnDisk' = queue'
  /\ jobs' = [jobs EXCEPT ![job].completed = TRUE]
  /\ provers' = IF jobs[job].assigned \in DOMAIN provers
                  THEN [provers EXCEPT ![jobs[job].assigned] = Rewarded(@, latency)]
                  ELSE provers
  /\ UNCHANGED <<now, dropped>>

\* The job leaves the queue in memory before the batch is written, and stays
\* off it when the write fails.  The prover rewarded is the present assignee.
RecordJobSuccess(job, latency) ==
  /\ Open(job)
  /\ queue' = RemoveFirst(queue, job)
  /\ \E ok \in WriteOutcomes :
       LET assignee == jobs[job].assigned
       IN  /\ jobs' = IF ok THEN [jobs EXCEPT ![job].completed = TRUE] ELSE jobs
           /\ provers' =
                IF ok /\ assignee \in DOMAIN provers
                  THEN [provers EXCEPT ![assignee] = Rewarded(@, latency)]
                  ELSE provers
           /\ queueOnDisk' =
                IF ok /\ Contains(queue, job) THEN queue' ELSE queueOnDisk
           /\ dropped' = IF ok THEN dropped ELSE dropped \cup {job}
  /\ UNCHANGED now

RecordJobFailure(job) ==
  /\ Open(job)
  /\ TRUE \in WriteOutcomes
  /\ jobs' = [jobs EXCEPT ![job] = Waiting(@)]
  /\ provers' = PutAll(provers, PenaltiesFor({job}))
  /\ UNCHANGED <<queue, queueOnDisk, now, dropped>>

\* Fault: a known prover is overwritten.
RegisterAgain(p) ==
  /\ provers' = Put(provers, p, NewIdentity)
  /\ UNCHANGED <<queue, queueOnDisk, jobs, now, dropped>>

RegisterProver(p) ==
  /\ p \notin DOMAIN provers
  /\ provers' = Put(provers, p, NewIdentity)
  /\ UNCHANGED <<queue, queueOnDisk, jobs, now, dropped>>

HardBanProver(p) ==
  /\ p \in DOMAIN provers
  /\ provers' = [provers EXCEPT ![p] = Banned(@)]
  /\ UNCHANGED <<queue, queueOnDisk, jobs, now, dropped>>

\* assigned_at_ms has been through JSON and may lie in the future of the clock.
CheckTimeouts ==
  LET late == {job \in ToSet(queue) :
                 /\ Open(job) /\ jobs[job].assigned # NoProver
                 /\ jobs[job].at # 0 /\ now > jobs[job].at
                 /\ now - jobs[job].at > Timeout}
  IN  /\ late # {}
      /\ TRUE \in WriteOutcomes
      /\ jobs' = PutAll(jobs, [job \in late |-> Waiting(jobs[job])])
      /\ provers' = PutAll(provers, PenaltiesFor(late))
      /\ UNCHANGED <<queue, queueOnDisk, now, dropped>>

SwarmTick ==
  /\ now < MaxTime
  /\ now' = now + 1
  /\ UNCHANGED <<queue, queueOnDisk, jobs, provers, dropped>>

\* A new process: loadQueueOrder.
SwarmRestart ==
  /\ queue' = queueOnDisk
  /\ UNCHANGED <<queueOnDisk, jobs, provers, now, dropped>>

SwarmNext ==
  \/ \E job \in JobIds : SubmitJob(job)
  \/ \E i \in DOMAIN queue : AssignJob(i)
  \/ \E job \in JobIds, latency \in Latencies : RecordJobSuccess(job, latency)
  \/ \E job \in JobIds : RecordJobFailure(job)
  \/ \E p \in ProverKeys : RegisterProver(p)
  \/ \E p \in ProverKeys : HardBanProver(p)
  \/ CheckTimeouts
  \/ SwarmTick
  \/ SwarmRestart

SwarmSpec == SwarmInit /\ [][SwarmNext]_swarmVars

-----------------------------------------------------------------------------

\* Every variable has its type; a reputation never goes below zero, however
\* often a prover fails or times out (recordJobFailure, checkTimeouts).
SwarmTypeOK ==
  /\ queue \in Seq(JobIds) /\ queueOnDisk \in Seq(JobIds)
  /\ IsMap(jobs, JobIds, ProverJob)
  /\ IsMap(provers, ProverKeys, ProverIdentity)
  /\ now \in Nat
  /\ dropped \subseteq JobIds

\* No job is lost: both copies of the queue list stored jobs, each once, and an
\* open job is on both unless a recordJobSuccess for it failed to write.
\* initialize() then resumes exactly the jobs that submitJob accepted.
OpenJobsQueued ==
  /\ \A q \in {queue, queueOnDisk} :
       /\ IsInjective(q)
       /\ ToSet(q) \subseteq DOMAIN jobs
       /\ {job \in DOMAIN jobs : Open(job)} \ dropped \subseteq ToSet(q)
  /\ dropped = {} => queue = queueOnDisk /\ \A job \in ToSet(queue) : Open(job)

\* hardBanProver is for good: no result, timeout or new registration of the
\* prover, which all write its whole record, lifts the ban.
BannedForever ==
  [][\A p \in DOMAIN provers : provers[p].banned => provers'[p].banned]_swarmVars

\* A job is paid for once: a reputation rises only in the step that completes
\* an open job assigned to that prover, and a completed job never changes again
\* (duplicated and late results, failures and timeouts, restarts).
PaidOnce ==
  [][/\ \A p \in DOMAIN provers :
          provers'[p].reputation > provers[p].reputation =>
            \E job \in DOMAIN jobs :
              /\ jobs[job].assigned = p
              /\ ~jobs[job].completed /\ jobs'[job].completed
     /\ \A job \in DOMAIN jobs :
          jobs[job].completed => jobs'[job] = jobs[job]]_swarmVars

==============================================================================
