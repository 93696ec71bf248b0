------------------------------ MODULE AuditTrail ------------------------------
(***************************************************************************)
(* AuditTrailWorker of src/kernel/Hooks.cpp: replay ticks are queued, up   *)
(* to a limit, and one thread adds each to logs/audit_trail.json, whose    *)
(* whole list it reads, extends, writes to a temporary file and renames.   *)
(* A file that has grown to its limit is first moved to .1, .1 to .2 and   *)
(* .2 to .3.                                                               *)
(*                                                                         *)
(* Ticks are numbered as they are enqueued.  A file is the list of its     *)
(* ticks; one whose writing failed half way cannot be parsed (Unreadable), *)
(* and ofstream's errors are not looked at.  auditFiles[0] is the trail.   *)
(***************************************************************************)
EXTENDS Integers, SequencesExt

CONSTANTS
  AuditQueueLimit,  \* 1000 in the code
  AuditFileLimit,   \* ticks that make 5 MB
  MaxAuditTicks,    \* bound on the ticks, for model checking
  MaxAuditFaults    \* bound on crashes, failing renames and failing writes

ASSUME AuditAssumption ==
  /\ {AuditQueueLimit, AuditFileLimit} \subseteq Nat \ {0}
  /\ {MaxAuditTicks, MaxAuditFaults} \subseteq Nat

VARIABLES
  auditQueue,     \* queue_
  auditRunning,   \* running_
  auditAt,        \* where the worker is
  auditTick,      \* the tick it has taken
  auditTmp,       \* audit_trail.json.tmp
  auditFiles,     \* audit_trail.json and its three predecessors
  ticksSeen,      \* the ticks enqueued so far, dropped ones included
  auditFaults,
  late,           \* history: ticks enqueued after stop() had cleared running_
  trail,          \* history: the ticks that reached the trail, in this order
  spoilt          \* history: a write that failed half way was renamed

auditVars == <<auditQueue, auditRunning, auditAt, auditTick, auditTmp, auditFiles,
               ticksSeen, auditFaults, late, trail, spoilt>>
diskVars == <<auditTmp, auditFiles, trail, spoilt>>

Stored(ticks) == [kind |-> "list", ticks |-> ticks]
Absent == [kind |-> "absent", ticks |-> <<>>]
Unreadable == [kind |-> "unreadable", ticks |-> <<>>]

AuditInit ==
  /\ auditQueue = <<>> /\ auditRunning = TRUE
  /\ auditAt = "wait" /\ auditTick = 0
  /\ auditTmp = Absent /\ auditFiles = [n \in 0 .. 3 |-> Absent]
  /\ ticksSeen = 0 /\ auditFaults = 0 /\ late = {} /\ trail = <<>> /\ spoilt = FALSE

-----------------------------------------------------------------------------
AuditFault == auditFaults < MaxAuditFaults /\ auditFaults' = auditFaults + 1

\* Fault: the limit is tested after the push.
QueuedAnyway(queue, tick) ==
  IF Len(queue) <= AuditQueueLimit THEN Append(queue, tick) ELSE queue

\* A tick that finds the queue full is dropped.
Queued(queue, tick) ==
  IF Len(queue) < AuditQueueLimit THEN Append(queue, tick) ELSE queue

EnqueueTick ==
  /\ ticksSeen < MaxAuditTicks
  /\ ticksSeen' = ticksSeen + 1
  /\ auditQueue' = Queued(auditQueue, ticksSeen + 1)
  /\ late' = IF auditRunning THEN late ELSE late \cup {ticksSeen + 1}
  /\ UNCHANGED <<auditRunning, auditAt, auditTick, diskVars, auditFaults>>

\* stop(), called by the destructor when the process exits
StopAudit ==
  /\ auditRunning /\ auditRunning' = FALSE
  /\ UNCHANGED <<auditQueue, auditAt, auditTick, diskVars, ticksSeen, auditFaults, late>>

TakeTick ==
  /\ auditAt = "wait" /\ auditQueue # <<>>
  /\ auditTick' = Head(auditQueue) /\ auditQueue' = Tail(auditQueue)
  /\ auditAt' = "size"
  /\ UNCHANGED <<auditRunning, diskVars, ticksSeen, auditFaults, late>>

\* Fault: the worker leaves as soon as it is told to.
MayEndAtOnce == ~auditRunning

\* The worker leaves when it is told to and nothing is left to write.
MayEnd == auditQueue = <<>> /\ ~auditRunning

EndAudit ==
  /\ auditAt = "wait" /\ MayEnd
  /\ auditAt' = "ended"
  /\ UNCHANGED <<auditQueue, auditRunning, auditTick, diskVars, ticksSeen, auditFaults, late>>

\* file_size(filepath) >= 5 MB; of a file cut short nothing is known.
FileSizes(file) ==
  IF file = Unreadable THEN BOOLEAN ELSE {Len(file.ticks) >= AuditFileLimit}

TestSize ==
  /\ auditAt = "size"
  /\ \E full \in FileSizes(auditFiles[0]) : auditAt' = IF full THEN "move2" ELSE "write"
  /\ UNCHANGED <<auditQueue, auditRunning, auditTick, diskVars, ticksSeen, auditFaults, late>>

\* Fault: the trail is moved first.
MoveOrderUp == [move2 |-> <<0, "move1">>, move1 |-> <<1, "move0">>, move0 |-> <<2, "write">>]

\* rotateFiles: which file moves up at each of its three steps, and what follows.
MoveOrder == [move2 |-> <<2, "move1">>, move1 |-> <<1, "move0">>, move0 |-> <<0, "write">>]

\* Fault: files are copied, which leaves the old ones.
Copied(files, n) ==
  IF files[n] = Absent THEN files ELSE [files EXCEPT ![n + 1] = files[n]]

Moved(files, n) ==
  IF files[n] = Absent THEN files ELSE [files EXCEPT ![n + 1] = files[n], ![n] = Absent]

\* A rename that throws ends the rotation, and the trail goes on growing.
MoveFile ==
  /\ auditAt \in DOMAIN MoveOrder
  /\ LET move == MoveOrder[auditAt]
     IN \/ /\ auditFiles' = Moved(auditFiles, move[1])
           /\ auditAt' = move[2]
           /\ UNCHANGED auditFaults
        \/ /\ AuditFault
           /\ auditFiles[move[1]] # Absent
           /\ auditAt' = "write"
           /\ UNCHANGED auditFiles
  /\ UNCHANGED <<auditQueue, auditRunning, auditTick, auditTmp, ticksSeen, late, trail, spoilt>>

\* The list is extended, where a trail that cannot be parsed counts as an empty one, and
\* the temporary file is written, or cut short by a full disk, or not opened.
WriteTmp ==
  /\ auditAt = "write"
  /\ \/ /\ auditTmp' = Stored(Append(auditFiles[0].ticks, auditTick))
        /\ auditAt' = "rename" /\ UNCHANGED auditFaults
     \/ AuditFault /\ auditTmp' = Unreadable /\ auditAt' = "rename"
     \/ AuditFault /\ UNCHANGED auditTmp /\ auditAt' = "wait"
  /\ UNCHANGED <<auditQueue, auditRunning, auditTick, auditFiles, ticksSeen, late, trail, spoilt>>

\* It takes the place of the trail, whatever became of its writing.
RenameTmp ==
  /\ auditAt = "rename" /\ auditAt' = "wait"
  /\ \/ /\ auditFiles' = [auditFiles EXCEPT ![0] = auditTmp]
        /\ auditTmp' = Absent
        /\ spoilt' = (spoilt \/ auditTmp = Unreadable)
        /\ trail' = IF auditTmp = Unreadable THEN trail ELSE Append(trail, auditTick)
        /\ UNCHANGED auditFaults
     \/ AuditFault /\ UNCHANGED diskVars
  /\ UNCHANGED <<auditQueue, auditRunning, auditTick, ticksSeen, late>>

\* The process ends and another one starts: the files stay.
AuditCrash ==
  /\ AuditFault
  /\ auditQueue' = <<>> /\ auditRunning' = TRUE /\ auditAt' = "wait" /\ auditTick' = 0
  /\ UNCHANGED <<diskVars, ticksSeen, late>>

WorkerStep == TakeTick \/ EndAudit \/ TestSize \/ MoveFile \/ WriteTmp \/ RenameTmp

AuditNext == EnqueueTick \/ StopAudit \/ WorkerStep \/ AuditCrash

AuditSpec == AuditInit /\ [][AuditNext]_auditVars

-----------------------------------------------------------------------------
(* Properties.                                                             *)

\* Every variable has its type, and the queue its limit.
AuditTypeOK ==
  /\ auditQueue \in Seq(1 .. MaxAuditTicks) /\ Len(auditQueue) <= AuditQueueLimit
  /\ auditRunning \in BOOLEAN
  /\ auditAt \in {"wait", "size", "write", "rename", "ended"} \cup DOMAIN MoveOrder
  /\ auditTick \in 0 .. MaxAuditTicks

OnDisk ==
  auditFiles[3].ticks \o auditFiles[2].ticks \o auditFiles[1].ticks \o auditFiles[0].ticks

\* Read from .3 to the trail, the files hold ticks in the order in which they were
\* enqueued and none twice, at every moment of a rotation, after crashes in the middle
\* of one, failing renames and writes.
TrailInOrder == \A i \in 1 .. Len(OnDisk) - 1 : OnDisk[i] < OnDisk[i + 1]

\* Unless a write cut short has replaced the trail, only old ticks are missing: what is
\* on disk is the end of all that was written, and at least one full file of it.
OnlyOldTicksGo ==
  spoilt \/ /\ IsSuffix(OnDisk, trail)
            /\ Len(OnDisk) >= AuditFileLimit \/ OnDisk = trail

\* When stop() has joined the worker, no tick that was accepted before it is unwritten.
AuditDrained == auditAt = "ended" => ToSet(auditQueue) \subseteq late

\* The audit trail is an uninterrupted record of the newest ticks.
AuditSound == TrailInOrder /\ OnlyOldTicksGo /\ AuditDrained

=============================================================================
