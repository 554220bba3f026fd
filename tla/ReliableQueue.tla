----------------------------- MODULE ReliableQueue -----------------------------
(***************************************************************************)
(* The Redis reliable queue (internal/queue/reliable_queue.go) together    *)
(* with the goroutines that drive it (internal/worker/worker.go): the      *)
(* worker loops, and in every worker process one stalled-job recovery      *)
(* loop.  Each action is one Redis command or one Backend call, with the   *)
(* local computation that follows it, so every interleaving of goroutines  *)
(* and processes between two commands is a behaviour of the model.         *)
(*                                                                         *)
(* The list heads (left ends) are the heads of the sequences.              *)
(***************************************************************************)
EXTENDS Integers, SequencesExt

CONSTANTS
    Procs,       \* the worker processes; p also names the recovery goroutine of p
    Workers,     \* all worker goroutines, of every process
    ProcOf,      \* the process of a goroutine
    Jobs,        \* the execution IDs
    NoId,        \* stands for the ID of an entry that is not parseable JSON
    InitialJobs, \* the contents the jobs list may start with (junk only)
    SlowJobs,    \* jobs whose execution may outlast the stalled timeout
    Deletable,   \* jobs whose execution record the Backend may delete
    StallTicks,  \* the stalled timeout, in clock ticks
    MaxLag,      \* a recovery pass lasts at most this many ticks
    MaxFaults,   \* bound on failing Redis commands and Backend calls
    MaxDowns     \* bound on crashes and stops of processes

Agents == Workers \cup Procs

(* How an entry was serialised: by the Backend (Java), or by NackJob (Go). *)
Forms == {"backend", "worker"}
Raw   == [id : Jobs \cup {NoId}, form : Forms]
Junk  == [id |-> NoId, form |-> "backend"]

ASSUME AgentsAssumption ==
    /\ Procs # {}
    /\ Workers \cap Procs = {}
    /\ ProcOf \in [Agents -> Procs]
    /\ \A p \in Procs : ProcOf[p] = p
ASSUME JobsAssumption ==
    /\ NoId \notin Jobs
    /\ SlowJobs \subseteq Jobs
    /\ Deletable \subseteq Jobs
    /\ InitialJobs \subseteq Seq({Junk})
ASSUME BoundsAssumption ==
    /\ StallTicks \in Nat \ {0}
    /\ {MaxLag, MaxFaults, MaxDowns} \subseteq Nat

MaxAge == StallTicks + MaxLag   \* ages saturate: nothing tells them apart beyond
None   == -1                    \* no field in the timestamps hash
Ages   == None..MaxAge

VARIABLES
    jobQueue,     \* the list terraform:jobs
    processing,   \* the list terraform:processing
    timestamps,   \* the hash terraform:processing:timestamps, as ages in ticks
    status,       \* what the Backend says of an execution, see Statuses
    ctx,          \* Worker.ctx of a process, or "down" when it does not run
    pc,           \* where a goroutine is
    msg,          \* the entry a goroutine works on (Junk when none)
    found,        \* removeByExecutionID: its snapshot from the next match on
    call,         \* whether the goroutine is in AckJob or in NackJob
    rest,         \* RecoverStalledJobs: the part of its snapshot still to visit
    seen,         \* RecoverStalledJobs: seenExecutionIDs
    lag,          \* RecoverStalledJobs: ticks since it read now
    faults,       \* failing commands and calls so far
    downs,        \* crashes and stops so far
    settled,      \* history: jobs some Execute has finished, or the Backend shows
                  \* as finished or deleted
    dropped,      \* history: jobs whose requeueing was cut short
    doubled       \* history: jobs that one requeueing has pushed more than once

redis   == <<jobQueue, processing, timestamps>>
backend == <<status, settled>>
removal == <<found, call>>
pass    == <<rest, seen, lag>>
world   == <<ctx, downs>>
history == <<dropped, doubled>>
vars    == <<redis, backend, pc, msg, removal, pass, world, faults, history>>

(* The queue does not tell QUEUED from RUNNING ("open") nor SUCCESS from   *)
(* FAILED ("closed"); there is no record of a "new" or "deleted" execution.*)
Statuses == {"new", "open", "closed", "deleted"}

Init ==
    /\ jobQueue \in InitialJobs
    /\ processing = <<>>
    /\ timestamps = [j \in Jobs |-> None]
    /\ status = [j \in Jobs |-> "new"]
    /\ settled = {}
    /\ ctx = [p \in Procs |-> "running"]
    /\ pc = [a \in Agents |-> IF a \in Workers THEN "loop" ELSE "ticker"]
    /\ msg = [a \in Agents |-> Junk]
    /\ found = [a \in Agents |-> <<>>]
    /\ call = [a \in Agents |-> "AckJob"]
    /\ rest = [p \in Procs |-> <<>>]
    /\ seen = [p \in Procs |-> {}]
    /\ lag = [p \in Procs |-> 0]
    /\ faults = 0
    /\ downs = 0
    /\ dropped = {}
    /\ doubled = {}

--------------------------------------------------------------------------------
(* A Redis command of goroutine a either works or fails.  With a cancelled *)
(* context it is never sent; otherwise failing uses up the fault budget.   *)
Running(a) == ctx[ProcOf[a]] = "running"
Works(a)   == Running(a) /\ UNCHANGED faults

Faulty == faults < MaxFaults /\ faults' = faults + 1

Fails(a) ==
    \/ Running(a) /\ Faulty
    \/ ctx[ProcOf[a]] = "cancelled" /\ UNCHANGED faults

(* A command that was executed, but whose reply is lost, go-redis sends    *)
(* again (redis.Options leaves MaxRetries at its default).  It gives up    *)
(* after some retries (no fault of their own), or with the context.        *)
Unanswered(a) == Running(a) /\ Faulty
GivesUp(a)    == ctx[ProcOf[a]] # "down" /\ UNCHANGED faults

(* LREM processing 1 r, when its error is not looked at. *)
LremIgnoringError(a, r) ==
    \/ Works(a) /\ processing' = RemoveFirst(processing, r)
    \/ Fails(a) /\ UNCHANGED processing

(* An LREM whose caller gets an error: it was not executed, or it was and  *)
(* go-redis gave up sending it again.                                      *)
LremError(a, r) ==
    \/ Fails(a) /\ UNCHANGED processing
    \/ Unanswered(a) /\ processing' = RemoveFirst(processing, r)

Id(a)       == msg[a].id
Goto(a, l)  == pc' = [pc EXCEPT ![a] = l]
Take(a, r)  == msg' = [msg EXCEPT ![a] = r]
Dropped(j)  == dropped' = dropped \cup {j}

(* The goroutine leaves AckJob or NackJob. *)
Resume(a) ==
    /\ Goto(a, IF a \in Workers THEN "loop" ELSE "scan")
    /\ Take(a, Junk)
    /\ found' = [found EXCEPT ![a] = <<>>]
    /\ call' = [call EXCEPT ![a] = "AckJob"]

--------------------------------------------------------------------------------
(* Wrong variants of actions below, which no part of Next uses: each is a  *)
(* slip the code could contain and some property must notice.              *)

(* The queue's plain Pop, which keeps no entry in processing. *)
PopUnreliably(w) ==
    /\ pc[w] = "loop"
    /\ Works(w)
    /\ jobQueue # <<>>
    /\ jobQueue' = Front(jobQueue)
    /\ Take(w, Last(jobQueue))
    /\ Goto(w, "stamp")
    /\ UNCHANGED <<processing, timestamps, backend, removal, pass, world, history>>

(* The job is acknowledged before it is executed. *)
StampAndAck(w) ==
    /\ pc[w] = "stamp"
    /\ Works(w)
    /\ timestamps' = [timestamps EXCEPT ![Id(w)] = 0]
    /\ Goto(w, "lrem")
    /\ UNCHANGED <<jobQueue, processing, backend, msg, removal, pass, world, history>>

(* NackJob goes on although its LREM reported an error. *)
LremErrorIgnored(a) ==
    /\ \/ pc[a] = "lrem" /\ Fails(a)
       \/ pc[a] = "lremAgain" /\ GivesUp(a)
    /\ Goto(a, "hdel")
    /\ UNCHANGED <<redis, backend, msg, removal, pass, world, history>>

(* Recovery discards an entry that has no timestamp. *)
DiscardUnstamped(p) ==
    LET r == Head(rest[p]) IN
    /\ pc[p] = "scan"
    /\ rest[p] # <<>>
    /\ rest' = [rest EXCEPT ![p] = Tail(rest[p])]
    /\ r.id # NoId => r.id \in seen[p] \/ timestamps[r.id] = None
    /\ LremIgnoringError(p, r)
    /\ UNCHANGED <<jobQueue, timestamps, backend, pc, msg, removal, seen, lag,
                   world, history>>

(* Recovery requeues what it discards. *)
RequeueDiscarded(p) ==
    LET r == Head(rest[p]) IN
    /\ pc[p] = "scan"
    /\ rest[p] # <<>>
    /\ rest' = [rest EXCEPT ![p] = Tail(rest[p])]
    /\ r.id = NoId \/ r.id \in seen[p]
    /\ Take(p, r)
    /\ Goto(p, "lrem")
    /\ call' = [call EXCEPT ![p] = "NackJob"]
    /\ UNCHANGED <<redis, backend, found, seen, lag, world, faults, history>>

(* Recovery passes over an entry that has no timestamp. *)
SkipUnstamped(p) ==
    LET r == Head(rest[p]) IN
    /\ pc[p] = "scan"
    /\ rest[p] # <<>>
    /\ rest' = [rest EXCEPT ![p] = Tail(rest[p])]
    /\ r.id # NoId /\ r.id \notin seen[p]
    /\ seen' = [seen EXCEPT ![p] = @ \cup {r.id}]
    /\ Works(p)
    /\ IF timestamps[r.id] # None /\ timestamps[r.id] - lag[p] >= StallTicks
         THEN Take(p, r) /\ Goto(p, "query")
         ELSE UNCHANGED <<msg, pc>>
    /\ UNCHANGED <<redis, backend, removal, lag, world, history>>

(* Recovery pushes an entry back before it has removed it. *)
QueryPushFirst(p) ==
    /\ pc[p] = "query"
    /\ UNCHANGED faults
    /\ Goto(p, IF status[Id(p)] = "open" THEN "lpush" ELSE "lrem")
    /\ call' = [call EXCEPT ![p] = IF status[Id(p)] = "open" THEN "NackJob" ELSE "AckJob"]
    /\ UNCHANGED <<redis, backend, msg, found, pass, world, history>>

(* Recovery acknowledges an open job that has no timestamp. *)
QueryAckUnstamped(p) ==
    /\ pc[p] = "query"
    /\ UNCHANGED faults
    /\ Goto(p, "lrem")
    /\ call' = [call EXCEPT ![p] =
                  IF status[Id(p)] = "open" /\ timestamps[Id(p)] # None
                    THEN "NackJob" ELSE "AckJob"]
    /\ UNCHANGED <<redis, backend, msg, found, pass, world, history>>

(* Recovery leaves the entry of a finished job where it is. *)
QueryOpenOnly(p) ==
    /\ pc[p] = "query"
    /\ UNCHANGED faults
    /\ Goto(p, IF status[Id(p)] = "open" THEN "lrem" ELSE "scan")
    /\ call' = [call EXCEPT ![p] = IF status[Id(p)] = "open" THEN "NackJob" ELSE "AckJob"]
    /\ UNCHANGED <<redis, backend, msg, found, pass, world, history>>

(* Any error of the status query counts as "there is no such execution". *)
QueryErrorIsAbsence(p) ==
    /\ pc[p] = "query"
    /\ Faulty
    /\ Goto(p, "lrem")
    /\ UNCHANGED <<redis, backend, msg, removal, pass, world, history>>

--------------------------------------------------------------------------------
(* The Backend submits an execution (RPUSH), or deletes its record. *)
Submit(j) ==
    /\ status[j] = "new"
    /\ status' = [status EXCEPT ![j] = "open"]
    /\ jobQueue' = Append(jobQueue, [id |-> j, form |-> "backend"])
    /\ UNCHANGED <<processing, timestamps, settled, pc, msg, removal, pass,
                   world, faults, history>>

Delete(j) ==
    /\ j \in Deletable
    /\ status[j] \notin {"new", "deleted"}
    /\ status' = [status EXCEPT ![j] = "deleted"]
    /\ settled' = settled \cup {j}
    /\ UNCHANGED <<redis, pc, msg, removal, pass, world, faults, history>>

--------------------------------------------------------------------------------
(* PopReliable: BRPOPLPUSH; an unparseable entry is removed again, any     *)
(* other one is then stamped.  A lost reply leaves the entry moved and the *)
(* worker without it.                                                      *)
Pop(w) ==
    /\ pc[w] = "loop"
    /\ ctx[ProcOf[w]] = "running"
    /\ jobQueue # <<>>
    /\ jobQueue' = Front(jobQueue)
    /\ processing' = Cons(Last(jobQueue), processing)
    /\ \/ /\ Works(w)
          /\ Take(w, Last(jobQueue))
          /\ Goto(w, IF Last(jobQueue).id = NoId THEN "junk" ELSE "stamp")
       \/ Fails(w) /\ UNCHANGED <<msg, pc>>
    /\ UNCHANGED <<timestamps, backend, removal, pass, world, history>>

DropJunk(w) ==
    /\ pc[w] = "junk"
    /\ LremIgnoringError(w, msg[w])
    /\ Take(w, Junk)
    /\ Goto(w, "loop")
    /\ UNCHANGED <<jobQueue, timestamps, backend, removal, pass, world, history>>

Stamp(w) ==
    /\ pc[w] = "stamp"
    /\ \/ Works(w) /\ timestamps' = [timestamps EXCEPT ![Id(w)] = 0]
       \/ Fails(w) /\ UNCHANGED timestamps
    /\ Goto(w, "exec")
    /\ UNCHANGED <<jobQueue, processing, backend, msg, removal, pass, world, history>>

--------------------------------------------------------------------------------
(* Executor.Execute, reduced to what it tells the Backend: RUNNING first,  *)
(* then a terminal status, and from there RUNNING again when a rollback    *)
(* re-enters Execute.  A deleted record answers with an error, which is    *)
(* logged.  Execute runs under a context of its own and so outlives the    *)
(* cancellation of Worker.ctx.                                             *)
Put(j, s) == status' = IF status[j] = "deleted" THEN status
                                                ELSE [status EXCEPT ![j] = s]

ReportRunning(w) ==
    /\ pc[w] \in {"exec", "reported"}
    /\ Put(Id(w), "open")
    /\ Goto(w, "exec")
    /\ UNCHANGED <<redis, settled, msg, removal, pass, world, faults, history>>

ReportResult(w) ==
    /\ pc[w] \in {"exec", "reported"}
    /\ Put(Id(w), "closed")
    /\ settled' = settled \cup {Id(w)}
    /\ Goto(w, "reported")
    /\ UNCHANGED <<redis, msg, removal, pass, world, faults, history>>

(* The update of the terminal status fails for good; it is only logged. *)
ResultLost(w) ==
    /\ pc[w] = "exec"
    /\ Faulty
    /\ Goto(w, "reported")
    /\ UNCHANGED <<redis, backend, msg, removal, pass, world, history>>

(* An update the client gave up (its timeout is 30 seconds) takes effect    *)
(* after the result, or after another report: the Backend shows a finished *)
(* job as running, or the other way round.                                 *)
LateUpdate(j) ==
    /\ j \in settled
    /\ status[j] \in {"open", "closed"}
    /\ Faulty
    /\ \E s \in {"open", "closed"} : Put(j, s)
    /\ UNCHANGED <<redis, settled, pc, msg, removal, pass, world, history>>

(* Execute returns; with or without an error workerLoop calls AckJob. *)
Return(w) ==
    /\ pc[w] = "reported"
    /\ settled' = settled \cup {Id(w)}
    /\ Goto(w, "lrem")
    /\ UNCHANGED <<redis, status, msg, removal, pass, world, faults, history>>

(* workerLoop ends: BRPOPLPUSH returns an error and the context is done. *)
WorkerStops(w) ==
    /\ pc[w] = "loop"
    /\ ctx[ProcOf[w]] = "cancelled"
    /\ Goto(w, "off")
    /\ UNCHANGED <<redis, backend, msg, removal, pass, world, faults, history>>

--------------------------------------------------------------------------------
(* AckJob and NackJob: the part of a list from its first entry with ID j,  *)
(* the LREM by raw JSON, then removeByExecutionID when nothing matched.    *)
FromFirst(l, j) ==
    LET k == SelectInSeq(l, LAMBDA r : r.id = j)
    IN  IF k = 0 THEN <<>> ELSE SubSeq(l, k, Len(l))

Lrem(a) ==
    /\ pc[a] \in {"lrem", "lremAgain"}
    /\ Works(a)
    /\ processing' = RemoveFirst(processing, msg[a])
    /\ Goto(a, IF Contains(processing, msg[a]) THEN "hdel" ELSE "lrange")
    /\ UNCHANGED <<jobQueue, timestamps, backend, msg, removal, pass, world, history>>

(* The reply is lost: the LREM that is sent again need not find anything.  *)
LremUnanswered(a) ==
    /\ pc[a] \in {"lrem", "lremAgain"}
    /\ Unanswered(a)
    /\ Contains(processing, msg[a])
    /\ processing' = RemoveFirst(processing, msg[a])
    /\ Goto(a, "lremAgain")
    /\ UNCHANGED <<jobQueue, timestamps, backend, msg, removal, pass, world, history>>

LremFails(a) ==
    /\ \/ pc[a] = "lrem" /\ Fails(a) /\ UNCHANGED dropped
       \/ /\ pc[a] = "lremAgain" /\ GivesUp(a)
          /\ IF call[a] = "NackJob" THEN Dropped(Id(a)) ELSE UNCHANGED dropped
    /\ Resume(a)
    /\ UNCHANGED <<redis, backend, pass, world, doubled>>

Lrange(a) ==
    /\ pc[a] = "lrange"
    /\ \/ Works(a) /\ found' = [found EXCEPT ![a] = FromFirst(processing, Id(a))]
       \/ Fails(a) /\ found' = [found EXCEPT ![a] = <<>>]
    /\ Goto(a, IF found'[a] = <<>> THEN "hdel" ELSE "lremById")
    /\ UNCHANGED <<redis, backend, msg, call, pass, world, history>>

LremById(a) ==
    /\ pc[a] = "lremById"
    /\ \/ /\ Works(a)
          /\ processing' = RemoveFirst(processing, Head(found[a]))
          /\ found' = [found EXCEPT ![a] = <<>>]
       \/ /\ LremError(a, Head(found[a]))
          /\ found' = [found EXCEPT ![a] = FromFirst(Tail(found[a]), Id(a))]
    /\ Goto(a, IF found'[a] = <<>> THEN "hdel" ELSE "lremById")
    /\ UNCHANGED <<jobQueue, timestamps, backend, msg, call, pass, world, history>>

Hdel(a) ==
    /\ pc[a] = "hdel"
    /\ \/ Works(a) /\ timestamps' = [timestamps EXCEPT ![Id(a)] = None]
       \/ Fails(a) /\ UNCHANGED timestamps
    /\ IF call[a] = "AckJob" THEN Resume(a)
                             ELSE Goto(a, "lpush") /\ UNCHANGED <<msg, removal>>
    /\ UNCHANGED <<jobQueue, processing, backend, pass, world, history>>

Requeued(j) == [id |-> j, form |-> "worker"]

(* The reply is lost: the LPUSH that is sent again adds another entry. *)
Pushes(a) ==
    /\ pc[a] \in {"lpush", "lpushAgain"}
    /\ jobQueue' = Cons(Requeued(Id(a)), jobQueue)
    /\ doubled' = IF pc[a] = "lpushAgain" THEN doubled \cup {Id(a)} ELSE doubled
    /\ UNCHANGED <<processing, timestamps, backend, pass, world, dropped>>

Lpush(a)           == Works(a) /\ Pushes(a) /\ Resume(a)
LpushUnanswered(a) == Unanswered(a) /\ Pushes(a) /\ Goto(a, "lpushAgain") /\ UNCHANGED <<msg, removal>>

LpushFails(a) ==
    /\ \/ pc[a] = "lpush" /\ Fails(a) /\ Dropped(Id(a))
       \/ pc[a] = "lpushAgain" /\ GivesUp(a) /\ UNCHANGED dropped
    /\ Resume(a)
    /\ UNCHANGED <<redis, backend, pass, world, doubled>>

--------------------------------------------------------------------------------
(* RecoverStalledJobs, called by stalledJobRecoveryLoop when its ticker    *)
(* fires and the processing list is not empty.                             *)
RecoverStart(p) ==
    /\ pc[p] = "ticker"
    /\ Works(p)
    /\ processing # <<>>
    /\ rest' = [rest EXCEPT ![p] = processing]
    /\ Goto(p, "scan")
    /\ UNCHANGED <<redis, backend, msg, removal, seen, lag, world, history>>

ScanDone(p) ==
    /\ pc[p] = "scan"
    /\ rest[p] = <<>>
    /\ seen' = [seen EXCEPT ![p] = {}]
    /\ lag' = [lag EXCEPT ![p] = 0]
    /\ Goto(p, "ticker")
    /\ UNCHANGED <<redis, backend, msg, removal, rest, world, faults, history>>

(* The next entry of the snapshot is visited. *)
Visit(p) ==
    /\ pc[p] = "scan"
    /\ rest[p] # <<>>
    /\ rest' = [rest EXCEPT ![p] = Tail(rest[p])]

(* An unparseable entry, or one whose ID was seen before, is removed. *)
Discards(p, r) == r.id = NoId \/ r.id \in seen[p]

ScanDiscard(p) ==
    LET r == Head(rest[p]) IN
    /\ Visit(p)
    /\ Discards(p, r)
    /\ LremIgnoringError(p, r)
    /\ UNCHANGED <<jobQueue, timestamps, backend, pc, msg, removal, seen, lag,
                   world, history>>

(* HGET of the timestamp: a young entry is left alone, an old one and one  *)
(* without a timestamp (or whose HGET failed) is looked up at the Backend. *)
ScanLook(p) ==
    LET r == Head(rest[p]) IN
    /\ Visit(p)
    /\ r.id # NoId /\ r.id \notin seen[p]
    /\ seen' = [seen EXCEPT ![p] = @ \cup {r.id}]
    /\ \/ /\ Works(p)
          /\ timestamps[r.id] # None
          /\ timestamps[r.id] - lag[p] < StallTicks
          /\ UNCHANGED <<msg, pc>>
       \/ /\ Works(p)
          /\ timestamps[r.id] # None
          /\ timestamps[r.id] - lag[p] >= StallTicks
          /\ Take(p, r)
          /\ Goto(p, "query")
       \/ /\ \/ Works(p) /\ timestamps[r.id] = None
             \/ Fails(p)
          /\ Take(p, r)
          /\ Goto(p, "restamp")
    /\ UNCHANGED <<redis, backend, removal, lag, world, history>>

(* The missing timestamp is written, as the time the pass started. *)
Restamp(p) ==
    /\ pc[p] = "restamp"
    /\ \/ Works(p) /\ timestamps' = [timestamps EXCEPT ![Id(p)] = lag[p]]
       \/ Fails(p) /\ UNCHANGED timestamps
    /\ Goto(p, "query")
    /\ UNCHANGED <<jobQueue, processing, backend, msg, removal, pass, world, history>>

(* GetExecutionStatus and the decision: AckJob for a finished execution    *)
(* and for one without a record (400, 404), NackJob for any other one,     *)
(* which here has no timestamp or is old enough (the code tests it again). *)
Query(p) ==
    /\ pc[p] = "query"
    /\ UNCHANGED faults
    /\ Goto(p, "lrem")
    /\ call' = [call EXCEPT ![p] = IF status[Id(p)] = "open" THEN "NackJob" ELSE "AckJob"]
    /\ UNCHANGED <<redis, backend, msg, found, pass, world, history>>

(* Any other error of the status query: left to the next pass. *)
QueryFails(p) ==
    /\ pc[p] = "query"
    /\ Faulty
    /\ Goto(p, "scan")
    /\ Take(p, Junk)
    /\ UNCHANGED <<redis, backend, removal, pass, world, history>>

RecoveryStops(p) ==
    /\ pc[p] = "ticker"
    /\ ctx[p] = "cancelled"
    /\ Goto(p, "off")
    /\ UNCHANGED <<redis, backend, msg, removal, pass, world, faults, history>>

--------------------------------------------------------------------------------
(* The reply to any other command that writes is lost, and the goroutine   *)
(* stays where it sends it again. *)
Resend(a) ==
    /\ Unanswered(a)
    /\ \/ /\ \/ pc[a] = "junk" /\ processing' = RemoveFirst(processing, msg[a])
             \/ pc[a] = "lremById" /\ processing' = RemoveFirst(processing, Head(found[a]))
             \/ /\ pc[a] = "scan" /\ rest[a] # <<>> /\ Discards(a, Head(rest[a]))
                /\ processing' = RemoveFirst(processing, Head(rest[a]))
          /\ UNCHANGED timestamps
       \/ /\ \/ pc[a] = "stamp" /\ timestamps' = [timestamps EXCEPT ![Id(a)] = 0]
             \/ pc[a] = "restamp" /\ timestamps' = [timestamps EXCEPT ![Id(a)] = lag[a]]
             \/ pc[a] = "hdel" /\ timestamps' = [timestamps EXCEPT ![Id(a)] = None]
          /\ UNCHANGED processing
    /\ UNCHANGED <<jobQueue, backend, pc, msg, removal, pass, world, history>>

--------------------------------------------------------------------------------
(* Time.  While a worker executes and acknowledges a job that is not in    *)
(* SlowJobs, its timestamp does not grow to StallTicks.                    *)
Executing(w, j) == pc[w] \notin {"loop", "junk", "stamp", "off"} /\ Id(w) = j

Older(age) == IF age = None THEN None ELSE IF age < MaxAge THEN age + 1 ELSE age

Tick ==
    /\ \A p \in Procs : pc[p] \notin {"ticker", "off"} => lag[p] < MaxLag
    /\ \A w \in Workers, j \in Jobs \ SlowJobs :
          Executing(w, j) => timestamps[j] # StallTicks - 1
    /\ timestamps' = [j \in Jobs |-> Older(timestamps[j])]
    /\ lag' = [p \in Procs |-> IF pc[p] \in {"ticker", "off"} THEN 0 ELSE lag[p] + 1]
    /\ UNCHANGED <<jobQueue, processing, backend, pc, msg, removal, rest, seen,
                   world, faults, history>>

--------------------------------------------------------------------------------
(* Processes.  Stop cancels Worker.ctx and waits for every goroutine; a    *)
(* crash takes them all at once, with whatever they were doing.            *)
Members(p) == {a \in Agents : ProcOf[a] = p}

Cancel(p) ==
    /\ ctx[p] = "running"
    /\ downs < MaxDowns
    /\ downs' = downs + 1
    /\ ctx' = [ctx EXCEPT ![p] = "cancelled"]
    /\ UNCHANGED <<redis, backend, pc, msg, removal, pass, faults, history>>

Exit(p) ==
    /\ ctx[p] = "cancelled"
    /\ \A a \in Members(p) : pc[a] = "off"
    /\ ctx' = [ctx EXCEPT ![p] = "down"]
    /\ UNCHANGED <<redis, backend, pc, msg, removal, pass, downs, faults, history>>

(* Recovery of p has removed the entry and not yet pushed it back. *)
InNackWindow(p) ==
    /\ p \in Procs /\ call[p] = "NackJob"
    /\ pc[p] \in {"lremAgain", "lrange", "lremById", "hdel", "lpush"}

Crash(p) ==
    /\ ctx[p] # "down"
    /\ downs < MaxDowns
    /\ downs' = downs + 1
    /\ ctx' = [ctx EXCEPT ![p] = "down"]
    /\ pc' = [a \in Agents |-> IF ProcOf[a] = p THEN "off" ELSE pc[a]]
    /\ msg' = [a \in Agents |-> IF ProcOf[a] = p THEN Junk ELSE msg[a]]
    /\ found' = [a \in Agents |-> IF ProcOf[a] = p THEN <<>> ELSE found[a]]
    /\ call' = [a \in Agents |-> IF ProcOf[a] = p THEN "AckJob" ELSE call[a]]
    /\ rest' = [rest EXCEPT ![p] = <<>>]
    /\ seen' = [seen EXCEPT ![p] = {}]
    /\ lag' = [lag EXCEPT ![p] = 0]
    /\ IF InNackWindow(p) THEN Dropped(Id(p)) ELSE UNCHANGED dropped
    /\ UNCHANGED <<redis, backend, faults, doubled>>

Restart(p) ==
    /\ ctx[p] = "down"
    /\ ctx' = [ctx EXCEPT ![p] = "running"]
    /\ pc' = [a \in Agents |-> IF ProcOf[a] # p THEN pc[a]
                               ELSE IF a \in Workers THEN "loop" ELSE "ticker"]
    /\ UNCHANGED <<redis, backend, msg, removal, pass, downs, faults, history>>

--------------------------------------------------------------------------------
Removal(a) ==
    \/ Lrem(a) \/ LremUnanswered(a) \/ LremFails(a) \/ Lrange(a) \/ LremById(a)
    \/ Hdel(a) \/ Lpush(a) \/ LpushUnanswered(a) \/ LpushFails(a)

Worker(w) ==
    \/ Pop(w) \/ DropJunk(w) \/ Stamp(w)
    \/ ReportRunning(w) \/ ReportResult(w) \/ ResultLost(w) \/ Return(w)
    \/ Removal(w) \/ Resend(w) \/ WorkerStops(w)

Recovery(p) ==
    \/ RecoverStart(p) \/ ScanDone(p) \/ ScanDiscard(p) \/ ScanLook(p)
    \/ Restamp(p) \/ Query(p) \/ QueryFails(p)
    \/ Removal(p) \/ Resend(p) \/ RecoveryStops(p)

Process(p) == Cancel(p) \/ Exit(p) \/ Crash(p) \/ Restart(p)

Next ==
    \/ \E j \in Jobs : Submit(j) \/ Delete(j) \/ LateUpdate(j)
    \/ \E w \in Workers : Worker(w)
    \/ \E p \in Procs : Recovery(p) \/ Process(p)
    \/ Tick

Spec == Init /\ [][Next]_vars

(* Goroutines that can take a step do, Execute ends (it runs under a       *)
(* timeout), time passes, a stopped process exits and is started again.    *)
Fairness ==
    /\ \A w \in Workers :
          /\ WF_vars(Pop(w) \/ DropJunk(w) \/ Stamp(w))
          /\ WF_vars(ReportResult(w))
          /\ SF_vars(Return(w))
          /\ WF_vars(Removal(w) \/ WorkerStops(w))
    /\ \A p \in Procs :
          /\ WF_vars(Recovery(p))
          /\ WF_vars(Exit(p) \/ Restart(p))
    /\ SF_vars(Tick)

FairSpec == Spec /\ Fairness

--------------------------------------------------------------------------------
(* The variables keep their types. *)
TypeOK ==
    /\ jobQueue \in Seq(Raw)
    /\ processing \in Seq(Raw)
    /\ timestamps \in [Jobs -> Ages]
    /\ status \in [Jobs -> Statuses]
    /\ settled \subseteq Jobs
    /\ dropped \subseteq Jobs
    /\ doubled \subseteq Jobs
    /\ ctx \in [Procs -> {"running", "cancelled", "down"}]
    /\ pc \in [Agents -> {"loop", "junk", "stamp", "exec", "reported",
                          "lrem", "lremAgain", "lrange", "lremById", "hdel",
                          "lpush", "lpushAgain", "ticker", "scan", "restamp",
                          "query", "off"}]
    /\ msg \in [Agents -> Raw]
    /\ found \in [Agents -> Seq(Raw)]
    /\ call \in [Agents -> {"AckJob", "NackJob"}]
    /\ rest \in [Procs -> Seq(Raw)]
    /\ seen \in [Procs -> SUBSET Jobs]
    /\ lag \in [Procs -> 0..MaxLag]
    /\ faults \in 0..MaxFaults
    /\ downs \in 0..MaxDowns

(* Where a job can be found. *)
Has(l, j)     == \E i \in DOMAIN l : l[i].id = j
Waiting(j)    == Has(jobQueue, j)
Processing(j) == Has(processing, j)
Requeueing(j) == \E p \in Procs : InNackWindow(p) /\ Id(p) = j

(* The jobs no requeueing has pushed more than once. *)
Single == Jobs \ doubled

(* A submitted job that no execution has finished is in one of the lists,  *)
(* or in the hands of a recovery that is about to push it back, whatever   *)
(* interleaving, crash or failing command came before; the exceptions are  *)
(* a requeueing that was cut short and one whose LPUSH was sent again      *)
(* (README: no job is lost). *)
NoSilentLoss ==
    \A j \in Single :
        \/ status[j] = "new" \/ j \in settled \/ j \in dropped
        \/ Waiting(j) \/ Processing(j) \/ Requeueing(j)

(* No execution ID has two entries in the lists, nor an entry beside the   *)
(* one a recovery is about to push (the break in removeByExecutionID: "only*)
(* one entry per executionID"), unless its LPUSH was sent again.           *)
Distinct(l) == \A i, k \in DOMAIN l : l[i].id = l[k].id /\ i # k => l[i].id \notin Single
OneEntry ==
    /\ Distinct(jobQueue)
    /\ Distinct(processing)
    /\ \A j \in Single : /\ ~ (Waiting(j) /\ Processing(j))
                         /\ Requeueing(j) => ~ Waiting(j) /\ ~ Processing(j)

(* An entry is removed for good, as acknowledged, only when its job is     *)
(* finished: by the worker that finished it, or by a recovery the Backend  *)
(* told so (README: removed only after the ACK).                           *)
AckedOnlyFinished ==
    [][\A a \in Agents :
          (Lrem(a) \/ LremUnanswered(a) \/ LremById(a)) /\ call[a] = "AckJob"
              => Id(a) \in settled]_vars

(* The queue implements the promise of JobDelivery. *)
place == [j \in Jobs |->
            IF j \in doubled THEN "several"
            ELSE IF Waiting(j) THEN "waiting"
            ELSE IF Processing(j) THEN "processing"
            ELSE IF Requeueing(j) THEN "requeueing"
            ELSE IF status[j] = "new" THEN "unborn" ELSE "gone"]

Delivery == INSTANCE JobDelivery WITH
                Jobs <- Jobs, place <- place, settled <- settled, dropped <- dropped
Delivered == Delivery!Spec

(* Every submitted job is eventually executed to its end (or given up by   *)
(* the Backend, or dropped): crashed and stopped processes come back and   *)
(* recovery returns what they held.                                        *)
Concludes ==
    \A j \in Jobs : (status[j] # "new") ~> (j \in settled \cup dropped)

(* ... and is then eventually in neither list: the entry of a worker that  *)
(* finished and then died is acknowledged by recovery.  Not so the entries *)
(* of a job whose LPUSH was sent again: there may always be one of them.   *)
Leaves ==
    \A j \in Jobs :
        (status[j] # "new") ~>
            (j \in settled \cup dropped
                /\ (j \in Single => ~ Waiting(j) /\ ~ Processing(j)))

(* No submitted job is ever lost (README, "작업 유실 방지").                *)
NoJobLost == dropped \subseteq settled

(* "Not retried": a job whose execution has ended is not executed again.   *)
FinishedNotRerun ==
    [][\A w \in Workers : Stamp(w) => Id(w) \notin settled]_vars

(* Recovery requeues a job that is QUEUED or RUNNING because its worker    *)
(* "is presumed to have crashed": no worker is executing it.               *)
RequeuesOnlyOrphans ==
    [][\A p \in Procs : Query(p) /\ call'[p] = "NackJob" =>
          \A w \in Workers : ~ (pc[w] \in {"exec", "reported"} /\ Id(w) = Id(p))]_vars
================================================================================
