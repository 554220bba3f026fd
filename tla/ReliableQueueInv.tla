---------------------------- MODULE ReliableQueueInv ----------------------------
(***************************************************************************)
(* The inductive invariants behind the theorems on ReliableQueue: TypeInv, *)
(* NewIsNowhere and FinishedIsSettled hold for any number of processes     *)
(* (ReliableQueue_proofs), QueueInv as long as recoveries do not overlap,  *)
(* as with one process (OnePass_proofs; the run queue_faults checks it).   *)
(* Of a job whose LPUSH was sent again, one that is not in Single, they    *)
(* say little: its entries may be anywhere.                                *)
(***************************************************************************)
EXTENDS ReliableQueue

WorkerOnly   == {"loop", "junk", "stamp", "exec", "reported"}
RecoveryOnly == {"ticker", "scan", "restamp", "query", "lpush", "lpushAgain"}
InRemoval    == {"lrem", "lremAgain", "lrange", "lremById", "hdel", "lpush", "lpushAgain"}
WithEntry    == {"stamp", "exec", "reported", "restamp", "query"} \cup InRemoval

(* A goroutine runs its own code, and holds an entry where the code does. *)
OwnCode ==
    /\ \A w \in Workers : pc[w] \notin RecoveryOnly /\ call[w] = "AckJob"
    /\ \A p \in Procs : pc[p] \notin WorkerOnly
    /\ \A a \in Agents : pc[a] \in WithEntry => Id(a) \in Jobs
    /\ \A w \in Workers : pc[w] = "junk" => Id(w) = NoId

(* removeByExecutionID removes an entry of the job it was asked to. *)
FoundIsOwn ==
    \A a \in Agents : pc[a] = "lremById" =>
        found[a] # <<>> /\ Head(found[a]).id = Id(a)

TypeInv == TypeOK /\ OwnCode /\ FoundIsOwn

(* Nothing is known of a job before it is submitted. *)
NewIsNowhere ==
    \A j \in Jobs : status[j] = "new" =>
        /\ ~ Waiting(j) /\ ~ Processing(j)
        /\ \A a \in Agents : Id(a) # j
        /\ \A p \in Procs : ~ Has(rest[p], j)

(* What the Backend shows as finished is settled, and so is what a         *)
(* goroutine acknowledges.                                                 *)
FinishedIsSettled ==
    /\ \A j \in Jobs : status[j] \in {"closed", "deleted"} => j \in settled
    /\ \A a \in Agents : pc[a] \in InRemoval /\ call[a] = "AckJob" => Id(a) \in settled

(* No goroutine of a process that is down is anywhere. *)
DownIsOff == \A a \in Agents : ctx[ProcOf[a]] = "down" => pc[a] = "off"

(* What a recovery pass still has to deal with, r, is not waiting, and     *)
(* where it is in the processing list it is there as the pass saw it.      *)
Same(l, r) == \A i \in DOMAIN l : l[i].id = r.id => l[i] = r

Current(r) == r.id \in Single => ~ Waiting(r.id) /\ Same(processing, r)

InPass     == {"restamp", "query"} \cup InRemoval
BeforePush == InPass \ {"lpushAgain"}

Snapshot ==
    \A p \in Procs :
        /\ pc[p] \in {"ticker", "off"} => rest[p] = <<>> /\ seen[p] = {}
        /\ Distinct(rest[p])
        /\ \A i \in DOMAIN rest[p] :
              /\ Current(rest[p][i])
              /\ rest[p][i].id \in Single => rest[p][i].id \notin seen[p]
        /\ pc[p] \in InPass => Id(p) \in seen[p]
        /\ pc[p] \in BeforePush => Current(msg[p])

(* A recovery that is past the LREM has nothing left to find: it does not  *)
(* need removeByExecutionID.                                               *)
Withdrawn ==
    \A p \in Procs : Id(p) \in Single =>
        /\ pc[p] # "lremById"
        /\ pc[p] \in {"lremAgain", "lrange", "hdel", "lpush"} => ~ Processing(Id(p))

(* Only NackJob pushes. *)
PushIsNack == \A a \in Agents : pc[a] \in {"lpush", "lpushAgain"} => call[a] = "NackJob"

(* A single job whose requeueing was cut short never comes back. *)
DroppedIsGone ==
    \A j \in dropped \cap Single :
        /\ status[j] # "new" /\ ~ Waiting(j) /\ ~ Processing(j)
        /\ \A p \in Procs : /\ ~ Has(rest[p], j)
                            /\ pc[p] \in InPass => Id(p) # j

(* Why nothing is lost or duplicated while recoveries do not overlap: what *)
(* a recovery still has to visit or to requeue is never waiting, is in the *)
(* processing list at most as the recovery saw it, and is gone from there  *)
(* once the LREM is done.  So the stale snapshot of RecoverStalledJobs is  *)
(* harmless as long as no other recovery runs.                             *)
QueueInv ==
    /\ NewIsNowhere
    /\ FinishedIsSettled
    /\ DownIsOff
    /\ PushIsNack
    /\ Snapshot
    /\ Withdrawn
    /\ DroppedIsGone
    /\ OneEntry
    /\ NoSilentLoss

--------------------------------------------------------------------------------
(* No two recoveries run at once.  OnePassSpec has the behaviours of Spec  *)
(* in which that is so: all of them when there is one worker process, and  *)
(* with several ones those that a lock around RecoverStalledJobs would     *)
(* leave (the code has none).                                              *)
Idle(p) == pc[p] \in {"ticker", "off"}
OnePass == \A p, q \in Procs : Idle(p) \/ Idle(q) \/ p = q

OnePassSpec == Init /\ [][Next /\ OnePass']_vars
================================================================================
