----------------------------- MODULE Delivery_proofs -----------------------------
(***************************************************************************)
(* While no two recoveries run at once, ReliableQueue implements           *)
(* JobDelivery: every step of a goroutine, of the Backend or of a process  *)
(* moves at most one job, as JobDelivery allows.                           *)
(***************************************************************************)
EXTENDS OnePass_proofs

--------------------------------------------------------------------------------
(* The mapping, with one recovery p. *)

Window == {"lremAgain", "lrange", "lremById", "hdel", "lpush"}

InWindow(q, c, m, k) == q \in Window /\ c = "NackJob" /\ m.id = k

LEMMA PlaceOf ==
    ASSUME NEW p \in Procs, Alone(p), Alone(p)', NEW k \in Jobs
    PROVE  /\ place[k] = IF k \notin Single THEN "several"
                         ELSE IF Has(jobQueue, k) THEN "waiting"
                         ELSE IF Has(processing, k) THEN "processing"
                         ELSE IF InWindow(pc[p], call[p], msg[p], k) THEN "requeueing"
                         ELSE IF status[k] = "new" THEN "unborn" ELSE "gone"
           /\ place'[k] = IF k \notin Single' THEN "several"
                          ELSE IF Has(jobQueue', k) THEN "waiting"
                          ELSE IF Has(processing', k) THEN "processing"
                          ELSE IF InWindow(pc'[p], call'[p], msg'[p], k) THEN "requeueing"
                          ELSE IF status'[k] = "new" THEN "unborn" ELSE "gone"
<1>1. \A q \in Procs \ {p} : pc[q] \notin Window /\ pc'[q] \notin Window
  BY DEF Alone, Idle, Window
<1>2. /\ Requeueing(k) <=> InWindow(pc[p], call[p], msg[p], k)
      /\ Requeueing(k)' <=> InWindow(pc'[p], call'[p], msg'[p], k)
  BY <1>1 DEF Requeueing, InNackWindow, InWindow, Window, Id
<1>3. (k \in Single <=> k \notin doubled) /\ (k \in Single' <=> k \notin doubled')
  BY DEF Single
<1> QED
  BY <1>2, <1>3 DEF place, Waiting, Processing

(* A step that changes the place of one job at most. *)
LEMMA OneMoves ==
    ASSUME NEW j \in Jobs, \A k \in Jobs \ {j} : place'[k] = place[k]
    PROVE  place' = [place EXCEPT ![j] = place'[j]]
BY DEF place

LEMMA NoneMoves ==
    ASSUME \A k \in Jobs : place'[k] = place[k]
    PROVE  place' = place
BY DEF place

(* What leaves a job where it is; a job that was pushed twice stays so. *)
Kept(p, k) ==
    k \in Single =>
        /\ k \in Single'
        /\ Has(jobQueue', k) <=> Has(jobQueue, k)
        /\ Has(processing', k) <=> Has(processing, k)
        /\ InWindow(pc'[p], call'[p], msg'[p], k) <=> InWindow(pc[p], call[p], msg[p], k)
        /\ status'[k] = "new" <=> status[k] = "new"

LEMMA Unmoved ==
    ASSUME NEW p \in Procs, Alone(p), Alone(p)', [Next]_vars, NEW k \in Jobs, Kept(p, k)
    PROVE  place'[k] = place[k]
<1>1. CASE k \in Single
  BY <1>1, PlaceOf DEF Kept
<1>2. CASE k \notin Single
  <2>1. k \notin Single'
    BY <1>2, SingleNext
  <2> QED
    BY <1>2, <2>1, PlaceOf
<1> QED
  BY <1>1, <1>2

DeliveryStep == [Delivery!Next]_<<place, settled, dropped>>

(* A step after which every job is where it was. *)
LEMMA Stutters ==
    ASSUME NEW p \in Procs, Alone(p), Alone(p)', [Next]_vars, UNCHANGED <<settled, dropped>>,
           \A k \in Jobs : Kept(p, k)
    PROVE  DeliveryStep
<1>1. \A k \in Jobs : place'[k] = place[k]
  BY Unmoved
<1> QED
  BY <1>1, NoneMoves DEF DeliveryStep

(* A step of the process that leaves the lists and the Backend alone.      *)
LEMMA LocalStutters ==
    ASSUME NEW p \in Procs, Alone(p), Alone(p)', [Next]_vars,
           UNCHANGED <<jobQueue, processing, status, settled, dropped, doubled>>,
           \/ pc'[p] = pc[p] /\ call'[p] = call[p] /\ msg'[p] = msg[p]
           \/ /\ ~ (pc[p] \in Window /\ call[p] = "NackJob")
              /\ ~ (pc'[p] \in Window /\ call'[p] = "NackJob")
    PROVE  DeliveryStep
BY Stutters DEF InWindow, Kept, Single

--------------------------------------------------------------------------------
(* The workers and the Backend. *)

LEMMA BackendDelivery ==
    ASSUME NEW p \in Procs, Alone(p), Alone(p)', TypeInv, QueueInv, [Next]_vars,
           NEW j \in Jobs, Submit(j) \/ Delete(j) \/ LateUpdate(j)
    PROVE  DeliveryStep
<1> USE AgentFacts DEF QueueInv
<1>0. DOMAIN status = Jobs /\ p \in Procs /\ p \in Agents
  BY DEF TypeInv, TypeOK
<1>1. UNCHANGED <<pc, call, msg, dropped>> /\ Single' = Single
  BY DEF Submit, Delete, LateUpdate, Put, removal, history, Single
<1>2. CASE Submit(j)
  <2>1. /\ status[j] = "new" /\ UNCHANGED <<processing, settled>>
        /\ \A k \in Jobs \ {j} : status'[k] = status[k]
    BY <1>0, <1>2 DEF Submit
  <2>2. \A k \in Jobs \ {j} : place'[k] = place[k]
    BY <1>1, <1>2, <2>1, Unmoved, SubmitLists DEF Kept
  <2>3. ~ InWindow(pc[p], call[p], msg[p], j)
    BY <1>0, <2>1 DEF NewIsNowhere, InWindow, Id
  <2>4. (place[j] = "unborn" /\ place'[j] = "waiting") \/ j \notin Single
    BY <1>1, <1>2, <2>1, <2>3, PlaceOf, SubmitLists
  <2>5. CASE j \in Single
    <3>1. place' = [place EXCEPT ![j] = "waiting"]
      BY <2>2, <2>4, <2>5, OneMoves
    <3> QED
      BY <1>1, <2>1, <2>4, <2>5, <3>1
         DEF DeliveryStep, Delivery!Next, Delivery!Submit, Delivery!Move
  <2>6. CASE j \notin Single
    <3>1. place'[j] = place[j]
      BY <2>6, Unmoved DEF Kept
    <3> QED
      BY <1>1, <2>1, <2>2, <3>1, NoneMoves DEF DeliveryStep
  <2> QED
    BY <2>5, <2>6
<1>3. CASE Delete(j) \/ LateUpdate(j)
  <2>1. /\ UNCHANGED <<jobQueue, processing>> /\ settled' = settled \cup {j}
        /\ status[j] # "new" /\ \A k \in Jobs : status'[k] = "new" <=> status[k] = "new"
    BY <1>0, <1>3 DEF Delete, LateUpdate, Put, redis
  <2>2. place' = place
    BY <1>1, <2>1, Unmoved, NoneMoves DEF Kept
  <2>3. place[j] # "unborn"
    BY <2>1, PlaceOf
  <2> QED
    BY <1>1, <2>1, <2>2, <2>3 DEF DeliveryStep, Delivery!Next, Delivery!Settle
<1> QED
  BY <1>2, <1>3

(* An acknowledgement by a removes the entry of its job, or nothing.       *)
LEMMA AckDelivery ==
    ASSUME NEW p \in Procs, Alone(p), Alone(p)', TypeInv, QueueInv, [Next]_vars, NEW a \in Agents,
           call[a] = "AckJob", pc[a] \in InRemoval,
           UNCHANGED <<jobQueue, status, settled, dropped, doubled>>,
           \A k : Has(processing', k) => Has(processing, k),
           \A k \in Single : Has(processing, k) /\ k # msg[a].id => Has(processing', k),
           \A k \in Jobs : InWindow(pc'[p], call'[p], msg'[p], k)
                              <=> InWindow(pc[p], call[p], msg[p], k)
    PROVE  DeliveryStep
<1> USE DEF QueueInv
<1> DEFINE j == msg[a].id
<1>1. j \in Jobs /\ j \in settled /\ status[j] # "new"
  BY TypeFacts DEF WithEntry, FinishedIsSettled, NewIsNowhere, Id
<1>2. \A k \in Jobs : k # j => Kept(p, k)
  BY DEF Kept, Single
<1> HIDE DEF j
<1>3. CASE j \notin Single \/ (Has(processing', j) <=> Has(processing, j))
  <2>1. Kept(p, j)
    BY <1>1, <1>3 DEF Kept, Single
  <2> QED
    BY <1>2, <2>1, Stutters
<1>4. CASE j \in Single /\ Has(processing, j) /\ ~ Has(processing', j)
  <2>1. \A k \in Jobs \ {j} : place'[k] = place[k]
    BY <1>2, Unmoved
  <2>2. ~ Has(jobQueue, j)
    BY <1>1, <1>4 DEF OneEntry, Waiting, Processing
  <2>3. ~ InWindow(pc[p], call[p], msg[p], j)
    BY <1>1, <1>4
       DEF OneEntry, Processing, Requeueing, InNackWindow, InWindow, Window, Id
  <2>4. j \in Single'
    BY <1>4 DEF Single
  <2>5. place[j] = "processing" /\ place'[j] = "gone"
    BY <1>1, <1>4, <2>2, <2>3, <2>4, PlaceOf
  <2>6. place' = [place EXCEPT ![j] = "gone"]
    BY <1>1, <2>1, <2>5, OneMoves
  <2> QED
    BY <1>1, <2>5, <2>6 DEF DeliveryStep, Delivery!Next, Delivery!Remove, Delivery!Move
<1> QED
  BY <1>3, <1>4

(* An acknowledging goroutine is in none of the steps of NackJob. *)
LEMMA AckSteps ==
    ASSUME TypeInv, PushIsNack, NEW a \in Agents, Removal(a), call[a] = "AckJob"
    PROVE  ~ Push(a) /\ UNCHANGED <<dropped, doubled>> /\ call'[a] = "AckJob"
<1>1. pc[a] \notin {"lpush", "lpushAgain"} /\ DOMAIN call = Agents
  BY DEF PushIsNack, TypeInv, TypeOK
<1> QED
  BY <1>1, PushFacts
     DEF Removal, Lrem, LremUnanswered, LremFails, Lrange, LremById, Hdel, Push,
         Lpush, LpushUnanswered, LpushFails, Resume, history, removal

LEMMA WorkerDelivery ==
    ASSUME NEW p \in Procs, Alone(p), Alone(p)', TypeInv, QueueInv, [Next]_vars, NEW w \in Workers, Worker(w)
    PROVE  DeliveryStep
<1> USE AgentFacts DEF QueueInv
<1> USE DEF redis, backend, pass, removal, world, history, Id
<1>0. /\ pc'[p] = pc[p] /\ msg'[p] = msg[p] /\ call'[p] = call[p]
      /\ w \in Agents /\ DOMAIN status = Jobs /\ NoId \notin Jobs /\ Single \subseteq Jobs
  BY WorkerFrame, JobsAssumption DEF TypeInv, TypeOK, Single
<1>1. CASE Pop(w)
  <2>1. PICK r \in Raw :
             /\ Has(jobQueue, r.id)
             /\ r.id \in Single => ~ Has(jobQueue', r.id) /\ ~ Has(processing, r.id)
             /\ \A j : Has(jobQueue, j) <=> Has(jobQueue', j) \/ j = r.id
             /\ \A j : Has(processing', j) <=> Has(processing, j) \/ j = r.id
    BY <1>1, PopLists
  <2>2. UNCHANGED <<status, settled, dropped>> /\ Single' = Single
    BY <1>1 DEF Pop, Single
  <2>3. CASE r.id \notin Single
    BY <1>0, <2>1, <2>2, <2>3, Stutters DEF Kept
  <2>4. CASE r.id \in Single
    <3>1. \A k \in Jobs \ {r.id} : place'[k] = place[k]
      BY <1>0, <2>1, <2>2, Unmoved DEF Kept
    <3>2. place[r.id] = "waiting" /\ place'[r.id] = "processing"
      BY <1>0, <2>1, <2>2, <2>4, PlaceOf
    <3>3. place' = [place EXCEPT ![r.id] = "processing"]
      BY <1>0, <2>4, <3>1, <3>2, OneMoves
    <3> QED
      BY <1>0, <2>2, <2>4, <3>2, <3>3
         DEF DeliveryStep, Delivery!Next, Delivery!Fetch, Delivery!Move
  <2> QED
    BY <2>3, <2>4
<1>2. CASE DropJunk(w)
  <2>1. \A k \in Single : Has(processing', k) <=> Has(processing, k)
    BY <1>0, <1>2, JunkLists
  <2>2. UNCHANGED <<jobQueue, status, settled, dropped>> /\ Single' = Single
    BY <1>2 DEF DropJunk, Single
  <2> QED
    BY <1>0, <2>1, <2>2, Stutters DEF Kept
<1>3. CASE Stamp(w) \/ ResultLost(w) \/ WorkerStops(w)
  BY <1>0, <1>3, LocalStutters DEF Stamp, ResultLost, WorkerStops
<1>4. CASE ReportRunning(w) \/ ReportResult(w) \/ Return(w)
  <2>1. /\ UNCHANGED <<jobQueue, processing, dropped>> /\ Single' = Single
        /\ UNCHANGED settled \/ settled' = settled \cup {msg[w].id}
    BY <1>4 DEF ReportRunning, ReportResult, Return, Single
  <2>2. msg[w].id \in Jobs /\ status[msg[w].id] # "new"
    BY <1>0, <1>4, TypeFacts DEF ReportRunning, ReportResult, Return, WithEntry, NewIsNowhere
  <2>3. \A k \in Jobs : status'[k] = "new" <=> status[k] = "new"
    <3>1. \A k \in Jobs : k # msg[w].id => status'[k] = status[k]
      BY <1>0, <1>4 DEF ReportRunning, ReportResult, Return, Put
    <3> QED
      BY <2>2, <3>1, StatusNext
  <2>4. place' = place
    BY <1>0, <2>1, <2>3, Unmoved, NoneMoves DEF Kept
  <2>5. place[msg[w].id] # "unborn"
    BY <2>2, PlaceOf
  <2> QED
    BY <2>1, <2>2, <2>4, <2>5 DEF DeliveryStep, Delivery!Next, Delivery!Settle
<1>5. CASE Removal(w)
  <2>1. call[w] = "AckJob"
    BY DEF TypeInv, OwnCode
  <2>2. ~ Push(w) /\ UNCHANGED <<dropped, doubled>>
    BY <1>0, <1>5, <2>1, AckSteps
  <2>3. pc[w] \in InRemoval /\ UNCHANGED <<status, settled>>
    BY <1>5, RemovalFacts
  <2>4. /\ UNCHANGED jobQueue
        /\ \A k : Has(processing', k) => Has(processing, k)
        /\ \A k : Has(processing, k) /\ k # msg[w].id => Has(processing', k)
    BY <1>0, <1>5, <2>2, RemovalLists
  <2> QED
    BY <1>0, <2>1, <2>2, <2>3, <2>4, AckDelivery
<1>6. CASE Resend(w)
  <2>1. /\ call[w] = "AckJob"
        /\ UNCHANGED <<status, settled, dropped, doubled>>
    BY <1>6 DEF TypeInv, OwnCode, Resend
  <2>2. /\ UNCHANGED jobQueue
        /\ \A k : Has(processing', k) => Has(processing, k)
        /\ \A k \in Single : Has(processing, k) /\ (pc[w] = "lremById" => k # msg[w].id)
                                => Has(processing', k)
    BY <1>0, <1>6, ResendLists
  <2>3. CASE pc[w] = "lremById"
    BY <1>0, <2>1, <2>2, <2>3, AckDelivery DEF InRemoval
  <2>4. CASE pc[w] # "lremById"
    BY <1>0, <2>1, <2>2, <2>4, Stutters DEF Kept, Single
  <2> QED
    BY <2>3, <2>4
<1> QED
  BY <1>1, <1>2, <1>3, <1>4, <1>5, <1>6 DEF Worker

--------------------------------------------------------------------------------
(* The recovery. *)

(* NackJob(j) leaves every job but j where it is. *)
LEMMA NackOthers ==
    ASSUME NEW p \in Procs, Alone(p), Alone(p)', TypeInv, QueueInv, [Next]_vars, Removal(p)
    PROVE  \A k \in Jobs \ {msg[p].id} : place'[k] = place[k]
<1> USE AgentFacts DEF QueueInv
<1>0. /\ p \in Agents /\ UNCHANGED status
      /\ DOMAIN pc = Agents
  BY RemovalFacts DEF TypeInv, TypeOK
<1>1. msg' = msg \/ pc'[p] = "scan"
  BY <1>0 DEF Removal, Lrem, LremUnanswered, LremFails, Lrange, LremById, Hdel,
              Lpush, LpushUnanswered, LpushFails, Resume, Goto
<1>2. doubled' = doubled \/ doubled' = doubled \cup {msg[p].id}
  BY DEF Removal, Lrem, LremUnanswered, LremFails, Lrange, LremById, Hdel, Lpush,
         LpushUnanswered, LpushFails, Pushes, history, Id
<1>3. \A k \in Jobs : k # msg[p].id =>
        /\ Has(jobQueue', k) <=> Has(jobQueue, k)
        /\ Has(processing', k) <=> Has(processing, k)
  <2>1. CASE Push(p)
    BY <2>1, PushLists
  <2>2. CASE ~ Push(p)
    BY <1>0, <2>2, RemovalLists
  <2> QED
    BY <2>1, <2>2
<1>4. \A k \in Jobs : k # msg[p].id => Kept(p, k)
  BY <1>0, <1>1, <1>2, <1>3 DEF Kept, InWindow, Window, Single
<1> QED
  BY <1>4, Unmoved

(* A requeueing that is given up with the entry withdrawn loses the job. *)
LEMMA DropDelivery ==
    ASSUME NEW p \in Procs, Alone(p), Alone(p)', TypeInv, QueueInv, [Next]_vars,
           pc[p] \in Window, call[p] = "NackJob", pc'[p] \notin Window,
           UNCHANGED <<jobQueue, processing, status, settled, doubled>>,
           dropped' = dropped \cup {msg[p].id}
    PROVE  DeliveryStep
<1> USE AgentFacts DEF QueueInv
<1> DEFINE j == msg[p].id
<1>1. j \in Jobs /\ status[j] # "new"
  BY TypeFacts DEF Window, WithEntry, InRemoval, NewIsNowhere, Id
<1>2. \A k \in Jobs : k # j => place'[k] = place[k]
  BY Unmoved DEF Kept, InWindow, Single
<1>3. CASE j \in Single
  <2>1. ~ Has(jobQueue, j)
    BY <1>3 DEF Window, Snapshot, BeforePush, InPass, InRemoval, Current, Waiting
  <2>2. ~ Has(processing, j)
    BY <1>3 DEF Window, Withdrawn, Processing, Id
  <2>3. place[j] = "requeueing" /\ place'[j] = "gone"
    BY <1>1, <1>3, <2>1, <2>2, PlaceOf DEF InWindow, Single
  <2>4. place' = [place EXCEPT ![j] = "gone"]
    BY <1>1, <1>2, <2>3, OneMoves
  <2> QED
    BY <1>1, <2>3, <2>4 DEF DeliveryStep, Delivery!Next, Delivery!Drop, Delivery!Move
<1>4. CASE j \notin Single
  <2>1. place[j] = "several" /\ place' = place
    <3>1. place[j] = "several" /\ place'[j] = "several"
      BY <1>1, <1>4, PlaceOf DEF Single
    <3> QED
      BY <1>2, <3>1, NoneMoves
  <2> QED
    BY <1>1, <2>1 DEF DeliveryStep, Delivery!Next, Delivery!Drop
<1> QED
  BY <1>3, <1>4

(* NackJob withdraws its entry, or, when the job was settled and removed   *)
(* after the pass had read the list, finds none.                           *)
LEMMA WithdrawDelivery ==
    ASSUME NEW p \in Procs, Alone(p), Alone(p)', TypeInv, QueueInv, [Next]_vars,
           Lrem(p) \/ LremUnanswered(p), call[p] = "NackJob", msg[p].id \in Single
    PROVE  DeliveryStep
<1> USE AgentFacts DEF QueueInv
<1> DEFINE j == msg[p].id
<1>0. /\ pc[p] \in {"lrem", "lremAgain"} /\ pc'[p] \in {"lremAgain", "lrange", "hdel"}
      /\ UNCHANGED <<jobQueue, status, settled, dropped, doubled, msg, call>>
      /\ processing' = RemoveFirst(processing, msg[p])
      /\ msg[p] \in Raw /\ processing \in Seq(Raw)
  BY TypeFacts DEF Lrem, LremUnanswered, Goto, TypeInv, TypeOK, backend, history, removal
<1>1. j \in Jobs /\ status[j] # "new"
  BY <1>0, TypeFacts DEF WithEntry, InRemoval, NewIsNowhere, Id
<1>2. ~ Has(jobQueue, j) /\ Same(processing, msg[p])
  BY <1>0 DEF Snapshot, BeforePush, InPass, InRemoval, Current, Waiting
<1>3. pc[p] = "lremAgain" => ~ Has(processing, j)
  BY DEF Withdrawn, Processing, Id
<1>4. ~ Has(processing', j)
  <2>1. CASE Contains(processing, msg[p])
    BY <1>0, <2>1, RemoveEntry DEF OneEntry
  <2>2. CASE ~ Contains(processing, msg[p])
    BY <1>0, <1>2, <2>2, SameKept, RemoveEntry
  <2> QED
    BY <2>1, <2>2
<1>5. \A k \in Jobs \ {j} : place'[k] = place[k]
  BY NackOthers DEF Removal
<1>6. place'[j] = "requeueing"
  BY <1>0, <1>1, <1>2, <1>4, PlaceOf DEF InWindow, Window, Single
<1>7. place' = [place EXCEPT ![j] = "requeueing"]
  BY <1>1, <1>5, <1>6, OneMoves
<1>8. CASE pc[p] = "lremAgain"
  <2>1. place[j] = "requeueing"
    BY <1>1, <1>2, <1>3, <1>8, PlaceOf DEF InWindow, Window
  <2> QED
    BY <1>0, <1>5, <1>6, <2>1, NoneMoves DEF DeliveryStep
<1>9. CASE pc[p] = "lrem" /\ Has(processing, j)
  <2>1. place[j] = "processing"
    BY <1>1, <1>2, <1>9, PlaceOf
  <2> QED
    BY <1>0, <1>1, <1>7, <2>1 DEF DeliveryStep, Delivery!Next, Delivery!Withdraw, Delivery!Move
<1>10. CASE pc[p] = "lrem" /\ ~ Has(processing, j)
  <2>1. place[j] = "gone"
    BY <1>1, <1>2, <1>10, PlaceOf DEF InWindow, Window
  <2>2. j \in settled
    <3>1. ~ Requeueing(j)
      BY <1>10 DEF Requeueing, InNackWindow, Alone, Idle
    <3>2. j \notin dropped
      BY <1>10 DEF DroppedIsGone, InPass, InRemoval, Id
    <3> QED
      BY <1>1, <1>2, <1>10, <3>1, <3>2 DEF NoSilentLoss, Waiting, Processing
  <2> QED
    BY <1>0, <1>1, <1>7, <2>1, <2>2
       DEF DeliveryStep, Delivery!Next, Delivery!Withdraw, Delivery!Move
<1> QED
  BY <1>0, <1>8, <1>9, <1>10

(* NackJob pushes its entry, once or more. *)
LEMMA PushDelivery ==
    ASSUME NEW p \in Procs, Alone(p), Alone(p)', TypeInv, QueueInv, [Next]_vars, Push(p)
    PROVE  DeliveryStep
<1> USE AgentFacts DEF QueueInv
<1> DEFINE j == msg[p].id
<1>0. /\ pc[p] \in {"lpush", "lpushAgain"} /\ call[p] = "NackJob" /\ j \in Jobs
      /\ UNCHANGED <<processing, status, settled, dropped>>
      /\ Has(jobQueue', j)
      /\ doubled' = IF pc[p] = "lpushAgain" THEN doubled \cup {j} ELSE doubled
  BY PushFacts, PushLists DEF Pushes, PushIsNack, Id
<1>1. status[j] # "new"
  BY <1>0 DEF NewIsNowhere, Id
<1>2. \A k \in Jobs \ {j} : place'[k] = place[k]
  BY NackOthers DEF Removal, Push
<1>3. CASE j \notin Single
  <2>1. place'[j] = place[j]
    BY <1>0, <1>3, Unmoved DEF Kept
  <2> QED
    BY <1>0, <1>2, <2>1, NoneMoves DEF DeliveryStep
<1>4. CASE j \in Single /\ pc[p] = "lpush"
  <2>1. ~ Has(jobQueue, j) /\ ~ Has(processing, j)
    BY <1>0, <1>4 DEF Snapshot, BeforePush, InPass, InRemoval, Current, Waiting,
                      Withdrawn, Processing, Id
  <2>2. place[j] = "requeueing"
    BY <1>0, <1>4, <2>1, PlaceOf DEF InWindow, Window
  <2>3. place'[j] = "waiting"
    BY <1>0, <1>4, PlaceOf DEF Single
  <2>4. place' = [place EXCEPT ![j] = "waiting"]
    BY <1>0, <1>2, <2>3, OneMoves
  <2> QED
    BY <1>0, <2>2, <2>4 DEF DeliveryStep, Delivery!Next, Delivery!Requeue, Delivery!Move
<1>5. CASE j \in Single /\ pc[p] = "lpushAgain"
  <2>1. ~ InWindow(pc[p], call[p], msg[p], j) /\ ~ Requeueing(j)
    BY <1>5 DEF InWindow, Window, Requeueing, InNackWindow, Alone, Idle
  <2>2. \/ place[j] \in {"waiting", "processing"}
        \/ place[j] = "gone" /\ ~ Has(jobQueue, j) /\ ~ Has(processing, j)
    BY <1>0, <1>1, <1>5, <2>1, PlaceOf
  <2>3. j \notin dropped
    BY <1>5 DEF DroppedIsGone, InPass, InRemoval, Id
  <2>4. place[j] = "gone" => j \in settled
    BY <1>1, <1>5, <2>1, <2>2, <2>3 DEF NoSilentLoss, Waiting, Processing
  <2>5. place'[j] = "several"
    BY <1>0, <1>5, PlaceOf DEF Single
  <2>6. place' = [place EXCEPT ![j] = "several"]
    BY <1>0, <1>2, <2>5, OneMoves
  <2> QED
    BY <1>0, <2>2, <2>4, <2>6 DEF DeliveryStep, Delivery!Next, Delivery!Repeat, Delivery!Move
<1> QED
  BY <1>0, <1>3, <1>4, <1>5

LEMMA NackDelivery ==
    ASSUME NEW p \in Procs, Alone(p), Alone(p)', TypeInv, QueueInv, [Next]_vars, Removal(p), call[p] = "NackJob"
    PROVE  DeliveryStep
<1> USE AgentFacts DEF QueueInv
<1> USE DEF redis, backend, removal, history, Id, Goto
<1>0. /\ p \in Agents /\ DOMAIN pc = Agents
      /\ pc[p] \in InRemoval /\ UNCHANGED <<status, settled>>
      /\ msg[p].id \in Jobs
  BY RemovalFacts, TypeFacts DEF TypeInv, TypeOK, WithEntry
<1>1. \A k \in Jobs \ {msg[p].id} : place'[k] = place[k]
  BY NackOthers
<1>2. ASSUME UNCHANGED dropped, msg[p].id \notin Single PROVE DeliveryStep
  <2>1. place'[msg[p].id] = place[msg[p].id]
    BY <1>0, <1>2, Unmoved DEF Kept
  <2> QED
    BY <1>0, <1>1, <1>2, <2>1, NoneMoves DEF DeliveryStep
<1>3. CASE Lrem(p) \/ LremUnanswered(p)
  <2>1. UNCHANGED dropped
    BY <1>3 DEF Lrem, LremUnanswered
  <2> QED
    BY <1>2, <1>3, <2>1, WithdrawDelivery
<1>4. CASE LremFails(p) \/ LpushFails(p)
  <2>1. /\ UNCHANGED <<jobQueue, processing, doubled>> /\ pc'[p] = "scan"
        /\ \/ pc[p] \in {"lrem", "lpushAgain"} /\ UNCHANGED dropped
           \/ pc[p] \in {"lremAgain", "lpush"} /\ dropped' = dropped \cup {msg[p].id}
    BY <1>0, <1>4 DEF LremFails, LpushFails, Resume, Dropped
  <2>2. CASE UNCHANGED dropped /\ pc[p] \in {"lrem", "lpushAgain"}
    BY <1>0, <2>1, <2>2, LocalStutters DEF Window
  <2>3. CASE pc[p] \in {"lremAgain", "lpush"} /\ dropped' = dropped \cup {msg[p].id}
    BY <1>0, <2>1, <2>3, DropDelivery DEF Window
  <2> QED
    BY <2>1, <2>2, <2>3
<1>5. CASE Lrange(p) \/ Hdel(p)
  <2>1. /\ UNCHANGED <<jobQueue, processing, dropped, doubled, msg, call>>
        /\ pc[p] \in Window /\ pc'[p] \in Window
    BY <1>0, <1>5 DEF Lrange, Hdel, Window
  <2> QED
    BY <1>0, <2>1, Stutters DEF Kept, InWindow, Single
<1>6. CASE LremById(p)
  <2>1. msg[p].id \notin Single /\ UNCHANGED dropped
    BY <1>6 DEF LremById, Withdrawn
  <2> QED
    BY <1>2, <2>1
<1>7. CASE Push(p)
  BY <1>7, PushDelivery
<1> QED
  BY <1>3, <1>4, <1>5, <1>6, <1>7 DEF Removal, Push

LEMMA RecoveryDelivery ==
    ASSUME NEW p \in Procs, Alone(p), Alone(p)', TypeInv, QueueInv, [Next]_vars, Recovery(p)
    PROVE  DeliveryStep
<1> USE AgentFacts DEF QueueInv
<1> USE DEF redis, backend, pass, removal, world, history, Id, Goto, Take
<1>0. /\ p \in Procs /\ p \in Agents /\ NoId \notin Jobs
      /\ DOMAIN pc = Agents /\ DOMAIN msg = Agents /\ DOMAIN call = Agents
      /\ call[p] \in {"AckJob", "NackJob"}
  BY JobsAssumption DEF TypeInv, TypeOK
<1>1. CASE Removal(p) /\ call[p] = "AckJob"
  <2>1. ~ Push(p) /\ UNCHANGED <<dropped, doubled>> /\ call'[p] = "AckJob"
    BY <1>0, <1>1, AckSteps
  <2>2. pc[p] \in InRemoval /\ UNCHANGED <<status, settled>>
    BY <1>1, RemovalFacts
  <2>3. /\ UNCHANGED jobQueue
        /\ \A k : Has(processing', k) => Has(processing, k)
        /\ \A k : Has(processing, k) /\ k # msg[p].id => Has(processing', k)
    BY <1>0, <1>1, <2>1, RemovalLists
  <2>4. \A k \in Jobs : InWindow(pc'[p], call'[p], msg'[p], k)
                           <=> InWindow(pc[p], call[p], msg[p], k)
    BY <1>1, <2>1 DEF InWindow
  <2> QED
    BY <1>0, <1>1, <2>1, <2>2, <2>3, <2>4, AckDelivery
<1>2. CASE Removal(p) /\ call[p] = "NackJob"
  BY <1>2, NackDelivery
<1>3. CASE RecoverStart(p) \/ ScanDone(p) \/ ScanLook(p) \/ QueryFails(p) \/ RecoveryStops(p)
  BY <1>0, <1>3, LocalStutters
     DEF RecoverStart, ScanDone, ScanLook, Visit, QueryFails, RecoveryStops, Window
<1>4. CASE Restamp(p) \/ Query(p)
  BY <1>0, <1>4, LocalStutters DEF Restamp, Query, Window
<1>5. CASE ScanDiscard(p)
  <2>1. \A k \in Single : Has(processing', k) <=> Has(processing, k)
    BY <1>0, <1>5, JunkLists
  <2>2. UNCHANGED <<jobQueue, status, settled, dropped, pc, call, msg>> /\ Single' = Single
    BY <1>5 DEF ScanDiscard, Single
  <2> QED
    BY <2>1, <2>2, Stutters DEF Kept
<1>6. CASE Resend(p)
  <2>1. UNCHANGED <<jobQueue, status, settled, dropped, pc, call, msg>> /\ Single' = Single
    BY <1>6 DEF Resend, Single
  <2>2. \A k \in Single : Has(processing', k) <=> Has(processing, k)
    BY <1>0, <1>6, ResendLists DEF Withdrawn
  <2> QED
    BY <2>1, <2>2, Stutters DEF Kept
<1> QED
  BY <1>0, <1>1, <1>2, <1>3, <1>4, <1>5, <1>6 DEF Recovery

LEMMA ProcessDelivery ==
    ASSUME NEW p \in Procs, Alone(p), Alone(p)', TypeInv, QueueInv, [Next]_vars, Process(p)
    PROVE  DeliveryStep
<1> USE AgentFacts DEF QueueInv
<1> USE DEF redis, backend, pass, removal, world, history, Id, Goto
<1>0. p \in Procs /\ p \in Agents
  OBVIOUS
<1>1. CASE Cancel(p) \/ Exit(p)
  BY <1>1, LocalStutters DEF Cancel, Exit
<1>2. CASE Restart(p)
  <2>1. pc[p] = "off" /\ pc'[p] = "ticker"
    BY <1>0, <1>2 DEF Restart, DownIsOff
  <2> QED
    BY <1>2, <2>1, LocalStutters DEF Restart, Window
<1>3. CASE Crash(p)
  <2>1. UNCHANGED <<jobQueue, processing, status, settled, doubled>> /\ pc'[p] = "off"
    BY <1>0, <1>3 DEF Crash
  <2>2. CASE InNackWindow(p)
    BY <1>3, <2>1, <2>2, DropDelivery DEF Crash, InNackWindow, Dropped, Window
  <2>3. CASE ~ InNackWindow(p)
    BY <1>0, <1>3, <2>1, <2>3, LocalStutters DEF Crash, InNackWindow, Window
  <2> QED
    BY <2>2, <2>3
<1> QED
  BY <1>1, <1>2, <1>3 DEF Process

--------------------------------------------------------------------------------
LEMMA DeliveryInit == Init => Delivery!Init
<1> SUFFICES ASSUME Init PROVE Delivery!Init
  OBVIOUS
<1>1. \A j \in Jobs : ~ Waiting(j) /\ ~ Processing(j)
  BY QueueInit DEF Init, QueueInv, NewIsNowhere
<1>2. \A j \in Jobs : ~ Requeueing(j)
  BY AgentFacts DEF Init, Requeueing, InNackWindow
<1> QED
  BY <1>1, <1>2 DEF Init, Delivery!Init, place

LEMMA DeliveryNext ==
    ASSUME NEW p \in Procs, Alone(p), Alone(p)', TypeInv, QueueInv, [Next]_vars
    PROVE  DeliveryStep
<1>1. CASE Tick \/ UNCHANGED vars
  BY <1>1, LocalStutters DEF Tick, vars, redis, backend, removal, history
<1>2. ASSUME NEW q \in Procs \ {p}, Recovery(q) \/ Process(q) PROVE DeliveryStep
  <2>1. UNCHANGED <<jobQueue, processing, status, settled, dropped, doubled>>
    BY <1>2, OthersStep
  <2>2. pc'[p] = pc[p] /\ msg'[p] = msg[p] /\ call'[p] = call[p]
    BY <1>2, ProcessFrame
  <2> QED
    BY <2>1, <2>2, LocalStutters
<1> QED
  BY <1>1, <1>2, BackendDelivery, WorkerDelivery, RecoveryDelivery, ProcessDelivery DEF Next

(* As long as recoveries do not overlap, the queue implements JobDelivery, *)
(* for any number of worker processes: a job has one place at a time, it   *)
(* leaves Redis for good only once it is settled, it goes back to the jobs *)
(* list only through a requeueing, and it is lost only by a requeueing     *)
(* that is cut short.  An LPUSH that go-redis sends again takes its job    *)
(* out of this promise: it may have several entries from then on.          *)
THEOREM OnePassDelivers == OnePassSpec => Delivered
<1>1. OnePass /\ TypeInv /\ QueueInv /\ [Next /\ OnePass']_vars
        => [Delivery!Next]_<<place, settled, dropped>>
  <2> SUFFICES ASSUME OnePass, TypeInv, QueueInv, [Next /\ OnePass']_vars PROVE DeliveryStep
    BY DEF DeliveryStep
  <2>1. PICK p \in Procs : Alone(p) /\ Alone(p)'
    BY SomebodyAlone
  <2> QED
    BY <2>1, DeliveryNext
<1>2. Init => OnePass
  BY AgentFacts DEF Init, OnePass, Idle
<1>3. OnePass /\ [Next /\ OnePass']_vars => OnePass'
  BY DEF OnePass, Idle, vars
<1> QED
  BY OnePassQueueInvariant, DeliveryInit, <1>1, <1>2, <1>3, PTL
     DEF OnePassSpec, Delivered, Delivery!Spec

(* With one worker process it does so in all behaviours. *)
THEOREM OneProcessDelivers == ASSUME NEW p, Procs = {p} PROVE Spec => Delivered
BY OneProcess, OnePassDelivers, PTL
================================================================================
