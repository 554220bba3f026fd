----------------------------- MODULE OnePass_proofs -----------------------------
(***************************************************************************)
(* What ReliableQueue guarantees while no two recoveries run at once: no   *)
(* job is lost silently, and no job has two entries, but for the jobs whose*)
(* LPUSH was sent again, for any number of processes, jobs, workers,       *)
(* failing commands, crashes and ticks.  With one worker process no two    *)
(* recoveries ever run at once.                                            *)
(***************************************************************************)
EXTENDS ReliableQueue_proofs

--------------------------------------------------------------------------------
(* What the actions do to the lists. *)

(* NackJob pushes the entry back. *)
Push(a) == Lpush(a) \/ LpushUnanswered(a)

LEMMA PushFacts ==
    ASSUME NEW a, Push(a)
    PROVE  /\ Pushes(a) /\ pc[a] \in {"lpush", "lpushAgain"}
           /\ UNCHANGED <<processing, status, settled, rest, seen, lag, ctx, downs, dropped>>
BY DEF Push, Lpush, LpushUnanswered, Pushes, backend, pass, world

LEMMA SameKept ==
    /\ \A l \in Seq(Raw), r \in Raw, s \in Raw :
          Same(l, s) => Same(RemoveFirst(l, r), s)
    /\ \A l \in Seq(Raw), r \in Raw, s \in Raw :
          Same(l, s) /\ s.id # r.id => Same(Cons(r, l), s)
    /\ \A l \in Seq(Raw), s \in Raw :
          Same(l, s) /\ ~ Contains(l, s) => ~ Has(l, s.id)
    /\ \A l \in Seq(Raw) : \A i \in DOMAIN l :
          Distinct(l) /\ l[i].id \in Single => Same(l, l[i])
<1>1. ASSUME NEW l \in Seq(Raw), NEW r \in Raw, NEW s \in Raw, Same(l, s)
      PROVE  Same(RemoveFirst(l, r), s)
  <2>1. \A i \in DOMAIN RemoveFirst(l, r) : \E k \in DOMAIN l : RemoveFirst(l, r)[i] = l[k]
    BY RemoveEntry
  <2> QED
    BY <1>1, <2>1 DEF Same
<1>2. ASSUME NEW l \in Seq(Raw), NEW r \in Raw, NEW s \in Raw, Same(l, s), s.id # r.id
      PROVE  Same(Cons(r, l), s)
  <2>1. \A i \in DOMAIN Cons(r, l) :
           Cons(r, l)[i] = r \/ \E k \in DOMAIN l : Cons(r, l)[i] = l[k]
    BY PushEntry
  <2> QED
    BY <1>2, <2>1 DEF Same
<1>3. ASSUME NEW l \in Seq(Raw), NEW s \in Raw, Same(l, s), ~ Contains(l, s)
      PROVE  ~ Has(l, s.id)
  <2>1. DOMAIN l = 1..Len(l)
    OBVIOUS
  <2> QED
    BY <1>3, <2>1 DEF Same, Contains, Has
<1>4. ASSUME NEW l \in Seq(Raw), NEW i \in DOMAIN l, Distinct(l), l[i].id \in Single
      PROVE  Same(l, l[i])
  <2>1. \A k \in DOMAIN l : l[k].id = l[i].id => k = i
    BY <1>4 DEF Distinct
  <2> QED
    BY <2>1 DEF Same
<1> QED
  BY <1>1, <1>2, <1>3, <1>4

LEMMA SubmitLists ==
    ASSUME TypeInv, NewIsNowhere, OneEntry, NEW j \in Jobs, Submit(j)
    PROVE  /\ ~ Has(jobQueue, j) /\ ~ Has(processing, j)
           /\ \A k : Has(jobQueue', k) <=> Has(jobQueue, k) \/ k = j
           /\ Distinct(jobQueue')
           /\ UNCHANGED processing
<1> DEFINE r == [id |-> j, form |-> "backend"]
<1>1. r \in Raw /\ r.id = j
  BY DEF Raw, Forms
<1>2. ~ Has(jobQueue, j) /\ ~ Has(processing, j)
  BY DEF NewIsNowhere, Submit, Waiting, Processing
<1>3. jobQueue' = Append(jobQueue, r) /\ UNCHANGED processing
  BY DEF Submit
<1> HIDE DEF r
<1> QED
  BY <1>1, <1>2, <1>3, AppendEntry, TypeFacts DEF OneEntry

LEMMA PopLists ==
    ASSUME TypeInv, OneEntry, NEW w \in Workers, Pop(w)
    PROVE  \E r \in Raw :
             /\ Has(jobQueue, r.id)
             /\ r.id \in Single => ~ Has(jobQueue', r.id) /\ ~ Has(processing, r.id)
             /\ \A j : Has(jobQueue, j) <=> Has(jobQueue', j) \/ j = r.id
             /\ \A j : Has(processing', j) <=> Has(processing, j) \/ j = r.id
             /\ Distinct(jobQueue') /\ Distinct(processing')
             /\ \A s \in Raw : Same(processing, s) /\ s.id # r.id => Same(processing', s)
             /\ msg' = msg \/ msg' = [msg EXCEPT ![w] = r]
<1> DEFINE r == Last(jobQueue)
<1>1. /\ jobQueue # <<>> /\ jobQueue' = Front(jobQueue)
      /\ processing' = Cons(r, processing)
      /\ msg' = msg \/ msg' = [msg EXCEPT ![w] = r]
  BY DEF Pop, Take
<1>2. /\ r \in Raw /\ Has(jobQueue, r.id)
      /\ \A j : Has(jobQueue, j) <=> Has(jobQueue', j) \/ j = r.id
      /\ Distinct(jobQueue')
      /\ r.id \in Single => ~ Has(jobQueue', r.id)
  BY <1>1, PopEntry, TypeFacts DEF OneEntry
<1> HIDE DEF r
<1>3. r.id \in Jobs \cup {NoId}
  BY <1>2 DEF Raw
<1>4. r.id \in Single => ~ Has(processing, r.id)
  BY <1>2, <1>3 DEF OneEntry, Waiting, Processing
<1>5. /\ \A j : Has(processing', j) <=> Has(processing, j) \/ j = r.id
      /\ Distinct(processing')
  BY <1>1, <1>2, <1>4, PushEntry, TypeFacts DEF OneEntry
<1>6. \A s \in Raw : Same(processing, s) /\ s.id # r.id => Same(processing', s)
  BY <1>1, <1>2, SameKept, TypeFacts
<1> QED
  BY <1>1, <1>2, <1>4, <1>5, <1>6

LEMMA ShrinkLists ==
    ASSUME TypeInv, OneEntry, NEW r \in Raw,
           processing' = processing \/ processing' = RemoveFirst(processing, r)
    PROVE  /\ \A j : Has(processing', j) => Has(processing, j)
           /\ \A j : Has(processing, j) /\ j # r.id => Has(processing', j)
           /\ Distinct(processing')
           /\ \A s \in Raw : Same(processing, s) => Same(processing', s)
BY RemoveEntry, SameKept, TypeFacts DEF OneEntry

LEMMA RemovalFacts ==
    ASSUME NEW a, Removal(a)
    PROVE  /\ pc[a] \in InRemoval
           /\ UNCHANGED <<status, settled>> /\ dropped \subseteq dropped'
<1> USE DEF InRemoval, backend, history, Dropped
<1>1. CASE Lrem(a) \/ LremUnanswered(a) \/ Lrange(a) \/ LremById(a) \/ Hdel(a)
  BY <1>1 DEF Lrem, LremUnanswered, Lrange, LremById, Hdel
<1>2. CASE LremFails(a) \/ LpushFails(a)
  BY <1>2 DEF LremFails, LpushFails
<1>3. CASE Push(a)
  BY <1>3, PushFacts
<1> QED
  BY <1>1, <1>2, <1>3 DEF Removal, Push

(* A goroutine in AckJob or NackJob removes entries of its own job only.   *)
LEMMA RemovalLists ==
    ASSUME TypeInv, OneEntry, NEW a \in Agents, Removal(a), ~ Push(a)
    PROVE  /\ UNCHANGED jobQueue
           /\ \A j : Has(processing', j) => Has(processing, j)
           /\ \A j : Has(processing, j) /\ j # msg[a].id => Has(processing', j)
           /\ Distinct(processing')
           /\ \A s \in Raw : Same(processing, s) => Same(processing', s)
<1>1. /\ UNCHANGED jobQueue
      /\ \E r \in Raw : /\ r.id = msg[a].id
                        /\ processing' = processing \/ processing' = RemoveFirst(processing, r)
  <2>1. CASE Lrem(a) \/ LremUnanswered(a)
    BY <2>1, TypeFacts DEF Lrem, LremUnanswered
  <2>2. CASE LremFails(a) \/ LpushFails(a)
    BY <2>2, TypeFacts DEF LremFails, LpushFails, redis
  <2>3. CASE LremById(a)
    <3>1. Head(found[a]) \in Raw /\ Head(found[a]).id = msg[a].id
      BY <2>3, TailEntry, TypeFacts DEF LremById, TypeInv, FoundIsOwn, Id
    <3> QED
      BY <2>3, <3>1 DEF LremById, LremError
  <2>4. CASE Lrange(a)
    BY <2>4, TypeFacts DEF Lrange, redis
  <2>5. CASE Hdel(a)
    BY <2>5, TypeFacts DEF Hdel
  <2> QED
    BY <2>1, <2>2, <2>3, <2>4, <2>5 DEF Removal, Push
<1> QED
  BY <1>1, ShrinkLists

(* A command that is sent again removes no entry of a single job, but for  *)
(* removeByExecutionID, which removes one of its own. *)
LEMMA ResendLists ==
    ASSUME TypeInv, OneEntry, Snapshot, NEW a \in Agents, Resend(a)
    PROVE  /\ UNCHANGED jobQueue
           /\ \A j : Has(processing', j) => Has(processing, j)
           /\ \A j \in Single : Has(processing, j) /\ (pc[a] = "lremById" => j # msg[a].id)
                                     => Has(processing', j)
           /\ Distinct(processing')
           /\ \A s \in Raw : Same(processing, s) => Same(processing', s)
<1>1. UNCHANGED jobQueue
  BY DEF Resend
<1>2. \E r \in Raw : /\ r.id \in Single => pc[a] = "lremById" /\ r.id = msg[a].id
                     /\ processing' = processing \/ processing' = RemoveFirst(processing, r)
  <2>1. CASE pc[a] = "junk" /\ processing' = RemoveFirst(processing, msg[a])
    <3>1. msg[a].id = NoId
      BY <2>1, OwnFacts DEF TypeInv, OwnCode, Id
    <3> QED
      BY <2>1, <3>1, JobsAssumption, TypeFacts DEF Single
  <2>2. CASE pc[a] = "lremById" /\ processing' = RemoveFirst(processing, Head(found[a]))
    <3>1. Head(found[a]) \in Raw /\ Head(found[a]).id = msg[a].id
      BY <2>2, TailEntry, TypeFacts DEF TypeInv, FoundIsOwn, Id
    <3> QED
      BY <2>2, <3>1
  <2>3. CASE /\ pc[a] = "scan" /\ rest[a] # <<>> /\ Discards(a, Head(rest[a]))
             /\ processing' = RemoveFirst(processing, Head(rest[a]))
    <3>1. a \in Procs
      BY <2>3, OwnFacts
    <3>2. /\ Head(rest[a]) \in Raw
          /\ \E i \in DOMAIN rest[a] : Head(rest[a]) = rest[a][i]
      BY <2>3, <3>1, TailEntry, TypeFacts
    <3>3. Head(rest[a]).id \notin Single
      BY <2>3, <3>1, <3>2, JobsAssumption DEF Discards, Snapshot, Single
    <3> QED
      BY <2>3, <3>2, <3>3
  <2>4. CASE processing' = processing
    BY <2>4, JunkIsRaw, JobsAssumption DEF Single
  <2> QED
    BY <2>1, <2>2, <2>3, <2>4 DEF Resend
<1> QED
  BY <1>1, <1>2, ShrinkLists

LEMMA JunkLists ==
    ASSUME TypeInv, OneEntry, Snapshot, NEW a \in Agents,
           (a \in Workers /\ DropJunk(a)) \/ (a \in Procs /\ ScanDiscard(a))
    PROVE  /\ UNCHANGED jobQueue
           /\ \A j : Has(processing', j) => Has(processing, j)
           /\ \A j \in Single : Has(processing, j) => Has(processing', j)
           /\ Distinct(processing')
           /\ \A s \in Raw : Same(processing, s) => Same(processing', s)
<1>1. /\ UNCHANGED jobQueue
      /\ \E r \in Raw : /\ r.id \notin Single
                        /\ processing' = processing \/ processing' = RemoveFirst(processing, r)
  <2>1. CASE a \in Workers /\ DropJunk(a)
    <3>1. msg[a].id = NoId
      BY <2>1 DEF DropJunk, TypeInv, OwnCode, Id
    <3> QED
      BY <2>1, <3>1, TypeFacts, JobsAssumption DEF DropJunk, LremIgnoringError, Single
  <2>2. CASE a \in Procs /\ ScanDiscard(a)
    <3>1. /\ Head(rest[a]) \in Raw
          /\ \E i \in DOMAIN rest[a] : Head(rest[a]) = rest[a][i]
      BY <2>2, TailEntry, TypeFacts DEF ScanDiscard, Visit
    <3>2. Head(rest[a]).id \notin Single
      BY <2>2, <3>1, JobsAssumption DEF ScanDiscard, Discards, Snapshot, Single
    <3> QED
      BY <2>2, <3>1, <3>2 DEF ScanDiscard, LremIgnoringError
  <2> QED
    BY <2>1, <2>2
<1> QED
  BY <1>1, ShrinkLists

LEMMA PushLists ==
    ASSUME TypeInv, OneEntry, Snapshot, NEW p \in Procs, Push(p)
    PROVE  /\ UNCHANGED processing
           /\ msg[p].id \in Jobs
           /\ msg[p].id \in Single' => pc[p] = "lpush" /\ ~ Has(jobQueue, msg[p].id)
           /\ \A j : Has(jobQueue', j) <=> Has(jobQueue, j) \/ j = msg[p].id
           /\ \A i, k \in DOMAIN jobQueue' : jobQueue'[i].id = jobQueue'[k].id /\ i # k
                                                => jobQueue'[i].id \notin Single'
<1> DEFINE r == Requeued(Id(p))
<1>1. p \in Agents /\ pc[p] \in {"lpush", "lpushAgain"} /\ Pushes(p)
  BY AgentFacts, PushFacts
<1>2. msg[p].id \in Jobs
  BY <1>1, TypeFacts DEF WithEntry, InRemoval
<1>3. pc[p] = "lpush" /\ msg[p].id \in Single => ~ Has(jobQueue, msg[p].id)
  BY <1>1 DEF Snapshot, InPass, BeforePush, InRemoval, Current, Waiting
<1>4. r \in Raw /\ r.id = msg[p].id
  BY <1>2 DEF Requeued, Raw, Forms, Id
<1>5. jobQueue' = Cons(r, jobQueue) /\ UNCHANGED processing
  BY <1>1 DEF Pushes
<1>6. doubled' = IF pc[p] = "lpush" THEN doubled ELSE doubled \cup {msg[p].id}
  BY <1>1 DEF Pushes, Id
<1>7. /\ Single' = IF pc[p] = "lpush" THEN Single ELSE Single \ {msg[p].id}
      /\ jobQueue \in Seq(Raw)
  BY <1>6, TypeFacts DEF Single
<1> HIDE DEF r
<1>8. /\ \A j : Has(jobQueue', j) <=> Has(jobQueue, j) \/ j = r.id
      /\ r.id \notin Single \/ ~ Has(jobQueue, r.id) => Distinct(jobQueue')
      /\ \A i, k \in DOMAIN jobQueue' : jobQueue'[i].id = jobQueue'[k].id /\ i # k
                       => jobQueue'[i].id \notin Single \/ jobQueue'[i].id = r.id
  <2> DEFINE new == Cons(r, jobQueue)
  <2>1. /\ \A j : Has(new, j) <=> Has(jobQueue, j) \/ j = r.id
        /\ Distinct(jobQueue) /\ (r.id \notin Single \/ ~ Has(jobQueue, r.id)) => Distinct(new)
        /\ Distinct(jobQueue) => \A i, k \in DOMAIN new : new[i].id = new[k].id /\ i # k
                       => new[i].id \notin Single \/ new[i].id = r.id
    BY <1>4, <1>7, PushEntry
  <2>2. Distinct(jobQueue) /\ jobQueue' = new
    BY <1>5 DEF OneEntry
  <2> HIDE DEF new
  <2> QED
    BY <2>1, <2>2
<1>9. CASE pc[p] = "lpush"
  BY <1>2, <1>3, <1>4, <1>5, <1>7, <1>8, <1>9 DEF Distinct
<1>10. CASE pc[p] # "lpush"
  BY <1>2, <1>4, <1>5, <1>7, <1>8, <1>10
<1> QED
  BY <1>9, <1>10

--------------------------------------------------------------------------------
(* The conjuncts of QueueInv, one after the other. *)

LEMMA DownIsOffNext == TypeInv /\ DownIsOff /\ [Next]_vars => DownIsOff'
<1> SUFFICES ASSUME TypeInv, DownIsOff, [Next]_vars PROVE DownIsOff'
  OBVIOUS
<1> USE AgentFacts
<1> USE DEF DownIsOff, world, Goto
<1>0. DOMAIN pc = Agents /\ DOMAIN ctx = Procs
  BY DEF TypeInv, TypeOK
<1>1. ASSUME NEW j \in Jobs, Submit(j) \/ Delete(j) \/ LateUpdate(j) PROVE DownIsOff'
  BY <1>1 DEF Submit, Delete, LateUpdate, Put
<1>2. ASSUME NEW w \in Workers, Pop(w) \/ DropJunk(w) \/ Stamp(w) \/ WorkerStops(w)
      PROVE  DownIsOff'
  BY <1>0, <1>2 DEF Pop, DropJunk, Stamp, WorkerStops
<1>3. ASSUME NEW w \in Workers,
             ReportRunning(w) \/ ReportResult(w) \/ ResultLost(w) \/ Return(w)
      PROVE  DownIsOff'
  BY <1>0, <1>3 DEF ReportRunning, ReportResult, ResultLost, Return
<1>4. ASSUME NEW a \in Agents, Removal(a) PROVE DownIsOff'
  <2>1. CASE Lrem(a) \/ LremUnanswered(a) \/ Lrange(a) \/ LremById(a)
    BY <1>0, <2>1 DEF Lrem, LremUnanswered, Lrange, LremById
  <2>2. CASE LremFails(a) \/ LpushFails(a) \/ Hdel(a)
    BY <1>0, <2>2 DEF LremFails, LpushFails, Hdel, Resume
  <2>3. CASE Push(a)
    BY <1>0, <2>3 DEF Push, Lpush, LpushUnanswered, Pushes, Resume
  <2> QED
    BY <1>4, <2>1, <2>2, <2>3 DEF Removal, Push
<1>5. ASSUME NEW p \in Procs, RecoverStart(p) \/ ScanDone(p) \/ ScanDiscard(p) \/ ScanLook(p)
      PROVE  DownIsOff'
  BY <1>0, <1>5 DEF RecoverStart, ScanDone, ScanDiscard, ScanLook, Visit
<1>6. ASSUME NEW p \in Procs, Restamp(p) \/ Query(p) \/ QueryFails(p) \/ RecoveryStops(p)
      PROVE  DownIsOff'
  BY <1>0, <1>6 DEF Restamp, Query, QueryFails, RecoveryStops
<1>7. ASSUME NEW p \in Procs, Cancel(p) \/ Exit(p) PROVE DownIsOff'
  BY <1>0, <1>7 DEF Cancel, Exit, Members
<1>8. ASSUME NEW p \in Procs, Crash(p) PROVE DownIsOff'
  BY <1>0, <1>8 DEF Crash
<1>9. ASSUME NEW p \in Procs, Restart(p) PROVE DownIsOff'
  BY <1>0, <1>9 DEF Restart
<1>10. CASE Tick \/ UNCHANGED vars
  BY <1>10 DEF Tick, vars
<1>11. ASSUME NEW a \in Agents, Resend(a) PROVE DownIsOff'
  BY <1>0, <1>11 DEF Resend
<1> QED
  BY <1>1, <1>2, <1>3, <1>4, <1>5, <1>6, <1>7, <1>8, <1>9, <1>10, <1>11
     DEF Next, Worker, Recovery, Process

(* A step that is not a Submit, a Pop or a push only shortens the lists. *)
Shrinks ==
    /\ UNCHANGED jobQueue
    /\ \A j : Has(processing', j) => Has(processing, j)
    /\ Distinct(processing')
    /\ \A s \in Raw : Same(processing, s) => Same(processing', s)

LEMMA OtherLists ==
    ASSUME TypeInv, OneEntry, Snapshot, [Next]_vars
    PROVE  \/ \E j \in Jobs : Submit(j)
           \/ \E w \in Workers : Pop(w)
           \/ \E p \in Procs : Push(p)
           \/ Shrinks
<1>1. ASSUME UNCHANGED <<jobQueue, processing>> PROVE Shrinks
  BY <1>1 DEF Shrinks, OneEntry
<1> USE DEF redis
<1>2. ASSUME NEW j \in Jobs, Delete(j) \/ LateUpdate(j) PROVE Shrinks
  BY <1>1, <1>2 DEF Delete, LateUpdate, Put
<1>3. ASSUME NEW w \in Workers, DropJunk(w) PROVE Shrinks
  BY <1>3, AgentFacts, JunkLists DEF Shrinks
<1>4. ASSUME NEW w \in Workers, Stamp(w) \/ WorkerStops(w) \/ ReportRunning(w)
                                \/ ReportResult(w) \/ ResultLost(w) \/ Return(w)
      PROVE  Shrinks
  BY <1>1, <1>4 DEF Stamp, WorkerStops, ReportRunning, ReportResult, ResultLost, Return
<1>5. ASSUME NEW a \in Agents, Removal(a), ~ Push(a) PROVE Shrinks
  BY <1>5, RemovalLists DEF Shrinks
<1>6. ASSUME NEW w \in Workers PROVE ~ Push(w)
  BY AgentFacts, PushFacts DEF TypeInv, OwnCode, RecoveryOnly
<1>7. ASSUME NEW p \in Procs, ScanDiscard(p) PROVE Shrinks
  BY <1>7, AgentFacts, JunkLists DEF Shrinks
<1>8. ASSUME NEW p \in Procs, RecoverStart(p) \/ ScanDone(p) \/ ScanLook(p)
                \/ Restamp(p) \/ Query(p) \/ QueryFails(p) \/ RecoveryStops(p)
      PROVE  Shrinks
  BY <1>1, <1>8 DEF RecoverStart, ScanDone, ScanLook, Restamp, Query, QueryFails, RecoveryStops
<1>9. ASSUME NEW p \in Procs, Process(p) PROVE Shrinks
  BY <1>1, <1>9 DEF Process, Cancel, Exit, Crash, Restart
<1>10. CASE Tick \/ UNCHANGED vars
  BY <1>1, <1>10 DEF Tick, vars
<1>11. ASSUME NEW a \in Agents, Resend(a) PROVE Shrinks
  BY <1>11, ResendLists DEF Shrinks
<1> QED
  BY <1>2, <1>3, <1>4, <1>5, <1>6, <1>7, <1>8, <1>9, <1>10, <1>11, AgentFacts
     DEF Next, Worker, Recovery

(* An entry stays current until its own job is pushed back. *)
LEMMA CurrentNext ==
    ASSUME TypeInv, NewIsNowhere, OneEntry, Snapshot, [Next]_vars,
           NEW s \in Raw, s.id \in Single => status[s.id] # "new",
           Current(s), \A p \in Procs : Push(p) => s.id # msg[p].id
    PROVE  s.id \in Single => ~ Has(jobQueue', s.id) /\ Same(processing', s)
<1> SUFFICES ASSUME s.id \in Single
             PROVE  ~ Has(jobQueue', s.id) /\ Same(processing', s)
  OBVIOUS
<1>0. ~ Has(jobQueue, s.id) /\ Same(processing, s)
  BY DEF Current, Waiting
<1>1. ASSUME NEW j \in Jobs, Submit(j) PROVE ~ Has(jobQueue', s.id) /\ Same(processing', s)
  BY <1>0, <1>1, SubmitLists DEF Submit
<1>2. ASSUME NEW w \in Workers, Pop(w) PROVE ~ Has(jobQueue', s.id) /\ Same(processing', s)
  BY <1>0, <1>2, PopLists
<1>3. ASSUME NEW p \in Procs, Push(p) PROVE ~ Has(jobQueue', s.id) /\ Same(processing', s)
  BY <1>0, <1>3, PushLists
<1>4. CASE Shrinks
  BY <1>0, <1>4 DEF Shrinks
<1> QED
  BY <1>1, <1>2, <1>3, <1>4, OtherLists

(* No recovery but that of p is under way. *)
Alone(p) == \A q \in Procs \ {p} : Idle(q)

(* What a pass still has to deal with stays current. *)
LEMMA PassCurrent ==
    ASSUME NEW p \in Procs, Alone(p), Alone(p)',
           TypeInv, NewIsNowhere, OneEntry, Snapshot, [Next]_vars,
           NEW s \in Raw,
           \/ \E i \in DOMAIN rest[p] : s = rest[p][i]
           \/ pc[p] \in BeforePush /\ ~ Push(p) /\ s = msg[p]
    PROVE  Current(s)'
<1>0. p \in Procs /\ p \in Agents /\ Single' \subseteq Single /\ Single \subseteq Jobs
  BY AgentFacts, SingleNext DEF Single
<1>00. \A q \in Procs : Push(q) => q = p
  BY PushFacts DEF Alone, Idle
<1> SUFFICES ASSUME s.id \in Single PROVE ~ Has(jobQueue', s.id) /\ Same(processing', s)
  BY <1>0 DEF Current, Waiting, Same
<1>1. ASSUME NEW i \in DOMAIN rest[p], s = rest[p][i]
      PROVE  ~ Has(jobQueue', s.id) /\ Same(processing', s)
  <2>1. Current(s) /\ Has(rest[p], s.id) /\ s.id \notin seen[p]
    BY <1>0, <1>1 DEF Snapshot, Has
  <2>2. status[s.id] # "new"
    BY <1>0, <2>1 DEF NewIsNowhere
  <2>3. \A q \in Procs : Push(q) => s.id # msg[q].id
    BY <1>0, <1>00, <2>1, PushFacts DEF Snapshot, InPass, InRemoval, Id
  <2> QED
    BY <2>1, <2>2, <2>3, CurrentNext
<1>2. ASSUME pc[p] \in BeforePush, ~ Push(p), s = msg[p]
      PROVE  ~ Has(jobQueue', s.id) /\ Same(processing', s)
  <2>1. Current(s)
    BY <1>0, <1>2 DEF Snapshot
  <2>2. status[s.id] # "new"
    BY <1>0, <1>2 DEF NewIsNowhere, Id
  <2> QED
    BY <1>00, <1>2, <2>1, <2>2, CurrentNext
<1> QED
  BY <1>1, <1>2

(* A worker touches nothing of the recovery. *)
LEMMA WorkerFrame ==
    ASSUME TypeInv, NEW w \in Workers, Worker(w), NEW p \in Procs
    PROVE  /\ pc'[p] = pc[p] /\ msg'[p] = msg[p] /\ call'[p] = call[p]
           /\ UNCHANGED <<rest, seen, ctx>>
<1> USE AgentFacts
<1> USE DEF removal, pass, world, Goto, Take
<1>0. /\ w # p /\ p \in Agents /\ w \in Agents
      /\ DOMAIN pc = Agents /\ DOMAIN msg = Agents /\ DOMAIN call = Agents
  BY DEF TypeInv, TypeOK
<1>1. CASE Pop(w) \/ DropJunk(w) \/ Stamp(w) \/ WorkerStops(w)
  BY <1>0, <1>1 DEF Pop, DropJunk, Stamp, WorkerStops
<1>2. CASE ReportRunning(w) \/ ReportResult(w) \/ ResultLost(w) \/ Return(w)
  BY <1>0, <1>2 DEF ReportRunning, ReportResult, ResultLost, Return
<1>3. CASE Lrem(w) \/ LremUnanswered(w) \/ Resend(w) \/ Lrange(w) \/ LremById(w)
  BY <1>0, <1>3 DEF Lrem, LremUnanswered, Resend, Lrange, LremById
<1>4. CASE LremFails(w) \/ LpushFails(w) \/ Hdel(w)
  BY <1>0, <1>4 DEF LremFails, LpushFails, Hdel, Resume
<1>5. CASE Push(w)
  BY <1>0, <1>5 DEF Push, Lpush, LpushUnanswered, Pushes, Resume
<1> QED
  BY <1>1, <1>2, <1>3, <1>4, <1>5 DEF Worker, Removal, Push

(* Nor does another process, which besides moves nothing while p is alone. *)
LEMMA ProcessFrame ==
    ASSUME TypeInv, NEW q \in Procs, Recovery(q) \/ Process(q), NEW p \in Procs, p # q
    PROVE  /\ pc'[p] = pc[p] /\ msg'[p] = msg[p] /\ call'[p] = call[p]
           /\ rest'[p] = rest[p] /\ seen'[p] = seen[p]
<1> USE AgentFacts
<1> USE DEF removal, pass, world, Goto, Take
<1>0. /\ p \in Agents /\ q \in Agents /\ ProcOf[p] # q
      /\ DOMAIN pc = Agents /\ DOMAIN msg = Agents /\ DOMAIN call = Agents
      /\ DOMAIN rest = Procs /\ DOMAIN seen = Procs
  BY DEF TypeInv, TypeOK
<1>1. CASE RecoverStart(q) \/ ScanDone(q) \/ ScanDiscard(q) \/ ScanLook(q)
  BY <1>0, <1>1 DEF RecoverStart, ScanDone, ScanDiscard, ScanLook, Visit
<1>2. CASE Restamp(q) \/ Query(q) \/ QueryFails(q) \/ RecoveryStops(q)
  BY <1>0, <1>2 DEF Restamp, Query, QueryFails, RecoveryStops
<1>3. CASE Lrem(q) \/ LremUnanswered(q) \/ Resend(q) \/ Lrange(q) \/ LremById(q)
  BY <1>0, <1>3 DEF Lrem, LremUnanswered, Resend, Lrange, LremById
<1>4. CASE LremFails(q) \/ LpushFails(q) \/ Hdel(q)
  BY <1>0, <1>4 DEF LremFails, LpushFails, Hdel, Resume
<1>5. CASE Cancel(q) \/ Exit(q) \/ Crash(q) \/ Restart(q)
  BY <1>0, <1>5 DEF Cancel, Exit, Crash, Restart
<1>6. CASE Push(q)
  BY <1>0, <1>6 DEF Push, Lpush, LpushUnanswered, Pushes, Resume
<1> QED
  BY <1>1, <1>2, <1>3, <1>4, <1>5, <1>6 DEF Recovery, Process, Removal, Push

LEMMA OthersStep ==
    ASSUME TypeInv, NEW p \in Procs, Alone(p), Alone(p)',
           NEW q \in Procs \ {p}, Recovery(q) \/ Process(q)
    PROVE  /\ UNCHANGED <<jobQueue, processing, status, settled, dropped, doubled>>
           /\ rest' = rest \/ rest' = [rest EXCEPT ![q] = <<>>]
           /\ seen' = seen \/ seen' = [seen EXCEPT ![q] = {}]
<1> USE AgentFacts
<1> USE DEF redis, backend, pass, world, history, Goto
<1>0. /\ q \in Agents /\ DOMAIN pc = Agents
      /\ pc[q] \in {"ticker", "off"} /\ pc'[q] \in {"ticker", "off"}
  BY DEF Alone, Idle, TypeInv, TypeOK
<1>1. CASE Recovery(q)
  <2>1. ~ Removal(q)
    BY <1>0 DEF Removal, Lrem, LremUnanswered, LremFails, Lrange, LremById, Hdel,
                Lpush, LpushUnanswered, LpushFails, Pushes
  <2>2. ~ (ScanDone(q) \/ ScanDiscard(q) \/ ScanLook(q) \/ Restamp(q) \/ Query(q) \/ QueryFails(q))
    BY <1>0 DEF ScanDone, ScanDiscard, ScanLook, Visit, Restamp, Query, QueryFails
  <2>3. ~ RecoverStart(q) /\ ~ Resend(q)
    BY <1>0 DEF RecoverStart, Resend
  <2> QED
    BY <1>1, <2>1, <2>2, <2>3 DEF Recovery, RecoveryStops
<1>2. CASE Cancel(q) \/ Exit(q) \/ Restart(q)
  BY <1>2 DEF Cancel, Exit, Restart
<1>3. CASE Crash(q)
  BY <1>0, <1>3 DEF Crash, InNackWindow
<1> QED
  BY <1>1, <1>2, <1>3 DEF Process

(* The other recoveries have nothing at hand. *)
LEMMA OtherRests ==
    ASSUME TypeInv, Snapshot, NEW p \in Procs, Alone(p), Alone(p)', [Next]_vars,
           NEW q \in Procs \ {p}
    PROVE  rest'[q] = <<>> /\ seen'[q] = {}
<1> USE AgentFacts
<1>0. rest[q] = <<>> /\ seen[q] = {} /\ DOMAIN rest = Procs /\ DOMAIN seen = Procs
  BY DEF Alone, Idle, Snapshot, TypeInv, TypeOK
<1>1. ASSUME NEW j \in Jobs, Submit(j) \/ Delete(j) \/ LateUpdate(j)
      PROVE  UNCHANGED <<rest, seen>>
  BY <1>1 DEF Submit, Delete, LateUpdate, pass
<1>2. ASSUME NEW w \in Workers, Worker(w) PROVE UNCHANGED <<rest, seen>>
  BY <1>2, WorkerFrame
<1>3. ASSUME NEW r \in Procs \ {q}, Recovery(r) \/ Process(r)
      PROVE  rest'[q] = rest[q] /\ seen'[q] = seen[q]
  BY <1>3, ProcessFrame
<1>4. ASSUME Recovery(q) \/ Process(q) PROVE rest'[q] = <<>> /\ seen'[q] = {}
  BY <1>0, <1>4, OthersStep
<1>5. CASE Tick \/ UNCHANGED vars
  BY <1>0, <1>5 DEF Tick, vars, pass
<1> QED
  BY <1>0, <1>1, <1>2, <1>3, <1>4, <1>5 DEF Next

(* In a step after which, as before, no two recoveries run, one process is *)
(* alone all the time: a recovery that ends and one that starts are two    *)
(* steps. *)
LEMMA SomebodyAlone ==
    ASSUME TypeInv, OnePass, [Next /\ OnePass']_vars
    PROVE  \E p \in Procs : Alone(p) /\ Alone(p)'
<1>1. \E r \in Procs : \A q \in Procs \ {r} : pc'[q] = pc[q]
  <2>1. PICK r \in Procs : TRUE
    BY AgentsAssumption
  <2>2. ASSUME NEW j \in Jobs, Submit(j) \/ Delete(j) \/ LateUpdate(j) PROVE pc' = pc
    BY <2>2 DEF Submit, Delete, LateUpdate
  <2>3. ASSUME NEW w \in Workers, Worker(w) PROVE \A q \in Procs : pc'[q] = pc[q]
    BY <2>3, WorkerFrame
  <2>4. ASSUME NEW p \in Procs, Recovery(p) \/ Process(p)
        PROVE  \A q \in Procs \ {p} : pc'[q] = pc[q]
    BY <2>4, ProcessFrame
  <2>5. CASE Tick \/ UNCHANGED vars
    BY <2>5 DEF Tick, vars
  <2> QED
    BY <2>1, <2>2, <2>3, <2>4, <2>5 DEF Next
<1>2. OnePass'
  BY DEF OnePass, Idle, vars
<1>3. PICK r \in Procs : \A q \in Procs \ {r} : pc'[q] = pc[q]
  BY <1>1
<1>4. ASSUME NEW q \in Procs \ {r}, ~ Idle(q) PROVE Alone(q) /\ Alone(q)'
  BY <1>2, <1>3, <1>4 DEF OnePass, Alone, Idle
<1>5. ASSUME \A q \in Procs \ {r} : Idle(q) PROVE Alone(r) /\ Alone(r)'
  BY <1>3, <1>5 DEF Alone, Idle
<1> QED
  BY <1>4, <1>5

LEMMA SnapshotNext ==
    ASSUME NEW p \in Procs, Alone(p), Alone(p)',
           TypeInv, NewIsNowhere, DownIsOff, OneEntry, Snapshot, [Next]_vars
    PROVE  Snapshot'
<1> USE AgentFacts
<1> USE DEF removal, pass, world, Goto, Take, Id
<1>0. /\ p \in Procs /\ p \in Agents /\ rest[p] \in Seq(Raw) /\ msg[p] \in Raw
      /\ \A i \in DOMAIN rest[p] : rest[p][i] \in Raw
      /\ DOMAIN pc = Agents /\ DOMAIN msg = Agents /\ DOMAIN rest = Procs /\ DOMAIN seen = Procs
      /\ DOMAIN call = Agents
  BY TypeFacts DEF TypeInv, TypeOK
<1>1. /\ pc[p] \in {"ticker", "off"} => rest[p] = <<>> /\ seen[p] = {}
      /\ Distinct(rest[p])
      /\ \A i \in DOMAIN rest[p] : rest[p][i].id \in Single => rest[p][i].id \notin seen[p]
      /\ pc[p] \in InPass => msg[p].id \in seen[p]
  BY <1>0 DEF Snapshot
<1>2. \A i \in DOMAIN rest[p] : \A s \in Raw : s = rest[p][i] => Current(s)'
  BY PassCurrent
<1>3. pc[p] \in BeforePush /\ ~ Push(p) => \A s \in Raw : s = msg[p] => Current(s)'
  BY PassCurrent
<1> DEFINE Kept ==
        /\ pc'[p] \in {"ticker", "off"} => rest'[p] = <<>> /\ seen'[p] = {}
        /\ Distinct(rest'[p])
        /\ \A i \in DOMAIN rest'[p] : rest'[p][i].id \in Single => rest'[p][i].id \notin seen'[p]
        /\ \A i \in DOMAIN rest'[p] : \A s \in Raw : s = rest'[p][i] => Current(s)'
        /\ \A i \in DOMAIN rest'[p] : rest'[p][i] \in Raw
        /\ pc'[p] \in InPass => msg'[p].id \in seen'[p] /\ msg'[p] \in Raw
        /\ pc'[p] \in BeforePush => \A s \in Raw : s = msg'[p] => Current(s)'
<1>30. \A q \in Procs \ {p} : /\ rest'[q] = <<>> /\ seen'[q] = {}
                               /\ pc'[q] \in {"ticker", "off"}
  BY OtherRests DEF Alone, Idle
<1>31. \A q \in Procs \ {p} : Distinct(rest'[q]) /\ pc'[q] \notin InPass
  BY <1>30 DEF Distinct, InPass, InRemoval
<1>4. SUFFICES Kept
  <2>1. Single' \subseteq Single
    BY SingleNext
  <2>2. \A q \in Procs \ {p} : Distinct(rest[q])'
    BY <1>30 DEF Distinct
  <2>3. Kept => Distinct(rest[p])'
    <3>1. Kept => Distinct(rest'[p])
      OBVIOUS
    <3> HIDE DEF Kept
    <3> QED
      BY <2>1, <3>1 DEF Distinct
  <2> QED
    BY <1>30, <1>31, <2>1, <2>2, <2>3 DEF Snapshot, BeforePush, Current, Same, Waiting
<1>5. Push(p) => pc[p] \in {"lpush", "lpushAgain"} /\ pc'[p] \in {"scan", "lpushAgain"}
  BY <1>0 DEF Push, Lpush, LpushUnanswered, Pushes, Resume
<1>6. ASSUME rest'[p] = rest[p], seen'[p] = seen[p], pc'[p] = pc[p], msg'[p] = msg[p]
      PROVE  Kept
  BY <1>0, <1>1, <1>2, <1>3, <1>5, <1>6 DEF BeforePush, InPass, InRemoval
(* The recovery goes on with its entry, or leaves it, or has no pass.      *)
<1>7. ASSUME UNCHANGED <<rest, seen>>, pc[p] \in InPass, pc'[p] \in InPass,
             msg'[p] = msg[p],
             pc'[p] \in BeforePush => pc[p] \in BeforePush /\ ~ Push(p)
      PROVE  Kept
  BY <1>0, <1>1, <1>2, <1>3, <1>5, <1>7 DEF InPass, InRemoval
<1>8. ASSUME UNCHANGED <<rest, seen>>, pc'[p] = "scan" PROVE Kept
  BY <1>0, <1>1, <1>2, <1>8 DEF BeforePush, InPass, InRemoval
<1>9. ASSUME rest'[p] = <<>>, seen'[p] = {}, pc'[p] \notin InPass PROVE Kept
  BY <1>9 DEF Distinct, BeforePush
<1> HIDE DEF Kept
<1>11. ASSUME NEW j \in Jobs, Submit(j) \/ Delete(j) \/ LateUpdate(j) PROVE Kept
  BY <1>6, <1>11 DEF Submit, Delete, LateUpdate, Put
<1>12. ASSUME NEW w \in Workers, Worker(w) PROVE Kept
  BY <1>0, <1>6, <1>12, WorkerFrame
<1>13. CASE Removal(p)
  <2>1. CASE Lrem(p) \/ LremUnanswered(p) \/ Lrange(p) \/ LremById(p)
    <3>1. UNCHANGED <<rest, seen, msg>>
      BY <2>1 DEF Lrem, LremUnanswered, Lrange, LremById
    <3>2. pc[p] \in InPass /\ pc'[p] \in InPass
      BY <1>0, <2>1 DEF Lrem, LremUnanswered, Lrange, LremById, InPass, InRemoval
    <3>3. pc[p] \in BeforePush /\ pc[p] \notin {"lpush", "lpushAgain"}
      BY <3>2, <2>1 DEF Lrem, LremUnanswered, Lrange, LremById, BeforePush
    <3> QED
      BY <1>5, <1>7, <3>1, <3>2, <3>3
  <2>2. CASE LremFails(p) \/ LpushFails(p) \/ Lpush(p)
    BY <1>0, <1>8, <2>2, PushFacts DEF LremFails, LpushFails, Push, Lpush, Resume
  <2>4. CASE LpushUnanswered(p)
    <3>1. UNCHANGED <<rest, seen, msg>> /\ pc'[p] = "lpushAgain" /\ pc[p] \in {"lpush", "lpushAgain"}
      BY <1>0, <2>4, PushFacts DEF LpushUnanswered, Push
    <3> QED
      BY <1>7, <3>1 DEF BeforePush, InPass, InRemoval
  <2>3. CASE Hdel(p)
    <3>1. CASE call[p] = "AckJob"
      BY <1>0, <1>8, <2>3, <3>1 DEF Hdel, Resume
    <3>2. CASE call[p] # "AckJob"
      BY <1>0, <1>5, <1>7, <2>3, <3>2 DEF Hdel, BeforePush, InPass, InRemoval
    <3> QED
      BY <3>1, <3>2
  <2> QED
    BY <1>13, <2>1, <2>2, <2>3, <2>4 DEF Removal
<1>14. CASE RecoverStart(p)
  <2>1. /\ pc[p] = "ticker" /\ pc'[p] = "scan" /\ rest'[p] = processing
        /\ UNCHANGED <<jobQueue, processing, seen>>
    BY <1>0, <1>14 DEF RecoverStart, redis
  <2>2. processing \in Seq(Raw) /\ \A i \in DOMAIN processing : processing[i] \in Raw
    BY TypeFacts
  <2>3. ASSUME NEW i \in DOMAIN processing, NEW s \in Raw, s = processing[i]
        PROVE  Current(s)'
    <3>1. Processing(s.id)
      BY <2>3 DEF Processing, Has
    <3>2. s.id \in Single => ~ Waiting(s.id)
      BY <3>1 DEF OneEntry
    <3>3. s.id \in Single => Same(processing, s)
      BY <2>2, <2>3, SameKept DEF OneEntry
    <3> QED
      BY <2>1, <3>2, <3>3, SingleNext DEF Current, Waiting, Same
  <2>4. seen'[p] = {}
    BY <1>1, <2>1
  <2> QED
    BY <2>1, <2>2, <2>3, <2>4 DEF Kept, OneEntry, BeforePush, InPass, InRemoval
<1>15. CASE ScanDone(p)
  BY <1>0, <1>9, <1>15 DEF ScanDone, InPass, InRemoval
<1>16. ASSUME pc[p] = "scan", rest[p] # <<>>, rest'[p] = Tail(rest[p]), pc'[p] \in {"scan"} \cup InPass,
              \/ pc'[p] = "scan" /\ (UNCHANGED seen \/ seen'[p] = seen[p] \cup {Head(rest[p]).id})
              \/ msg'[p] = Head(rest[p]) /\ seen'[p] = seen[p] \cup {Head(rest[p]).id},
              pc'[p] # "lpushAgain"
       PROVE  Kept
  <2>1. /\ Head(rest[p]) \in Raw
        /\ \E i \in DOMAIN rest[p] : Head(rest[p]) = rest[p][i]
        /\ \A i \in DOMAIN rest'[p] : \E k \in DOMAIN rest[p] : rest'[p][i] = rest[p][k]
        /\ Distinct(rest'[p])
        /\ Head(rest[p]).id \in Single => ~ Has(rest'[p], Head(rest[p]).id)
    BY <1>0, <1>1, <1>16, TailEntry
  <2>2. \A i \in DOMAIN rest'[p] : rest'[p][i] \in Raw
    BY <1>0, <2>1
  <2>3. \A i \in DOMAIN rest'[p] : \A s \in Raw : s = rest'[p][i] => Current(s)'
    BY <1>2, <2>1
  <2>4. \A s \in Raw : s = Head(rest[p]) => Current(s)'
    BY <1>2, <2>1
  <2>5. \A i \in DOMAIN rest'[p] : rest'[p][i].id \in Single => rest'[p][i].id \notin seen'[p]
    BY <1>1, <1>16, <2>1 DEF Has
  <2>6. pc'[p] \in InPass => msg'[p] = Head(rest[p]) /\ Head(rest[p]).id \in seen'[p]
    BY <1>16 DEF InPass, InRemoval
  <2>7. pc'[p] \notin {"ticker", "off"}
    BY <1>16 DEF InPass, InRemoval
  <2> QED
    BY <2>1, <2>2, <2>3, <2>4, <2>5, <2>6, <2>7 DEF Kept, BeforePush
<1>17. CASE ScanDiscard(p)
  BY <1>0, <1>16, <1>17 DEF ScanDiscard, Visit
<1>18. CASE ScanLook(p)
  BY <1>0, <1>16, <1>18 DEF ScanLook, Visit, InPass
<1>19. CASE Restamp(p) \/ Query(p)
  BY <1>0, <1>5, <1>7, <1>19 DEF Restamp, Query, BeforePush, InPass, InRemoval
<1>20. CASE QueryFails(p)
  BY <1>0, <1>8, <1>20 DEF QueryFails
<1>21. CASE RecoveryStops(p)
  BY <1>0, <1>1, <1>9, <1>21 DEF RecoveryStops, InPass, InRemoval
<1>22. CASE Crash(p)
  BY <1>0, <1>9, <1>22 DEF Crash, InPass, InRemoval
<1>23. CASE Restart(p)
  <2>1. pc[p] = "off" /\ pc'[p] = "ticker" /\ UNCHANGED <<rest, seen>>
    BY <1>0, <1>23 DEF Restart, DownIsOff
  <2> QED
    BY <1>1, <1>9, <2>1 DEF InPass, InRemoval
<1>24. CASE Cancel(p) \/ Exit(p)
  BY <1>6, <1>24 DEF Cancel, Exit
<1>25. CASE Tick \/ UNCHANGED vars
  BY <1>6, <1>25 DEF Tick, vars
<1>26. ASSUME NEW q \in Procs \ {p}, Recovery(q) \/ Process(q) PROVE Kept
  BY <1>6, <1>26, ProcessFrame
<1>27. CASE Resend(p)
  BY <1>6, <1>27 DEF Resend
<1> QED
  BY <1>4, <1>11, <1>12, <1>13, <1>14, <1>15, <1>17, <1>18, <1>19, <1>20, <1>21,
     <1>22, <1>23, <1>24, <1>25, <1>26, <1>27
     DEF Next, Recovery, Process

LEMMA WithdrawnNext ==
    ASSUME NEW p \in Procs, Alone(p), Alone(p)',
           TypeInv, NewIsNowhere, OneEntry, Snapshot, Withdrawn, [Next]_vars
    PROVE  Withdrawn'
<1> USE AgentFacts
<1> USE DEF removal, pass, world, Goto, Take, Id
<1> DEFINE Past == {"lremAgain", "lrange", "hdel", "lpush"}
           Gone == ~ Has(processing', msg'[p].id)
           Goal == msg'[p].id \in Single => pc'[p] # "lremById" /\ (pc'[p] \in Past => Gone)
<1>0. /\ p \in Procs /\ p \in Agents /\ msg[p] \in Raw /\ processing \in Seq(Raw)
      /\ DOMAIN pc = Agents /\ DOMAIN msg = Agents /\ DOMAIN found = Agents
      /\ pc[p] \in InPass => msg[p].id \in Jobs
      /\ Single' \subseteq Single
  BY SingleNext, TypeFacts DEF TypeInv, TypeOK, InPass, WithEntry
<1>1. msg[p].id \in Single => /\ pc[p] # "lremById"
                              /\ pc[p] \in Past => ~ Has(processing, msg[p].id)
  BY <1>0 DEF Withdrawn, Processing
<1>2. pc[p] \in BeforePush /\ msg[p].id \in Single =>
        ~ Has(jobQueue, msg[p].id) /\ Same(processing, msg[p])
  BY <1>0 DEF Snapshot, Current, Waiting
<1>30. \A q \in Procs \ {p} : pc'[q] \in {"ticker", "off"}
  BY DEF Alone, Idle
<1>3. SUFFICES Goal
  BY <1>0, <1>30 DEF Withdrawn, Processing
<1>4. Shrinks \/ (\E w \in Workers : Pop(w)) \/ UNCHANGED processing
  BY OtherLists, PushLists, SubmitLists
<1>5. ASSUME pc'[p] = pc[p], msg'[p] = msg[p] PROVE Goal
  <2> SUFFICES ASSUME msg[p].id \in Single, pc[p] \in Past PROVE Gone
    BY <1>1, <1>5
  <2>1. CASE Shrinks \/ UNCHANGED processing
    BY <1>1, <1>5, <2>1 DEF Shrinks
  <2>2. ASSUME NEW w \in Workers, Pop(w) PROVE Gone
    BY <1>1, <1>2, <1>5, <2>2, PopLists DEF BeforePush, InPass, InRemoval
  <2> QED
    BY <1>4, <2>1, <2>2
<1>6. ASSUME pc'[p] \notin Past \cup {"lremById"}
      PROVE  Goal
  BY <1>6
<1> HIDE DEF Gone, Goal
<1>11. ASSUME NEW j \in Jobs, Submit(j) \/ Delete(j) \/ LateUpdate(j)
       PROVE  Goal
  BY <1>5, <1>11 DEF Submit, Delete, LateUpdate, Put
<1>12. ASSUME NEW w \in Workers, Worker(w)
       PROVE  Goal
  BY <1>0, <1>5, <1>12, WorkerFrame
<1>13. CASE Lrem(p) \/ LremUnanswered(p)
  <2> SUFFICES ASSUME msg'[p].id \in Single PROVE pc'[p] # "lremById" /\ Gone
    BY DEF Goal
  <2>1. /\ pc[p] \in {"lrem", "lremAgain"} /\ pc'[p] \in {"hdel", "lrange", "lremAgain"}
        /\ msg'[p] = msg[p] /\ processing' = RemoveFirst(processing, msg[p])
    BY <1>0, <1>13 DEF Lrem, LremUnanswered
  <2>2. Distinct(processing) /\ msg[p].id \in Single /\ Same(processing, msg[p])
    BY <1>2, <2>1 DEF OneEntry, BeforePush, InPass, InRemoval
  <2>3. CASE Contains(processing, msg[p])
    <3>1. ~ Has(RemoveFirst(processing, msg[p]), msg[p].id)
      BY <1>0, <2>2, <2>3, RemoveEntry
    <3> QED
      BY <2>1, <3>1 DEF Gone
  <2>4. CASE ~ Contains(processing, msg[p])
    <3>1. ~ Has(processing, msg[p].id)
      BY <1>0, <2>2, <2>4, SameKept
    <3>2. Has(RemoveFirst(processing, msg[p]), msg[p].id) => Has(processing, msg[p].id)
      BY <1>0, RemoveEntry
    <3> QED
      BY <2>1, <3>1, <3>2 DEF Gone
  <2> QED
    BY <2>3, <2>4
<1>14. CASE Lrange(p)
  <2> SUFFICES ASSUME msg'[p].id \in Single PROVE pc'[p] # "lremById" /\ Gone
    BY DEF Goal
  <2>1. pc[p] = "lrange" /\ UNCHANGED <<processing, msg>>
    BY <1>14 DEF Lrange, redis
  <2>2. ~ Has(processing, msg[p].id)
    BY <1>1, <2>1
  <2>3. FromFirst(processing, msg[p].id) = <<>>
    BY <1>0, <2>2, FromFirstProperties
  <2>4. found'[p] = <<>>
    BY <1>0, <1>14, <2>3 DEF Lrange
  <2>5. pc'[p] = "hdel"
    BY <1>0, <1>14, <2>4 DEF Lrange
  <2> QED
    BY <2>1, <2>2, <2>5 DEF Gone
<1>15. CASE LremById(p)
  BY <1>1, <1>15 DEF LremById, Goal
<1>16. CASE LremFails(p) \/ LpushFails(p)
  BY <1>0, <1>6, <1>16 DEF LremFails, LpushFails, Resume
<1>25. CASE Push(p)
  BY <1>0, <1>6, <1>25 DEF Push, Lpush, LpushUnanswered, Pushes, Resume
<1>26. CASE Resend(p)
  BY <1>5, <1>26 DEF Resend
<1>17. CASE Hdel(p)
  <2>1. CASE call[p] = "AckJob"
    BY <1>0, <1>6, <1>17, <2>1 DEF Hdel, Resume
  <2>2. CASE call[p] # "AckJob"
    BY <1>0, <1>1, <1>17, <2>2 DEF Hdel, Gone, Goal
  <2> QED
    BY <2>1, <2>2
<1>18. CASE RecoverStart(p) \/ ScanDone(p) \/ QueryFails(p) \/ RecoveryStops(p)
  BY <1>0, <1>6, <1>18 DEF RecoverStart, ScanDone, QueryFails, RecoveryStops
<1>19. CASE Restamp(p) \/ Query(p)
  BY <1>0, <1>6, <1>19 DEF Restamp, Query
<1>20. CASE ScanDiscard(p) \/ ScanLook(p)
  BY <1>0, <1>6, <1>20 DEF ScanDiscard, ScanLook, Visit
<1>21. CASE Crash(p) \/ Restart(p)
  BY <1>0, <1>6, <1>21 DEF Crash, Restart
<1>22. CASE Cancel(p) \/ Exit(p)
  BY <1>5, <1>22 DEF Cancel, Exit
<1>23. CASE Tick \/ UNCHANGED vars
  BY <1>5, <1>23 DEF Tick, vars
<1>24. ASSUME NEW q \in Procs \ {p}, Recovery(q) \/ Process(q)
       PROVE  Goal
  BY <1>5, <1>24, ProcessFrame
<1> QED
  BY <1>11, <1>12, <1>13, <1>14, <1>15, <1>16, <1>17, <1>18, <1>19, <1>20, <1>21,
     <1>22, <1>23, <1>24, <1>25, <1>26
     DEF Next, Recovery, Process, Removal, Push

LEMMA OneEntryNext ==
    ASSUME NEW p \in Procs, Alone(p), Alone(p)',
           TypeInv, NewIsNowhere, OneEntry, Snapshot, Withdrawn, [Next]_vars,
           Snapshot', Withdrawn', TypeInv'
    PROVE  OneEntry'
<1>0. /\ \A q \in Procs : Push(q) => q = p
      /\ \A q \in Procs \ {p} : pc'[q] \notin {"lremAgain", "lrange", "lremById", "hdel", "lpush"}
      /\ Single' \subseteq Single /\ Single \subseteq Jobs
  BY PushFacts, SingleNext DEF Alone, Idle, Single
<1>1. /\ Distinct(jobQueue) /\ Distinct(processing)
      /\ \A j \in Single : ~ (Has(jobQueue, j) /\ Has(processing, j))
  BY DEF OneEntry, Waiting, Processing
<1> DEFINE Apart == \A j \in Single' : ~ (Has(jobQueue', j) /\ Has(processing', j))
<1>10. Distinct(jobQueue') => Distinct(jobQueue)'
  BY SingleNext DEF Distinct
<1>11. Distinct(processing') => Distinct(processing)'
  BY SingleNext DEF Distinct
<1>2. Distinct(jobQueue)' /\ Distinct(processing)' /\ Apart
  <2>1. ASSUME NEW j \in Jobs, Submit(j) PROVE Distinct(jobQueue') /\ Distinct(processing') /\ Apart
    BY <1>0, <1>1, <2>1, SubmitLists
  <2>2. ASSUME NEW w \in Workers, Pop(w) PROVE Distinct(jobQueue') /\ Distinct(processing') /\ Apart
    <3>1. PICK r \in Raw :
             /\ r.id \in Single => ~ Has(jobQueue', r.id) /\ ~ Has(processing, r.id)
             /\ \A j : Has(jobQueue, j) <=> Has(jobQueue', j) \/ j = r.id
             /\ \A j : Has(processing', j) <=> Has(processing, j) \/ j = r.id
             /\ Distinct(jobQueue') /\ Distinct(processing')
      BY <2>2, PopLists
    <3> QED
      BY <1>0, <1>1, <3>1
  <2>3. CASE Push(p)
    <3>1. UNCHANGED processing /\ \A j : Has(jobQueue', j) <=> Has(jobQueue, j) \/ j = msg[p].id
      BY <2>3, PushLists
    <3>2. msg[p].id \in Single' => ~ Has(processing, msg[p].id)
      BY <1>0, <2>3, PushLists DEF Withdrawn, Processing, Id
    <3>3. Apart
      BY <1>0, <1>1, <3>1, <3>2
    <3>4. Distinct(jobQueue)'
      BY <2>3, PushLists DEF Distinct
    <3> QED
      BY <1>1, <1>11, <3>1, <3>3, <3>4
  <2>4. CASE Shrinks
    <3>1. UNCHANGED jobQueue /\ Distinct(processing') /\ Apart
      BY <1>0, <1>1, <2>4 DEF Shrinks
    <3>2. Distinct(jobQueue')
      BY <1>1, <3>1
    <3> QED
      BY <1>10, <1>11, <3>1, <3>2
  <2> QED
    BY <1>0, <1>10, <1>11, <2>1, <2>2, <2>3, <2>4, OtherLists
<1>3. ASSUME NEW j \in Single', Requeueing(j)' PROVE ~ Has(jobQueue', j) /\ ~ Has(processing', j)
  <2>1. pc'[p] \in {"lremAgain", "lrange", "lremById", "hdel", "lpush"} /\ msg'[p].id = j
    BY <1>0, <1>3 DEF Requeueing, InNackWindow, Id
  <2>2. ~ Has(jobQueue', j)
    BY <1>0, <2>1 DEF Snapshot, Current, Waiting, InPass, BeforePush, InRemoval
  <2>3. ~ Has(processing', j)
    BY <1>0, <2>1 DEF Withdrawn, Processing, Id
  <2> QED
    BY <2>2, <2>3
<1> QED
  BY <1>2, <1>3 DEF OneEntry, Waiting, Processing

LEMMA NoSilentLossNext ==
    ASSUME NEW p \in Procs, Alone(p), Alone(p)',
           TypeInv, NewIsNowhere, FinishedIsSettled, DownIsOff, OneEntry, Snapshot,
           Withdrawn, NoSilentLoss, [Next]_vars
    PROVE  NoSilentLoss'
<1> USE AgentFacts
<1> USE DEF redis, backend, removal, pass, world, history, Goto, Take, Id
<1>0. /\ p \in Procs /\ p \in Agents /\ msg[p] \in Raw /\ processing \in Seq(Raw)
      /\ DOMAIN pc = Agents /\ DOMAIN msg = Agents /\ DOMAIN call = Agents
      /\ DOMAIN status = Jobs
      /\ call[p] \in {"AckJob", "NackJob"}
      /\ Single' \subseteq Single /\ Single \subseteq Jobs
  BY TypeFacts, SingleNext DEF Single, TypeInv, TypeOK
<1> SUFFICES ASSUME NEW k \in Single,
                    status'[k] # "new", k \notin settled', k \notin dropped'
             PROVE  (Waiting(k) \/ Processing(k) \/ Requeueing(k))'
  BY <1>0 DEF NoSilentLoss
<1> DEFINE Listed == Has(jobQueue, k) \/ Has(processing, k)
           Labels == {"lremAgain", "lrange", "lremById", "hdel", "lpush"}
           Window == pc[p] \in Labels /\ call[p] = "NackJob" /\ msg[p].id = k
           Safe   == \/ Has(jobQueue', k) \/ Has(processing', k)
                     \/ /\ pc'[p] \in Labels /\ call'[p] = "NackJob"
                        /\ msg'[p].id = k
<1>1. SUFFICES Safe
  BY <1>0 DEF Waiting, Processing, Requeueing, InNackWindow
(* A job that is neither settled nor dropped had its place before.         *)
<1>2. ASSUME status[k] # "new", settled \subseteq settled', dropped \subseteq dropped'
      PROVE  Listed \/ Window
  <2>1. Waiting(k) \/ Processing(k) \/ Requeueing(k)
    BY <1>2 DEF NoSilentLoss
  <2>2. \A q \in Procs \ {p} : pc[q] \in {"ticker", "off"}
    BY DEF Alone, Idle
  <2> QED
    BY <2>1, <2>2 DEF Waiting, Processing, Requeueing, InNackWindow
<1>3. ASSUME Listed => Has(jobQueue', k) \/ Has(processing', k), Listed \/ Window,
             pc'[p] = pc[p], msg'[p] = msg[p], call'[p] = call[p]
      PROVE  Safe
  BY <1>3
<1>4. ASSUME Listed => Has(jobQueue', k) \/ Has(processing', k), Listed \/ Window, ~ Window
      PROVE  Safe
  BY <1>4
<1> HIDE DEF Safe
<1>5. ASSUME UNCHANGED <<jobQueue, processing>>
      PROVE  Listed => Has(jobQueue', k) \/ Has(processing', k)
  BY <1>5
<1>11. ASSUME NEW j \in Jobs, Submit(j) PROVE Safe
  <2>1. CASE j = k
    BY <1>11, <2>1, SubmitLists DEF Safe
  <2>2. CASE j # k
    <3>1. Listed => Has(jobQueue', k) \/ Has(processing', k)
      BY <1>11, SubmitLists
    <3>2. status[k] # "new" /\ UNCHANGED <<settled, dropped, pc, msg, call>>
      BY <1>11, <2>2 DEF Submit
    <3> QED
      BY <1>2, <1>3, <3>1, <3>2
  <2> QED
    BY <2>1, <2>2
<1>12. ASSUME NEW j \in Jobs, Delete(j) \/ LateUpdate(j) PROVE Safe
  <2>1. status[k] # "new"
    BY <1>0, <1>12 DEF Delete, LateUpdate, Put
  <2>2. settled \subseteq settled' /\ UNCHANGED <<jobQueue, processing, dropped, pc, msg, call>>
    BY <1>12 DEF Delete, LateUpdate, Put
  <2> QED
    BY <1>2, <1>3, <1>5, <2>1, <2>2
<1>13. ASSUME NEW w \in Workers, Worker(w) PROVE Safe
  <2>1. pc'[p] = pc[p] /\ msg'[p] = msg[p] /\ call'[p] = call[p]
    BY <1>13, WorkerFrame
  <2>2. CASE Pop(w)
    <3>1. Listed => Has(jobQueue', k) \/ Has(processing', k)
      BY <2>2, PopLists
    <3> QED
      BY <1>2, <1>3, <2>1, <2>2, <3>1 DEF Pop
  <2>3. CASE DropJunk(w)
    <3>1. Listed => Has(jobQueue', k) \/ Has(processing', k)
      BY <1>0, <2>3, JunkLists
    <3> QED
      BY <1>2, <1>3, <2>1, <2>3, <3>1 DEF DropJunk
  <2>4. CASE Stamp(w) \/ ResultLost(w) \/ WorkerStops(w)
    BY <1>2, <1>3, <1>5, <2>1, <2>4 DEF Stamp, ResultLost, WorkerStops
  <2>5. CASE ReportRunning(w) \/ ReportResult(w) \/ Return(w)
    <3>1. status[k] # "new"
      <4>1. k # msg[w].id => status'[k] = status[k]
        BY <1>0, <2>5 DEF ReportRunning, ReportResult, Return, Put
      <4>2. k = msg[w].id => status[k] # "new"
        BY <1>0 DEF NewIsNowhere
      <4> QED
        BY <4>1, <4>2
    <3>2. settled \subseteq settled' /\ UNCHANGED <<jobQueue, processing, dropped>>
      BY <2>5 DEF ReportRunning, ReportResult, Return
    <3> QED
      BY <1>2, <1>3, <1>5, <2>1, <3>1, <3>2
  <2>6. CASE Removal(w)
    <3>1. pc[w] \in InRemoval
      BY <2>6, RemovalFacts
    <3>2. msg[w].id \in settled /\ ~ Push(w)
      BY <3>1, PushFacts DEF FinishedIsSettled, TypeInv, OwnCode, RecoveryOnly
    <3>3. UNCHANGED <<status, settled>> /\ dropped \subseteq dropped'
      BY <2>6, RemovalFacts
    <3>4. k # msg[w].id
      BY <3>2, <3>3
    <3>5. Listed => Has(jobQueue', k) \/ Has(processing', k)
      BY <2>6, <3>2, <3>4, RemovalLists
    <3> QED
      BY <1>2, <1>3, <2>1, <3>3, <3>5
  <2>7. CASE Resend(w)
    <3>1. pc[w] = "lremById" => msg[w].id \in settled
      BY DEF FinishedIsSettled, InRemoval, TypeInv, OwnCode
    <3>2. UNCHANGED <<status, settled, dropped>>
      BY <2>7 DEF Resend
    <3>3. Listed => Has(jobQueue', k) \/ Has(processing', k)
      BY <2>7, <3>1, <3>2, ResendLists
    <3> QED
      BY <1>2, <1>3, <2>1, <3>2, <3>3
  <2> QED
    BY <1>13, <2>2, <2>3, <2>4, <2>5, <2>6, <2>7 DEF Worker
<1>14. CASE Removal(p)
  <2>1. UNCHANGED <<status, settled>> /\ dropped \subseteq dropped'
    BY <1>14, RemovalFacts
  <2>2. Listed \/ Window
    BY <1>2, <2>1
  <2>3. pc[p] \in InRemoval
    BY <1>14, RemovalFacts
  <2>4. k = msg[p].id => call[p] = "NackJob"
    BY <1>0, <2>1, <2>3 DEF FinishedIsSettled
  <2>5. ASSUME k # msg[p].id, ~ Push(p) PROVE Safe
    <3>1. Listed => Has(jobQueue', k) \/ Has(processing', k)
      BY <1>14, <2>5, RemovalLists
    <3> QED
      BY <1>4, <2>2, <2>5, <3>1
  <2>6. CASE Push(p)
    <3>1. UNCHANGED processing /\ \A j : Has(jobQueue', j) <=> Has(jobQueue, j) \/ j = msg[p].id
      BY <2>6, PushLists
    <3> QED
      BY <2>2, <3>1 DEF Safe
  <2>7. ASSUME k = msg[p].id, pc'[p] \in Labels, UNCHANGED <<msg, call>> PROVE Safe
    BY <2>4, <2>7 DEF Safe
  <2>8. CASE Lrem(p) \/ LremUnanswered(p) \/ Lrange(p) \/ LremById(p)
    <3>1. pc'[p] \in Labels /\ UNCHANGED <<msg, call>>
      BY <1>0, <2>8 DEF Lrem, LremUnanswered, Lrange, LremById
    <3>2. ~ Push(p)
      BY <2>8, PushFacts DEF Lrem, LremUnanswered, Lrange, LremById
    <3> QED
      BY <2>5, <2>7, <3>1, <3>2
  <2>9. CASE LremFails(p) \/ LpushFails(p)
    <3>1. UNCHANGED <<jobQueue, processing>>
      BY <2>9 DEF LremFails, LpushFails
    <3>2. ~ Window
      BY <2>9 DEF LremFails, LpushFails, Dropped
    <3> QED
      BY <1>4, <1>5, <2>2, <3>1, <3>2
  <2>10. CASE Hdel(p)
    <3>1. CASE k = msg[p].id
      BY <1>0, <2>4, <2>7, <2>10, <3>1 DEF Hdel
    <3>2. CASE k # msg[p].id
      BY <2>5, <2>10, <3>2, PushFacts DEF Hdel
    <3> QED
      BY <3>1, <3>2
  <2> QED
    BY <1>14, <2>6, <2>8, <2>9, <2>10 DEF Removal, Push
<1>15. CASE RecoverStart(p) \/ ScanDone(p) \/ ScanLook(p) \/ QueryFails(p) \/ RecoveryStops(p)
  BY <1>2, <1>4, <1>5, <1>15 DEF RecoverStart, ScanDone, ScanLook, Visit, QueryFails, RecoveryStops
<1>16. CASE ScanDiscard(p)
  <2>1. Listed => Has(jobQueue', k) \/ Has(processing', k)
    BY <1>0, <1>16, JunkLists
  <2> QED
    BY <1>2, <1>4, <1>16, <2>1 DEF ScanDiscard, Visit
<1>17. CASE Restamp(p) \/ Query(p)
  BY <1>2, <1>4, <1>5, <1>17 DEF Restamp, Query
<1>18. CASE Cancel(p) \/ Exit(p)
  BY <1>2, <1>3, <1>5, <1>18 DEF Cancel, Exit
<1>19. CASE Crash(p)
  <2>1. UNCHANGED <<jobQueue, processing, status, settled>> /\ dropped \subseteq dropped'
    BY <1>19 DEF Crash, Dropped
  <2>2. ~ Window
    BY <1>0, <1>19 DEF Crash, Dropped, InNackWindow
  <2> QED
    BY <1>2, <1>4, <1>5, <2>1, <2>2
<1>20. CASE Restart(p)
  <2>1. pc[p] = "off"
    BY <1>0, <1>20 DEF Restart, DownIsOff
  <2> QED
    BY <1>2, <1>4, <1>5, <1>20, <2>1 DEF Restart
<1>21. CASE Tick \/ UNCHANGED vars
  BY <1>2, <1>3, <1>5, <1>21 DEF Tick, vars
<1>22. ASSUME NEW q \in Procs \ {p}, Recovery(q) \/ Process(q) PROVE Safe
  <2>1. UNCHANGED <<jobQueue, processing, status, settled, dropped>>
    BY <1>22, OthersStep
  <2>2. pc'[p] = pc[p] /\ msg'[p] = msg[p] /\ call'[p] = call[p]
    BY <1>22, ProcessFrame
  <2> QED
    BY <1>2, <1>3, <1>5, <2>1, <2>2
<1>23. CASE Resend(p)
  <2>1. pc[p] = "lremById" => k # msg[p].id
    BY <1>0 DEF Withdrawn, Snapshot
  <2>2. Listed => Has(jobQueue', k) \/ Has(processing', k)
    BY <1>0, <1>23, <2>1, ResendLists
  <2> QED
    BY <1>2, <1>3, <1>23, <2>2 DEF Resend
<1> QED
  BY <1>11, <1>12, <1>13, <1>14, <1>15, <1>16, <1>17, <1>18, <1>19, <1>20, <1>21, <1>22, <1>23
     DEF Next, Recovery, Process

LEMMA PushIsNackNext == TypeInv /\ PushIsNack /\ [Next]_vars => PushIsNack'
<1> SUFFICES ASSUME TypeInv, PushIsNack, [Next]_vars PROVE PushIsNack'
  OBVIOUS
<1> USE AgentFacts
<1> USE DEF PushIsNack, removal, Goto
<1>0. /\ DOMAIN pc = Agents /\ DOMAIN call = Agents
      /\ \A a \in Agents : call[a] \in {"AckJob", "NackJob"}
  BY DEF TypeInv, TypeOK
<1>1. ASSUME NEW j \in Jobs, Submit(j) \/ Delete(j) \/ LateUpdate(j) PROVE PushIsNack'
  BY <1>1 DEF Submit, Delete, LateUpdate, Put
<1>2. ASSUME NEW w \in Workers, Pop(w) \/ DropJunk(w) \/ Stamp(w) \/ WorkerStops(w)
      PROVE  PushIsNack'
  BY <1>0, <1>2 DEF Pop, DropJunk, Stamp, WorkerStops
<1>3. ASSUME NEW w \in Workers,
             ReportRunning(w) \/ ReportResult(w) \/ ResultLost(w) \/ Return(w)
      PROVE  PushIsNack'
  BY <1>0, <1>3 DEF ReportRunning, ReportResult, ResultLost, Return
<1>4. ASSUME NEW a \in Agents, Removal(a) PROVE PushIsNack'
  <2>1. CASE Lrem(a) \/ LremUnanswered(a) \/ Lrange(a) \/ LremById(a)
    BY <1>0, <2>1 DEF Lrem, LremUnanswered, Lrange, LremById
  <2>2. CASE LremFails(a) \/ LpushFails(a)
    BY <1>0, <2>2 DEF LremFails, LpushFails, Resume
  <2>4. CASE Push(a)
    BY <1>0, <2>4 DEF Push, Lpush, LpushUnanswered, Pushes, Resume
  <2>3. CASE Hdel(a)
    BY <1>0, <2>3 DEF Hdel, Resume
  <2> QED
    BY <1>4, <2>1, <2>2, <2>3, <2>4 DEF Removal, Push
<1>5. ASSUME NEW p \in Procs, RecoverStart(p) \/ ScanDone(p) \/ ScanDiscard(p) \/ ScanLook(p)
      PROVE  PushIsNack'
  BY <1>0, <1>5 DEF RecoverStart, ScanDone, ScanDiscard, ScanLook, Visit
<1>6. ASSUME NEW p \in Procs, Restamp(p) \/ Query(p) \/ QueryFails(p) \/ RecoveryStops(p)
      PROVE  PushIsNack'
  BY <1>0, <1>6 DEF Restamp, Query, QueryFails, RecoveryStops
<1>7. ASSUME NEW p \in Procs, Process(p) PROVE PushIsNack'
  BY <1>0, <1>7 DEF Process, Cancel, Exit, Crash, Restart
<1>8. CASE Tick \/ UNCHANGED vars
  BY <1>8 DEF Tick, vars
<1>9. ASSUME NEW a \in Agents, Resend(a) PROVE PushIsNack'
  BY <1>0, <1>9 DEF Resend
<1> QED
  BY <1>1, <1>2, <1>3, <1>4, <1>5, <1>6, <1>7, <1>8, <1>9 DEF Next, Worker, Recovery

(* Where the entries come from that a pass has at hand. *)
LEMMA PassSources ==
    ASSUME NEW p \in Procs, Alone(p), Alone(p)', TypeInv, [Next]_vars
    PROVE  /\ \A i \in DOMAIN rest'[p] :
                 \/ \E k \in DOMAIN rest[p] : rest'[p][i] = rest[p][k]
                 \/ \E k \in DOMAIN processing : rest'[p][i] = processing[k]
           /\ pc'[p] \in InPass =>
                 \/ pc[p] \in InPass /\ msg'[p] = msg[p]
                 \/ rest[p] # <<>> /\ msg'[p] = Head(rest[p])
<1> USE AgentFacts
<1> USE DEF removal, pass, world, Goto, Take
<1> DEFINE Known == \A i \in DOMAIN rest'[p] :
                       \/ \E k \in DOMAIN rest[p] : rest'[p][i] = rest[p][k]
                       \/ \E k \in DOMAIN processing : rest'[p][i] = processing[k]
           Held  == pc'[p] \in InPass =>
                       \/ pc[p] \in InPass /\ msg'[p] = msg[p]
                       \/ rest[p] # <<>> /\ msg'[p] = Head(rest[p])
<1>0. /\ p \in Procs /\ p \in Agents /\ rest[p] \in Seq(Raw)
      /\ DOMAIN pc = Agents /\ DOMAIN msg = Agents /\ DOMAIN rest = Procs
  BY TypeFacts DEF TypeInv, TypeOK
<1> SUFFICES Known /\ Held
  OBVIOUS
<1>1. rest'[p] = rest[p] => Known
  OBVIOUS
<1>2. pc'[p] = pc[p] /\ msg'[p] = msg[p] => Held
  OBVIOUS
<1>3. pc'[p] \notin InPass => Held
  OBVIOUS
<1>4. rest[p] # <<>> /\ rest'[p] = Tail(rest[p]) => Known
  BY <1>0, TailEntry
<1> HIDE DEF Known, Held
<1>11. ASSUME NEW j \in Jobs, Submit(j) \/ Delete(j) \/ LateUpdate(j) PROVE Known /\ Held
  BY <1>1, <1>2, <1>11 DEF Submit, Delete, LateUpdate, Put
<1>12. ASSUME NEW w \in Workers, Worker(w) PROVE Known /\ Held
  BY <1>0, <1>1, <1>2, <1>12, WorkerFrame
<1>13. CASE Removal(p)
  <2>1. CASE Lrem(p) \/ LremUnanswered(p) \/ Lrange(p) \/ LremById(p) \/ LpushUnanswered(p)
    <3>1. UNCHANGED <<rest, msg>> /\ pc[p] \in InPass
      BY <2>1 DEF Lrem, LremUnanswered, Lrange, LremById, LpushUnanswered, Pushes, InPass, InRemoval
    <3> QED
      BY <1>1, <3>1 DEF Held
  <2>2. CASE LremFails(p) \/ LpushFails(p) \/ Lpush(p)
    BY <1>0, <1>1, <1>3, <2>2 DEF LremFails, LpushFails, Lpush, Pushes, Resume, InPass, InRemoval
  <2>3. CASE Hdel(p)
    <3>1. CASE call[p] = "AckJob"
      BY <1>0, <1>1, <1>3, <2>3, <3>1 DEF Hdel, Resume, InPass, InRemoval
    <3>2. CASE call[p] # "AckJob"
      BY <1>0, <1>1, <2>3, <3>2 DEF Hdel, InPass, InRemoval, Held
    <3> QED
      BY <3>1, <3>2
  <2> QED
    BY <1>13, <2>1, <2>2, <2>3 DEF Removal
<1>14. CASE RecoverStart(p)
  BY <1>0, <1>3, <1>14 DEF RecoverStart, Known, InPass, InRemoval
<1>15. CASE ScanDone(p) \/ QueryFails(p) \/ RecoveryStops(p)
  BY <1>0, <1>1, <1>3, <1>15 DEF ScanDone, QueryFails, RecoveryStops, InPass, InRemoval
<1>16. CASE ScanDiscard(p)
  BY <1>0, <1>2, <1>4, <1>16 DEF ScanDiscard, Visit
<1>17. CASE ScanLook(p)
  <2>1. rest[p] # <<>> /\ rest'[p] = Tail(rest[p])
    BY <1>0, <1>17 DEF ScanLook, Visit
  <2>2. Held
    BY <1>0, <1>17, <2>1 DEF ScanLook, Held
  <2> QED
    BY <1>4, <2>1, <2>2
<1>18. CASE Restamp(p) \/ Query(p)
  BY <1>1, <1>18 DEF Restamp, Query, Held, InPass
<1>19. CASE Crash(p)
  BY <1>0, <1>3, <1>19 DEF Crash, Known, InPass, InRemoval
<1>20. CASE Restart(p)
  BY <1>0, <1>1, <1>3, <1>20 DEF Restart, InPass, InRemoval
<1>21. CASE Cancel(p) \/ Exit(p) \/ Tick \/ UNCHANGED vars
  BY <1>1, <1>2, <1>21 DEF Cancel, Exit, Tick, vars
<1>22. ASSUME NEW q \in Procs \ {p}, Recovery(q) \/ Process(q) PROVE Known /\ Held
  BY <1>1, <1>2, <1>22, ProcessFrame
<1>23. CASE Resend(p)
  BY <1>1, <1>2, <1>23 DEF Resend
<1> QED
  BY <1>11, <1>12, <1>13, <1>14, <1>15, <1>16, <1>17, <1>18, <1>19, <1>20, <1>21, <1>22, <1>23
     DEF Next, Recovery, Process

(* A submitted job stays submitted. *)
LEMMA StatusNext ==
    ASSUME TypeInv, [Next]_vars, NEW j \in Jobs, status[j] # "new"
    PROVE  status'[j] # "new"
<1> USE DEF backend
<1>0. DOMAIN status = Jobs
  BY DEF TypeInv, TypeOK
<1>1. ASSUME NEW i \in Jobs, Submit(i) \/ Delete(i) \/ LateUpdate(i) PROVE status'[j] # "new"
  BY <1>0, <1>1 DEF Submit, Delete, LateUpdate, Put
<1>2. ASSUME NEW w \in Workers, ReportRunning(w) \/ ReportResult(w) PROVE status'[j] # "new"
  BY <1>0, <1>2 DEF ReportRunning, ReportResult, Put
<1>3. ASSUME NEW w \in Workers, Pop(w) \/ DropJunk(w) \/ Stamp(w) \/ ResultLost(w)
                                \/ Return(w) \/ WorkerStops(w)
      PROVE  UNCHANGED status
  BY <1>3 DEF Pop, DropJunk, Stamp, ResultLost, Return, WorkerStops
<1>4. ASSUME NEW a \in Agents, Removal(a) PROVE UNCHANGED status
  BY <1>4, RemovalFacts
<1>5. ASSUME NEW p \in Procs, RecoverStart(p) \/ ScanDone(p) \/ ScanDiscard(p) \/ ScanLook(p)
                \/ Restamp(p) \/ Query(p) \/ QueryFails(p) \/ RecoveryStops(p)
      PROVE  UNCHANGED status
  BY <1>5 DEF RecoverStart, ScanDone, ScanDiscard, ScanLook, Restamp, Query, QueryFails,
              RecoveryStops
<1>6. ASSUME NEW p \in Procs, Process(p) PROVE UNCHANGED status
  BY <1>6 DEF Process, Cancel, Exit, Crash, Restart
<1>7. CASE Tick \/ UNCHANGED vars
  BY <1>7 DEF Tick, vars
<1>8. ASSUME NEW a, Resend(a) PROVE UNCHANGED status
  BY <1>8 DEF Resend
<1> QED
  BY <1>1, <1>2, <1>3, <1>4, <1>5, <1>6, <1>7, <1>8, AgentFacts DEF Next, Worker, Recovery

(* Requeueing is cut short by a failing LREM or LPUSH, or by a crash. *)
LEMMA WhoDrops ==
    ASSUME NEW p \in Procs, Alone(p), Alone(p)', TypeInv, [Next]_vars,
           ~ UNCHANGED dropped
    PROVE  /\ dropped' = dropped \cup {msg[p].id}
           /\ \/ LremFails(p) /\ pc[p] = "lremAgain"
              \/ LpushFails(p) /\ pc[p] = "lpush"
              \/ Crash(p) /\ InNackWindow(p)
<1> USE AgentFacts
<1> USE DEF history
<1>1. ASSUME NEW j \in Jobs, Submit(j) \/ Delete(j) \/ LateUpdate(j) PROVE FALSE
  BY <1>1 DEF Submit, Delete, LateUpdate, Put
<1>2. ASSUME NEW w \in Workers, Pop(w) \/ DropJunk(w) \/ Stamp(w) \/ WorkerStops(w)
                \/ ReportRunning(w) \/ ReportResult(w) \/ ResultLost(w) \/ Return(w)
      PROVE  FALSE
  BY <1>2 DEF Pop, DropJunk, Stamp, WorkerStops, ReportRunning, ReportResult, ResultLost, Return
<1>3. ASSUME NEW w \in Workers, Removal(w) PROVE FALSE
  <2>1. pc[w] \notin {"lpush", "lpushAgain"} /\ call[w] = "AckJob"
    BY DEF TypeInv, OwnCode, RecoveryOnly
  <2> QED
    BY <1>3, <2>1 DEF Removal, Lrem, LremUnanswered, LremFails, Lrange, LremById, Hdel,
                      Lpush, LpushUnanswered, LpushFails, Pushes
<1>4. ASSUME Lrem(p) \/ LremUnanswered(p) \/ Lrange(p) \/ LremById(p) \/ Hdel(p) \/ Push(p)
      PROVE  FALSE
  BY <1>4, PushFacts DEF Lrem, LremUnanswered, Lrange, LremById, Hdel
<1>5. ASSUME RecoverStart(p) \/ ScanDone(p) \/ ScanDiscard(p) \/ ScanLook(p)
                \/ Restamp(p) \/ Query(p) \/ QueryFails(p) \/ RecoveryStops(p)
      PROVE  FALSE
  BY <1>5 DEF RecoverStart, ScanDone, ScanDiscard, ScanLook, Restamp, Query, QueryFails,
              RecoveryStops
<1>6. ASSUME Cancel(p) \/ Exit(p) \/ Restart(p) \/ Tick \/ UNCHANGED vars PROVE FALSE
  BY <1>6 DEF Cancel, Exit, Restart, Tick, vars
<1>8. ASSUME NEW q \in Procs \ {p}, Recovery(q) \/ Process(q) PROVE FALSE
  BY <1>8, OthersStep
<1>9. ASSUME NEW a, Resend(a) PROVE FALSE
  BY <1>9 DEF Resend
<1>7. LremFails(p) \/ LpushFails(p) \/ Crash(p)
  BY <1>1, <1>2, <1>3, <1>4, <1>5, <1>6, <1>8, <1>9
     DEF Next, Worker, Recovery, Process, Removal, Push
<1> QED
  BY <1>7 DEF LremFails, LpushFails, Crash, Dropped, Id

LEMMA DroppedIsGoneNext ==
    ASSUME NEW p \in Procs, Alone(p), Alone(p)',
           TypeInv, NewIsNowhere, OneEntry, Snapshot, Withdrawn, DroppedIsGone, [Next]_vars
    PROVE  DroppedIsGone'
<1> USE AgentFacts
<1> USE DEF removal, pass, world, Goto, Take, Id
<1>0. /\ p \in Procs /\ p \in Agents /\ rest[p] \in Seq(Raw)
      /\ msg[p] \in Raw /\ processing \in Seq(Raw)
      /\ pc[p] \in InPass => msg[p].id \in Jobs
      /\ dropped \subseteq Jobs /\ Single' \subseteq Single /\ Single \subseteq Jobs
      /\ DOMAIN pc = Agents /\ DOMAIN rest = Procs
  BY TypeFacts, SingleNext DEF Single, TypeInv, TypeOK, InPass, WithEntry
<1>00. /\ \A q \in Procs : Push(q) => q = p
       /\ \A q \in Procs \ {p} : rest'[q] = <<>> /\ pc'[q] \notin InPass
  BY OtherRests, PushFacts DEF Alone, Idle, InPass, InRemoval
<1> SUFFICES ASSUME NEW j \in Single, j \in dropped'
             PROVE  /\ status'[j] # "new" /\ ~ Has(jobQueue', j) /\ ~ Has(processing', j)
                    /\ ~ Has(rest'[p], j)
                    /\ pc'[p] \in InPass => msg'[p].id # j
  <2>1. \A q \in Procs \ {p} : \A j : ~ Has(rest'[q], j)
    BY <1>00 DEF Has
  <2> QED
    BY <1>0, <1>00, <2>1 DEF DroppedIsGone, Waiting, Processing
<1>1. CASE j \in dropped
  <2>1. /\ status[j] # "new" /\ ~ Has(jobQueue, j) /\ ~ Has(processing, j)
        /\ ~ Has(rest[p], j) /\ (pc[p] \in InPass => msg[p].id # j)
    BY <1>0, <1>1 DEF DroppedIsGone, Waiting, Processing
  <2>2. status'[j] # "new"
    BY <1>0, <1>1, <2>1, StatusNext
  <2>3. ~ Has(jobQueue', j) /\ ~ Has(processing', j)
    <3>1. ASSUME NEW i \in Jobs, Submit(i) PROVE ~ Has(jobQueue', j) /\ ~ Has(processing', j)
      BY <2>1, <3>1, SubmitLists DEF Submit
    <3>2. ASSUME NEW w \in Workers, Pop(w) PROVE ~ Has(jobQueue', j) /\ ~ Has(processing', j)
      BY <2>1, <3>2, PopLists
    <3>3. CASE Push(p)
      <4>1. pc[p] \in InPass
        BY <3>3, PushFacts DEF InPass, InRemoval
      <4> QED
        BY <2>1, <3>3, <4>1, PushLists
    <3>4. CASE Shrinks
      BY <2>1, <3>4 DEF Shrinks
    <3> QED
      BY <1>00, <3>1, <3>2, <3>3, <3>4, OtherLists
  <2>4. ~ Has(rest'[p], j)
    BY <2>1, PassSources DEF Has
  <2>5. pc'[p] \in InPass => msg'[p].id # j
    <3>1. rest[p] # <<>> => Has(rest[p], Head(rest[p]).id)
      BY <1>0, TailEntry DEF Has
    <3> QED
      BY <2>1, <3>1, PassSources
  <2> QED
    BY <2>2, <2>3, <2>4, <2>5
<1>2. CASE j \notin dropped
  <2>1. /\ j = msg[p].id
        /\ \/ LremFails(p) /\ pc[p] = "lremAgain"
           \/ LpushFails(p) /\ pc[p] = "lpush"
           \/ Crash(p) /\ InNackWindow(p)
    BY <1>2, WhoDrops
  <2>2. pc[p] \in {"lremAgain", "lrange", "lremById", "hdel", "lpush"}
    BY <2>1 DEF InNackWindow
  <2>3. pc[p] \in InPass /\ pc[p] \in BeforePush
    BY <2>2 DEF BeforePush, InPass, InRemoval
  <2>4. /\ j \in Jobs /\ status[j] # "new"
        /\ ~ Has(jobQueue, j) /\ ~ Has(processing, j) /\ j \in seen[p]
    BY <1>0, <2>1, <2>2, <2>3 DEF Snapshot, Current, Withdrawn, Waiting, Processing, NewIsNowhere
  <2>5. ~ Has(rest[p], j)
    BY <1>0, <2>4 DEF Snapshot, Has
  <2>6. status'[j] # "new"
    BY <2>4, StatusNext
  <2>7. UNCHANGED <<jobQueue, processing>> /\ (rest'[p] = rest[p] \/ rest'[p] = <<>>) /\ pc'[p] \notin InPass
    <3>1. CASE LremFails(p) \/ LpushFails(p)
      BY <1>0, <3>1 DEF LremFails, LpushFails, Resume, redis, InPass, InRemoval
    <3>2. CASE Crash(p)
      BY <1>0, <3>2 DEF Crash, redis, InPass, InRemoval
    <3> QED
      BY <2>1, <3>1, <3>2
  <2> QED
    BY <2>4, <2>5, <2>6, <2>7 DEF Has
<1> QED
  BY <1>1, <1>2

--------------------------------------------------------------------------------
(* Init => QueueInv. *)
LEMMA QueueInit == Init => QueueInv
<1> SUFFICES ASSUME Init PROVE QueueInv
  OBVIOUS
<1>1. TypeInv /\ NewIsNowhere /\ FinishedIsSettled
  BY TypeInit, NewInit, FinishedInit
<1>2. DownIsOff
  BY AgentFacts DEF Init, DownIsOff
<1>3. Snapshot /\ Withdrawn
  BY AgentFacts DEF Init, Snapshot, Withdrawn, Distinct, InPass, BeforePush, InRemoval
<1>4. Distinct(jobQueue) /\ Distinct(processing)
  <2>1. jobQueue \in Seq({Junk})
    BY JobsAssumption DEF Init
  <2>2. \A i \in DOMAIN jobQueue : jobQueue[i].id = NoId
    BY <2>1, JunkIsRaw
  <2> QED
    BY <2>2, JobsAssumption DEF Init, Distinct, Single
<1>5. OneEntry
  BY <1>1, <1>4, AgentFacts DEF Init, OneEntry, NewIsNowhere, Requeueing, InNackWindow, Single
<1>6. NoSilentLoss /\ DroppedIsGone /\ PushIsNack
  BY AgentFacts DEF Init, NoSilentLoss, DroppedIsGone, PushIsNack, Single
<1> QED
  BY <1>1, <1>2, <1>3, <1>5, <1>6 DEF QueueInv

--------------------------------------------------------------------------------
LEMMA QueueNext ==
    ASSUME NEW p \in Procs, Alone(p), Alone(p)', TypeInv, QueueInv, [Next]_vars
    PROVE  (TypeInv /\ QueueInv)'
<1>1. TypeInv'
  BY TypeOKNext, OwnCodeNext, FoundIsOwnNext DEF TypeInv
<1>2. NewIsNowhere' /\ FinishedIsSettled' /\ DownIsOff' /\ PushIsNack'
  BY NewNext, FinishedNext, DownIsOffNext, PushIsNackNext DEF QueueInv
<1>3. Snapshot' /\ Withdrawn' /\ DroppedIsGone'
  BY SnapshotNext, WithdrawnNext, DroppedIsGoneNext DEF QueueInv
<1>4. OneEntry' /\ NoSilentLoss'
  BY <1>1, <1>3, OneEntryNext, NoSilentLossNext DEF QueueInv
<1> QED
  BY <1>1, <1>2, <1>3, <1>4 DEF QueueInv

(* As long as recoveries do not overlap, the inductive invariant holds:    *)
(* among others, what a recovery pass has still to visit is not waiting,   *)
(* its raw strings are those of the processing list (Snapshot), and a      *)
(* removed job has no entry left (Withdrawn), unless an LPUSH of that job  *)
(* was sent again.                                                         *)
THEOREM OnePassQueueInvariant == OnePassSpec => [](TypeInv /\ QueueInv)
<1> DEFINE Inv == OnePass /\ TypeInv /\ QueueInv
<1>1. Init => Inv
  BY TypeInit, QueueInit, AgentFacts DEF Init, OnePass, Idle
<1>2. Inv /\ [Next /\ OnePass']_vars => Inv'
  <2> SUFFICES ASSUME Inv, [Next /\ OnePass']_vars PROVE Inv'
    OBVIOUS
  <2>1. PICK p \in Procs : Alone(p) /\ Alone(p)'
    BY SomebodyAlone
  <2>2. (TypeInv /\ QueueInv)'
    BY <2>1, QueueNext
  <2>3. OnePass'
    BY DEF OnePass, Idle, vars
  <2> QED
    BY <2>2, <2>3
<1> QED
  BY <1>1, <1>2, PTL DEF OnePassSpec

(* As long as recoveries do not overlap, whatever the goroutines of any    *)
(* number of processes, their crashes and the failing Redis commands do, a *)
(* submitted job that no execution has finished is in one of the two       *)
(* lists, or held by the recovery that is about to push it back, unless    *)
(* that requeueing was cut short or its LPUSH was sent again.              *)
THEOREM OnePassLosesNothing == OnePassSpec => []NoSilentLoss
<1>1. TypeInv /\ QueueInv => NoSilentLoss
  BY DEF QueueInv
<1> QED
  BY OnePassQueueInvariant, <1>1, PTL

(* As long as recoveries do not overlap, no execution ID has two entries   *)
(* before an LPUSH of it is sent again: until then the break in            *)
(* removeByExecutionID, and removing by an equal raw string, is enough.    *)
(* (When they overlap it is not so: see queue_duplicates.)                 *)
THEOREM OnePassOneEntry == OnePassSpec => []OneEntry
<1>1. TypeInv /\ QueueInv => OneEntry
  BY DEF QueueInv
<1> QED
  BY OnePassQueueInvariant, <1>1, PTL

--------------------------------------------------------------------------------
(* With one worker process, recoveries cannot overlap. *)
LEMMA OneProcess == ASSUME NEW p, Procs = {p} PROVE Spec => OnePassSpec
<1>1. [Next]_vars => [Next /\ OnePass']_vars
  BY DEF OnePass
<1> QED
  BY <1>1, PTL DEF Spec, OnePassSpec

(* As the worker is deployed, in one process, the invariant holds in all   *)
(* behaviours (with its exceptions for a job whose LPUSH is sent again),   *)
THEOREM QueueInvariant == ASSUME NEW p, Procs = {p} PROVE Spec => [](TypeInv /\ QueueInv)
BY OneProcess, OnePassQueueInvariant, PTL

(* a submitted job is lost only by a requeueing that was cut short or that *)
(* pushed it twice,                                                        *)
THEOREM OneProcessLosesNothing == ASSUME NEW p, Procs = {p} PROVE Spec => []NoSilentLoss
BY OneProcess, OnePassLosesNothing, PTL

(* and a second entry of a job comes only from an LPUSH that go-redis sent *)
(* again after its reply was lost.                                         *)
THEOREM OneProcessOneEntry == ASSUME NEW p, Procs = {p} PROVE Spec => []OneEntry
BY OneProcess, OnePassOneEntry, PTL
================================================================================
