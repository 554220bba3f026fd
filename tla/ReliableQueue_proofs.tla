-------------------------- MODULE ReliableQueue_proofs --------------------------
(***************************************************************************)
(* Theorems on ReliableQueue, for any number of jobs, workers, failing     *)
(* commands, crashes and ticks.                                            *)
(***************************************************************************)
EXTENDS ReliableQueueInv, ListLemmas

--------------------------------------------------------------------------------
(* The list commands on lists of entries. *)

LEMMA JunkIsRaw == Junk \in Raw /\ Junk.id = NoId
BY DEF Junk, Raw, Forms

LEMMA RemoveEntry ==
    ASSUME NEW l \in Seq(Raw), NEW r \in Raw
    PROVE  LET new == RemoveFirst(l, r) IN
           /\ new \in Seq(Raw)
           /\ \A i \in DOMAIN new : \E k \in DOMAIN l : new[i] = l[k]
           /\ \A j : Has(new, j) => Has(l, j)
           /\ \A j : Has(l, j) /\ j # r.id => Has(new, j)
           /\ Distinct(l) => Distinct(new)
           /\ Distinct(l) /\ r.id \in Single /\ Contains(l, r) => ~ Has(new, r.id)
<1> DEFINE new == RemoveFirst(l, r)
<1>1. CASE ~ Contains(l, r)
  <2>1. ~ \E i \in 1..Len(l) : l[i] = r
    BY <1>1 DEF Contains
  <2>2. new = l
    BY <2>1 DEF RemoveFirst
  <2> HIDE DEF new
  <2> QED
    BY <1>1, <2>2 DEF new
<1>2. CASE Contains(l, r)
  <2>1. /\ new \in Seq(Raw)
        /\ \E k \in 1..Len(l) :
             /\ l[k] = r
             /\ Len(new) = Len(l) - 1
             /\ \A i \in 1..(Len(l) - 1) : new[i] = IF i < k THEN l[i] ELSE l[i+1]
    BY <1>2, RemoveFirstProperties DEF Contains
  <2> HIDE DEF new
  <2>2. PICK k \in 1..Len(l) :
             /\ l[k] = r
             /\ Len(new) = Len(l) - 1
             /\ \A i \in 1..(Len(l) - 1) : new[i] = IF i < k THEN l[i] ELSE l[i+1]
    BY <2>1
  <2>3. /\ DOMAIN l = 1..Len(l) /\ DOMAIN new = 1..(Len(l) - 1)
        /\ Len(l) \in Nat
    BY <2>1, <2>2
  <2> DEFINE at(i) == IF i < k THEN i ELSE i + 1
  <2>4. \A i \in DOMAIN new : at(i) \in DOMAIN l /\ at(i) # k /\ new[i] = l[at(i)]
    BY <2>2, <2>3
  <2>5. \A m \in DOMAIN l : m # k => \E i \in DOMAIN new : new[i] = l[m]
    <3> SUFFICES ASSUME NEW m \in DOMAIN l, m # k
                 PROVE  \E i \in DOMAIN new : new[i] = l[m]
      OBVIOUS
    <3>1. CASE m < k
      BY <2>2, <2>3, <3>1
    <3>2. CASE m > k
      <4>1. m - 1 \in DOMAIN new /\ new[m - 1] = l[m]
        BY <2>2, <2>3, <3>2
      <4> QED
        BY <4>1
    <3> QED
      BY <2>3, <3>1, <3>2
  <2>6. \A j : Has(new, j) => Has(l, j)
    BY <2>4 DEF Has
  <2>7. \A j : Has(l, j) /\ j # r.id => Has(new, j)
    BY <2>2, <2>5 DEF Has
  <2>8. \A i, m \in DOMAIN new : i # m => at(i) # at(m)
    BY <2>3
  <2>9. \A i \in DOMAIN new : \E m \in DOMAIN l : new[i] = l[m]
    BY <2>4
  <2> HIDE DEF at
  <2>10. ASSUME Distinct(l) PROVE Distinct(new)
    BY <2>4, <2>8, <2>10 DEF Distinct
  <2>11. ASSUME Distinct(l), r.id \in Single PROVE ~ Has(new, r.id)
    <3>1. k \in DOMAIN l /\ l[k].id = r.id
      BY <2>2, <2>3
    <3> QED
      BY <2>4, <2>11, <3>1 DEF Distinct, Has
  <2> QED
    BY <2>1, <2>6, <2>7, <2>9, <2>10, <2>11 DEF new
<1> QED
  BY <1>1, <1>2

LEMMA PushEntry ==
    ASSUME NEW l \in Seq(Raw), NEW r \in Raw
    PROVE  LET new == Cons(r, l) IN
           /\ new \in Seq(Raw)
           /\ \A i \in DOMAIN new : new[i] = r \/ \E k \in DOMAIN l : new[i] = l[k]
           /\ \A j : Has(new, j) <=> Has(l, j) \/ j = r.id
           /\ Distinct(l) /\ (r.id \notin Single \/ ~ Has(l, r.id)) => Distinct(new)
           /\ Distinct(l) => \A i, k \in DOMAIN new :
                 new[i].id = new[k].id /\ i # k => new[i].id \notin Single \/ new[i].id = r.id
<1> DEFINE new == Cons(r, l)
<1>1. /\ new \in Seq(Raw) /\ Len(new) = Len(l) + 1
      /\ new[1] = r /\ \A i \in 1..Len(l) : new[i+1] = l[i]
  BY ConsProperties
<1> HIDE DEF new
<1>2. /\ DOMAIN l = 1..Len(l) /\ DOMAIN new = 1..(Len(l) + 1)
      /\ Len(l) \in Nat
  BY <1>1
<1>3. \A i \in DOMAIN new : i = 1 \/ (i - 1 \in DOMAIN l /\ new[i] = l[i-1])
  BY <1>1, <1>2
<1>4. \A i \in DOMAIN l : i + 1 \in DOMAIN new /\ new[i+1] = l[i]
  BY <1>1, <1>2
<1>5. 1 \in DOMAIN new
  BY <1>2
<1>6. \A j : Has(new, j) <=> Has(l, j) \/ j = r.id
  BY <1>1, <1>3, <1>4, <1>5 DEF Has
<1>7. ASSUME Distinct(l), r.id \notin Single \/ ~ Has(l, r.id) PROVE Distinct(new)
  <2> SUFFICES ASSUME NEW i \in DOMAIN new, NEW k \in DOMAIN new,
                      new[i].id = new[k].id, i # k
               PROVE  new[i].id \notin Single
    BY DEF Distinct
  <2>1. CASE i = 1 \/ k = 1
    BY <1>1, <1>3, <1>7, <2>1 DEF Has
  <2>2. CASE i # 1 /\ k # 1
    BY <1>2, <1>3, <1>7, <2>2 DEF Distinct
  <2> QED
    BY <2>1, <2>2
<1>8. ASSUME Distinct(l), NEW i \in DOMAIN new, NEW k \in DOMAIN new,
             new[i].id = new[k].id, i # k
      PROVE  new[i].id \notin Single \/ new[i].id = r.id
  <2>1. CASE i = 1 \/ k = 1
    BY <1>1, <1>8, <2>1
  <2>2. CASE i # 1 /\ k # 1
    BY <1>2, <1>3, <1>8, <2>2 DEF Distinct
  <2> QED
    BY <2>1, <2>2
<1> QED
  BY <1>1, <1>3, <1>6, <1>7, <1>8 DEF new

LEMMA AppendEntry ==
    ASSUME NEW l \in Seq(Raw), NEW r \in Raw
    PROVE  LET new == Append(l, r) IN
           /\ new \in Seq(Raw)
           /\ \A j : Has(new, j) <=> Has(l, j) \/ j = r.id
           /\ Distinct(l) /\ ~ Has(l, r.id) => Distinct(new)
<1> DEFINE new == Append(l, r)
<1>1. /\ new \in Seq(Raw) /\ DOMAIN new = 1..(Len(l) + 1)
      /\ new[Len(l) + 1] = r /\ \A i \in 1..Len(l) : new[i] = l[i]
  BY AppendProperties
<1> HIDE DEF new
<1>2. DOMAIN l = 1..Len(l) /\ Len(l) \in Nat
  OBVIOUS
<1>3. \A j : Has(new, j) <=> Has(l, j) \/ j = r.id
  BY <1>1, <1>2 DEF Has
<1>4. ASSUME Distinct(l), ~ Has(l, r.id) PROVE Distinct(new)
  BY <1>1, <1>2, <1>4 DEF Distinct, Has
<1> QED
  BY <1>1, <1>3, <1>4 DEF new

LEMMA PopEntry ==
    ASSUME NEW l \in Seq(Raw), l # <<>>
    PROVE  /\ Last(l) \in Raw /\ Front(l) \in Seq(Raw)
           /\ Has(l, Last(l).id)
           /\ \A j : Has(l, j) <=> Has(Front(l), j) \/ j = Last(l).id
           /\ Distinct(l) => /\ Distinct(Front(l))
                             /\ Last(l).id \in Single => ~ Has(Front(l), Last(l).id)
<1>1. /\ Last(l) \in Raw /\ Front(l) \in Seq(Raw) /\ Len(Front(l)) = Len(l) - 1
      /\ \A i \in 1..(Len(l) - 1) : Front(l)[i] = l[i]
  BY FrontProperties
<1>2. /\ Len(l) \in Nat \ {0} /\ DOMAIN l = 1..Len(l)
      /\ DOMAIN Front(l) = 1..(Len(l) - 1)
      /\ Last(l) = l[Len(l)]
  BY <1>1 DEF Last
<1>3. \A i \in DOMAIN l : i = Len(l) \/ (i \in DOMAIN Front(l) /\ Front(l)[i] = l[i])
  BY <1>1, <1>2
<1>4. \A j : Has(l, j) <=> Has(Front(l), j) \/ j = Last(l).id
  BY <1>1, <1>2, <1>3 DEF Has
<1>5. ASSUME Distinct(l)
      PROVE  Distinct(Front(l)) /\ (Last(l).id \in Single => ~ Has(Front(l), Last(l).id))
  BY <1>1, <1>2, <1>5 DEF Distinct, Has
<1> QED
  BY <1>1, <1>4, <1>5

LEMMA TailEntry ==
    ASSUME NEW l \in Seq(Raw), l # <<>>
    PROVE  /\ Head(l) \in Raw /\ Tail(l) \in Seq(Raw)
           /\ \E i \in DOMAIN l : Head(l) = l[i]
           /\ \A i \in DOMAIN Tail(l) : \E k \in DOMAIN l : Tail(l)[i] = l[k]
           /\ Distinct(l) => /\ Distinct(Tail(l))
                             /\ Head(l).id \in Single => ~ Has(Tail(l), Head(l).id)
<1>1. /\ Head(l) \in Raw /\ Tail(l) \in Seq(Raw) /\ Len(Tail(l)) = Len(l) - 1
      /\ \A i \in 1..(Len(l) - 1) : Tail(l)[i] = l[i+1]
  BY HeadTailProperties
<1>2. /\ Len(l) \in Nat \ {0} /\ DOMAIN l = 1..Len(l)
      /\ DOMAIN Tail(l) = 1..(Len(l) - 1)
      /\ Head(l) = l[1]
  BY <1>1
<1>3. \A i \in DOMAIN Tail(l) : i + 1 \in DOMAIN l /\ i + 1 # 1 /\ Tail(l)[i] = l[i+1]
  BY <1>1, <1>2
<1>4. 1 \in DOMAIN l
  BY <1>2
<1>5. ASSUME Distinct(l)
      PROVE  Distinct(Tail(l)) /\ (Head(l).id \in Single => ~ Has(Tail(l), Head(l).id))
  <2>1. Distinct(Tail(l))
    BY <1>2, <1>3, <1>5 DEF Distinct
  <2>2. Head(l).id \in Single => ~ Has(Tail(l), Head(l).id)
    BY <1>2, <1>3, <1>4, <1>5 DEF Distinct, Has
  <2> QED
    BY <2>1, <2>2
<1> QED
  BY <1>1, <1>2, <1>3, <1>4, <1>5

(* The part of a list from the first entry of a job on. *)
LEMMA FromFirstProperties ==
    ASSUME NEW l \in Seq(Raw), NEW j
    PROVE  /\ FromFirst(l, j) \in Seq(Raw)
           /\ FromFirst(l, j) # <<>> => Head(FromFirst(l, j)).id = j /\ Has(l, j)
<1> DEFINE I == {i \in 1..Len(l) : l[i].id = j}
           k == SelectInSeq(l, LAMBDA r : r.id = j)
<1>1. k = IF I # {} THEN Min(I) ELSE 0
  BY DEF SelectInSeq
<1>2. I \in SUBSET Nat
  OBVIOUS
<1>3. k = 0 \/ (k \in 1..Len(l) /\ l[k].id = j)
  BY <1>1, <1>2, MinProperties
<1>4. FromFirst(l, j) = IF k = 0 THEN <<>> ELSE SubSeq(l, k, Len(l))
  BY DEF FromFirst
<1> HIDE DEF k
<1>5. CASE k = 0
  BY <1>4, <1>5
<1>6. CASE k # 0
  <2>1. /\ k \in 1..Len(l) /\ l[k].id = j
        /\ \A i \in k..Len(l) : l[i] \in Raw
    BY <1>3, <1>6
  <2>2. /\ SubSeq(l, k, Len(l)) \in Seq(Raw)
        /\ Len(SubSeq(l, k, Len(l))) = Len(l) - k + 1
        /\ SubSeq(l, k, Len(l))[1] = l[k]
    BY <2>1
  <2>3. Head(SubSeq(l, k, Len(l))) = l[k]
    BY <2>1, <2>2
  <2>4. Has(l, j)
    BY <2>1 DEF Has
  <2> QED
    BY <1>4, <1>6, <2>1, <2>2, <2>3, <2>4
<1> QED
  BY <1>5, <1>6

--------------------------------------------------------------------------------
(* Type correctness. *)

LEMMA AgentFacts ==
    /\ \A w \in Workers : w \in Agents /\ w \notin Procs
    /\ \A p \in Procs : p \in Agents /\ p \notin Workers /\ ProcOf[p] = p
    /\ \A a \in Agents : ProcOf[a] \in Procs /\ (a \in Workers \/ a \in Procs)
BY AgentsAssumption DEF Agents

LEMMA AgeFacts ==
    /\ None \in Ages /\ 0 \in Ages
    /\ 0..MaxLag \subseteq Ages
    /\ \A age \in Ages : Older(age) \in Ages
BY BoundsAssumption DEF Ages, None, MaxAge, Older

LEMMA BoundFacts == MaxLag \in Nat /\ MaxFaults \in Nat /\ MaxDowns \in Nat
BY BoundsAssumption

LEMMA TypeInit == Init => TypeInv
<1> SUFFICES ASSUME Init PROVE TypeInv
  OBVIOUS
<1>1. jobQueue \in Seq(Raw)
  <2>1. Seq({Junk}) \subseteq Seq(Raw)
    BY JunkIsRaw
  <2> QED
    BY <2>1, JobsAssumption DEF Init
<1>2. TypeOK
  BY <1>1, JunkIsRaw, BoundFacts, AgeFacts, AgentFacts DEF Init, TypeOK, Statuses
<1>3. OwnCode
  BY AgentFacts, JunkIsRaw DEF Init, OwnCode, WorkerOnly, RecoveryOnly, WithEntry, InRemoval
<1>4. FoundIsOwn
  BY <1>2 DEF Init, FoundIsOwn
<1> QED
  BY <1>2, <1>3, <1>4 DEF TypeInv

LEMMA TypeFacts ==
    ASSUME TypeInv
    PROVE  /\ jobQueue \in Seq(Raw) /\ processing \in Seq(Raw)
           /\ settled \subseteq Jobs /\ dropped \subseteq Jobs /\ doubled \subseteq Jobs
           /\ \A a \in Agents :
                 /\ msg[a] \in Raw /\ found[a] \in Seq(Raw)
                 /\ pc[a] \in WithEntry => msg[a].id \in Jobs
                 /\ pc[a] = "lremById" => found[a] # <<>>
           /\ \A p \in Procs : rest[p] \in Seq(Raw)
BY DEF TypeInv, TypeOK, OwnCode, FoundIsOwn, Id

(* No job becomes single again. *)
LEMMA SingleNext ==
    ASSUME [Next]_vars
    PROVE  /\ doubled \subseteq doubled' /\ Single' \subseteq Single
           /\ \A l : Distinct(l) => (\A i, k \in DOMAIN l : l[i].id = l[k].id /\ i # k
                                                        => l[i].id \notin Single')
<1> USE DEF history
<1>1. ASSUME NEW j \in Jobs, Submit(j) \/ Delete(j) \/ LateUpdate(j) PROVE UNCHANGED doubled
  BY <1>1 DEF Submit, Delete, LateUpdate
<1>2. ASSUME NEW w \in Workers, Pop(w) \/ DropJunk(w) \/ Stamp(w) \/ ResultLost(w)
                                \/ Return(w) \/ WorkerStops(w)
                                \/ ReportRunning(w) \/ ReportResult(w)
      PROVE  UNCHANGED doubled
  BY <1>2 DEF Pop, DropJunk, Stamp, ResultLost, Return, WorkerStops, ReportRunning, ReportResult
<1>3. ASSUME NEW a, Removal(a) PROVE doubled \subseteq doubled'
  BY <1>3 DEF Removal, Lrem, LremUnanswered, LremFails, Lrange, LremById, Hdel,
              Lpush, LpushUnanswered, LpushFails, Pushes
<1>4. ASSUME NEW p \in Procs, RecoverStart(p) \/ ScanDone(p) \/ ScanDiscard(p) \/ ScanLook(p)
                \/ Restamp(p) \/ Query(p) \/ QueryFails(p) \/ RecoveryStops(p)
      PROVE  UNCHANGED doubled
  BY <1>4 DEF RecoverStart, ScanDone, ScanDiscard, ScanLook, Restamp, Query, QueryFails,
              RecoveryStops
<1>5. ASSUME NEW p \in Procs, Process(p) PROVE UNCHANGED doubled
  BY <1>5 DEF Process, Cancel, Exit, Crash, Restart
<1>6. ASSUME NEW a, Resend(a) PROVE UNCHANGED doubled
  BY <1>6 DEF Resend
<1>7. ASSUME Tick \/ UNCHANGED vars PROVE UNCHANGED doubled
  BY <1>7 DEF Tick, vars
<1>8. doubled \subseteq doubled'
  BY <1>1, <1>2, <1>3, <1>4, <1>5, <1>6, <1>7 DEF Next, Worker, Recovery
<1>9. Single' \subseteq Single
  BY <1>8 DEF Single
<1> QED
  BY <1>8, <1>9 DEF Distinct

LEMMA OwnFacts ==
    ASSUME TypeInv, NEW a \in Agents
    PROVE  /\ pc[a] \in {"restamp", "query", "scan", "lpush", "lpushAgain"} => a \in Procs
           /\ pc[a] \in {"junk", "stamp", "exec", "reported"} => a \in Workers
BY AgentFacts DEF TypeInv, OwnCode, WorkerOnly, RecoveryOnly

(* A command that is sent again removes entries, if anything. *)
LEMMA ResendRemoves ==
    ASSUME TypeInv, NEW a \in Agents, Resend(a)
    PROVE  processing' = processing \/ \E r \in Raw : processing' = RemoveFirst(processing, r)
<1>1. CASE processing' = RemoveFirst(processing, msg[a])
  BY <1>1, TypeFacts
<1>2. CASE pc[a] = "lremById" /\ processing' = RemoveFirst(processing, Head(found[a]))
  BY <1>2, TypeFacts, TailEntry
<1>3. CASE pc[a] = "scan" /\ rest[a] # <<>> /\ processing' = RemoveFirst(processing, Head(rest[a]))
  <2>1. a \in Procs
    BY <1>3, OwnFacts
  <2> QED
    BY <1>3, <2>1, TypeFacts, TailEntry
<1> QED
  BY <1>1, <1>2, <1>3 DEF Resend

LEMMA TypeOKNext == TypeInv /\ [Next]_vars => TypeOK'
<1> SUFFICES ASSUME TypeInv, [Next]_vars PROVE TypeOK'
  OBVIOUS
<1> USE AgentFacts, BoundFacts
<1> USE DEF redis, backend, removal, pass, world, history, Goto, Take, Id, Running, Works, Fails, Faulty, Unanswered, GivesUp
<1>0. TypeOK
  BY DEF TypeInv
<1>00. /\ timestamps \in [Jobs -> Ages] /\ faults \in 0..MaxFaults
       /\ msg \in [Agents -> Raw] /\ found \in [Agents -> Seq(Raw)]
  BY <1>0 DEF TypeOK
<1>1. ASSUME NEW j \in Jobs, Submit(j) PROVE TypeOK'
  <2>1. [id |-> j, form |-> "backend"] \in Raw
    BY DEF Raw, Forms
  <2>2. Append(jobQueue, [id |-> j, form |-> "backend"]) \in Seq(Raw)
    BY <2>1, AppendEntry, TypeFacts
  <2> QED
    BY <1>0, <1>1, <2>2 DEF Submit, Statuses, TypeOK
<1>2. ASSUME NEW j \in Jobs, Delete(j) \/ LateUpdate(j) PROVE TypeOK'
  <2>1. \E s \in Statuses : status' = [status EXCEPT ![j] = s] \/ status' = status
    BY <1>2 DEF Delete, LateUpdate, Put, Statuses
  <2>2. status \in [Jobs -> Statuses]
    BY <1>0 DEF TypeOK
  <2>3. status' \in [Jobs -> Statuses]
    BY <2>1, <2>2
  <2>4. faults' \in 0..MaxFaults
    BY <1>00, <1>2 DEF Delete, LateUpdate
  <2> QED
    BY <1>0, <1>2, <2>3, <2>4 DEF Delete, LateUpdate, TypeOK
<1>3. ASSUME NEW w \in Workers, Pop(w) PROVE TypeOK'
  <2>1. Last(jobQueue) \in Raw /\ Front(jobQueue) \in Seq(Raw)
    BY <1>3, PopEntry, TypeFacts DEF Pop
  <2>2. Cons(Last(jobQueue), processing) \in Seq(Raw)
    BY <2>1, PushEntry, TypeFacts
  <2>3. jobQueue' \in Seq(Raw) /\ processing' \in Seq(Raw) /\ faults' \in 0..MaxFaults
    BY <1>0, <1>3, <2>1, <2>2 DEF Pop, TypeOK
  <2>4. msg' = msg \/ msg' = [msg EXCEPT ![w] = Last(jobQueue)]
    BY <1>3 DEF Pop
  <2>6. msg' \in [Agents -> Raw]
    BY <1>00, <2>1, <2>4
  <2>5. pc' = pc \/ pc' = [pc EXCEPT ![w] = "junk"] \/ pc' = [pc EXCEPT ![w] = "stamp"]
    BY <1>3 DEF Pop
  <2> QED
    <3>1. UNCHANGED <<timestamps, status, settled, found, call, rest, seen, lag, ctx, downs, dropped, doubled>>
      BY <1>3 DEF Pop
    <3> QED
      BY <1>0, <2>3, <2>5, <2>6, <3>1 DEF TypeOK
<1>4. ASSUME NEW w \in Workers, DropJunk(w) PROVE TypeOK'
  <2>1. RemoveFirst(processing, msg[w]) \in Seq(Raw)
    BY RemoveEntry, TypeFacts
  <2> QED
    BY <1>0, JunkIsRaw, <1>4, <2>1 DEF DropJunk, LremIgnoringError, TypeOK
<1>5. ASSUME NEW w \in Workers, Stamp(w) PROVE TypeOK'
  <2>1. timestamps' \in [Jobs -> Ages] /\ faults' \in 0..MaxFaults
    <3>1. timestamps' = timestamps \/ timestamps' = [timestamps EXCEPT ![msg[w].id] = 0]
      BY <1>5 DEF Stamp
    <3>2. faults' = faults \/ (faults < MaxFaults /\ faults' = faults + 1)
      BY <1>5 DEF Stamp
    <3> QED
      BY <1>00, <3>1, <3>2, AgeFacts
  <2> QED
    BY <1>0, <1>5, <2>1 DEF Stamp, TypeOK
<1>6. ASSUME NEW w \in Workers, ReportRunning(w) PROVE TypeOK'
  BY <1>0, <1>6 DEF ReportRunning, Put, Statuses, TypeOK
<1>7. ASSUME NEW w \in Workers, ReportResult(w) PROVE TypeOK'
  BY <1>0, <1>7, TypeFacts DEF ReportResult, Put, Statuses, TypeOK, WithEntry
<1>8. ASSUME NEW w \in Workers, ResultLost(w) PROVE TypeOK'
  BY <1>0, <1>8 DEF ResultLost, TypeOK
<1>9. ASSUME NEW w \in Workers, Return(w) PROVE TypeOK'
  BY <1>0, <1>9, TypeFacts DEF Return, TypeOK, WithEntry
<1>10. ASSUME NEW w \in Workers, WorkerStops(w) PROVE TypeOK'
  BY <1>0, <1>10 DEF WorkerStops, TypeOK
<1>11. ASSUME NEW a \in Agents, Removal(a) PROVE TypeOK'
  <2>0. RemoveFirst(processing, msg[a]) \in Seq(Raw)
    BY RemoveEntry, TypeFacts
  <2>1. CASE Lrem(a)
    BY <1>0, <2>0, <2>1 DEF Lrem, TypeOK
  <2>2. CASE LremFails(a)
    <3>1. dropped' \subseteq Jobs
      BY <2>2, TypeFacts DEF LremFails, Dropped, WithEntry, InRemoval
    <3>2. faults' \in 0..MaxFaults
      BY <1>00, <2>2 DEF LremFails
    <3>3. Resume(a) /\ UNCHANGED <<redis, backend, pass, world, doubled>>
      BY <2>2 DEF LremFails
    <3> QED
      BY <1>0, <3>1, <3>2, <3>3, JunkIsRaw DEF Resume, TypeOK
  <2>3. CASE Lrange(a)
    <3>1. FromFirst(processing, msg[a].id) \in Seq(Raw)
      BY FromFirstProperties, TypeFacts
    <3>2. found' \in [Agents -> Seq(Raw)] /\ faults' \in 0..MaxFaults
      <4>1. \/ found' = [found EXCEPT ![a] = <<>>]
            \/ found' = [found EXCEPT ![a] = FromFirst(processing, msg[a].id)]
        BY <2>3 DEF Lrange
      <4>2. faults' = faults \/ (faults < MaxFaults /\ faults' = faults + 1)
        BY <2>3 DEF Lrange
      <4>3. found' \in [Agents -> Seq(Raw)]
        <5> DEFINE F == FromFirst(processing, msg[a].id)
        <5> HIDE DEF F
        <5>1. F \in Seq(Raw) /\ <<>> \in Seq(Raw)
          BY <3>1 DEF F
        <5>2. found' = [found EXCEPT ![a] = <<>>] \/ found' = [found EXCEPT ![a] = F]
          BY <4>1 DEF F
        <5> QED
          BY <1>00, <5>1, <5>2
      <4>4. faults' \in 0..MaxFaults
        BY <1>00, <4>2
      <4> QED
        BY <4>3, <4>4
    <3>3. pc' = [pc EXCEPT ![a] = "hdel"] \/ pc' = [pc EXCEPT ![a] = "lremById"]
      BY <2>3 DEF Lrange
    <3> QED
      BY <1>0, <2>3, <3>2, <3>3 DEF Lrange, TypeOK
  <2>4. CASE LremById(a)
    <3>1. Head(found[a]) \in Raw /\ Tail(found[a]) \in Seq(Raw)
      BY <2>4, TailEntry, TypeFacts DEF LremById
    <3>2. RemoveFirst(processing, Head(found[a])) \in Seq(Raw)
      BY <3>1, RemoveEntry, TypeFacts
    <3>3. FromFirst(Tail(found[a]), msg[a].id) \in Seq(Raw)
      BY <3>1, FromFirstProperties, TypeFacts
    <3>4. processing' \in Seq(Raw) /\ faults' \in 0..MaxFaults
      BY <1>0, <2>4, <3>2 DEF LremById, LremError, TypeOK
    <3>5. found' \in [Agents -> Seq(Raw)]
      <4>1. \/ found' = [found EXCEPT ![a] = <<>>]
            \/ found' = [found EXCEPT ![a] = FromFirst(Tail(found[a]), msg[a].id)]
        BY <2>4 DEF LremById
      <4>2. <<>> \in Seq(Raw)
        OBVIOUS
      <4> DEFINE F == FromFirst(Tail(found[a]), msg[a].id)
      <4> HIDE DEF F
      <4>3. found' = [found EXCEPT ![a] = <<>>] \/ found' = [found EXCEPT ![a] = F]
        BY <4>1 DEF F
      <4>4. F \in Seq(Raw)
        BY <3>3 DEF F
      <4> QED
        BY <1>00, <4>2, <4>3, <4>4
    <3>6. pc' = [pc EXCEPT ![a] = "hdel"] \/ pc' = [pc EXCEPT ![a] = "lremById"]
      BY <2>4 DEF LremById
    <3> QED
      BY <1>0, <2>4, <3>4, <3>5, <3>6 DEF LremById, TypeOK
  <2>5. CASE Hdel(a)
    <3>1. timestamps' \in [Jobs -> Ages] /\ faults' \in 0..MaxFaults
      <4>1. timestamps' = timestamps \/ timestamps' = [timestamps EXCEPT ![msg[a].id] = None]
        BY <2>5 DEF Hdel
      <4>2. faults' = faults \/ (faults < MaxFaults /\ faults' = faults + 1)
        BY <2>5 DEF Hdel
      <4>3. timestamps' \in [Jobs -> Ages]
        BY <1>00, <4>1, AgeFacts
      <4>4. faults' \in 0..MaxFaults
        BY <1>00, <4>2
      <4> QED
        BY <4>3, <4>4
    <3>2. CASE call[a] = "AckJob"
      <4>1. Resume(a) /\ UNCHANGED <<jobQueue, processing, status, settled, rest, seen, lag, ctx, downs, dropped, doubled>>
        BY <2>5, <3>2 DEF Hdel
      <4> QED
        BY <1>0, <3>1, <4>1, JunkIsRaw DEF Resume, TypeOK
    <3>3. CASE call[a] # "AckJob"
      BY <1>0, <2>5, <3>1, <3>3 DEF Hdel, TypeOK
    <3> QED
      BY <3>2, <3>3
  <2>6. CASE Lpush(a) \/ LpushUnanswered(a)
    <3>1. Requeued(msg[a].id) \in Raw /\ msg[a].id \in Jobs
      BY <2>6, TypeFacts DEF Lpush, LpushUnanswered, Pushes, Requeued, Raw, Forms, WithEntry, InRemoval
    <3>2. Cons(Requeued(msg[a].id), jobQueue) \in Seq(Raw)
      BY <3>1, PushEntry, TypeFacts
    <3>3. Pushes(a)
      BY <2>6 DEF Lpush, LpushUnanswered
    <3>4. jobQueue' \in Seq(Raw) /\ doubled' \subseteq Jobs
      BY <3>1, <3>2, <3>3, TypeFacts DEF Pushes
    <3>5. UNCHANGED <<processing, timestamps, backend, pass, world, dropped>>
      BY <3>3 DEF Pushes
    <3>6. CASE Lpush(a)
      BY <1>0, <3>4, <3>5, <3>6, JunkIsRaw DEF Lpush, Resume, TypeOK
    <3>7. CASE LpushUnanswered(a)
      <4>1. faults' \in 0..MaxFaults
        BY <1>00, <3>7 DEF LpushUnanswered
      <4>2. Goto(a, "lpushAgain") /\ UNCHANGED <<msg, removal>>
        BY <3>7 DEF LpushUnanswered
      <4> QED
        BY <1>0, <3>4, <3>5, <4>1, <4>2 DEF TypeOK
    <3> QED
      BY <2>6, <3>6, <3>7
  <2>7. CASE LpushFails(a)
    <3>1. dropped' \subseteq Jobs
      BY <2>7, TypeFacts DEF LpushFails, Dropped, WithEntry, InRemoval
    <3>2. faults' \in 0..MaxFaults
      BY <1>00, <2>7 DEF LpushFails
    <3>3. Resume(a) /\ UNCHANGED <<redis, backend, pass, world, doubled>>
      BY <2>7 DEF LpushFails
    <3> QED
      BY <1>0, <3>1, <3>2, <3>3, JunkIsRaw DEF Resume, TypeOK
  <2>8. CASE LremUnanswered(a)
    <3>1. faults' \in 0..MaxFaults
      BY <1>00, <2>8 DEF LremUnanswered
    <3> QED
      BY <1>0, <2>0, <2>8, <3>1 DEF LremUnanswered, TypeOK
  <2> QED
    BY <1>11, <2>1, <2>2, <2>3, <2>4, <2>5, <2>6, <2>7, <2>8 DEF Removal
<1>12. ASSUME NEW p \in Procs, RecoverStart(p) PROVE TypeOK'
  BY <1>0, <1>12 DEF RecoverStart, TypeOK
<1>13. ASSUME NEW p \in Procs, ScanDone(p) PROVE TypeOK'
  BY <1>0, <1>13 DEF ScanDone, TypeOK
<1>14. ASSUME NEW p \in Procs, ScanDiscard(p) PROVE TypeOK'
  <2>1. Head(rest[p]) \in Raw /\ Tail(rest[p]) \in Seq(Raw)
    BY <1>14, TailEntry, TypeFacts DEF ScanDiscard, Visit
  <2>2. RemoveFirst(processing, Head(rest[p])) \in Seq(Raw)
    BY <2>1, RemoveEntry, TypeFacts
  <2>3. processing' \in Seq(Raw) /\ faults' \in 0..MaxFaults
    BY <1>0, <1>14, <2>2 DEF ScanDiscard, LremIgnoringError, TypeOK
  <2> QED
    BY <1>0, <1>14, <2>1, <2>3 DEF ScanDiscard, Visit, TypeOK
<1>15. ASSUME NEW p \in Procs, ScanLook(p) PROVE TypeOK'
  <2>1. Head(rest[p]) \in Raw /\ Tail(rest[p]) \in Seq(Raw)
    BY <1>15, TailEntry, TypeFacts DEF ScanLook, Visit
  <2>2. Head(rest[p]).id \in Jobs
    BY <1>15, <2>1 DEF ScanLook, Raw
  <2>3. faults' \in 0..MaxFaults
    BY <1>0, <1>15 DEF ScanLook, TypeOK
  <2>4. msg' \in [Agents -> Raw]
    <3>1. msg' = msg \/ msg' = [msg EXCEPT ![p] = Head(rest[p])]
      BY <1>15 DEF ScanLook
    <3> QED
      BY <1>00, <2>1, <3>1
  <2>5. pc' = pc \/ pc' = [pc EXCEPT ![p] = "query"] \/ pc' = [pc EXCEPT ![p] = "restamp"]
    BY <1>15 DEF ScanLook
  <2>6. seen' = [seen EXCEPT ![p] = @ \cup {Head(rest[p]).id}] /\ rest' = [rest EXCEPT ![p] = Tail(rest[p])]
    BY <1>15 DEF ScanLook, Visit
  <2>7. UNCHANGED <<jobQueue, processing, timestamps, status, settled, found, call, lag, ctx, downs, dropped, doubled>>
    BY <1>15 DEF ScanLook
  <2> QED
    <3>1. rest' \in [Procs -> Seq(Raw)] /\ seen' \in [Procs -> SUBSET Jobs]
      BY <1>0, <2>1, <2>2, <2>6 DEF TypeOK
    <3> QED
      BY <1>0, <2>3, <2>4, <2>5, <2>7, <3>1 DEF TypeOK
<1>16. ASSUME NEW p \in Procs, Restamp(p) PROVE TypeOK'
  <2>1. timestamps' \in [Jobs -> Ages] /\ faults' \in 0..MaxFaults
    <3>1. timestamps' = timestamps \/ timestamps' = [timestamps EXCEPT ![msg[p].id] = lag[p]]
      BY <1>16 DEF Restamp
    <3>2. faults' = faults \/ (faults < MaxFaults /\ faults' = faults + 1)
      BY <1>16 DEF Restamp
    <3>3. lag[p] \in Ages
      BY <1>0, AgeFacts DEF TypeOK
    <3> QED
      BY <1>00, <3>1, <3>2, <3>3, AgeFacts
  <2> QED
    BY <1>0, <1>16, <2>1 DEF Restamp, TypeOK
<1>17. ASSUME NEW p \in Procs, Query(p) PROVE TypeOK'
  BY <1>0, <1>17 DEF Query, TypeOK
<1>18. ASSUME NEW p \in Procs, QueryFails(p) PROVE TypeOK'
  BY <1>0, <1>18, JunkIsRaw DEF QueryFails, TypeOK
<1>19. ASSUME NEW p \in Procs, RecoveryStops(p) PROVE TypeOK'
  BY <1>0, <1>19 DEF RecoveryStops, TypeOK
<1>20. CASE Tick
  BY <1>0, <1>20, AgeFacts DEF Tick, TypeOK
<1>21. ASSUME NEW p \in Procs, Cancel(p) PROVE TypeOK'
  BY <1>0, <1>21 DEF Cancel, TypeOK
<1>22. ASSUME NEW p \in Procs, Exit(p) PROVE TypeOK'
  BY <1>0, <1>22 DEF Exit, TypeOK
<1>23. ASSUME NEW p \in Procs, Crash(p) PROVE TypeOK'
  <2>1. dropped' \subseteq Jobs
    BY <1>23, TypeFacts DEF Crash, Dropped, InNackWindow, WithEntry, InRemoval
  <2> QED
    BY <1>0, <1>23, <2>1, JunkIsRaw DEF Crash, TypeOK
<1>24. ASSUME NEW p \in Procs, Restart(p) PROVE TypeOK'
  BY <1>0, <1>24 DEF Restart, TypeOK
<1>25. CASE UNCHANGED vars
  BY <1>0, <1>25 DEF vars, TypeOK
<1>26. ASSUME NEW a \in Agents, Resend(a) PROVE TypeOK'
  <2>1. processing' \in Seq(Raw)
    <3>1. processing' = processing \/ \E r \in Raw : processing' = RemoveFirst(processing, r)
      BY <1>26, ResendRemoves
    <3> QED
      BY <3>1, RemoveEntry, TypeFacts
  <2>2. timestamps' \in [Jobs -> Ages]
    <3>1. \/ timestamps' = timestamps
          \/ timestamps' = [timestamps EXCEPT ![Id(a)] = 0]
          \/ timestamps' = [timestamps EXCEPT ![Id(a)] = None]
          \/ a \in Procs /\ timestamps' = [timestamps EXCEPT ![Id(a)] = lag[a]]
      BY <1>26, OwnFacts DEF Resend
    <3>2. \A p \in Procs : lag[p] \in Ages
      BY <1>0, AgeFacts DEF TypeOK
    <3> QED
      BY <1>00, <3>1, <3>2, AgeFacts
  <2>3. faults' \in 0..MaxFaults /\ UNCHANGED <<jobQueue, backend, pc, msg, removal, pass, world, history>>
    BY <1>00, <1>26 DEF Resend
  <2> QED
    BY <1>0, <2>1, <2>2, <2>3 DEF TypeOK
<1> QED
  BY <1>1, <1>2, <1>3, <1>4, <1>5, <1>6, <1>7, <1>8, <1>9, <1>10, <1>11, <1>12,
     <1>13, <1>14, <1>15, <1>16, <1>17, <1>18, <1>19, <1>20, <1>21, <1>22, <1>23,
     <1>24, <1>25, <1>26
     DEF Next, Worker, Recovery, Process

LEMMA OwnCodeNext == TypeInv /\ [Next]_vars => OwnCode'
<1> SUFFICES ASSUME TypeInv, [Next]_vars PROVE OwnCode'
  OBVIOUS
<1> USE AgentFacts
<1> USE DEF removal, Goto, Take, Id, OwnCode, WorkerOnly, RecoveryOnly, InRemoval, WithEntry
<1>0. OwnCode /\ DOMAIN pc = Agents /\ DOMAIN msg = Agents /\ DOMAIN call = Agents
  BY DEF TypeInv, TypeOK
<1>1. ASSUME NEW j \in Jobs, Submit(j) \/ Delete(j) \/ LateUpdate(j) PROVE OwnCode'
  BY <1>0, <1>1 DEF Submit, Delete, LateUpdate, Put
<1>2. ASSUME NEW w \in Workers, Pop(w) PROVE OwnCode'
  <2>1. Last(jobQueue) \in Raw
    BY <1>2, PopEntry, TypeFacts DEF Pop
  <2>2. Last(jobQueue).id = NoId \/ Last(jobQueue).id \in Jobs
    BY <2>1 DEF Raw
  <2>3. \/ pc' = [pc EXCEPT ![w] = IF Last(jobQueue).id = NoId THEN "junk" ELSE "stamp"] /\ msg' = [msg EXCEPT ![w] = Last(jobQueue)]
        \/ UNCHANGED <<pc, msg>>
    BY <1>2 DEF Pop
  <2>4. UNCHANGED call
    BY <1>2 DEF Pop
  <2> QED
    BY <1>0, <2>2, <2>3, <2>4
<1>3. ASSUME NEW w \in Workers, DropJunk(w) PROVE OwnCode'
  BY <1>0, <1>3 DEF DropJunk
<1>4. ASSUME NEW w \in Workers, Stamp(w) PROVE OwnCode'
  BY <1>0, <1>4 DEF Stamp
<1>5. ASSUME NEW w \in Workers, ReportRunning(w) \/ ReportResult(w) \/ ResultLost(w) \/ Return(w) PROVE OwnCode'
  BY <1>0, <1>5 DEF ReportRunning, ReportResult, ResultLost, Return
<1>6. ASSUME NEW w \in Workers, WorkerStops(w) PROVE OwnCode'
  BY <1>0, <1>6 DEF WorkerStops
<1>7. ASSUME NEW a \in Agents, Removal(a) PROVE OwnCode'
  <2>1. CASE Lrem(a)
    BY <1>0, <2>1 DEF Lrem
  <2>2. CASE LremFails(a)
    BY <1>0, <2>2 DEF LremFails, Resume
  <2>3. CASE Lrange(a)
    BY <1>0, <2>3 DEF Lrange
  <2>4. CASE LremById(a)
    BY <1>0, <2>4 DEF LremById
  <2>5. CASE Hdel(a)
    BY <1>0, <2>5 DEF Hdel, Resume
  <2>6. CASE Lpush(a) \/ LpushUnanswered(a) \/ LpushFails(a)
    BY <1>0, <2>6 DEF Lpush, LpushUnanswered, LpushFails, Pushes, Resume
  <2>7. CASE LremUnanswered(a)
    BY <1>0, <2>7 DEF LremUnanswered
  <2> QED
    BY <1>7, <2>1, <2>2, <2>3, <2>4, <2>5, <2>6, <2>7 DEF Removal
<1>8. ASSUME NEW p \in Procs, RecoverStart(p) \/ ScanDone(p) \/ ScanDiscard(p) PROVE OwnCode'
  BY <1>0, <1>8 DEF RecoverStart, ScanDone, ScanDiscard
<1>9. ASSUME NEW p \in Procs, ScanLook(p) PROVE OwnCode'
  <2>1. Head(rest[p]) \in Raw
    BY <1>9, TailEntry, TypeFacts DEF ScanLook, Visit
  <2>2. Head(rest[p]).id \in Jobs
    BY <1>9, <2>1 DEF ScanLook, Raw
  <2>3. \/ UNCHANGED <<pc, msg>>
        \/ \E l \in {"query", "restamp"} :
             pc' = [pc EXCEPT ![p] = l] /\ msg' = [msg EXCEPT ![p] = Head(rest[p])]
    BY <1>9 DEF ScanLook
  <2>4. UNCHANGED call
    BY <1>9 DEF ScanLook
  <2> QED
    BY <1>0, <2>2, <2>3, <2>4
<1>10. ASSUME NEW p \in Procs, Restamp(p) PROVE OwnCode'
  BY <1>0, <1>10 DEF Restamp
<1>11. ASSUME NEW p \in Procs, Query(p) PROVE OwnCode'
  BY <1>0, <1>11 DEF Query
<1>12. ASSUME NEW p \in Procs, QueryFails(p) PROVE OwnCode'
  BY <1>0, <1>12 DEF QueryFails
<1>13. ASSUME NEW p \in Procs, RecoveryStops(p) PROVE OwnCode'
  BY <1>0, <1>13 DEF RecoveryStops
<1>14. ASSUME NEW p \in Procs, Cancel(p) \/ Exit(p) PROVE OwnCode'
  BY <1>0, <1>14 DEF Cancel, Exit
<1>15. ASSUME NEW p \in Procs, Crash(p) PROVE OwnCode'
  BY <1>0, <1>15 DEF Crash
<1>16. ASSUME NEW p \in Procs, Restart(p) PROVE OwnCode'
  BY <1>0, <1>16 DEF Restart
<1>17. CASE Tick
  BY <1>0, <1>17 DEF Tick
<1>18. CASE UNCHANGED vars
  BY <1>0, <1>18 DEF vars
<1>19. ASSUME NEW a \in Agents, Resend(a) PROVE OwnCode'
  BY <1>0, <1>19 DEF Resend
<1> QED
  BY <1>1, <1>2, <1>3, <1>4, <1>5, <1>6, <1>7, <1>8, <1>9, <1>10, <1>11, <1>12, <1>13, <1>14, <1>15, <1>16, <1>17, <1>18, <1>19
     DEF Next, Worker, Recovery, Process

LEMMA FoundIsOwnNext == TypeInv /\ [Next]_vars => FoundIsOwn'
<1> SUFFICES ASSUME TypeInv, [Next]_vars PROVE FoundIsOwn'
  OBVIOUS
<1> USE AgentFacts
<1> USE DEF removal, Goto, Take, Id, FoundIsOwn
<1>0. /\ FoundIsOwn
      /\ DOMAIN pc = Agents /\ DOMAIN msg = Agents /\ DOMAIN found = Agents
  BY DEF TypeInv, TypeOK
<1>1. ASSUME NEW j \in Jobs, Submit(j) \/ Delete(j) \/ LateUpdate(j) PROVE FoundIsOwn'
  BY <1>0, <1>1 DEF Submit, Delete, LateUpdate, Put
<1>2. ASSUME NEW w \in Workers, Pop(w) PROVE FoundIsOwn'
  BY <1>0, <1>2 DEF Pop
<1>3. ASSUME NEW w \in Workers, DropJunk(w) \/ Stamp(w) \/ WorkerStops(w) PROVE FoundIsOwn'
  BY <1>0, <1>3 DEF DropJunk, Stamp, WorkerStops
<1>4. ASSUME NEW w \in Workers,
             ReportRunning(w) \/ ReportResult(w) \/ ResultLost(w) \/ Return(w)
      PROVE  FoundIsOwn'
  BY <1>0, <1>4 DEF ReportRunning, ReportResult, ResultLost, Return
<1>5. ASSUME NEW a \in Agents, Removal(a) PROVE FoundIsOwn'
  <2>1. CASE Lrem(a)
    BY <1>0, <2>1 DEF Lrem
  <2>2. CASE LremFails(a)
    BY <1>0, <2>2 DEF LremFails, Resume
  <2>3. CASE Lrange(a)
    <3> DEFINE F == FromFirst(processing, msg[a].id)
    <3>1. F # <<>> => Head(F).id = msg[a].id
      BY FromFirstProperties, TypeFacts
    <3> HIDE DEF F
    <3>3. /\ found' = [found EXCEPT ![a] = F] \/ found' = [found EXCEPT ![a] = <<>>]
          /\ pc' = [pc EXCEPT ![a] = IF found'[a] = <<>> THEN "hdel" ELSE "lremById"]
          /\ UNCHANGED msg
      BY <2>3 DEF Lrange, F
    <3> QED
      BY <1>0, <3>1, <3>3, <2>3 DEF Lrange
  <2>4. CASE LremById(a)
    <3> DEFINE F == FromFirst(Tail(found[a]), msg[a].id)
    <3>1. Tail(found[a]) \in Seq(Raw)
      BY <2>4, TailEntry, TypeFacts DEF LremById
    <3>2. F # <<>> => Head(F).id = msg[a].id
      BY <3>1, FromFirstProperties
    <3> HIDE DEF F
    <3>3. /\ found' = [found EXCEPT ![a] = F] \/ found' = [found EXCEPT ![a] = <<>>]
          /\ pc' = [pc EXCEPT ![a] = IF found'[a] = <<>> THEN "hdel" ELSE "lremById"]
          /\ UNCHANGED msg
      BY <2>4 DEF LremById, F
    <3> QED
      BY <1>0, <3>2, <3>3
  <2>5. CASE Hdel(a)
    BY <1>0, <2>5 DEF Hdel, Resume
  <2>6. CASE Lpush(a) \/ LpushUnanswered(a) \/ LpushFails(a)
    BY <1>0, <2>6 DEF Lpush, LpushUnanswered, LpushFails, Pushes, Resume
  <2>7. CASE LremUnanswered(a)
    BY <1>0, <2>7 DEF LremUnanswered
  <2> QED
    BY <1>5, <2>1, <2>2, <2>3, <2>4, <2>5, <2>6, <2>7 DEF Removal
<1>6. ASSUME NEW p \in Procs, RecoverStart(p) \/ ScanDone(p) \/ ScanDiscard(p)
      PROVE  FoundIsOwn'
  BY <1>0, <1>6 DEF RecoverStart, ScanDone, ScanDiscard
<1>7. ASSUME NEW p \in Procs, ScanLook(p) PROVE FoundIsOwn'
  <2>1. pc[p] = "scan"
    BY <1>7 DEF ScanLook, Visit
  <2>2. \/ UNCHANGED <<pc, msg>>
        \/ \E l \in {"query", "restamp"} :
             pc' = [pc EXCEPT ![p] = l] /\ msg' = [msg EXCEPT ![p] = Head(rest[p])]
    BY <1>7 DEF ScanLook
  <2>3. UNCHANGED found
    BY <1>7 DEF ScanLook
  <2> QED
    BY <1>0, <2>1, <2>2, <2>3
<1>8. ASSUME NEW p \in Procs,
             Restamp(p) \/ Query(p) \/ QueryFails(p) \/ RecoveryStops(p)
      PROVE  FoundIsOwn'
  BY <1>0, <1>8 DEF Restamp, Query, QueryFails, RecoveryStops
<1>9. ASSUME NEW p \in Procs, Cancel(p) \/ Exit(p) \/ Crash(p) \/ Restart(p)
      PROVE  FoundIsOwn'
  BY <1>0, <1>9 DEF Cancel, Exit, Crash, Restart
<1>10. CASE Tick
  BY <1>0, <1>10 DEF Tick
<1>11. CASE UNCHANGED vars
  BY <1>0, <1>11 DEF vars
<1>12. ASSUME NEW a \in Agents, Resend(a) PROVE FoundIsOwn'
  BY <1>0, <1>12 DEF Resend
<1> QED
  BY <1>1, <1>2, <1>3, <1>4, <1>5, <1>6, <1>7, <1>8, <1>9, <1>10, <1>11, <1>12
     DEF Next, Worker, Recovery, Process

LEMMA TypeInvariant == Spec => []TypeInv
<1>1. TypeInv /\ [Next]_vars => TypeInv'
  BY TypeOKNext, OwnCodeNext, FoundIsOwnNext DEF TypeInv
<1> QED
  BY TypeInit, <1>1, PTL DEF Spec

(* The variables keep their types: in particular an entry that could not   *)
(* be parsed is never settled or dropped as if it were a job, and ages,    *)
(* passes and the counters stay within their bounds.                       *)
THEOREM TypeCorrect == Spec => []TypeOK
<1>1. TypeInv => TypeOK
  BY DEF TypeInv
<1> QED
  BY TypeInvariant, <1>1, PTL

--------------------------------------------------------------------------------
(* What is acknowledged is settled, with any number of processes. *)

LEMMA NewInit == Init => NewIsNowhere
<1> SUFFICES ASSUME Init PROVE NewIsNowhere
  OBVIOUS
<1>1. \A i \in DOMAIN jobQueue : jobQueue[i] = Junk
  BY JobsAssumption DEF Init
<1> QED
  BY <1>1, JunkIsRaw, JobsAssumption, AgentFacts
     DEF Init, NewIsNowhere, Waiting, Processing, Has, Id

LEMMA NewNext == TypeInv /\ NewIsNowhere /\ [Next]_vars => NewIsNowhere'
<1> SUFFICES ASSUME TypeInv, NewIsNowhere, [Next]_vars PROVE NewIsNowhere'
  OBVIOUS
<1> USE AgentFacts
<1> USE DEF redis, backend, removal, pass, Goto, Take, Id, Waiting, Processing, NewIsNowhere
<1>0. /\ NewIsNowhere
      /\ DOMAIN msg = Agents /\ DOMAIN rest = Procs /\ DOMAIN status = Jobs
      /\ Junk.id \notin Jobs
  BY JunkIsRaw, JobsAssumption DEF TypeInv, TypeOK
<1>1. ASSUME NEW j \in Jobs, Submit(j) PROVE NewIsNowhere'
  <2>1. [id |-> j, form |-> "backend"] \in Raw
    BY DEF Raw, Forms
  <2>2. \A k : Has(jobQueue', k) => Has(jobQueue, k) \/ k = j
    BY <1>1, <2>1, AppendEntry, TypeFacts DEF Submit
  <2> QED
    BY <1>0, <1>1, <2>2 DEF Submit
<1>2. ASSUME NEW j \in Jobs, Delete(j) \/ LateUpdate(j) PROVE NewIsNowhere'
  BY <1>0, <1>2 DEF Delete, LateUpdate, Put
<1>3. ASSUME NEW w \in Workers, Pop(w) PROVE NewIsNowhere'
  <2>1. jobQueue # <<>> /\ jobQueue' = Front(jobQueue) /\ processing' = Cons(Last(jobQueue), processing)
    BY <1>3 DEF Pop
  <2>2. Last(jobQueue) \in Raw /\ \A j : Has(jobQueue', j) => Has(jobQueue, j)
    BY <2>1, PopEntry, TypeFacts
  <2>3. Has(jobQueue, Last(jobQueue).id)
    BY <2>1, PopEntry, TypeFacts
  <2>4. \A j : Has(processing', j) => Has(processing, j) \/ j = Last(jobQueue).id
    BY <2>1, <2>2, PushEntry, TypeFacts
  <2>5. /\ msg' = msg \/ msg' = [msg EXCEPT ![w] = Last(jobQueue)]
        /\ UNCHANGED <<status, rest>>
    BY <1>3 DEF Pop
  <2> QED
    BY <1>0, <2>2, <2>3, <2>4, <2>5
<1>4. ASSUME NEW w \in Workers, DropJunk(w) PROVE NewIsNowhere'
  <2>1. \A j : Has(processing', j) => Has(processing, j)
    BY <1>4, RemoveEntry, TypeFacts DEF DropJunk, LremIgnoringError
  <2> QED
    BY <1>0, <1>4, <2>1 DEF DropJunk
<1>5. ASSUME NEW w \in Workers, Stamp(w) \/ WorkerStops(w) \/ ResultLost(w) \/ Return(w)
      PROVE  NewIsNowhere'
  BY <1>0, <1>5 DEF Stamp, WorkerStops, ResultLost, Return
<1>6. ASSUME NEW w \in Workers, ReportRunning(w) \/ ReportResult(w) PROVE NewIsNowhere'
  BY <1>0, <1>6 DEF ReportRunning, ReportResult, Put
<1>7. ASSUME NEW a \in Agents, Removal(a) PROVE NewIsNowhere'
  <2>1. CASE Pushes(a) /\ (msg' = msg \/ msg' = [msg EXCEPT ![a] = Junk])
    <3> DEFINE r == Requeued(msg[a].id)
    <3>1. msg[a].id \in Jobs
      BY <2>1, TypeFacts DEF Pushes, WithEntry, InRemoval
    <3>2. r \in Raw /\ r.id = msg[a].id
      BY <3>1 DEF Requeued, Raw, Forms
    <3>3. jobQueue' = Cons(r, jobQueue) /\ UNCHANGED <<processing, status, rest>>
      BY <2>1 DEF Pushes
    <3> HIDE DEF r
    <3>4. \A j : Has(jobQueue', j) => Has(jobQueue, j) \/ j = msg[a].id
      BY <3>2, <3>3, PushEntry, TypeFacts
    <3> QED
      BY <1>0, <2>1, <3>3, <3>4
  <2>2. CASE Hdel(a)
    BY <1>0, <2>2 DEF Hdel, Resume
  <2>3. CASE Lrange(a)
    BY <1>0, <2>3 DEF Lrange
  <2>4. CASE Lrem(a) \/ LremUnanswered(a) \/ LremFails(a) \/ LpushFails(a) \/ LremById(a)
    <3>1. /\ processing' = processing \/ \E r \in Raw : processing' = RemoveFirst(processing, r)
          /\ msg' = msg \/ msg' = [msg EXCEPT ![a] = Junk]
          /\ UNCHANGED <<jobQueue, status, rest>>
      <4>1. CASE Lrem(a) \/ LremUnanswered(a)
        BY <4>1, TypeFacts DEF Lrem, LremUnanswered
      <4>2. CASE LremFails(a) \/ LpushFails(a)
        BY <4>2 DEF LremFails, LpushFails, Resume
      <4>3. CASE LremById(a)
        <5>1. Head(found[a]) \in Raw
          BY <4>3, TailEntry, TypeFacts DEF LremById
        <5> QED
          BY <4>3, <5>1 DEF LremById, LremError
      <4> QED
        BY <2>4, <4>1, <4>2, <4>3
    <3>2. \A j : Has(processing', j) => Has(processing, j)
      BY <3>1, RemoveEntry, TypeFacts
    <3> QED
      BY <1>0, <3>1, <3>2
  <2> QED
    BY <1>7, <2>1, <2>2, <2>3, <2>4 DEF Removal, Lpush, LpushUnanswered, Resume
<1>8. ASSUME NEW p \in Procs, RecoverStart(p) PROVE NewIsNowhere'
  BY <1>0, <1>8 DEF RecoverStart
<1>9. ASSUME NEW p \in Procs, ScanDone(p) PROVE NewIsNowhere'
  BY <1>0, <1>9 DEF ScanDone
<1>10. ASSUME NEW p \in Procs, ScanDiscard(p) \/ ScanLook(p) PROVE NewIsNowhere'
  <2>1. /\ Head(rest[p]) \in Raw /\ Has(rest[p], Head(rest[p]).id)
        /\ \A j : Has(Tail(rest[p]), j) => Has(rest[p], j)
    BY <1>10, TailEntry, TypeFacts DEF ScanDiscard, ScanLook, Visit, Has
  <2>2. \A j : Has(processing', j) => Has(processing, j)
    <3>1. processing' = processing \/ processing' = RemoveFirst(processing, Head(rest[p]))
      BY <1>10 DEF ScanDiscard, ScanLook, LremIgnoringError
    <3>2. \A j : Has(RemoveFirst(processing, Head(rest[p])), j) => Has(processing, j)
      BY <2>1, RemoveEntry, TypeFacts
    <3> QED
      BY <3>1, <3>2
  <2>3. /\ rest' = [rest EXCEPT ![p] = Tail(rest[p])]
        /\ msg' = msg \/ msg' = [msg EXCEPT ![p] = Head(rest[p])]
        /\ UNCHANGED <<jobQueue, status>>
    BY <1>10 DEF ScanDiscard, ScanLook, Visit
  <2> QED
    BY <1>0, <2>1, <2>2, <2>3
<1>11. ASSUME NEW p \in Procs, Restamp(p) \/ Query(p) \/ QueryFails(p) \/ RecoveryStops(p)
       PROVE  NewIsNowhere'
  BY <1>0, <1>11 DEF Restamp, Query, QueryFails, RecoveryStops
<1>12. ASSUME NEW p \in Procs, Cancel(p) \/ Exit(p) \/ Restart(p) PROVE NewIsNowhere'
  BY <1>0, <1>12 DEF Cancel, Exit, Restart
<1>13. ASSUME NEW p \in Procs, Crash(p) PROVE NewIsNowhere'
  BY <1>0, <1>13 DEF Crash, Has
<1>14. CASE Tick
  BY <1>0, <1>14 DEF Tick
<1>15. CASE UNCHANGED vars
  BY <1>0, <1>15 DEF vars
<1>16. ASSUME NEW a \in Agents, Resend(a) PROVE NewIsNowhere'
  <2>1. \A j : Has(processing', j) => Has(processing, j)
    <3>1. processing' = processing \/ \E r \in Raw : processing' = RemoveFirst(processing, r)
      BY <1>16, ResendRemoves
    <3> QED
      BY <3>1, RemoveEntry, TypeFacts
  <2> QED
    BY <1>0, <1>16, <2>1 DEF Resend
<1> QED
  BY <1>1, <1>2, <1>3, <1>4, <1>5, <1>6, <1>7, <1>8, <1>9, <1>10, <1>11, <1>12, <1>13,
     <1>14, <1>15, <1>16
     DEF Next, Worker, Recovery, Process

LEMMA FinishedInit == Init => FinishedIsSettled
BY AgentFacts DEF Init, FinishedIsSettled, InRemoval

LEMMA FinishedNext ==
    TypeInv /\ NewIsNowhere /\ FinishedIsSettled /\ [Next]_vars => FinishedIsSettled'
<1> SUFFICES ASSUME TypeInv, NewIsNowhere, FinishedIsSettled, [Next]_vars
             PROVE  FinishedIsSettled'
  OBVIOUS
<1> USE AgentFacts
<1> USE DEF backend, removal, Goto, Take, Id, InRemoval, FinishedIsSettled
<1>0. /\ FinishedIsSettled
      /\ DOMAIN pc = Agents /\ DOMAIN msg = Agents /\ DOMAIN call = Agents
      /\ DOMAIN status = Jobs /\ \A j \in Jobs : status[j] \in Statuses
      /\ \A w \in Workers : call[w] = "AckJob"
      /\ \A a \in Agents : pc[a] \in WithEntry => msg[a].id \in Jobs
  BY DEF TypeInv, TypeOK, OwnCode
<1>1. ASSUME NEW j \in Jobs, Submit(j) \/ Delete(j) \/ LateUpdate(j) PROVE FinishedIsSettled'
  BY <1>0, <1>1 DEF Submit, Delete, LateUpdate, Put
<1>2. ASSUME NEW w \in Workers, Pop(w) PROVE FinishedIsSettled'
  <2>1. \/ \E l \in {"junk", "stamp"} :
             pc' = [pc EXCEPT ![w] = l] /\ msg' = [msg EXCEPT ![w] = Last(jobQueue)]
        \/ UNCHANGED <<pc, msg>>
    BY <1>2 DEF Pop
  <2>2. UNCHANGED <<status, settled, call>>
    BY <1>2 DEF Pop
  <2> QED
    BY <1>0, <2>1, <2>2
<1>3. ASSUME NEW w \in Workers, DropJunk(w) \/ Stamp(w) \/ WorkerStops(w)
      PROVE  FinishedIsSettled'
  BY <1>0, <1>3 DEF DropJunk, Stamp, WorkerStops
<1>4. ASSUME NEW w \in Workers, ReportRunning(w) \/ ResultLost(w) PROVE FinishedIsSettled'
  BY <1>0, <1>4 DEF ReportRunning, ResultLost, Put
<1>5. ASSUME NEW w \in Workers, ReportResult(w) \/ Return(w) PROVE FinishedIsSettled'
  BY <1>0, <1>5 DEF ReportResult, Return, Put
<1>6. ASSUME NEW a \in Agents, Removal(a) PROVE FinishedIsSettled'
  <2>1. CASE Lrem(a)
    BY <1>0, <2>1 DEF Lrem
  <2>2. CASE LremFails(a)
    BY <1>0, <2>2 DEF LremFails, Resume
  <2>3. CASE Lrange(a)
    BY <1>0, <2>3 DEF Lrange
  <2>4. CASE LremById(a)
    BY <1>0, <2>4 DEF LremById
  <2>5. CASE Hdel(a)
    BY <1>0, <2>5 DEF Hdel, Resume
  <2>6. CASE Lpush(a) \/ LpushUnanswered(a) \/ LpushFails(a)
    BY <1>0, <2>6 DEF Lpush, LpushUnanswered, LpushFails, Pushes, Resume
  <2>7. CASE LremUnanswered(a)
    BY <1>0, <2>7 DEF LremUnanswered
  <2> QED
    BY <1>6, <2>1, <2>2, <2>3, <2>4, <2>5, <2>6, <2>7 DEF Removal
<1>7. ASSUME NEW p \in Procs, RecoverStart(p) \/ ScanDone(p) \/ ScanDiscard(p)
      PROVE  FinishedIsSettled'
  BY <1>0, <1>7 DEF RecoverStart, ScanDone, ScanDiscard
<1>8. ASSUME NEW p \in Procs, ScanLook(p) PROVE FinishedIsSettled'
  <2>1. \/ UNCHANGED <<pc, msg>>
        \/ \E l \in {"query", "restamp"} :
             pc' = [pc EXCEPT ![p] = l] /\ msg' = [msg EXCEPT ![p] = Head(rest[p])]
    BY <1>8 DEF ScanLook
  <2>2. UNCHANGED <<status, settled, call>>
    BY <1>8 DEF ScanLook
  <2> QED
    BY <1>0, <2>1, <2>2
<1>9. ASSUME NEW p \in Procs, Query(p) PROVE FinishedIsSettled'
  <2>1. msg[p].id \in Jobs
    BY <1>0, <1>9 DEF Query, WithEntry
  <2>2. status[msg[p].id] \in {"closed", "deleted"} => msg[p].id \in settled
    BY <1>0, <2>1
  <2>3. status[msg[p].id] # "new"
    BY <2>1 DEF NewIsNowhere
  <2> QED
    BY <1>0, <1>9, <2>1, <2>2, <2>3 DEF Query, Statuses
<1>10. ASSUME NEW p \in Procs, Restamp(p) \/ QueryFails(p) \/ RecoveryStops(p)
      PROVE  FinishedIsSettled'
  BY <1>0, <1>10 DEF Restamp, QueryFails, RecoveryStops
<1>11. ASSUME NEW p \in Procs, Cancel(p) \/ Exit(p) \/ Crash(p) \/ Restart(p)
      PROVE  FinishedIsSettled'
  BY <1>0, <1>11 DEF Cancel, Exit, Crash, Restart
<1>12. CASE Tick
  BY <1>0, <1>12 DEF Tick
<1>13. CASE UNCHANGED vars
  BY <1>0, <1>13 DEF vars
<1>14. ASSUME NEW a \in Agents, Resend(a) PROVE FinishedIsSettled'
  BY <1>0, <1>14 DEF Resend
<1> QED
  BY <1>1, <1>2, <1>3, <1>4, <1>5, <1>6, <1>7, <1>8, <1>9, <1>10, <1>11, <1>12, <1>13, <1>14
     DEF Next, Worker, Recovery, Process


KnownInv == TypeInv /\ NewIsNowhere /\ FinishedIsSettled

LEMMA KnownInvariant == Spec => []KnownInv
<1>1. Init => KnownInv
  BY TypeInit, NewInit, FinishedInit DEF KnownInv
<1>2. KnownInv /\ [Next]_vars => KnownInv'
  BY TypeOKNext, OwnCodeNext, FoundIsOwnNext, NewNext, FinishedNext DEF KnownInv, TypeInv
<1> QED
  BY <1>1, <1>2, PTL DEF Spec

(* An acknowledgement removes the entry of a settled job only: what a      *)
(* worker acknowledges has been executed to its end, and what a recovery   *)
(* acknowledges the Backend has called finished, or unknown after it was   *)
(* submitted.  It holds with any number of worker processes.               *)
THEOREM AckedIsFinished == Spec => AckedOnlyFinished
<1>1. KnownInv /\ [Next]_vars =>
        [\A a \in Agents :
           (Lrem(a) \/ LremUnanswered(a) \/ LremById(a)) /\ call[a] = "AckJob" => Id(a) \in settled]_vars
  BY DEF KnownInv, FinishedIsSettled, Lrem, LremUnanswered, LremById, InRemoval
<1> QED
  BY KnownInvariant, <1>1, PTL DEF Spec, AckedOnlyFinished
================================================================================
