----------------------------- MODULE Executor_proofs -----------------------------
(***************************************************************************)
(* Theorems on Executor, for any number of executions, VMs, faults and     *)
(* crashes: its types and the state lock, what the Backend shows at the    *)
(* end, and that an apply which returned has its listed VMs registered.   *)
(***************************************************************************)
EXTENDS Executor, TLAPS

Labels == {"queued", "start", "setup", "init", "main", "terraform", "fail", "succeed",
           "output", "register", "regFailed", "crashed", "done"}

(* TypeOK without its last conjunct, which is LockInv. *)
Typed ==
    /\ type \in Mixes
    /\ status \in [Execs -> Statuses]
    /\ late \subseteq Execs \X Statuses
    /\ pc \in [Execs -> Labels]
    /\ kind \in [Execs -> Types]
    /\ rolling \in [Execs -> BOOLEAN]
    /\ expired \in [Execs -> BOOLEAN]
    /\ toRegister \in [Execs -> SUBSET VMs]
    /\ result \in [Execs -> {"none", "ok", "error", "acked"}]
    /\ lock \in Execs \cup {NoExec}
    /\ tfstate \subseteq VMs
    /\ infra \subseteq VMs
    /\ registered \subseteq VMs
    /\ faults \in 0..MaxFaults
    /\ crashes \in 0..MaxCrashes
    /\ unsure \subseteq Execs
    /\ unlisted \subseteq VMs
    /\ lastOk \in [Execs -> BOOLEAN]

LockInv == \A e \in Execs : lock = e <=> pc[e] = "terraform"

LEMMA TypeOKSplit == TypeOK <=> Typed /\ LockInv
BY DEF TypeOK, Typed, LockInv, Labels

(* A report that took effect, or whose execution is unsure. *)
LEMMA PutStep ==
    ASSUME Typed, NEW e \in Execs, NEW s \in Statuses, Put(e, s)
    PROVE  /\ status' \in [Execs -> Statuses] /\ late' \subseteq Execs \X Statuses
           /\ faults' \in 0..MaxFaults /\ unsure' \subseteq Execs
           /\ \A f \in Execs : f # e => status'[f] = status[f] /\ (f \in unsure' <=> f \in unsure)
           /\ e \notin unsure' => status'[e] = s /\ e \notin unsure
           /\ \A u \in late' : u \in late \/ u[1] \in unsure'
           /\ unsure \subseteq unsure'
<1>1. CASE status' = [status EXCEPT ![e] = s] /\ UNCHANGED <<late, faults, unsure>>
  BY <1>1 DEF Typed
<1>2. CASE /\ Faulty /\ unsure' = unsure \cup {e}
           /\ status' \in {status, [status EXCEPT ![e] = s]}
           /\ late' \in {late, late \cup {<<e, s>>}}
  <2>1. faults' \in 0..MaxFaults
    BY <1>2, LimitsAssumption DEF Faulty, Typed
  <2>2. /\ status' \in [Execs -> Statuses]
        /\ \A f \in Execs : f # e => status'[f] = status[f]
    BY <1>2 DEF Typed
  <2>3. late' \subseteq Execs \X Statuses /\ \A u \in late' : u \in late \/ u[1] \in unsure'
    BY <1>2 DEF Typed
  <2> QED
    BY <1>2, <2>1, <2>2, <2>3 DEF Typed
<1> QED
  BY <1>1, <1>2 DEF Put

(* The two ways to leave a running Execute. *)
LEMMA CallStep ==
    ASSUME Typed, NEW e \in Execs, NEW k \in Types, NEW b \in BOOLEAN, Call(e, k, b)
    PROVE  /\ pc' = [pc EXCEPT ![e] = "start"] /\ pc' \in [Execs -> Labels]
           /\ kind' = [kind EXCEPT ![e] = k] /\ kind' \in [Execs -> Types]
           /\ rolling' = [rolling EXCEPT ![e] = b] /\ rolling' \in [Execs -> BOOLEAN]
           /\ expired' \in [Execs -> BOOLEAN]
           /\ lastOk' = [lastOk EXCEPT ![e] = FALSE] /\ lastOk' \in [Execs -> BOOLEAN]
           /\ UNCHANGED type
BY DEF Call, Goto, Typed, Labels

LEMMA ReturnStep ==
    ASSUME Typed, NEW e \in Execs, NEW r \in {"ok", "error"}, Return(e, r)
    PROVE  /\ pc' = [pc EXCEPT ![e] = "done"] /\ pc' \in [Execs -> Labels]
           /\ result' = [result EXCEPT ![e] = IF rolling[e] THEN "error" ELSE r]
           /\ result' \in [Execs -> {"none", "ok", "error", "acked"}]
BY DEF Return, Goto, Typed, Labels

LEMMA FaultyStep == ASSUME Typed, Faulty PROVE faults' \in 0..MaxFaults
BY LimitsAssumption DEF Faulty, Typed

--------------------------------------------------------------------------------
(* Types and the lock. *)

LEMMA InitTyped == Init => Typed /\ LockInv
<1> SUFFICES ASSUME Init PROVE Typed /\ LockInv
  OBVIOUS
<1>1. type \in [Execs -> Types] /\ \A e \in Execs : e # NoExec
  BY ExecsAssumption DEF Init
<1> QED
  BY <1>1, LimitsAssumption DEF Init, Typed, LockInv, Labels, Statuses

LEMMA TypedNext == Typed /\ LockInv /\ [Next]_vars => Typed' /\ LockInv'
<1> SUFFICES ASSUME Typed, LockInv, [Next]_vars PROVE Typed' /\ LockInv'
  OBVIOUS
<1> USE DEF run, world, history
<1>0. /\ {"QUEUED", "RUNNING", "SUCCESS", "FAILED"} \subseteq Statuses /\ "DESTROY" \in Types
      /\ \A e \in Execs : e # NoExec /\ type[e] \in Types
  BY ExecsAssumption DEF Statuses, Types, Commands, Typed
<1>1. ASSUME NEW e \in Execs, Deliver(e) PROVE Typed' /\ LockInv'
  <2>1. Call(e, type[e], FALSE) /\ type[e] \in Types /\ pc[e] = "queued"
    BY <1>0, <1>1 DEF Deliver
  <2>2. Typed'
    BY <1>1, <2>1, CallStep DEF Deliver, Typed
  <2>3. pc' = [pc EXCEPT ![e] = "start"] /\ UNCHANGED lock
    BY <1>1, <2>1, CallStep DEF Deliver
  <2> QED
    BY <2>1, <2>2, <2>3 DEF Typed, LockInv
<1>2. ASSUME NEW e \in Execs, ReportRunning(e) PROVE Typed' /\ LockInv'
  <2>1. Put(e, "RUNNING")
    BY <1>2 DEF ReportRunning
  <2>2. pc' \in [Execs -> Labels] /\ LockInv'
    BY <1>2 DEF ReportRunning, Goto, Typed, LockInv, Labels
  <2> QED
    BY <1>0, <1>2, <2>1, <2>2, PutStep DEF ReportRunning, Typed
<1>3. ASSUME NEW e \in Execs, Setup(e) PROVE Typed' /\ LockInv'
  <2>1. faults' \in 0..MaxFaults
    BY <1>3, FaultyStep DEF Setup, Typed
  <2>2. pc' \in [Execs -> Labels] /\ LockInv'
    BY <1>3 DEF Setup, Goto, Typed, LockInv, Labels
  <2> QED
    BY <1>3, <2>1, <2>2 DEF Setup, Typed
<1>4. ASSUME NEW e \in Execs, RunInitStep(e) PROVE Typed' /\ LockInv'
  <2>1. faults' \in 0..MaxFaults
    BY <1>4, FaultyStep DEF RunInitStep, Typed
  <2>2. pc' \in [Execs -> Labels] /\ LockInv'
    BY <1>4 DEF RunInitStep, Goto, Typed, LockInv, Labels
  <2> QED
    BY <1>4, <2>1, <2>2 DEF RunInitStep, Typed
<1>5. ASSUME NEW e \in Execs, StartMainCommand(e) PROVE Typed' /\ LockInv'
  <2>1. pc' = [pc EXCEPT ![e] = "terraform"] /\ lock' = e /\ lock = NoExec
    BY <1>5 DEF StartMainCommand, Goto
  <2>2. pc' \in [Execs -> Labels] /\ LockInv'
    BY <1>0, <2>1 DEF Typed, LockInv, Labels
  <2> QED
    BY <1>5, <2>1, <2>2 DEF StartMainCommand, Typed
<1>6. ASSUME NEW e \in Execs, RefuseMainCommand(e) PROVE Typed' /\ LockInv'
  <2>2. pc' \in [Execs -> Labels] /\ LockInv'
    BY <1>6 DEF RefuseMainCommand, Goto, Typed, LockInv, Labels
  <2> QED
    BY <1>6, <2>2 DEF RefuseMainCommand, Typed
<1>7. ASSUME NEW e \in Execs, NEW v \in VMs, CreateVM(e, v) \/ DestroyVM(e, v) PROVE Typed' /\ LockInv'
  BY <1>7 DEF CreateVM, DestroyVM, Typed, LockInv
<1>8. ASSUME NEW e \in Execs, NEW v \in VMs, RegisterVM(e, v) PROVE Typed' /\ LockInv'
  <2>1. faults' \in 0..MaxFaults
    BY <1>8, FaultyStep DEF RegisterVM, Typed
  <2>2. pc' \in [Execs -> Labels] /\ LockInv'
    BY <1>8 DEF RegisterVM, Goto, Typed, LockInv, Labels
  <2>3. /\ toRegister' \in [Execs -> SUBSET VMs] /\ registered' \subseteq VMs
        /\ unlisted' \subseteq VMs
    BY <1>8 DEF RegisterVM, Typed
  <2> QED
    BY <1>8, <2>1, <2>2, <2>3 DEF RegisterVM, Typed
<1>9. ASSUME NEW e \in Execs, MainCommandOk(e) \/ MainCommandFails(e) PROVE Typed' /\ LockInv'
  <2>1. /\ pc' \in [Execs -> Labels] /\ pc[e] = "terraform" /\ lock' = NoExec
        /\ pc' = [pc EXCEPT ![e] = "succeed"] \/ pc' = [pc EXCEPT ![e] = "fail"]
    BY <1>9 DEF MainCommandOk, MainCommandFails, Goto, Typed, Labels
  <2>2. LockInv'
    BY <1>0, <2>1 DEF LockInv, Typed
  <2>3. faults' \in 0..MaxFaults /\ infra' \subseteq VMs /\ lastOk' \in [Execs -> BOOLEAN]
    BY <1>9, FaultyStep DEF MainCommandOk, MainCommandFails, Killed, Typed
  <2> QED
    BY <1>9, <2>1, <2>2, <2>3 DEF MainCommandOk, MainCommandFails, Typed
<1>10. ASSUME NEW e \in Execs, HandleError(e) PROVE Typed' /\ LockInv'
  <2>1. Put(e, "FAILED") /\ Return(e, "error") /\ pc[e] = "fail"
    BY <1>10 DEF HandleError
  <2>2. Typed'
    BY <1>0, <1>10, <2>1, PutStep, ReturnStep DEF HandleError, Typed
  <2> QED
    BY <1>10, <2>1, <2>2, ReturnStep DEF HandleError, Typed, LockInv
<1>11. ASSUME NEW e \in Execs, ReportSuccess(e) PROVE Typed' /\ LockInv'
  <2>1. Put(e, "SUCCESS") /\ pc[e] = "succeed"
    BY <1>11 DEF ReportSuccess
  <2>2. /\ pc' \in [Execs -> Labels] /\ result' \in [Execs -> {"none", "ok", "error", "acked"}]
        /\ pc' = [pc EXCEPT ![e] = "output"] \/ pc' = [pc EXCEPT ![e] = "done"]
    BY <1>11, ReturnStep DEF ReportSuccess, Goto, Typed, Labels
  <2>3. Typed'
    BY <1>0, <1>11, <2>1, <2>2, PutStep DEF ReportSuccess, Typed
  <2> QED
    BY <1>11, <2>1, <2>2, <2>3 DEF ReportSuccess, Typed, LockInv
<1>12. ASSUME NEW e \in Execs, GetOutput(e) PROVE Typed' /\ LockInv'
  <2>1. faults' \in 0..MaxFaults
    BY <1>12, FaultyStep DEF GetOutput, Typed
  <2>2. /\ pc[e] = "output"
        /\ \/ \E l \in {"register", "regFailed"} : Goto(e, l) /\ UNCHANGED result
           \/ Return(e, "ok")
    BY <1>12 DEF GetOutput
  <2>3. /\ pc' \in [Execs -> Labels] /\ LockInv'
        /\ result' \in [Execs -> {"none", "ok", "error", "acked"}]
    <3>1. CASE Return(e, "ok")
      BY <1>12, <2>2, <3>1, ReturnStep DEF GetOutput, Typed, LockInv
    <3>2. CASE \E l \in {"register", "regFailed"} : Goto(e, l) /\ UNCHANGED result
      BY <1>12, <2>2, <3>2 DEF GetOutput, Goto, Typed, LockInv, Labels
    <3> QED
      BY <2>2, <3>1, <3>2
  <2>4. toRegister' \in [Execs -> SUBSET VMs] /\ unlisted' \subseteq VMs
    BY <1>12 DEF GetOutput, Typed
  <2> QED
    BY <1>12, <2>1, <2>3, <2>4 DEF GetOutput, Typed
<1>13. ASSUME NEW e \in Execs, AllRegistered(e) PROVE Typed' /\ LockInv'
  <2>1. Return(e, "ok") /\ pc[e] = "register"
    BY <1>13 DEF AllRegistered
  <2> QED
    BY <1>13, <2>1, ReturnStep DEF AllRegistered, Typed, LockInv
<1>14. ASSUME NEW e \in Execs, Rollback(e) PROVE Typed' /\ LockInv'
  <2>1. Put(e, "FAILED") /\ Call(e, "DESTROY", TRUE) /\ pc[e] = "regFailed"
    BY <1>14 DEF Rollback
  <2>2. Typed'
    BY <1>0, <1>14, <2>1, PutStep, CallStep DEF Rollback, Typed
  <2>3. pc' = [pc EXCEPT ![e] = "start"] /\ UNCHANGED lock
    BY <1>0, <1>14, <2>1, CallStep DEF Rollback
  <2> QED
    BY <2>1, <2>2, <2>3 DEF Typed, LockInv
<1>15. ASSUME NEW e \in Execs, Recover(e) PROVE Typed' /\ LockInv'
  BY <1>15 DEF Recover, Goto, Typed, LockInv, Labels
<1>16. ASSUME NEW e \in Execs, Expire(e) PROVE Typed' /\ LockInv'
  BY <1>16 DEF Expire, Typed, LockInv
<1>17. ASSUME NEW e \in Execs, Crash(e) PROVE Typed' /\ LockInv'
  <2>1. /\ pc' = [pc EXCEPT ![e] = "crashed"] /\ lock' = IF lock = e THEN NoExec ELSE lock
    BY <1>17 DEF Crash, Goto
  <2>2. pc' \in [Execs -> Labels] /\ LockInv'
    BY <1>0, <2>1 DEF Typed, LockInv, Labels
  <2>3. crashes' \in 0..MaxCrashes /\ infra' \subseteq VMs /\ toRegister' \in [Execs -> SUBSET VMs]
    BY <1>17, LimitsAssumption DEF Crash, Killed, Typed
  <2> QED
    BY <1>17, <2>1, <2>2, <2>3 DEF Crash, Typed
<1>18. ASSUME NEW e \in Execs, NEW s \in Statuses, LateUpdate(e, s) PROVE Typed' /\ LockInv'
  BY <1>18 DEF LateUpdate, Typed, LockInv
<1>19. CASE UNCHANGED vars
  BY <1>19 DEF vars, Typed, LockInv
<1> QED
  BY <1>1, <1>2, <1>3, <1>4, <1>5, <1>6, <1>7, <1>8, <1>9, <1>10, <1>11, <1>12, <1>13,
     <1>14, <1>15, <1>16, <1>17, <1>18, <1>19 DEF Next, Step

(* Every variable of the executions keeps its type, and the state lock is  *)
(* held exactly while the terraform of its holder runs.                    *)
THEOREM ExecutorTypes == Spec => []TypeOK
<1>1. Spec => [](Typed /\ LockInv)
  BY InitTyped, TypedNext, PTL DEF Spec
<1> QED
  BY <1>1, TypeOKSplit, PTL

--------------------------------------------------------------------------------
(* What the Backend shows. *)

(* Only the updates of an unsure execution are late. *)
LateUnsure == \A u \in late : u[1] \in unsure

(* Where Execute is, what it has reported and how the last command ended.  *)
(* An execution that is queued shows no end; a crash changes neither.      *)
Told(e) ==
    /\ status[e] = "SUCCESS" => lastOk[e]
    /\ status[e] = "FAILED" => ~ lastOk[e]
    /\ pc[e] = "queued" => status[e] \in {"QUEUED", "RUNNING"}
    /\ pc[e] = "start" => ~ lastOk[e]
    /\ pc[e] \in {"setup", "init", "main", "terraform", "fail"} => status[e] = "RUNNING" /\ ~ lastOk[e]
    /\ pc[e] = "succeed" => status[e] = "RUNNING" /\ lastOk[e]
    /\ pc[e] \in {"output", "register", "regFailed"} => status[e] = "SUCCESS"
    /\ pc[e] = "done" => status[e] \in {"SUCCESS", "FAILED"}
    /\ pc[e] = "done" /\ result[e] = "error" /\ lastOk[e] => rolling[e]
Reported == \A e \in Execs : e \notin unsure => Told(e)

ReportInv == Typed /\ LockInv /\ LateUnsure /\ Reported

LEMMA InitReported == Init => LateUnsure /\ Reported
BY DEF Init, LateUnsure, Reported, Told

(* An action whose only effect on what Told is about is to move e. *)
LEMMA MovedTold ==
    ASSUME ReportInv, NEW e \in Execs, NEW l \in Labels, Goto(e, l),
           UNCHANGED <<status, late, lastOk, result, rolling, unsure>>,
           e \notin unsure => Told(e)'
    PROVE  LateUnsure' /\ Reported'
<1>1. LateUnsure'
  BY DEF ReportInv, LateUnsure
<1>2. ASSUME NEW f \in Execs, f # e, f \notin unsure PROVE Told(f)'
  <2>1. pc'[f] = pc[f]
    BY <1>2 DEF Goto, ReportInv, Typed
  <2>2. Told(f)
    BY <1>2 DEF ReportInv, Reported
  <2> QED
    BY <2>1, <2>2 DEF Told
<1> QED
  BY <1>1, <1>2 DEF Reported

(* An action that reports s for e. *)
LEMMA PutTold ==
    ASSUME ReportInv, NEW e \in Execs, NEW s \in Statuses, Put(e, s),
           \A f \in Execs : f # e =>
               /\ pc'[f] = pc[f] /\ lastOk'[f] = lastOk[f]
               /\ result'[f] = result[f] /\ rolling'[f] = rolling[f],
           status'[e] = s /\ e \notin unsure => Told(e)'
    PROVE  LateUnsure' /\ Reported'
<1>0. Typed
  BY DEF ReportInv
<1>1. /\ \A f \in Execs : f # e => status'[f] = status[f] /\ (f \in unsure' <=> f \in unsure)
      /\ e \notin unsure' => status'[e] = s /\ e \notin unsure
      /\ \A u \in late' : u \in late \/ u[1] \in unsure'
      /\ unsure \subseteq unsure'
  BY <1>0, PutStep
<1>2. LateUnsure'
  BY <1>1 DEF ReportInv, LateUnsure
<1>3. ASSUME NEW f \in Execs, f # e, f \notin unsure' PROVE Told(f)'
  <2>1. Told(f)
    BY <1>1, <1>3 DEF ReportInv, Reported
  <2> QED
    BY <1>1, <1>3, <2>1 DEF Told
<1>4. e \notin unsure' => Told(e)'
  BY <1>1
<1> QED
  BY <1>2, <1>3, <1>4 DEF Reported

LEMMA ReportedNext == ReportInv /\ [Next]_vars => LateUnsure' /\ Reported'
<1> SUFFICES ASSUME ReportInv, [Next]_vars PROVE LateUnsure' /\ Reported'
  OBVIOUS
<1> USE DEF run, world, history
<1>0. /\ Typed /\ LateUnsure /\ (\A e \in Execs : e \notin unsure => Told(e))
      /\ {"QUEUED", "RUNNING", "SUCCESS", "FAILED"} \subseteq Statuses /\ "DESTROY" \in Types
      /\ \A e \in Execs : type[e] \in Types
  BY ExecsAssumption DEF ReportInv, Reported, Statuses, Types, Commands, Typed
<1>00. DOMAIN pc = Execs /\ DOMAIN lastOk = Execs /\ DOMAIN result = Execs /\ DOMAIN rolling = Execs
  BY <1>0 DEF Typed
<1>1. ASSUME NEW e \in Execs, Deliver(e) PROVE LateUnsure' /\ Reported'
  <2>1. /\ Goto(e, "start") /\ rolling' = [rolling EXCEPT ![e] = FALSE]
        /\ lastOk' = [lastOk EXCEPT ![e] = FALSE] /\ pc[e] = "queued"
        /\ UNCHANGED <<status, late, result, unsure>>
    BY <1>1 DEF Deliver, Call
  <2>2. ASSUME NEW f \in Execs, f \notin unsure PROVE Told(f)'
    <3>1. CASE f = e
      <4>1. pc'[e] = "start" /\ ~ lastOk'[e] /\ status'[e] \in {"QUEUED", "RUNNING"}
        BY <1>0, <1>00, <2>1, <2>2, <3>1 DEF Goto, Told
      <4> QED
        BY <3>1, <4>1 DEF Told
    <3>2. CASE f # e
      <4>1. pc'[f] = pc[f] /\ lastOk'[f] = lastOk[f] /\ rolling'[f] = rolling[f]
        BY <1>00, <2>1, <3>2 DEF Goto
      <4> QED
        BY <1>0, <2>1, <2>2, <4>1 DEF Told
    <3> QED
      BY <3>1, <3>2
  <2> QED
    BY <1>0, <2>1, <2>2 DEF LateUnsure, Reported
<1>2. ASSUME NEW e \in Execs, ReportRunning(e) PROVE LateUnsure' /\ Reported'
  <2>1. /\ Put(e, "RUNNING") /\ pc' = [pc EXCEPT ![e] = "setup"] /\ pc[e] = "start"
        /\ UNCHANGED <<lastOk, result, rolling>>
    BY <1>2 DEF ReportRunning, Goto
  <2>2. ASSUME status'[e] = "RUNNING", e \notin unsure PROVE Told(e)'
    <3>1. pc'[e] = "setup" /\ ~ lastOk'[e]
      BY <1>0, <1>00, <2>1, <2>2 DEF Told
    <3> QED
      BY <2>2, <3>1 DEF Told
  <2>3. \A f \in Execs : f # e => pc'[f] = pc[f]
    BY <1>00, <2>1
  <2> QED
    BY <1>0, <2>1, <2>2, <2>3, PutTold
<1>3. ASSUME NEW e \in Execs, Setup(e) PROVE LateUnsure' /\ Reported'
  <2>1. PICK l \in {"init", "fail"} : Goto(e, l)
    BY <1>3 DEF Setup
  <2>2. UNCHANGED <<status, late, lastOk, result, rolling, unsure>> /\ pc[e] = "setup"
    BY <1>3 DEF Setup
  <2>3. e \notin unsure => Told(e)'
    BY <1>0, <1>00, <2>1, <2>2 DEF Goto, Told
  <2> QED
    BY <2>1, <2>2, <2>3, MovedTold DEF Labels
<1>4. ASSUME NEW e \in Execs, RunInitStep(e) PROVE LateUnsure' /\ Reported'
  <2>1. PICK l \in {"main", "fail"} : Goto(e, l)
    BY <1>4 DEF RunInitStep
  <2>2. UNCHANGED <<status, late, lastOk, result, rolling, unsure>> /\ pc[e] = "init"
    BY <1>4 DEF RunInitStep
  <2>3. e \notin unsure => Told(e)'
    BY <1>0, <1>00, <2>1, <2>2 DEF Goto, Told
  <2> QED
    BY <2>1, <2>2, <2>3, MovedTold DEF Labels
<1>5. ASSUME NEW e \in Execs, StartMainCommand(e) \/ RefuseMainCommand(e) PROVE LateUnsure' /\ Reported'
  <2>1. PICK l \in {"terraform", "fail"} : Goto(e, l)
    BY <1>5 DEF StartMainCommand, RefuseMainCommand
  <2>2. UNCHANGED <<status, late, lastOk, result, rolling, unsure>> /\ pc[e] = "main"
    BY <1>5 DEF StartMainCommand, RefuseMainCommand
  <2>3. e \notin unsure => Told(e)'
    BY <1>0, <1>00, <2>1, <2>2 DEF Goto, Told
  <2> QED
    BY <2>1, <2>2, <2>3, MovedTold DEF Labels
<1>6. ASSUME NEW e \in Execs, MainCommandOk(e) PROVE LateUnsure' /\ Reported'
  <2>1. /\ pc' = [pc EXCEPT ![e] = "succeed"] /\ lastOk' = [lastOk EXCEPT ![e] = TRUE]
        /\ pc[e] = "terraform" /\ UNCHANGED <<status, late, result, rolling, unsure>>
    BY <1>6 DEF MainCommandOk, Goto
  <2>2. ASSUME NEW f \in Execs, f \notin unsure PROVE Told(f)'
    <3>1. CASE f = e
      <4>1. pc'[e] = "succeed" /\ lastOk'[e] /\ status'[e] = "RUNNING"
        BY <1>0, <1>00, <2>1, <2>2, <3>1 DEF Told
      <4> QED
        BY <3>1, <4>1 DEF Told
    <3>2. CASE f # e
      <4>1. pc'[f] = pc[f] /\ lastOk'[f] = lastOk[f]
        BY <1>00, <2>1, <3>2
      <4> QED
        BY <1>0, <2>1, <2>2, <4>1 DEF Told
    <3> QED
      BY <3>1, <3>2
  <2> QED
    BY <1>0, <2>1, <2>2 DEF LateUnsure, Reported
<1>7. ASSUME NEW e \in Execs, MainCommandFails(e) PROVE LateUnsure' /\ Reported'
  <2>1. /\ Goto(e, "fail") /\ pc[e] = "terraform"
        /\ UNCHANGED <<status, late, lastOk, result, rolling, unsure>>
    BY <1>7 DEF MainCommandFails
  <2>2. e \notin unsure => Told(e)'
    BY <1>0, <1>00, <2>1 DEF Goto, Told
  <2> QED
    BY <2>1, <2>2, MovedTold DEF Labels
<1>8. ASSUME NEW e \in Execs, HandleError(e) PROVE LateUnsure' /\ Reported'
  <2>1. /\ Put(e, "FAILED") /\ Return(e, "error") /\ pc[e] = "fail"
        /\ UNCHANGED <<lastOk, rolling>>
    BY <1>8 DEF HandleError
  <2>2. pc' = [pc EXCEPT ![e] = "done"] /\ result' = [result EXCEPT ![e] = "error"]
    BY <1>0, <2>1, ReturnStep
  <2>3. ASSUME status'[e] = "FAILED", e \notin unsure PROVE Told(e)'
    <3>1. pc'[e] = "done" /\ ~ lastOk'[e]
      BY <1>0, <1>00, <2>1, <2>2, <2>3 DEF Told
    <3> QED
      BY <2>3, <3>1 DEF Told
  <2>4. \A f \in Execs : f # e => pc'[f] = pc[f] /\ result'[f] = result[f]
    BY <1>00, <2>2
  <2> QED
    BY <1>0, <2>1, <2>3, <2>4, PutTold
<1>9. ASSUME NEW e \in Execs, ReportSuccess(e) PROVE LateUnsure' /\ Reported'
  <2>1. Put(e, "SUCCESS") /\ pc[e] = "succeed" /\ UNCHANGED <<lastOk, rolling>>
    BY <1>9 DEF ReportSuccess
  <2>2. \/ pc' = [pc EXCEPT ![e] = "output"] /\ UNCHANGED result
        \/ /\ pc' = [pc EXCEPT ![e] = "done"]
           /\ result' = [result EXCEPT ![e] = IF rolling[e] THEN "error" ELSE "ok"]
    BY <1>0, <1>9, ReturnStep DEF ReportSuccess, Goto
  <2>3. ASSUME status'[e] = "SUCCESS", e \notin unsure PROVE Told(e)'
    <3>1. lastOk'[e] /\ pc'[e] \in {"output", "done"}
          /\ (pc'[e] = "done" /\ result'[e] = "error" => rolling'[e])
      BY <1>0, <1>00, <2>1, <2>2, <2>3 DEF Told
    <3> QED
      BY <2>3, <3>1 DEF Told
  <2>4. \A f \in Execs : f # e => pc'[f] = pc[f] /\ result'[f] = result[f]
    BY <1>00, <2>2
  <2> QED
    BY <1>0, <2>1, <2>3, <2>4, PutTold
<1>10. ASSUME NEW e \in Execs, pc[e] \in {"output", "register"}, Return(e, "ok"),
              UNCHANGED <<status, late, lastOk, rolling, unsure>>
       PROVE  LateUnsure' /\ Reported'
  <2>1. /\ Return(e, "ok") /\ pc[e] \in {"output", "register"}
        /\ UNCHANGED <<status, late, lastOk, rolling, unsure>>
    BY <1>10
  <2>2. /\ pc' = [pc EXCEPT ![e] = "done"]
        /\ result' = [result EXCEPT ![e] = IF rolling[e] THEN "error" ELSE "ok"]
    BY <1>0, <2>1, ReturnStep
  <2>3. ASSUME NEW f \in Execs, f \notin unsure PROVE Told(f)'
    <3>1. CASE f = e
      <4>1. /\ pc'[e] = "done" /\ status'[e] = "SUCCESS" /\ lastOk'[e]
            /\ result'[e] = "error" => rolling'[e]
        BY <1>0, <1>00, <2>1, <2>2, <2>3, <3>1 DEF Told
      <4> QED
        BY <3>1, <4>1 DEF Told
    <3>2. CASE f # e
      <4>1. pc'[f] = pc[f] /\ result'[f] = result[f]
        BY <1>00, <2>2, <3>2
      <4> QED
        BY <1>0, <2>1, <2>3, <4>1 DEF Told
    <3> QED
      BY <3>1, <3>2
  <2> QED
    BY <1>0, <2>1, <2>3 DEF LateUnsure, Reported
<1>11. ASSUME NEW e \in Execs, NEW v \in VMs, RegisterVM(e, v) PROVE LateUnsure' /\ Reported'
  <2>1. UNCHANGED <<status, late, lastOk, result, rolling, unsure>> /\ pc[e] = "register"
    BY <1>11 DEF RegisterVM
  <2>2. CASE Goto(e, "regFailed")
    <3>1. e \notin unsure => Told(e)'
      BY <1>0, <1>00, <2>1, <2>2 DEF Goto, Told
    <3> QED
      BY <2>1, <2>2, <3>1, MovedTold DEF Labels
  <2>3. CASE UNCHANGED pc
    BY <1>0, <2>1, <2>3 DEF LateUnsure, Reported, Told
  <2> QED
    BY <1>11, <2>2, <2>3 DEF RegisterVM
<1>12. ASSUME NEW e \in Execs, GetOutput(e) \/ AllRegistered(e) PROVE LateUnsure' /\ Reported'
  <2>1. /\ pc[e] \in {"output", "register"} /\ UNCHANGED <<status, late, lastOk, rolling, unsure>>
        /\ \/ Return(e, "ok")
           \/ /\ pc[e] = "output" /\ UNCHANGED result
              /\ \E l \in {"register", "regFailed"} : Goto(e, l)
    BY <1>12 DEF GetOutput, AllRegistered
  <2>2. ASSUME NEW l \in {"register", "regFailed"}, Goto(e, l), pc[e] = "output", UNCHANGED result
        PROVE  LateUnsure' /\ Reported'
    <3>1. e \notin unsure => Told(e)'
      BY <1>0, <1>00, <2>1, <2>2 DEF Goto, Told
    <3> QED
      BY <2>1, <2>2, <3>1, MovedTold DEF Labels
  <2> QED
    BY <1>10, <2>1, <2>2
<1>13. ASSUME NEW e \in Execs, Rollback(e) PROVE LateUnsure' /\ Reported'
  <2>1. Put(e, "FAILED") /\ Call(e, "DESTROY", TRUE) /\ UNCHANGED result
    BY <1>13 DEF Rollback
  <2>2. /\ pc' = [pc EXCEPT ![e] = "start"] /\ rolling' = [rolling EXCEPT ![e] = TRUE]
        /\ lastOk' = [lastOk EXCEPT ![e] = FALSE]
    BY <1>0, <2>1, CallStep
  <2>3. ASSUME status'[e] = "FAILED", e \notin unsure PROVE Told(e)'
    <3>1. pc'[e] = "start" /\ ~ lastOk'[e]
      BY <1>00, <2>2
    <3> QED
      BY <2>3, <3>1 DEF Told
  <2>4. \A f \in Execs : f # e => pc'[f] = pc[f] /\ lastOk'[f] = lastOk[f] /\ rolling'[f] = rolling[f]
    BY <1>00, <2>2
  <2> QED
    BY <1>0, <2>1, <2>3, <2>4, PutTold
<1>14. ASSUME NEW e \in Execs, Recover(e) PROVE LateUnsure' /\ Reported'
  <2>1. /\ pc[e] = "crashed" /\ UNCHANGED <<status, late, lastOk, rolling, unsure>>
        /\ \/ /\ status[e] \in {"SUCCESS", "FAILED"}
              /\ pc' = [pc EXCEPT ![e] = "done"] /\ result' = [result EXCEPT ![e] = "acked"]
           \/ /\ status[e] \notin {"SUCCESS", "FAILED"}
              /\ pc' = [pc EXCEPT ![e] = "queued"] /\ UNCHANGED result
    BY <1>14 DEF Recover, Goto
  <2>2. ASSUME NEW f \in Execs, f \notin unsure PROVE Told(f)'
    <3>1. CASE f = e
      <4>1. \/ status'[e] \in {"SUCCESS", "FAILED"} /\ pc'[e] = "done" /\ result'[e] = "acked"
            \/ status'[e] \in {"QUEUED", "RUNNING"} /\ pc'[e] = "queued"
        BY <1>0, <1>00, <2>1 DEF Typed, Statuses
      <4>2. (status'[e] = "SUCCESS" => lastOk'[e]) /\ (status'[e] = "FAILED" => ~ lastOk'[e])
        BY <1>0, <2>1, <2>2, <3>1 DEF Told
      <4> QED
        BY <3>1, <4>1, <4>2 DEF Told
    <3>2. CASE f # e
      <4>1. pc'[f] = pc[f] /\ result'[f] = result[f]
        BY <1>00, <2>1, <3>2
      <4> QED
        BY <1>0, <2>1, <2>2, <4>1 DEF Told
    <3> QED
      BY <3>1, <3>2
  <2> QED
    BY <1>0, <2>1, <2>2 DEF LateUnsure, Reported
<1>15. ASSUME NEW e \in Execs, Crash(e) PROVE LateUnsure' /\ Reported'
  <2>1. /\ Goto(e, "crashed")
        /\ UNCHANGED <<status, late, lastOk, result, rolling, unsure>>
    BY <1>15 DEF Crash
  <2>2. e \notin unsure => Told(e)'
    BY <1>0, <1>00, <2>1 DEF Goto, Told
  <2> QED
    BY <2>1, <2>2, MovedTold DEF Labels
<1>16. ASSUME NEW e \in Execs, NEW s \in Statuses, LateUpdate(e, s) PROVE LateUnsure' /\ Reported'
  <2>1. /\ e \in unsure /\ late' \subseteq late /\ status' = [status EXCEPT ![e] = s]
        /\ UNCHANGED <<pc, lastOk, result, rolling, unsure>>
    BY <1>0, <1>16 DEF LateUpdate, LateUnsure
  <2>2. ASSUME NEW f \in Execs, f \notin unsure PROVE Told(f)'
    BY <1>0, <2>1, <2>2 DEF Told, Typed
  <2> QED
    BY <1>0, <2>1, <2>2 DEF LateUnsure, Reported
<1>17. ASSUME NEW e \in Execs, Expire(e) \/ \E v \in VMs : CreateVM(e, v) \/ DestroyVM(e, v)
       PROVE  LateUnsure' /\ Reported'
  <2>1. UNCHANGED <<status, late, pc, lastOk, result, rolling, unsure>>
    BY <1>17 DEF CreateVM, DestroyVM, Expire
  <2> QED
    BY <1>0, <2>1 DEF LateUnsure, Reported, Told
<1>18. CASE UNCHANGED vars
  BY <1>0, <1>18 DEF LateUnsure, Reported, Told, vars
<1> QED
  BY <1>1, <1>2, <1>3, <1>4, <1>5, <1>6, <1>7, <1>8, <1>9, <1>11, <1>12, <1>13,
     <1>14, <1>15, <1>16, <1>17, <1>18 DEF Next, Step

(* When Execute has returned and all its reports arrived, the Backend      *)
(* shows SUCCESS exactly when the last terraform command was successful.   *)
THEOREM LastCommandShown == Spec => []StatusIsLastCommand
<1>1. Init => ReportInv
  BY InitTyped, InitReported DEF ReportInv
<1>2. ReportInv /\ [Next]_vars => ReportInv'
  BY TypedNext, ReportedNext DEF ReportInv
<1>3. ReportInv => StatusIsLastCommand
  BY DEF ReportInv, Reported, Told, StatusIsLastCommand, Done
<1> QED
  BY <1>1, <1>2, <1>3, PTL DEF Spec

--------------------------------------------------------------------------------
(* What is registered. *)

(* The running Execute is of the job's type, or a rollback; a result is    *)
(* the end.                                                                *)
OwnKind ==
    \A e \in Execs :
        /\ kind[e] = type[e] \/ (rolling[e] /\ kind[e] = "DESTROY")
        /\ result[e] # "none" => pc[e] = "done"

(* The only apply of the project: nobody else adds to the state. *)
OnlyApply(e) == {f \in Execs : type[f] = "APPLY"} = {e}
Registering ==
    \A e \in Execs : OnlyApply(e) =>
        /\ result[e] = "ok" => tfstate \subseteq registered \cup unlisted
        /\ pc[e] = "register" => tfstate \subseteq registered \cup unlisted \cup toRegister[e]

RegisterInv == Typed /\ LockInv /\ OwnKind /\ Registering

LEMMA OwnKindNext == RegisterInv /\ [Next]_vars => OwnKind'
<1> SUFFICES ASSUME RegisterInv, [Next]_vars, NEW f \in Execs
             PROVE  /\ kind'[f] = type'[f] \/ (rolling'[f] /\ kind'[f] = "DESTROY")
                    /\ result'[f] # "none" => pc'[f] = "done"
  BY DEF OwnKind
<1> DEFINE Goal == /\ kind'[f] = type'[f] \/ (rolling'[f] /\ kind'[f] = "DESTROY")
                   /\ result'[f] # "none" => pc'[f] = "done"
<1> USE DEF run, world, history
<1>0. /\ Typed /\ "DESTROY" \in Types /\ (\A e \in Execs : type[e] \in Types)
      /\ kind[f] = type[f] \/ (rolling[f] /\ kind[f] = "DESTROY")
      /\ result[f] # "none" => pc[f] = "done"
  BY ExecsAssumption DEF RegisterInv, OwnKind, Types, Commands, Typed
<1>00. DOMAIN pc = Execs /\ DOMAIN kind = Execs /\ DOMAIN result = Execs /\ DOMAIN rolling = Execs
  BY <1>0 DEF Typed
<1>1. ASSUME NEW e \in Execs, NEW k \in Types, NEW b \in BOOLEAN, Call(e, k, b), UNCHANGED result,
             k = type[e] \/ (b /\ k = "DESTROY"), pc[e] # "done"
      PROVE  Goal
  <2>1. /\ pc' = [pc EXCEPT ![e] = "start"] /\ kind' = [kind EXCEPT ![e] = k]
        /\ rolling' = [rolling EXCEPT ![e] = b] /\ UNCHANGED <<type, result>>
    BY <1>0, <1>1, CallStep
  <2> QED
    BY <1>0, <1>00, <1>1, <2>1
<1>2. ASSUME NEW e \in Execs, Deliver(e)
      PROVE  Goal
  <2>1. Call(e, type[e], FALSE) /\ UNCHANGED result /\ pc[e] # "done"
    BY <1>2 DEF Deliver
  <2> QED
    BY <1>0, <1>1, <2>1
<1>3. ASSUME NEW e \in Execs, Rollback(e)
      PROVE  Goal
  <2>1. Call(e, "DESTROY", TRUE) /\ UNCHANGED result /\ pc[e] # "done"
    BY <1>3 DEF Rollback
  <2> QED
    BY <1>0, <1>1, <2>1
<1>4. ASSUME UNCHANGED <<kind, type, rolling>>,
             NEW e \in Execs, NEW l \in Labels, pc' = [pc EXCEPT ![e] = l], pc[e] # "done" \/ l = "done",
             UNCHANGED result \/ (l = "done" /\ \E x : result' = [result EXCEPT ![e] = x])
      PROVE  Goal
  BY <1>0, <1>00, <1>4
<1>5. ASSUME NEW e \in Execs, Step(e) \/ Crash(e), ~ Deliver(e), ~ Rollback(e)
      PROVE  Goal
  <2>0. UNCHANGED <<kind, type, rolling>>
    BY <1>5 DEF Step, Crash, ReportRunning, Setup, RunInitStep, StartMainCommand, RefuseMainCommand,
         CreateVM, DestroyVM, RegisterVM, MainCommandOk, MainCommandFails, HandleError,
         ReportSuccess, GetOutput, AllRegistered, Recover
  <2>1. CASE ReportRunning(e) \/ Setup(e) \/ RunInitStep(e) \/ StartMainCommand(e) \/ RefuseMainCommand(e)
    <3>1. /\ \E l \in Labels : pc' = [pc EXCEPT ![e] = l]
          /\ pc[e] # "done" /\ UNCHANGED result
      BY <2>1 DEF ReportRunning, Setup, RunInitStep, StartMainCommand, RefuseMainCommand, Goto, Labels
    <3> QED
      BY <1>4, <2>0, <3>1
  <2>2. CASE MainCommandOk(e) \/ MainCommandFails(e) \/ Crash(e)
    <3>1. /\ \E l \in Labels : pc' = [pc EXCEPT ![e] = l]
          /\ pc[e] # "done" /\ UNCHANGED result
      BY <2>2 DEF MainCommandOk, MainCommandFails, Crash, Running, Goto, Labels
    <3> QED
      BY <1>4, <2>0, <3>1
  <2>3. CASE HandleError(e) \/ AllRegistered(e)
    <3>1. pc' = [pc EXCEPT ![e] = "done"] /\ \E x : result' = [result EXCEPT ![e] = x]
      BY <1>0, <2>3, ReturnStep DEF HandleError, AllRegistered
    <3> QED
      BY <1>4, <2>0, <3>1 DEF Labels
  <2>4. CASE ReportSuccess(e)
    <3>1. CASE pc' = [pc EXCEPT ![e] = "output"] /\ UNCHANGED result
      BY <1>4, <2>0, <2>4, <3>1 DEF ReportSuccess, Labels
    <3>2. CASE Return(e, "ok")
      <4>1. pc' = [pc EXCEPT ![e] = "done"] /\ \E x : result' = [result EXCEPT ![e] = x]
        BY <1>0, <3>2, ReturnStep
      <4> QED
        BY <1>4, <2>0, <4>1 DEF Labels
    <3> QED
      BY <2>4, <3>1, <3>2 DEF ReportSuccess, Goto
  <2>5. CASE Recover(e)
    <3>1. \/ pc' = [pc EXCEPT ![e] = "done"] /\ \E x : result' = [result EXCEPT ![e] = x]
          \/ pc' = [pc EXCEPT ![e] = "queued"] /\ UNCHANGED result
      BY <2>5 DEF Recover, Goto
    <3> QED
      BY <1>4, <2>0, <2>5, <3>1 DEF Recover, Labels
  <2>6. ASSUME NEW v \in VMs, CreateVM(e, v) \/ DestroyVM(e, v) \/ RegisterVM(e, v)
        PROVE  Goal
    <3>1. /\ UNCHANGED pc \/ pc' = [pc EXCEPT ![e] = "regFailed"]
          /\ UNCHANGED result /\ pc[e] # "done"
      BY <2>6 DEF CreateVM, DestroyVM, RegisterVM, Goto
    <3> QED
      BY <1>0, <1>4, <2>0, <3>1 DEF Labels
  <2>7. CASE GetOutput(e)
    <3>1. CASE Return(e, "ok")
      <4>1. pc' = [pc EXCEPT ![e] = "done"] /\ \E x : result' = [result EXCEPT ![e] = x]
        BY <1>0, <3>1, ReturnStep
      <4> QED
        BY <1>4, <2>0, <4>1 DEF Labels
    <3>2. CASE UNCHANGED result /\ pc[e] # "done" /\ \E l \in Labels : pc' = [pc EXCEPT ![e] = l]
      BY <1>4, <2>0, <3>2
    <3> QED
      BY <2>7, <3>1, <3>2 DEF GetOutput, Goto, Labels
  <2> QED
    BY <1>5, <2>1, <2>2, <2>3, <2>4, <2>5, <2>6, <2>7 DEF Step
<1>6. ASSUME NEW e \in Execs, Expire(e) \/ \E s \in Statuses : LateUpdate(e, s)
      PROVE  Goal
  BY <1>0, <1>6 DEF Expire, LateUpdate
<1>7. ASSUME UNCHANGED vars PROVE Goal
  BY <1>0, <1>7 DEF vars
<1> QED
  BY <1>2, <1>3, <1>5, <1>6, <1>7 DEF Next

LEMMA RegisteringNext == RegisterInv /\ [Next]_vars => Registering'
<1> SUFFICES ASSUME RegisterInv, [Next]_vars, NEW f \in Execs, OnlyApply(f)'
             PROVE  /\ result'[f] = "ok" => tfstate' \subseteq registered' \cup unlisted'
                    /\ pc'[f] = "register" => tfstate' \subseteq registered' \cup unlisted' \cup toRegister'[f]
  BY DEF Registering
<1> DEFINE Goal == /\ result'[f] = "ok" => tfstate' \subseteq registered' \cup unlisted'
                   /\ pc'[f] = "register" => tfstate' \subseteq registered' \cup unlisted' \cup toRegister'[f]
<1> HIDE DEF Goal
<1> USE DEF run, world, history
<1>0. Typed /\ OwnKind
  BY DEF RegisterInv
<1>00. /\ DOMAIN pc = Execs /\ DOMAIN result = Execs /\ DOMAIN toRegister = Execs
  BY <1>0 DEF Typed
<1>1. UNCHANGED type
  BY DEF Next, Step, Expire, LateUpdate, Crash, Deliver, Rollback, Call, ReportRunning, Setup, RunInitStep,
         StartMainCommand, RefuseMainCommand, CreateVM, DestroyVM, RegisterVM, MainCommandOk,
         MainCommandFails, HandleError, ReportSuccess, GetOutput, AllRegistered, Recover, vars
<1>2. /\ OnlyApply(f)
      /\ result[f] = "ok" => tfstate \subseteq registered \cup unlisted
      /\ pc[f] = "register" => tfstate \subseteq registered \cup unlisted \cup toRegister[f]
  BY <1>1 DEF RegisterInv, Registering, OnlyApply
(* A step that neither creates nor begins, ends or goes on to register. *)
<1>3. ASSUME tfstate' \subseteq tfstate, registered \subseteq registered', unlisted \subseteq unlisted',
             result'[f] = "ok" => result[f] = "ok",
             pc'[f] = "register" => pc[f] = "register" /\ toRegister'[f] = toRegister[f]
      PROVE  Goal
  BY <1>2, <1>3 DEF Goal
<1>4. ASSUME NEW e \in Execs, \/ Deliver(e) \/ ReportRunning(e) \/ Setup(e) \/ RunInitStep(e)
                             \/ StartMainCommand(e) \/ RefuseMainCommand(e) \/ MainCommandOk(e)
                             \/ MainCommandFails(e) \/ Rollback(e) \/ Crash(e)
      PROVE  Goal
  <2>1. UNCHANGED <<tfstate, registered, unlisted, result>>
    BY <1>4 DEF Deliver, ReportRunning, Setup, RunInitStep, StartMainCommand, RefuseMainCommand,
         MainCommandOk, MainCommandFails, Rollback, Crash
  <2>2. \E l \in Labels \ {"register"} : pc' = [pc EXCEPT ![e] = l]
    BY <1>4 DEF Deliver, ReportRunning, Setup, RunInitStep, StartMainCommand, RefuseMainCommand,
         MainCommandOk, MainCommandFails, Rollback, Crash, Call, Goto, Labels
  <2>3. \A g \in Execs : g # e => toRegister'[g] = toRegister[g]
    BY <1>4, <1>00 DEF Deliver, ReportRunning, Setup, RunInitStep, StartMainCommand, RefuseMainCommand,
         MainCommandOk, MainCommandFails, Rollback, Crash
  <2>4. pc'[f] = "register" => pc[f] = "register" /\ f # e
    BY <1>00, <2>2
  <2> QED
    BY <1>3, <2>1, <2>3, <2>4
<1>5. ASSUME NEW e \in Execs, HandleError(e) \/ ReportSuccess(e) \/ AllRegistered(e) PROVE Goal
  <2>0. UNCHANGED <<tfstate, registered, unlisted, toRegister>>
    BY <1>5 DEF HandleError, ReportSuccess, AllRegistered
  <2>1. CASE pc' = [pc EXCEPT ![e] = "output"] /\ UNCHANGED result
    BY <1>00, <1>3, <2>0, <2>1
  <2>2. ASSUME NEW r \in {"ok", "error"}, Return(e, r),
               r = "ok" /\ e = f /\ ~ rolling[e] => tfstate \subseteq registered \cup unlisted
        PROVE  Goal
    <3>1. /\ pc' = [pc EXCEPT ![e] = "done"]
          /\ result' = [result EXCEPT ![e] = IF rolling[e] THEN "error" ELSE r]
      BY <1>0, <2>2, ReturnStep
    <3>2. pc'[f] = "register" => pc[f] = "register"
      BY <1>00, <3>1
    <3>3. result'[f] = "ok" => tfstate \subseteq registered \cup unlisted
      BY <1>00, <1>2, <2>2, <3>1
    <3> QED
      BY <1>2, <2>0, <3>2, <3>3 DEF Goal
  <2>3. CASE HandleError(e)
    BY <2>2, <2>3 DEF HandleError
  <2>4. CASE AllRegistered(e)
    <3>1. e = f => tfstate \subseteq registered \cup unlisted
      BY <1>2, <2>4 DEF AllRegistered
    <3> QED
      BY <2>2, <2>4, <3>1 DEF AllRegistered
  <2>5. CASE ReportSuccess(e)
    <3>1. CASE kind[e] = "APPLY"
      BY <2>1, <2>5, <3>1 DEF ReportSuccess, Goto
    <3>2. CASE kind[e] # "APPLY"
      <4>1. e = f => rolling[e]
        BY <1>0, <1>2, <3>2 DEF OnlyApply, OwnKind
      <4> QED
        BY <2>2, <2>5, <3>2, <4>1 DEF ReportSuccess
    <3> QED
      BY <3>1, <3>2
  <2> QED
    BY <1>5, <2>3, <2>4, <2>5
<1>6. ASSUME NEW e \in Execs, NEW v \in VMs, CreateVM(e, v) PROVE Goal
  <2>1. kind[e] = "APPLY" /\ pc[e] = "terraform" /\ UNCHANGED <<pc, result>>
    BY <1>6 DEF CreateVM
  <2>2. e = f
    BY <1>0, <1>2, <2>1 DEF OnlyApply, OwnKind
  <2>3. result[f] = "none"
    BY <1>0, <2>1, <2>2 DEF OwnKind
  <2> QED
    BY <2>1, <2>2, <2>3 DEF Goal
<1>7. ASSUME NEW e \in Execs, NEW v \in VMs, DestroyVM(e, v) PROVE Goal
  BY <1>3, <1>7 DEF DestroyVM
<1>8. ASSUME NEW e \in Execs, NEW v \in VMs, RegisterVM(e, v) PROVE Goal
  <2>1. UNCHANGED <<tfstate, result>> /\ registered \subseteq registered' /\ unlisted \subseteq unlisted'
    BY <1>8 DEF RegisterVM
  <2>2. CASE e = f
    <3>1. CASE /\ v \in registered' \cup unlisted'
               /\ toRegister' = [toRegister EXCEPT ![e] = @ \ {v}] /\ UNCHANGED pc
      <4>1. registered \cup unlisted \cup toRegister[f] \subseteq registered' \cup unlisted' \cup toRegister'[f]
        BY <1>00, <2>1, <2>2, <3>1
      <4> QED
        BY <1>2, <2>1, <3>1, <4>1 DEF Goal
    <3>2. CASE Goto(e, "regFailed")
      BY <1>00, <1>3, <2>1, <2>2, <3>2 DEF Goto
    <3> QED
      BY <1>8, <3>1, <3>2 DEF RegisterVM
  <2>3. CASE e # f
    <3>1. pc'[f] = pc[f] /\ toRegister'[f] = toRegister[f]
      BY <1>00, <1>8, <2>3 DEF RegisterVM, Goto
    <3> QED
      BY <1>3, <2>1, <3>1
  <2> QED
    BY <2>2, <2>3
<1>9. ASSUME NEW e \in Execs, GetOutput(e) PROVE Goal
  <2>1. UNCHANGED <<tfstate, registered>> /\ unlisted \subseteq unlisted'
    BY <1>9 DEF GetOutput
  <2>2. CASE toRegister' = [toRegister EXCEPT ![e] = tfstate] /\ Goto(e, "register") /\ UNCHANGED result
    BY <1>00, <1>2, <2>1, <2>2 DEF Goto, Goal
  <2>3. CASE Goto(e, "regFailed") /\ UNCHANGED <<toRegister, result>>
    BY <1>00, <1>3, <2>1, <2>3 DEF Goto
  <2>4. CASE unlisted' = unlisted \cup tfstate /\ Return(e, "ok") /\ UNCHANGED toRegister
    <3>1. pc' = [pc EXCEPT ![e] = "done"] /\ tfstate' \subseteq unlisted'
      BY <1>0, <2>1, <2>4, ReturnStep
    <3>2. pc'[f] = "register" => pc[f] = "register"
      BY <1>00, <3>1
    <3> QED
      BY <1>2, <2>1, <2>4, <3>1, <3>2 DEF Goal
  <2> QED
    BY <1>9, <2>2, <2>3, <2>4 DEF GetOutput
<1>10. ASSUME NEW e \in Execs, Recover(e) PROVE Goal
  <2>1. /\ UNCHANGED <<tfstate, registered, unlisted, toRegister>>
        /\ \/ pc' = [pc EXCEPT ![e] = "done"] /\ result' = [result EXCEPT ![e] = "acked"]
           \/ pc' = [pc EXCEPT ![e] = "queued"] /\ UNCHANGED result
    BY <1>10 DEF Recover, Goto
  <2> QED
    BY <1>00, <1>3, <2>1
<1>11. ASSUME NEW e \in Execs, Expire(e) \/ \E s \in Statuses : LateUpdate(e, s) PROVE Goal
  BY <1>3, <1>11 DEF Expire, LateUpdate
<1>12. ASSUME UNCHANGED vars PROVE Goal
  <2>1. UNCHANGED <<tfstate, registered, unlisted, result, pc, toRegister>>
    BY <1>12 DEF vars
  <2> QED
    BY <1>3, <2>1
<1>13. ASSUME NEW e \in Execs, Step(e) PROVE Goal
  BY <1>4, <1>5, <1>6, <1>7, <1>8, <1>9, <1>10, <1>13 DEF Step
<1>14. Goal
  BY <1>4, <1>11, <1>12, <1>13 DEF Next
<1> QED
  BY <1>14 DEF Goal

(* An apply that returned without an error, and that shares its project    *)
(* with no other apply, has every VM that is left of it registered, except *)
(* those that "terraform output" did not describe.                         *)
THEOREM AppliesAreRegistered == Spec => []OkIsRegistered
<1>1. Init => RegisterInv
  <2>1. Init => OwnKind /\ Registering
    BY DEF Init, OwnKind, Registering
  <2> QED
    BY <2>1, InitTyped DEF RegisterInv
<1>2. RegisterInv /\ [Next]_vars => RegisterInv'
  BY TypedNext, OwnKindNext, RegisteringNext DEF RegisterInv
<1>3. RegisterInv => OkIsRegistered
  BY DEF RegisterInv, Registering, OkIsRegistered, OnlyApply
<1> QED
  BY <1>1, <1>2, <1>3, PTL DEF Spec
================================================================================
