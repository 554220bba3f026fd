-------------------------------- MODULE Executor --------------------------------
(***************************************************************************)
(* Executor.Execute (internal/terraform/executor.go): one Terraform job    *)
(* from the RUNNING report to the registration of its VMs, with the        *)
(* rollback that re-enters Execute, for the executions of one project.     *)
(* Between the steps a worker may crash; recovery then hands the execution *)
(* out again, unless the Backend shows it as finished.                     *)
(*                                                                         *)
(* terraform and the Backend are external: terraform creates or destroys   *)
(* one VM at a time under its state lock, and a killed terraform may leave *)
(* a VM that is not in its state.                                          *)
(***************************************************************************)
EXTENDS Integers

CONSTANTS
    Execs,       \* the executions of the project
    Mixes,       \* the combinations of job types the executions may have
    VMs,         \* the VMs of the project
    Refusable,   \* VMs whose registration may be refused (no moid or uuid, a 4xx)
    NoExec,      \* nobody holds the lock of the Terraform state
    MaxFaults,   \* bound on failing calls, commands and updates
    MaxCrashes   \* bound on crashes of workers

Commands == {"PLAN", "APPLY", "DESTROY"}
Types    == Commands \cup {"OTHER"}

ASSUME ExecsAssumption ==
    /\ NoExec \notin Execs
    /\ Mixes \subseteq [Execs -> Types]
    /\ Refusable \subseteq VMs
ASSUME LimitsAssumption == MaxFaults \in Nat /\ MaxCrashes \in Nat

VARIABLES
    type,        \* the Type of the job of an execution
    status,      \* the status the Backend shows
    late,        \* status updates the client gave up but the Backend still has
    pc,          \* where Execute is
    kind,        \* job.Type of the running Execute (DESTROY in a rollback)
    rolling,     \* whether the running Execute was called as a rollback
    expired,     \* whether the context of the running Execute is past its deadline
    toRegister,  \* the VMs of vm_info that are still to be registered
    result,      \* what Execute returned
    lock,        \* the execution whose terraform holds the state lock
    tfstate,     \* the VMs in the Terraform state
    infra,       \* the VMs in vCenter
    registered,  \* the VMs registered at the Backend
    faults,      \* failures so far
    crashes,     \* crashes so far
    unsure,      \* history: executions one of whose updates was lost or late
    unlisted,    \* history: VMs of the state that an output did not describe
    lastOk       \* history: the main command of the last Execute has succeeded

run     == <<type, kind, rolling, expired>>
world   == <<lock, tfstate, infra>>
history == <<unsure, unlisted, lastOk>>
vars    == <<status, late, pc, run, toRegister, result, world, registered,
             faults, crashes, history>>

Statuses == {"QUEUED", "RUNNING", "SUCCESS", "FAILED"}

Init ==
    /\ type \in Mixes
    /\ status = [e \in Execs |-> "QUEUED"]
    /\ late = {}
    /\ pc = [e \in Execs |-> "queued"]
    /\ kind = type
    /\ rolling = [e \in Execs |-> FALSE]
    /\ expired = [e \in Execs |-> FALSE]
    /\ toRegister = [e \in Execs |-> {}]
    /\ result = [e \in Execs |-> "none"]
    /\ lock = NoExec
    /\ tfstate = {}
    /\ infra = {}
    /\ registered = {}
    /\ faults = 0
    /\ crashes = 0
    /\ unsure = {}
    /\ unlisted = {}
    /\ lastOk = [e \in Execs |-> FALSE]

--------------------------------------------------------------------------------
Goto(e, l) == pc' = [pc EXCEPT ![e] = l]
Faulty     == faults < MaxFaults /\ faults' = faults + 1

(* UpdateExecutionStatusWithRetry.  Its error is only logged, so what      *)
(* matters is whether the update took effect, and whether an attempt the   *)
(* client gave up (it waits 30 seconds) may still take effect later.       *)
Put(e, s) ==
    \/ /\ status' = [status EXCEPT ![e] = s]
       /\ UNCHANGED <<late, faults, unsure>>
    \/ /\ Faulty
       /\ unsure' = unsure \cup {e}
       /\ status' \in {status, [status EXCEPT ![e] = s]}
       /\ late' \in {late, late \cup {<<e, s>>}}

LateUpdate(e, s) ==
    /\ <<e, s>> \in late
    /\ late' = late \ {<<e, s>>}
    /\ status' = [status EXCEPT ![e] = s]
    /\ UNCHANGED <<pc, run, toRegister, result, world, registered, faults,
                   crashes, history>>

(* Execute is called, by a worker or for the rollback: a new context. *)
Call(e, k, rollback) ==
    /\ Goto(e, "start")
    /\ kind' = [kind EXCEPT ![e] = k]
    /\ rolling' = [rolling EXCEPT ![e] = rollback]
    /\ expired' = [expired EXCEPT ![e] = FALSE]
    /\ lastOk' = [lastOk EXCEPT ![e] = FALSE]
    /\ UNCHANGED type

(* Execute returns; the caller of a rollback returns the registration error. *)
Return(e, r) ==
    /\ Goto(e, "done")
    /\ result' = [result EXCEPT ![e] = IF rolling[e] THEN "error" ELSE r]

--------------------------------------------------------------------------------
(* Wrong variants of actions below, which no part of Next uses: each is a  *)
(* slip the code could contain and some property must notice.              *)

(* A failure returns without its report. *)
HandleErrorSilently(e) ==
    /\ pc[e] = "fail"
    /\ Return(e, "error")
    /\ UNCHANGED <<status, late, run, toRegister, world, registered, faults,
                   crashes, history>>

(* The failure to register a VM is logged and the next VM tried. *)
RegisterVMOrSkip(e, v) ==
    /\ pc[e] = "register" /\ v \in toRegister[e]
    /\ toRegister' = [toRegister EXCEPT ![e] = @ \ {v}]
    /\ \/ registered' = registered \cup {v} /\ UNCHANGED faults
       \/ v \in Refusable /\ UNCHANGED <<registered, faults>>
    /\ UNCHANGED <<status, late, pc, run, result, world, crashes, history>>

(* The rollback gets a copy of the job, of its own type. *)
RollbackSameType(e) ==
    /\ pc[e] = "regFailed"
    /\ Put(e, "FAILED")
    /\ Call(e, type[e], TRUE)
    /\ UNCHANGED <<toRegister, result, world, registered, crashes, unlisted>>

(* The state lock outlives a terraform that failed. *)
MainCommandFailsLocked(e) ==
    /\ pc[e] = "terraform"
    /\ Faulty
    /\ Goto(e, "fail")
    /\ UNCHANGED <<status, late, run, toRegister, result, world, registered,
                   crashes, history>>

--------------------------------------------------------------------------------
Deliver(e) ==
    /\ pc[e] = "queued"
    /\ Call(e, type[e], FALSE)
    /\ UNCHANGED <<status, late, toRegister, result, world, registered, faults,
                   crashes, unsure, unlisted>>

ReportRunning(e) ==
    /\ pc[e] = "start"
    /\ Put(e, "RUNNING")
    /\ Goto(e, "setup")
    /\ UNCHANGED <<run, toRegister, result, world, registered, crashes, unlisted,
                   lastOk>>

(* setupExecutionEnvironment: the project, the workspace and the tfvars. *)
Setup(e) ==
    /\ pc[e] = "setup"
    /\ \/ Goto(e, "init") /\ UNCHANGED faults
       \/ Goto(e, "fail") /\ Faulty
    /\ UNCHANGED <<status, late, run, toRegister, result, world, registered,
                   crashes, history>>

(* runInitStep: past the deadline terraform is killed, or not even started. *)
RunInitStep(e) ==
    /\ pc[e] = "init"
    /\ \/ ~ expired[e] /\ Goto(e, "main") /\ UNCHANGED faults
       \/ ~ expired[e] /\ Goto(e, "fail") /\ Faulty
       \/ expired[e] /\ Goto(e, "fail") /\ UNCHANGED faults
    /\ UNCHANGED <<status, late, run, toRegister, result, world, registered,
                   crashes, history>>

(* runMainCommand: the command starts and takes the state lock... *)
StartMainCommand(e) ==
    /\ pc[e] = "main"
    /\ kind[e] \in Commands
    /\ ~ expired[e]
    /\ lock = NoExec
    /\ lock' = e
    /\ Goto(e, "terraform")
    /\ UNCHANGED <<status, late, run, toRegister, result, tfstate, infra,
                   registered, faults, crashes, history>>

(* ... or it does not: the type is unknown, the deadline has passed, or    *)
(* another terraform holds the lock.                                       *)
RefuseMainCommand(e) ==
    /\ pc[e] = "main"
    /\ kind[e] \notin Commands \/ expired[e] \/ lock # NoExec
    /\ Goto(e, "fail")
    /\ UNCHANGED <<status, late, run, toRegister, result, world, registered,
                   faults, crashes, history>>

CreateVM(e, v) ==
    /\ pc[e] = "terraform" /\ kind[e] = "APPLY" /\ v \notin tfstate
    /\ infra' = infra \cup {v}
    /\ tfstate' = tfstate \cup {v}
    /\ UNCHANGED <<status, late, pc, run, toRegister, result, lock, registered,
                   faults, crashes, history>>

DestroyVM(e, v) ==
    /\ pc[e] = "terraform" /\ kind[e] = "DESTROY" /\ v \in tfstate
    /\ infra' = infra \ {v}
    /\ tfstate' = tfstate \ {v}
    /\ UNCHANGED <<status, late, pc, run, toRegister, result, lock, registered,
                   faults, crashes, history>>

(* waitForCompletion: exit code 0 in time. *)
MainCommandOk(e) ==
    /\ pc[e] = "terraform"
    /\ ~ expired[e]
    /\ kind[e] = "APPLY" => tfstate = VMs
    /\ kind[e] = "DESTROY" => tfstate = {}
    /\ lock' = NoExec
    /\ lastOk' = [lastOk EXCEPT ![e] = TRUE]
    /\ Goto(e, "succeed")
    /\ UNCHANGED <<status, late, run, toRegister, result, tfstate, infra,
                   registered, faults, crashes, unsure, unlisted>>

(* A killed apply may have created a VM it did not write down. *)
Killed(e) ==
    \/ UNCHANGED infra
    \/ /\ pc[e] = "terraform" /\ kind[e] = "APPLY"
       /\ \E v \in VMs \ tfstate : infra' = infra \cup {v}

MainCommandFails(e) ==
    /\ pc[e] = "terraform"
    /\ \/ ~ expired[e] /\ Faulty /\ UNCHANGED infra
       \/ expired[e] /\ Killed(e) /\ UNCHANGED faults
    /\ lock' = NoExec
    /\ Goto(e, "fail")
    /\ UNCHANGED <<status, late, run, toRegister, result, tfstate, registered,
                   crashes, history>>

(* handleError and handleErrorWithOutput; Execute returns the error. *)
HandleError(e) ==
    /\ pc[e] = "fail"
    /\ Put(e, "FAILED")
    /\ Return(e, "error")
    /\ UNCHANGED <<run, toRegister, world, registered, crashes, unlisted, lastOk>>

(* SUCCESS is reported; only an APPLY goes on, with the registration. *)
ReportSuccess(e) ==
    /\ pc[e] = "succeed"
    /\ Put(e, "SUCCESS")
    /\ IF kind[e] = "APPLY" THEN Goto(e, "output") /\ UNCHANGED result
                            ELSE Return(e, "ok")
    /\ UNCHANGED <<run, toRegister, world, registered, crashes, unlisted, lastOk>>

--------------------------------------------------------------------------------
(* registerInstanceVms: "terraform output", under the same context.  An    *)
(* output without vm_info is no error: nothing is registered.              *)
GetOutput(e) ==
    /\ pc[e] = "output"
    /\ \/ /\ ~ expired[e]
          /\ toRegister' = [toRegister EXCEPT ![e] = tfstate]
          /\ Goto(e, "register")
          /\ UNCHANGED <<result, faults, unlisted>>
       \/ /\ ~ expired[e]
          /\ IF tfstate = {} THEN UNCHANGED faults ELSE Faulty
          /\ unlisted' = unlisted \cup tfstate
          /\ Return(e, "ok")
          /\ UNCHANGED toRegister
       \/ /\ IF expired[e] THEN UNCHANGED faults ELSE Faulty
          /\ Goto(e, "regFailed")
          /\ UNCHANGED <<toRegister, result, unlisted>>
    /\ UNCHANGED <<status, late, run, world, registered, crashes, unsure, lastOk>>

(* Then AddInstanceVm for one VM after the other, in any order.  An entry  *)
(* that is no object is skipped; an error of the call ends it, although    *)
(* the Backend may have executed the call.                                 *)
RegisterVM(e, v) ==
    /\ pc[e] = "register" /\ v \in toRegister[e]
    /\ \/ /\ registered' = registered \cup {v}
          /\ toRegister' = [toRegister EXCEPT ![e] = @ \ {v}]
          /\ UNCHANGED <<pc, faults, unlisted>>
       \/ /\ Faulty
          /\ unlisted' = unlisted \cup {v}
          /\ toRegister' = [toRegister EXCEPT ![e] = @ \ {v}]
          /\ UNCHANGED <<pc, registered>>
       \/ /\ \/ Faulty /\ registered' \in {registered, registered \cup {v}}
             \/ v \in Refusable /\ UNCHANGED <<registered, faults>>
          /\ toRegister' = [toRegister EXCEPT ![e] = {}]
          /\ Goto(e, "regFailed")
          /\ UNCHANGED unlisted
    /\ UNCHANGED <<status, late, run, result, world, crashes, unsure, lastOk>>

AllRegistered(e) ==
    /\ pc[e] = "register" /\ toRegister[e] = {}
    /\ Return(e, "ok")
    /\ UNCHANGED <<status, late, run, toRegister, world, registered, faults,
                   crashes, history>>

(* FAILED is reported, and Execute is called with a DESTROY job. *)
Rollback(e) ==
    /\ pc[e] = "regFailed"
    /\ Put(e, "FAILED")
    /\ Call(e, "DESTROY", TRUE)
    /\ UNCHANGED <<toRegister, result, world, registered, crashes, unlisted>>

--------------------------------------------------------------------------------
Running(e) == pc[e] \notin {"queued", "crashed", "done"}

(* The deadline of createTimeoutContext. *)
Expire(e) ==
    /\ Running(e) /\ ~ expired[e]
    /\ expired' = [expired EXCEPT ![e] = TRUE]
    /\ UNCHANGED <<type, status, late, pc, kind, rolling, toRegister, result, world,
                   registered, faults, crashes, history>>

(* The worker dies, and the terraform it started with it. *)
Crash(e) ==
    /\ Running(e)
    /\ crashes < MaxCrashes
    /\ crashes' = crashes + 1
    /\ Goto(e, "crashed")
    /\ toRegister' = [toRegister EXCEPT ![e] = {}]
    /\ lock' = IF lock = e THEN NoExec ELSE lock
    /\ Killed(e)
    /\ UNCHANGED <<status, late, run, result, tfstate, registered, faults, history>>

(* RecoverStalledJobs finds the entry in processing: it is acknowledged    *)
(* when the Backend shows a finished execution, else queued again.         *)
Recover(e) ==
    /\ pc[e] = "crashed"
    /\ IF status[e] \in {"SUCCESS", "FAILED"}
         THEN Goto(e, "done") /\ result' = [result EXCEPT ![e] = "acked"]
         ELSE Goto(e, "queued") /\ UNCHANGED result
    /\ UNCHANGED <<status, late, run, toRegister, world, registered, faults,
                   crashes, history>>

Step(e) ==
    \/ Deliver(e) \/ ReportRunning(e) \/ Setup(e) \/ RunInitStep(e)
    \/ StartMainCommand(e) \/ RefuseMainCommand(e)
    \/ \E v \in VMs : CreateVM(e, v) \/ DestroyVM(e, v) \/ RegisterVM(e, v)
    \/ MainCommandOk(e) \/ MainCommandFails(e)
    \/ HandleError(e) \/ ReportSuccess(e)
    \/ GetOutput(e) \/ AllRegistered(e) \/ Rollback(e)
    \/ Recover(e)

Next ==
    \E e \in Execs :
        \/ Step(e) \/ Expire(e) \/ Crash(e)
        \/ \E s \in Statuses : LateUpdate(e, s)

Spec == Init /\ [][Next]_vars

(* Execute goes on as long as it can, terraform ends (or is killed at the  *)
(* deadline), and what crashed is recovered.                               *)
FairSpec == Spec /\ \A e \in Execs : WF_vars(Step(e))

--------------------------------------------------------------------------------
(* The variables keep their types, and the state lock is held exactly      *)
(* while the terraform of its holder runs.                                 *)
TypeOK ==
    /\ type \in Mixes
    /\ status \in [Execs -> Statuses]
    /\ late \subseteq Execs \X Statuses
    /\ pc \in [Execs -> {"queued", "start", "setup", "init", "main", "terraform",
                         "fail", "succeed", "output", "register", "regFailed",
                         "crashed", "done"}]
    /\ kind \in [Execs -> Types]
    /\ rolling \in [Execs -> BOOLEAN]
    /\ expired \in [Execs -> BOOLEAN]
    /\ toRegister \in [Execs -> SUBSET VMs]
    /\ result \in [Execs -> {"none", "ok", "error", "acked"}]
    /\ lock \in Execs \cup {NoExec}
    /\ tfstate \subseteq VMs
    /\ infra \subseteq VMs
    /\ registered \subseteq VMs
    /\ faults \in 0..MaxFaults
    /\ crashes \in 0..MaxCrashes
    /\ unsure \subseteq Execs
    /\ unlisted \subseteq VMs
    /\ lastOk \in [Execs -> BOOLEAN]
    /\ \A e \in Execs : lock = e <=> pc[e] = "terraform"

Done(e) == pc[e] = "done"

(* When Execute has returned, and every update of the execution reached    *)
(* the Backend, the Backend shows SUCCESS exactly when the last terraform  *)
(* command of the execution did what it should; when Execute returned an   *)
(* error nonetheless, that command was the rollback.                       *)
StatusIsLastCommand ==
    \A e \in Execs :
        Done(e) /\ e \notin unsure =>
            /\ status[e] = IF lastOk[e] THEN "SUCCESS" ELSE "FAILED"
            /\ result[e] = "error" /\ lastOk[e] => rolling[e]

(* An apply that returned without an error, and that shares its project    *)
(* with no other apply, has every VM that is left of it registered, except *)
(* those "terraform output" did not describe (no vm_info, or an entry that *)
(* is no object: the code logs a warning and returns nil): whatever        *)
(* attempts, crashes and destroys came before or beside it.                *)
OkIsRegistered ==
    \A e \in Execs :
        result[e] = "ok" /\ {f \in Execs : type[f] = "APPLY"} = {e}
            => tfstate \subseteq registered \cup unlisted

(* Every execution is eventually over: rollback does not roll back again.  *)
Returns == \A e \in Execs : <>[]Done(e)

(* A failed execution is recorded as FAILED at the Backend (the comment in *)
(* workerLoop), provided its updates arrived.                              *)
FailureRecorded ==
    \A e \in Execs :
        Done(e) /\ e \notin unsure /\ result[e] = "error" => status[e] = "FAILED"

(* SUCCESS means "deployed, VMs registered" (README): once the execution   *)
(* of an apply is over.                                                    *)
SuccessIsRegistered ==
    \A e \in Execs :
        Done(e) /\ status[e] = "SUCCESS" /\ type[e] = "APPLY" => VMs \subseteq registered

(* A rollback prevents that VMs which exist stay unregistered (README).    *)
NoUnregisteredLeft ==
    \A e \in Execs : Done(e) /\ rolling[e] => infra \subseteq registered

(* FAILED means "failed, rolled back" (README): nothing was left behind.   *)
FailedIsRolledBack ==
    \A e \in Execs :
        Done(e) /\ status[e] = "FAILED" /\ type[e] = "APPLY" => infra = {}
================================================================================
