# A TLA+ model of the VM provisioning worker

This directory specifies the worker of `vm-provisioning`: a Go program that takes
Terraform jobs from Redis, runs `terraform`, reports to a Backend, and registers
the VMs it made. The modules are translations of the Go code (paths below are
relative to `src/`); TLC checks them on small instances, and TLAPS proves, for all values of the
constants, the safety properties of the queue (most of them as long as no two recoveries
run at once, as with one worker process), of the retrying API client, of the executor, of the workspaces (for
workers on projects of their own, where they hold), and of the output of a terraform command on
its way into a report.

## 1. The system

| Component | Code | State | Operations |
|---|---|---|---|
| Reliable queue | `internal/queue/reliable_queue.go` | Redis lists `terraform:jobs` and `terraform:processing`, hash `terraform:processing:timestamps` | `PopReliable`, `AckJob`, `NackJob`, `removeByExecutionID`, `RecoverStalledJobs` |
| Worker process | `internal/worker/worker.go`, `cmd/worker/main.go` | `Worker.ctx`, N `workerLoop` goroutines, one `stalledJobRecoveryLoop` | `Start`, `Stop`, the loops |
| Executor | `internal/terraform/executor.go` | the context with its deadline, the job, the captured output | `Execute` and its steps, the rollback (a nested `Execute`), the registration of VMs |
| Workspace | `executor.go` 205-379, 800-815 | one directory per project: five module files (links or copies), `terraform.tfvars.json`, Terraform's local state | `prepareWorkspace`, `ensureFileOrSymlink`, `copyFile`, `generateTfvars` |
| Output capture | `executor.go` 422-569 | a buffer under a mutex, two pipes, the command and its deadline | `runTerraformWithOutput`, `captureOutput`, `scanAndLog`, `waitForCompletion` |
| Error extraction | `executor.go` 614-701 | none | `extractTerraformError`, `filterOutPlan` |
| API client | `internal/api/client.go`, `retry_client.go` | the attempt of the running call | one HTTP call each; retries with backoff |
| Plain queue | `internal/queue/redis.go` | the connection (its options decide what the client repeats) | `Pop`, `Push` (not called) |
| Configuration, models, main | `internal/config`, `pkg/models`, `cmd/worker` | none | parsing and wiring |
| Terraform module | `terraform/modules/vsphere-vm` | declarative | executed by `terraform` |

How they interact. The Backend pushes a job to `terraform:jobs`. A worker moves
it atomically to `terraform:processing`, stamps it in a second command, calls
`Execute`, and acknowledges it whatever `Execute` returned. `Execute` reports
RUNNING, prepares the workspace, runs `terraform init` and the main command,
reports SUCCESS or FAILED, and after an apply registers the VMs; a failed
registration reports FAILED and calls `Execute` again with a DESTROY job of the same
execution ID. In every process, and independently of the workers, a recovery goroutine
walks over a snapshot of the processing list every five minutes; it reads the
timestamps, asks the Backend for the status, and acknowledges or requeues.
Processes share nothing but Redis, the Backend and the workspace volume.

What is hard in it:

- every queue operation is several Redis commands, and other goroutines and
  processes run between any two of them;
- recovery acts on a snapshot, a timestamp and a status that may all be stale;
- processes crash, or are stopped with a cancelled context under which the
  remaining Redis commands fail while terraform goes on;
- Redis and the Backend may fail a call, or execute it and lose the answer; the Redis
  client then sends the command again by itself;
- a request that timed out may still be executed, after the requests that
  follow it, and is retried although it may have been executed;
- a command writes to two pipes that two goroutines merge in any order while the
  deadline may kill it, before or after it has ended;
- the rollback re-enters `Execute`, whose reports overwrite each other, and the reports
  decide what recovery does after a crash;
- executions of one project share a workspace directory and a state lock.

What makes each part correct:

- queue: a submitted job is never silently lost, has one entry (the Redis client can break
  both, see 2.1), leaves only when it is settled, and is eventually settled;
- executor: the Backend finally shows what the last terraform command did, an
  apply that returns normally has the VMs registered that `terraform output` lists, and every execution ends;
- API client: an error, or nil, says whether the call was executed whenever none of
  its requests had an unclear outcome; a call is executed at most once per
  attempt; every call returns;
- output and extraction: no line is lost, the report of a failure has every error
  terraform wrote and the right exit code, and a command ends by its deadline;
- workspace: terraform runs on the whole module and on the variables of the same execution, and the
  module that all workspaces share is never written.

`PROJECT.json` lists the hazards of the code line by line with the properties that
cover them.

## 2. Modules

| Module | What it is |
|---|---|
| `JobDelivery` | Abstract specification: the place of a job (unborn, waiting, processing, requeueing, gone, or several at once) and the moves that are allowed |
| `ReliableQueue` | Queue, worker loops, recovery loops and processes; one action per Redis command or Backend call |
| `ReliableQueueInv` | Inductive invariants of `ReliableQueue`; `OnePassSpec`, its behaviours without overlapping recoveries |
| `MCReliableQueue` | Instances for TLC: one process or two |
| `ListLemmas` | Lemmas on lists, induction on a set, functions defined by recursion |
| `ReliableQueue_proofs` | The theorems on the queue for any number of processes |
| `OnePass_proofs`, `Delivery_proofs` | The theorems for recoveries that do not overlap, and for one process: nothing is lost silently, only a repeated LPUSH doubles a job, `JobDelivery` is implemented |
| `Executor`, `MCExecutor` | `Execute`, rollback, crash, recovery, for the executions of one project |
| `Executor_proofs` | The theorems on the executor, for any number of executions and VMs |
| `Workspace`, `MCWorkspace` | The files of the workspaces, one action per system call |
| `Workspace_proofs` | The theorems on workspaces, for workers on projects of their own |
| `BackendCalls` | Abstract specification: calls one after the other, executed at least once before they return nil |
| `RetryClient`, `MCRetryClient` | The attempts of the API calls of one execution, and the Backend that answers them |
| `RetryClient_proofs` | The theorems on the client, for any number of calls and retries |
| `ErrorExtract` | The loops of `extractTerraformError` and `filterOutPlan` as recursive functions, and what their comments say they return |
| `CommandOutput`, `MCCommandOutput` | One terraform command: its pipes, the scanners, the deadline, the report |
| `CommandOutput_proofs` | The theorems on the extraction, the captured output, the exit code and the report |

Two modules are refinements: `ReliableQueue` has `Delivery == INSTANCE JobDelivery
WITH place <- place, ...`, and `RetryClient` has `Calls == INSTANCE BackendCalls
WITH Attempts <- MaxRetries + 1, ...`; `Delivery!Spec` and `Calls!Spec` are
properties of runs, and theorems.

Each of the component modules has a section of "wrong variants": versions
of an action with a slip in it (a dropped check, an acknowledgement too early, an
ignored error). `Next` uses none of them. They document which slip each property
detects: put in place of the action, TLC finds the property violated.

### 2.1 ReliableQueue

Redis is three variables: `jobQueue` and `processing`, sequences whose heads are the
left ends, and `timestamps`, which maps a job to the *age* of its timestamp (`None`
when there is no field). An entry is its execution ID and its `form`: the JSON the
Backend serialised or the one `NackJob` did. The form matters since LREM compares
text. An entry that is not JSON has the ID `NoId`.

A goroutine has a `pc` and the entry it works on, `msg`. Workers and recoveries share
the code of `AckJob`/`NackJob` (`Lrem`, `LremUnanswered`, `LremFails`, `Lrange`, `LremById`, `Hdel`,
`Lpush`, `LpushUnanswered`, `LpushFails`), and `call` says which one they are in. Recovery has its snapshot (`rest`), the IDs
it has seen, and `lag`, the ticks since it read `now`: it compares ages with the
time its pass started, as the code does.

- A command of a running process works, or fails at the price of one unit of
  `MaxFaults`; failing LREMs and BRPOPLPUSHs may have been executed. With a
  cancelled context no command is sent at all, which costs nothing.
- A command whose reply is lost is sent again by go-redis: `internal/queue/redis.go:24` leaves
  `MaxRetries` at its default. A lost reply is a step in which the command was executed and the
  goroutine has no answer, at the price of a fault (`Unanswered`), so that repetitions are bounded
  by `MaxFaults`. A repeated LREM may find nothing and then falls back to `removeByExecutionID`
  (`LremUnanswered`, at `lremAgain`); a repeated LPUSH adds another entry (`LpushUnanswered`,
  at `lpushAgain`). From there the goroutine may go on sending, succeed, or get an error in the
  end, from go-redis or from a context that was cancelled (`GivesUp`). `Resend` repeats the other
  writes (HSET, HDEL, and the LREMs that are not looked at), where it is only an interleaving
  that matters. Repeated reads change nothing. A BRPOPLPUSH whose reply was lost leaves the entry
  moved without a worker (`Pop`); its repetition is another `Pop`.
- `Execute` is reduced to what it tells the Backend: `ReportRunning`,
  `ReportResult`, `ResultLost`, `Return`. A rollback is a second RUNNING after a
  terminal status. `Executor` models it in detail.
- `Cancel`, `Exit`, `Crash`, `Restart` are `Stop` and the end of a process.
- `LateUpdate` is a status update that a worker had given up and that takes effect
  after another execution has settled the job: the Backend shows an older status.
- `Tick` ages timestamps. A job outside `SlowJobs` is executed and acknowledged
  before it is stalled; a slow one need not be. A pass takes at most `MaxLag` ticks.

History variables: `settled` (jobs some execution has finished, or the Backend shows
as finished or deleted), `dropped` (jobs whose requeueing was cut short) and `doubled` (jobs that one
requeueing has pushed more than once). A doubled job has two entries with the same text, and the
queue keeps none of its promises for it; `Single` are the other jobs. `NoSilentLoss`, `OneEntry`
and the second half of `Leaves` speak of those, and in `JobDelivery` a doubled job is in the place
`several`, which it never leaves. What the exception hides is described in section 3.

### 2.2 Executor

The executions of one project share the Terraform state (`tfstate`), its `lock`
and vCenter (`infra`). Each one has a `pc`, the type of its job, the `kind` of the running
`Execute` (DESTROY in a rollback), and `expired`, whether the deadline has
passed: it does so at any moment, and is reset by the rollback, which has its own.
terraform is external: it takes the lock, creates or destroys one VM at a time, and
ends with exit code 0 (all of it done), another one, or killed at the deadline,
possibly after it created a VM that it did not write to its state. A crash
of the worker takes the terraform it started along. In the registration, `GetOutput` may find no
`vm_info` and end `Execute` without an error, and `RegisterVM` may pass over an entry that is not an
object, as the code does (`executor.go:722-726`, `:735-739`); the history variable `unlisted` has the VMs
that were passed over so. Recovery is reduced to its decision:
finished at the Backend means acknowledged, anything else means queued again.

`Put` is `UpdateExecutionStatusWithRetry`, whose error `Execute` only logs: the
update took effect, or not, or an attempt that timed out takes effect later
(`LateUpdate`). `unsure` records the executions with such an update.

### 2.3 Workspace

Per project one directory entry, standing for the five module files, which are
treated alike one after the other: nothing, a link to the module's file, a
link into a directory that was once the module's, or a copy. What a file holds is
`none`, `torn` or `full`; `fd` is what `copyFile` has open, since a link may be
replaced meanwhile. Every system call may fail: Lstat (then taken for a missing file),
Readlink (for a broken link), Remove (ignored), Symlink (then there is a copy), and those of
`copyFile` and `generateTfvars` (then the execution fails). The history variable `misread` says that an Lstat or a Readlink
has failed, `unlinked` in which projects a Remove did, or a Symlink where nothing was in its way.

A worker executes one job after the other: `Take` starts an execution, on any project. `tfvars` says
whose variables the tfvars file holds: those of the execution a worker is busy with (or
had last), of one before that (`earlier`: `Take` makes them so), a torn text, or none. So
`OwnTfvars` tells the variables of one execution from those of the one before it, of the same
worker too. Nothing in the code keeps two jobs of one project apart: `OwnSpec` has the behaviours of
`Spec` in which no two workers are busy with one project (`Own`).

### 2.4 RetryClient

The three `...WithRetry` methods the executor calls (and a fourth that nothing
calls) have the same loop, which is written once: `Call`, then per attempt `Send`, and
`Receive` or `Break`, then `BackOff` or `Exhausted`. `Break` is the failed
connection and the 30 seconds of the HTTP client: the request is lost, or stays
in `open`, from where the Backend may execute it at any later time. The Backend is external:
it executes a request or refuses it, and answers 200, a refusal or a failure; a failure
may be an answer to an executed request. A body is what the client tells
apart: `garbled` (the JSON of a project cannot be decoded) and `quotes` (it holds
a text like `status=404`, which `isClientError` takes for a refusal).

`Executor` and `ReliableQueue` rest on this module: there a call works, fails, or has an
unknown outcome at the price of a fault. `ClearIsExact` is the justification of the
first two, `AtLeastOnce` and `OnlyUnclearOvertakes` say how far the third may go,
and the `LateUpdate` of both modules is its worst case.

### 2.5 CommandOutput and ErrorExtract

The output of a command is a script of lines; a line has a kind, a stream and
a size in pieces. `written` and `taken` are the sets of pieces (a line and a part of it) that the
command has written and the scanners have read; the order in a pipe is the order of the
script, so that the next piece is the `First` one. A pipe holds `PipeSize` pieces, and the buffer of a
`bufio.Scanner` `TokenSize` of them: when it is full and no line has ended the scanner
gives up, as it does in Go after 64 KB, and nobody reads that pipe any more. The command
writes, exits or crashes; `Kill` is the goroutine of `exec.CommandContext`, which may
also kill a command that has ended and is not waited for yet, whose
`Wait` then returns an error.

A kind of line is what `ErrorExtract` tells apart: `error`, `blank`, `location`,
`resource`, `detail`, `text`, `planStart`, `planEnd`; the prefix `[STDERR] ` makes a
line of stderr neither blank nor indented (`Plain`). `ErrorStep` and `PlanStep` are one round
of the loops of the code, `ErrorLoop` and `PlanLoop` their states after n lines.

`ReportOf` says, line by line and without the counter of the code, what the comments promise
(`executor.go:613`, `:629`, `:652`): each error with its block, which ends before the next error or
with a blank line, and of the block at most five details, each once. The code does not
quite do so: a line that is a location and indented is appended, and counted, twice. What it
returns is `ReportOf` when there is no such line. Otherwise it still has no line that
`ReportOf` has not, and all lines of `ReportWithin(output, FewestDetails)`, with three details instead of five (each of
them counted twice). `BlocksAreShort` bounds how many lines of the report may follow an error: six, not
the five of the comments.

## 3. Runs

Every run finishes within two minutes. `CHECK_DEADLOCK FALSE` where the
system may really stop: the queue is idle when no job is left and the bounds on faults
and crashes are used up, and executions, scripts and commands end.

| Run | Instance | Checks |
|---|---|---|
| `queue_faults` | 1 process, 2 workers, 1 deletable job, junk, 1 fault (a failing or a repeated command), 1 crash or stop, a timeout of 2 ticks, a lag of 1 | `TypeOK`, `NoSilentLoss`, `OneEntry`, `Delivered`, `AckedOnlyFinished`, the inductive invariant `QueueInv` |
| `queue_liveness` | 1 process, 2 workers, 1 slow job, 1 fault, 1 crash or stop, fairness | `Concludes`, `Leaves` |
| `executor_pairs` | 2 executions, 2 VMs, 1 fault, 1 crash, fairness | `TypeOK`, `StatusIsLastCommand`, `OkIsRegistered`, `Returns` |
| `retry_client` | scripts of 2 calls, 3 retries, 2 late requests, 2 refusal codes and 1 failure code, fairness | `TypeOK`, `ClearIsExact`, `WaitsAsDocumented`, `OnlyUnclearOvertakes`, `RefusalEndsCall`, `AtLeastOnce`, `CallsReturn` |
| `command_output` | every output of up to 2 short lines and 10 longer ones, pipes and buffers of 2 pieces, fairness | `TypeOK`, `NothingLost`, `ReportedCode`, `ReportIsReference`, `BlocksAreShort`, `ErrorsReported`, `OnlyLongLinesHang`, `EndsAtDeadline` |
| `workspace_own` | `OwnSpec`: 2 workers, 2 projects, not both workers on one at a time, with and without symlinks, 2 faults, 2 crashes | `TypeOK`, `ModuleIntact`, `LinkedIsUsable`, `UndisturbedIsUsable`, `OwnTfvars` |

What they show. With one worker process (as the repository is deployed: the
concurrency is `WORKER_CONCURRENCY` goroutines) a submitted job is always in one
list, or in the hands of a recovery that is about to push it back, until it is settled
or its requeueing is cut short; it has one entry; and `ReliableQueue`
implements `JobDelivery` under the mapping `place`. The exception to all three is a job whose LPUSH go-redis
has sent again. With several processes the
safety part holds as long as no two recoveries run at once (section 4). Every job is eventually
settled or dropped, even if it outlasts the stalled timeout or has two entries, and a single entry goes.
The last report of an execution agrees with its last terraform command; no apply
returns normally with a VM of its project unregistered (next to a destroy, too), except VMs
`terraform output` did not describe; rollbacks do not recurse for ever. Workers on different projects leave the shared
module alone, run on the whole module and on the variables of the same execution, unless a system call misreads or leaves a link. A call of the API client whose requests all had a clear outcome did what its
result says, and reports overtake each other only by requests of unclear
outcome; the client implements `BackendCalls`, waits as documented, never repeats a refused
call, and always returns. Of a terraform command no line is lost but what follows an
overlong one, every complete error is in the report of a failure, in whatever order the
streams were merged, with at most six lines after it and no line that does not belong there, 0 is only reported for a command that ended with 0, and only
an overlong line can make a command hang, until its deadline ends it.

Bounds, and why they are enough. Two workers and a recovery are the fewest with
which a job is held by a worker, taken by another one and visited by
recovery. All guards concern single jobs, so a second one matters only through the order
in the lists; the theorems hold for any number of jobs. One crash or stop and one fault, at any point, already give each of the
situations of the findings below, and a crash and a fault may combine. Ages saturate at `StallTicks +
MaxLag`, beyond which no guard tells them apart. Two calls are the fewest that can overtake
each other, and with 3 retries (the code's number) one call may leave two requests behind;
the refusal codes are both ends of 400..499. Errors with up to seven details, single ones and those that count twice, have more than
a block holds, a line of 3 pieces is longer than the buffer, and one of 5 longer than
buffer and pipe together. `queue_duplicates` stops at two
entries (`FewEntries`), because two recoveries may multiply entries; it looks for a
counterexample, so the constraint hides nothing that it reports.

Fairness. Weak fairness for goroutines that can take a step: Go schedules them,
and every command has an answer or an error. Strong fairness for `Return`, since
`Execute` may report any number of times in the abstraction but runs under a
deadline, and for `Tick`, since time passes although `Tick` waits for goroutines that must act
first. A stopped process exits and any process is started again: a container's restart policy.
In `Executor`, weak fairness of the steps of an execution: terraform ends or is killed at the deadline.
In `RetryClient`, weak fairness of the client only, whose timer ends every wait: the Backend need never answer.
In `CommandOutput`, weak fairness of the goroutines, of `Kill` and of a command that can write or
exit; the deadline need not pass, and a command need not be able to write.

### Disagreements between the code and its documentation

Each is a run that expects the violation; the comment or the README is quoted in `PROJECT.json`.

| Run | Violated | What happens |
|---|---|---|
| `queue_nack_window` | `NoJobLost` | A crash between LREM and LPUSH in `NackJob` loses the job |
| `queue_duplicates` | `NoSilentLoss` | Two processes, one of which crashes and is restarted: both recoveries requeue a job, then each removes the other's entry as a duplicate. No command fails |
| `queue_orphans` | `RequeuesOnlyOrphans` | The entry of a healthy worker has no timestamp between BRPOPLPUSH and HSET; recovery requeues it |
| `executor_rollback_status` | `FailureRecorded` | A rollback that works overwrites FAILED by SUCCESS |
| `executor_rollback_cut` | `NoUnregisteredLeft` | FAILED is reported before the destroy; a crash in between and recovery acknowledges the job |
| `workspace_shared` | `PreparedIsUsable` | The loser of a symlink race truncates the shared module through the link |

Other disagreements met while modelling, which are variations of these or plain from the
code, and have no run of their own:

- As a consequence of `queue_orphans` a job is executed again although `worker.go:110` says it
  is not retried, and with two processes a job has two entries, against `reliable_queue.go:188`
  ("only one of the same executionID should exist").
- With one process as well: an LPUSH (`reliable_queue.go:154`) whose reply is lost is sent again (`redis.go:24`),
  and the job has two entries after a single fault. With two lost replies and a crash it can be lost without
  a trace: after the crash both entries, whose texts are equal, are in processing; recovery passes over the first, which a worker
  has just stamped, and discards the second, but its LREM (line 238) is sent again and takes the first too. `NoSilentLoss` without
  its exception fails so.
- A requeued job should be handled first (`reliable_queue.go:147`), but LPUSH (line 154) adds
  it at the left end, while BRPOPLPUSH (line 57) takes from the right one, where the Backend adds
  (RPUSH): it waits behind every job that is submitted later.
- SUCCESS is reported before the VMs are registered (`README.md:231` says that they are):
  `SuccessIsRegistered` fails by a crash in between. FAILED does not mean "rolled back"
  (`README.md:232`, and step 5 of line 44): only a failed registration triggers the destroy, a
  failed apply does not, which `FailedIsRolledBack` would say.
- `Execute` returns without an error although VMs are not registered, when `terraform output` has no `vm_info`
  (`executor.go:722-726`) or an entry of it is not an object (`:735-739`): both are logged only, against
  `README.md:121`. `OkIsRegistered` excepts these VMs.
- Where files are copied because symlinks do not work, a copy that a crash cut short is
  reused for ever (`executor.go:253`): `PreparedIsUsable` fails with one crash and one worker on a project.
- With a single worker, too, the shared module can be truncated: when Lstat fails on a valid link (`executor.go:238`),
  or Readlink and then Remove do (`:243`, `:251`), Symlink finds the link in its way, and `copyFile` writes through it. `ModuleIntact`
  without the condition `misread` fails so.
- The README says that only server errors (5xx) are retried (`README.md:94`). Network errors and
  time-outs are as well, and a 5xx whose body quotes `status=4xx` is not (`retry_client.go:199`).
- The lines that say where an error is ("with ...", "on ...", `executor.go:639`) are never in
  the report when terraform writes them to stderr: the prefix `[STDERR] ` (line 532) hides how they begin,
  and details lose their indentation the same way. Only `resource "` is found.
- An error block holds at most five lines (`executor.go:629`, `:652`). A line that is a location and
  indented is appended twice (`:639-650`), and the limit is tested after the appending: a block of five details may have
  three different lines, or six entries. `BlocksAreShort` has the six, `ReportIsReference` the three.
- The report excludes the plan (`executor.go:613`). The order of the two streams is a race: a line of
  stderr between the start and the end of a plan is filtered out with it, and plan lines after an error of stderr join its block.

## 4. Proofs

`ReliableQueue_proofs` proves, for any number of processes, workers and jobs and
every value of the bounds:

- `TypeCorrect`: `Spec => []TypeOK`;
- `AckedIsFinished`: `Spec => AckedOnlyFinished`: an entry is removed for good
  only for a job that is settled, even where several processes recover
  at once and `OneEntry` does not hold.

The assumptions are the ASSUMEs of `ReliableQueue`; TLC evaluates them in each run of `MCReliableQueue`.

The argument. `TypeOK` is not inductive: that a goroutine which acknowledges has
an entry with an execution ID depends on where it is. `TypeInv` adds `OwnCode` (a
worker never runs recovery's code nor `NackJob`; where the code has an entry, it has an ID) and
`FoundIsOwn` (`removeByExecutionID` removes an entry of the ID it was asked for). On top of it `KnownInv` has two facts: what the Backend does not
know yet occurs nowhere (`NewIsNowhere`), so that "no such execution" is
never the answer for a job that is still to come, and what the Backend shows as
finished, like what a goroutine is acknowledging, is settled
(`FinishedIsSettled`). Both are preserved by every action, whatever the other
processes do, because `settled` only grows; that is why the theorem needs no bound
on the number of processes. `ListLemmas` holds what the proofs need of
`RemoveFirst`, `SelectInSeq`, `Cons` and the other operators on lists.

`OnePass_proofs` and `Delivery_proofs` prove, for any number of processes, goroutines and jobs,

- `OnePassQueueInvariant`: `OnePassSpec => [](TypeInv /\ QueueInv)`, the inductive invariant;
- `OnePassLosesNothing`: `OnePassSpec => []NoSilentLoss`;
- `OnePassOneEntry`: `OnePassSpec => []OneEntry`;
- `OnePassDelivers`: `OnePassSpec => Delivered`, that is, `ReliableQueue`
  implements `JobDelivery` under the mapping `place`.

`OnePassSpec` has the behaviours of `Spec` in which no two processes are in `RecoverStalledJobs` at
once. The code does not see to that, but with one worker process it is always so
(`OneProcess`: `Procs = {p}` gives `Spec => OnePassSpec`), whence `QueueInvariant`,
`OneProcessLosesNothing`, `OneProcessOneEntry` and `OneProcessDelivers` for all behaviours of the model
with one process, which is how the code is deployed. For several processes, mutual exclusion of the recoveries is
enough. The hypothesis cannot simply be dropped: `queue_duplicates` violates `NoSilentLoss` with two recoveries at once.

All of them except what becomes of a job after its LPUSH was sent again by go-redis: it is in `doubled` from the moment the
second entry is there, and the statements are on the jobs of `Single`. So `OneProcessOneEntry` says that with one process
this is the only source of a second entry, and `OneProcessLosesNothing` that a submitted job is lost only by a requeueing that was cut
short or pushed twice.

The argument. A recovery pass works on a snapshot of the processing list that
grows old while workers pop and acknowledge. It is harmless because of
`Snapshot`: what the pass has still to visit, and the entry it has in hand, is
not waiting (only the pass itself pushes entries back, and only those it has in
hand), and where the entry still is in the processing list it is there with the
raw string the pass read. Of the other processes nothing else is needed than
that they do not recover meanwhile (`Alone`): in each step there is a process that is alone in this sense
before and after it (`SomebodyAlone`), the recoveries of the others have nothing at hand
(`OtherRests`), and what their tickers, stops, crashes and restarts do does not touch Redis (`OthersStep`);
their workers pop and acknowledge like its own. So the LREM by raw string finds it or nobody does:
`Withdrawn` says that after it no entry of the job is left, and that
`removeByExecutionID` finds nothing and is never needed. `OneEntry` follows, since
the first push of a job finds it in neither list, and the next one makes it `doubled`; `NoSilentLoss` follows,
since each removal is of a settled job (`FinishedIsSettled`) or opens the
window that the LPUSH, or `dropped`, closes. `DownIsOff` lets a process restart
without an old pass. The refinement needs `DroppedIsGone` as well (a job
whose requeueing was cut short is nowhere, so that what recovery finds gone is
settled) and `PushIsNack`. `QueueInv` is their conjunction; TLC
checks it in `queue_faults`, with one process. The lemmas `SubmitLists`, `PopLists`,
`RemovalLists`, `ResendLists`, `JunkLists`, `PushLists` say what each action does to the lists, and each
conjunct has a lemma of its own. A repeated command is mostly a shorter list, like the first one; what is new is `lremAgain`, where the
entry is gone although the goroutine has no answer (`Withdrawn`), and `lpushAgain`, where the job is waiting although
the goroutine still has it in hand: there `Snapshot` asks nothing of its entry any more. In the refinement `AckSteps` and `NackDelivery` treat the
steps of the two calls, `PushDelivery` the pushes.

`RetryClient_proofs` proves, for scripts of any length, any number of retries, codes and
late requests:

- `ClientTypes`: `Spec => []TypeOK`;
- `ClearCallsAreExact`: `Spec => []ClearIsExact`;
- `UnclearOvertakes`: `Spec => OnlyUnclearOvertakes`;
- `RefusalsEnd`: `Spec => RefusalEndsCall`;
- `WaitsAreDocumented`: `Spec => []WaitsAsDocumented`;
- `ImplementsCalls`: `Spec => AtLeastOnce`, that is, `RetryClient` implements `BackendCalls`.

The argument. That no call is executed more often than it has attempts is not inductive: an
execution must be paid for by a request. `Counted` says that the executions of a call and
its requests under way are together at most those it has sent; it needs `Fresh` (the number of
the next attempt is new), since `open` is a set. `Clear` says for a call
without an unclear outcome, phase by phase, which requests it may have under way and how
often it was executed: none in the pauses, the one that is waited for otherwise. `Results`
(exactly the calls that are over have a result) and `AnswerInv` (an attempt that is to be
repeated was not refused; a success was executed) complete `CallInv`, which
implies each of the theorems. `ServerStep` and `ReceiveStep` say what the Backend's and
the client's steps do to what the invariant is about.

The delays need an assumption on the constants, `DelaysAssumption`: the base delay is a multiple of
5 ms, so that 20% of it is exact, and the longest delay with all of its
jitter is below the maximum. `NewRetryableClient` (1 second, 30 seconds, 3 retries) satisfies it;
with more retries the cap would cut a delay before the jitter is added, and the maximum
the README names would be exceeded. `BackoffProperties` says where one delay lies; it needs that
a power of two doubles (`PowersAre`, `DocumentedDoubles`). `WaitsInv` says that each
element of `waits` is the delay of its attempt.

`Executor_proofs` proves, for any number of executions, VMs, faults and crashes:

- `ExecutorTypes`: `Spec => []TypeOK`;
- `LastCommandShown`: `Spec => []StatusIsLastCommand`;
- `AppliesAreRegistered`: `Spec => []OkIsRegistered`.

The argument. `TypeOK` is inductive; its last part, that the state lock is held exactly by the
execution whose terraform runs (`LockInv`), needs each way out of terraform, the kill and
the crash among them, to give the lock back. For the reports, `ReportInv` says phase
by phase what the Backend shows of an execution that is not `unsure` (`Told`): RUNNING
until the end of the command is reported, after it what `lastOk` says, until a
rollback starts over; and `LateUnsure`, that only
an `unsure` execution has an update that may still take effect. `MovedTold` and `PutTold` are the steps that
leave the Backend alone and those that report. For the VMs, `RegisterInv` says that only an apply adds to the Terraform
state (`OwnKind`: the running `Execute` is the job's or a rollback, which is a destroy), and where
the only apply of the project is (`Registering`): past `terraform output` the state has no VM
but those registered, in `toRegister`, or passed over (`unlisted`, which only grows), and destroys beside it only take VMs away.

`Workspace_proofs` proves `WorkspaceTypes` (`Spec => []TypeOK`) for any workers on any
projects. For the behaviours in which no two workers are busy with the same project:

- `OwnProjectsSpareTheModule`: `OwnSpec => []ModuleIntact`;
- `OwnLinksAreUsable`: `OwnSpec => []LinkedIsUsable`;
- `OwnCopiesAreUsable`: `OwnSpec => []UndisturbedIsUsable`;
- `OwnVariables`: `OwnSpec => []OwnTfvars`.

The argument. What `ensureFileOrSymlink` found by Lstat is still so when it acts on it, since
nobody else touches the workspace meanwhile: `Prepared` says what the entry is in each phase of a worker, `Placed` what it is between
executions: a file is copied only where there are no symlinks or a Remove or Symlink has failed (`unlinked`), and
`copyFile` never opens a link to the module, so that nothing is written through it. `OthersInPlace` is the lemma that uses `Own`. None of it survives a
misread link, so the invariant has `InPlace` only under `~ misread`. That two workers on one project break `PreparedIsUsable` is the run
`workspace_shared`; nothing in the code keeps them apart.

`CommandOutput_proofs` proves, for any script of lines and any sizes of pipes and buffers:

- `ExtractionIsReference`: for every sequence of lines `text`,
  `extractTerraformError(text) = ReportOf(text)` if no line of it is both a location and indented, or none is an error; in general
  its lines are lines of `ReportOf(text)`, the lines of `ReportWithin(text, FewestDetails)` are in it, and so is each error line of `text`;
- `ExtractionIsShort`: if there is an error, at most `MaxDetails + 1` lines follow an error in it before the next one;
- `CommandTypes`: `Spec => []TypeOK`;
- `ExitCodeReported`: `Spec => []ReportedCode`;
- `NoLineIsLost`: `Spec => []NothingLost`;
- `ReportsAreReference`: `Spec => []ReportIsReference`;
- `ReportsAreShort`: `Spec => []BlocksAreShort`;
- `ErrorsAreReported`: `Spec => []ErrorsReported`.

The argument. The extraction is a statement on a pure function: `LoopAgrees` says what the loop has
after n lines, namely the concatenation of what is `Appended` for each of them, that a block is
open exactly if the next line would be in one (`OpenAt`), and that the counter is the copies
since the last error; `PlanAgrees` is its counterpart for `filterOutPlan`. Both are inductions on
the number of lines. `CountsAgree` then compares the counter of the code with the details of the reference, each counted once: the counter is
between their number and twice that, and equal to it when no line is both. So a block of the code reaches at least as far as one with `FewestDetails`,
at most as far as one with `MaxDetails` (`BlocksCompare`), and the lines compare alike (`LinesCompare`). `ExtractionIsShort` is an
induction of its own: while a block is open, the report goes on from its error by as many lines as the counter says (`ShortSoFar`), and the last
line appended may add two.

For the exit code, the deadline may pass and the kill may come at any point, even between the end
of the command and `Wait`: `Deadline` says that only a command past its deadline was killed, and
`Result` that the error `waitForCompletion` made of it survives the second look at the deadline.

For the lines, `NothingLost` speaks only of the end of `captureOutput`; the invariant `CaptureInv` says it
of every moment before. `PipesOK` is the order in the pipes: the pieces that were written, and
those read from each stream, have no gap. `PlacesOK` says which lines are in the output: of a
stream that is still read, exactly those whose last piece was read, in their order, whatever the
other stream did between them. `ScannersOK` says how a scanner ended: at the end of the
stream, with nothing left in the pipe and the rest of an unfinished line handed on (`Done`), or in the
middle of the overlong line (`GivenUp`), where all earlier lines of the stream fit the buffer.
`Phase` ties them to the `pc`. A piece that is written has to find a pipe with room, which is a statement on the
cardinality of a set; beside `CountsAgree` it is the only use of `FiniteSetTheorems` here.

`ReportInv` says that a report is made of the final output, so that `ReportIsReference`, `BlocksAreShort` and
`ErrorsReported` are the theorems on the extraction applied to it; the last one also needs `NothingLost`:
a complete error line is in the output with its own kind, not as a remnant.

How recursive definitions are reasoned about. The induction theorems of the library take an operator
as a parameter and cannot be used with the provers at hand. `ListLemmas` has first-order
forms of them: `InductionOnSet` (a set of natural numbers that has 0, and with n also n + 1, is `Nat`),
proved by the least counterexample; and `RecursionExists` and `RecursionStays` (a function given by
its first value and a step on a set exists, and satisfies its equation), with the step as a
function instead of an operator. `FlattenProperties` is `FlattenSeq` in this form. The definition of every loop
is thereby a function whose equation is proved, not assumed.

Only model-checked: liveness (`Concludes`, `Leaves`, `Returns`, `CallsReturn`, `OnlyLongLinesHang`,
`EndsAtDeadline`), since ENABLED and fairness are out of the prover's reach, and the violations, which are
counterexamples. Every safety property of a passing run is a theorem; those of the queue but
`TypeOK` and `AckedOnlyFinished` under the hypothesis that recoveries do not overlap, and those of the workspaces but `TypeOK` for
`OwnSpec`. That the two hypotheses are not idle is shown by one run each, for one property: `queue_duplicates` violates `NoSilentLoss`, and
`workspace_shared` violates `PreparedIsUsable`. For the other properties no run shows that they fail without.

## 5. Abstractions

- LLEN and LRANGE at the start of a recovery pass are one step; nothing is decided between them.
- The Backend answers with 200, a 4xx or a 5xx; what else it may answer (1xx, 3xx) the client treats as a failure.
- The texts sent to the Backend are cut at 10000 and 50000 bytes, the plain output in a report at 2000
  characters: left out, and so are the texts of errors that are not output of terraform.
- A process that terraform started and that outlives it could hold the pipes open; terraform is taken to end its
  providers, as it does.
- What is left of a line that was cut off begins as the line does: `Remnants` lets it keep its kind or become plain text.
- `GetExecutionStatus` takes no time between its answer and the decision, but
  everything may happen between the decision and the LREM.
- Clocks of different hosts agree.
- Timed-out BRPOPLPUSHs (30 seconds without a job) change nothing and are left out,
  and so are statuses the worker does not know, for which recovery does nothing.
- Terraform's state is local with a local lock: the `s3` backend of the module is commented out.
- Moving to a new workspace volume, manual edits of it, and a module directory that changes while workers run are left out.

## 6. Plan

1. Done: queue with worker and recovery, executor, workspace, retrying client, command output and error
   extraction, and the theorems on each of them.
2. `Provisioning`: queue and executor composed, so that a requeued job really
   runs terraform twice under the state lock and the workspace race.
3. The folder depths of `locals.tf` as a function, against a reference definition.
4. Proofs: once there is `Provisioning`, that it implements `ReliableQueue` and `Executor`.
