------------------------------- MODULE RetryClient -------------------------------
(***************************************************************************)
(* The retrying API client (internal/api/retry_client.go over client.go):  *)
(* a worker goroutine makes the calls of a script one after the other, and *)
(* each call sends up to MaxRetries + 1 HTTP requests.  A request the      *)
(* client has given up may still reach the Backend, and be executed after  *)
(* the requests that were sent later.                                      *)
(*                                                                         *)
(* The Backend is external: it executes a request or refuses it.           *)
(***************************************************************************)
EXTENDS Integers, Sequences, FiniteSets

CONSTANTS
    Scripts,       \* the sequences of calls an execution may make, of length N
    N,
    MaxRetries,    \* maxRetries
    BaseDelay,     \* baseDelay, in milliseconds
    MaxDelay,      \* maxDelay, in milliseconds
    Jitters,       \* values of time.Now().UnixNano() % 100
    RefusalCodes,  \* status codes of refusals
    FailureCodes,  \* other status codes than 200
    MaxLate        \* bound on the requests that are given up and still under way

Methods == {"GetProjectDetail", "UpdateExecutionStatus", "AddInstanceVm", "AppendExecutionOutput"}
Values  == {"RUNNING", "SUCCESS", "FAILED", "none"}

ASSUME ScriptsAssumption ==
    /\ N \in Nat
    /\ Scripts \subseteq [1..N -> [method : Methods, value : Values]]
ASSUME LimitsAssumption ==
    /\ MaxRetries \in Nat
    /\ MaxLate \in Nat
    /\ {BaseDelay, MaxDelay} \subseteq Nat
    /\ Jitters \subseteq 0..99
ASSUME CodesAssumption ==
    /\ RefusalCodes \subseteq 400..499
    /\ FailureCodes \subseteq 500..599

VARIABLES
    script,      \* the calls of this execution
    begun,       \* the number of calls made so far; the last one may be running
    attempt,     \* the attempt of the running call
    pc,          \* where the client is
    answer,      \* the Backend's answer to the request the client waits for
    waits,       \* the delays of the running call so far
    result,      \* what a call returned
    open,        \* requests under way: <<call, attempt>>
    executed,    \* how often the Backend has executed a call
    shown,       \* the status of the execution at the Backend
    unique,      \* whether the Backend refuses to register a VM again
    unclear      \* history: calls one of whose requests had an unclear outcome

client  == <<begun, attempt, pc, waits, result>>
backend == <<executed, shown>>
vars    == <<script, client, answer, open, backend, unique, unclear>>

NoAnswer == [code |-> 0, body |-> "plain"]

(* "quotes": the body contains a text such as status=404 ("garbled": it is *)
(* not the JSON of a project).                                             *)
Answers == [code : {0, 200} \cup RefusalCodes \cup FailureCodes,
            body : {"plain", "quotes", "garbled"}]

Init ==
    /\ script \in Scripts
    /\ begun = 0
    /\ attempt = 0
    /\ pc = "idle"
    /\ answer = NoAnswer
    /\ waits = <<>>
    /\ result = [c \in 1..N |-> "none"]
    /\ open = {}
    /\ executed = [c \in 1..N |-> 0]
    /\ shown = "QUEUED"
    /\ unique \in BOOLEAN
    /\ unclear = {}

Request == <<begun, attempt>>

(* math.Pow(2, attempt) *)
Pow2[k \in 0..MaxRetries] == IF k = 0 THEN 1 ELSE 2 * Pow2[k - 1]

(* The method returns, and its local variables are gone. *)
Return(r) ==
    /\ result' = [result EXCEPT ![begun] = r]
    /\ pc' = "idle"
    /\ attempt' = 0
    /\ waits' = <<>>
    /\ answer' = NoAnswer

--------------------------------------------------------------------------------
(* Wrong variants of definitions below, which nothing uses: each is a slip *)
(* the code could contain and some property must notice.                   *)

(* The loop over the status codes leaves out the first one. *)
IsClientErrorAbove400(a) == a.code # 200 /\ (a.code \in 401..499 \/ a.body = "quotes")

(* The exponent is one too high. *)
BackoffOfNext(k, n) ==
    LET delay == BaseDelay * Pow2[k + 1] IN delay + (delay * (2 * n - 100)) \div 500

(* The call is made in a goroutine of its own, without waiting for it. *)
CallAsync ==
    /\ pc \in {"idle", "waiting"}
    /\ begun < N
    /\ begun' = begun + 1
    /\ attempt' = 0
    /\ waits' = <<>>
    /\ answer' = NoAnswer
    /\ pc' = "sending"
    /\ UNCHANGED <<script, result, open, backend, unique, unclear>>

(* The attempt is not counted. *)
RetryForEver ==
    /\ pc = "failed"
    /\ pc' = "sending"
    /\ UNCHANGED <<script, begun, attempt, waits, result, answer, open, backend, unique, unclear>>

(* After the last attempt lastErr is not returned. *)
ReturnNil ==
    /\ pc = "failed"
    /\ attempt = MaxRetries
    /\ Return("ok")
    /\ UNCHANGED <<script, begun, open, backend, unique, unclear>>

--------------------------------------------------------------------------------
(* isClientError: "status=4xx" occurs in the error, which holds the status *)
(* code and the whole body.                                                *)
isClientError(a) == a.code # 200 /\ (a.code \in 400..499 \/ a.body = "quotes")

Succeeded(a) == a.code = 200 /\ a.body # "garbled"

(* calculateBackoff: the jitter is added after the cap. *)
calculateBackoff(k, n) ==
    LET full  == BaseDelay * Pow2[k]
        delay == IF full > MaxDelay THEN MaxDelay ELSE full
    IN  delay + (delay * (2 * n - 100)) \div 500

(* A ...WithRetry method is called, for the next call of the script. *)
Call ==
    /\ pc = "idle"
    /\ begun < N
    /\ begun' = begun + 1
    /\ pc' = "sending"
    /\ UNCHANGED <<script, attempt, waits, answer, result, open, backend, unique, unclear>>

(* The Client method sends its request. *)
Send ==
    /\ pc = "sending"
    /\ pc' = "waiting"
    /\ open' = open \cup {Request}
    /\ answer' = NoAnswer
    /\ UNCHANGED <<script, begun, attempt, waits, result, backend, unique, unclear>>

(* The answer arrives: nil, an error that is not retried, or another one. *)
Receive ==
    /\ pc = "waiting"
    /\ answer # NoAnswer
    /\ IF Succeeded(answer) THEN Return("ok")
       ELSE IF isClientError(answer) THEN Return("error")
       ELSE pc' = "failed" /\ UNCHANGED <<result, attempt, waits, answer>>
    /\ UNCHANGED <<script, begun, open, backend, unique, unclear>>

(* The connection fails, or the 30 seconds of the client are over: the     *)
(* request is lost, or still under way, or its answer is what is lost.     *)
Break ==
    /\ pc = "waiting"
    /\ pc' = "failed"
    /\ answer' = NoAnswer
    /\ open' \in {open \ {Request}, open}
    /\ Cardinality(open') <= MaxLate
    /\ unclear' = unclear \cup {begun}
    /\ UNCHANGED <<script, begun, attempt, waits, result, backend, unique>>

(* time.Sleep, and the next attempt. *)
BackOff ==
    /\ pc = "failed"
    /\ attempt < MaxRetries
    /\ \E n \in Jitters : waits' = Append(waits, calculateBackoff(attempt, n))
    /\ attempt' = attempt + 1
    /\ pc' = "sending"
    /\ UNCHANGED <<script, begun, result, answer, open, backend, unique, unclear>>

(* The last attempt has failed. *)
Exhausted ==
    /\ pc = "failed"
    /\ attempt = MaxRetries
    /\ Return("error")
    /\ UNCHANGED <<script, begun, open, backend, unique, unclear>>

--------------------------------------------------------------------------------
(* The Backend answers request r with a; nobody reads the answer to a      *)
(* request that was given up.                                              *)
Awaited(r)   == r = Request /\ pc = "waiting"
Answer(r, a) == answer' = IF Awaited(r) THEN a ELSE answer

(* What a request does when it is executed. *)
Registers(c) == script[c].method = "AddInstanceVm"
Effect(c) ==
    /\ executed' = [executed EXCEPT ![c] = @ + 1]
    /\ shown' = IF script[c].method = "UpdateExecutionStatus" THEN script[c].value ELSE shown
Registered == \E c \in 1..N : Registers(c) /\ executed[c] > 0

(* Executed, and answered with 200 (which may hold something else than a   *)
(* project), or with an error nonetheless, by the Backend or by a proxy.   *)
Execute(r) ==
    /\ r \in open
    /\ ~ (unique /\ Registers(r[1]) /\ Registered)
    /\ open' = open \ {r}
    /\ Effect(r[1])
    /\ \/ Answer(r, [code |-> 200, body |-> "plain"]) /\ UNCHANGED unclear
       \/ /\ script[r[1]].method = "GetProjectDetail"
          /\ Answer(r, [code |-> 200, body |-> "garbled"])
          /\ unclear' = unclear \cup {r[1]}
       \/ /\ \E k \in FailureCodes, b \in {"plain", "quotes"} : Answer(r, [code |-> k, body |-> b])
          /\ unclear' = unclear \cup {r[1]}
    /\ UNCHANGED <<script, client, unique>>

(* Refused, or failed, without an effect. *)
Refuse(r) ==
    /\ r \in open
    /\ open' = open \ {r}
    /\ \/ \E k \in RefusalCodes : Answer(r, [code |-> k, body |-> "plain"])
       \/ \E k \in FailureCodes, b \in {"plain", "quotes"} : Answer(r, [code |-> k, body |-> b])
    /\ UNCHANGED <<script, client, backend, unique, unclear>>

Client == Call \/ Send \/ Receive \/ Break \/ BackOff \/ Exhausted
Server == \E r \in open : Execute(r) \/ Refuse(r)
Next   == Client \/ Server

Spec == Init /\ [][Next]_vars

(* The goroutine runs, its timers expire, and the timeout of the HTTP      *)
(* client ends the wait for an answer.                                     *)
FairSpec == Spec /\ WF_vars(Client)

--------------------------------------------------------------------------------
(* The variables keep their types (what waits holds is WaitsAsDocumented), *)
(* and a request is never repeated with the same number.                   *)
TypeOK ==
    /\ script \in Scripts
    /\ begun \in 0..N
    /\ attempt \in 0..MaxRetries
    /\ pc \in {"idle", "sending", "waiting", "failed"}
    /\ answer \in Answers
    /\ result \in [1..N -> {"none", "ok", "error"}]
    /\ open \subseteq (1..begun) \X (0..MaxRetries)
    /\ executed \in [1..N -> 0..(MaxRetries + 1)]
    /\ shown \in Values \cup {"QUEUED"}
    /\ unique \in BOOLEAN
    /\ unclear \subseteq 1..begun
    /\ pc = "sending" => Request \notin open

(* What Executor assumes of a call none of whose requests had an unclear   *)
(* outcome: when it has returned nil it was executed exactly once, when it *)
(* has returned an error it was not executed, and it never will be again.  *)
ClearIsExact ==
    \A c \in 1..N :
        result[c] # "none" /\ c \notin unclear =>
            /\ executed[c] = IF result[c] = "ok" THEN 1 ELSE 0
            /\ \A r \in open : r[1] # c

(* The delays README names: the first, then each twice the one before it   *)
(* (1, 2 and 4 seconds).  As NewRetryableClient sets them, the longest of  *)
(* them is below the maximum with all of its jitter.                       *)
Documented[i \in 1..MaxRetries] == IF i = 1 THEN BaseDelay ELSE 2 * Documented[i - 1]

ASSUME DelaysAssumption ==
    /\ BaseDelay > 0 /\ BaseDelay % 5 = 0
    /\ MaxRetries > 0 => 6 * Documented[MaxRetries] <= 5 * MaxDelay

(* README: the delays are 1, 2 and 4 seconds, 30 at most, with a jitter of *)
(* 20% in both directions: the jitter never makes a delay shorter than the *)
(* one before, nor longer than the maximum although it is added after the  *)
(* cap, and all of them are over within 1.2 * (2^n - 1) times the first.   *)
WaitsAsDocumented ==
    \A i \in 1..Len(waits) :
        /\ 5 * waits[i] \in (4 * Documented[i])..(6 * Documented[i])
        /\ waits[i] <= MaxDelay
        /\ i > 1 => waits[i] > waits[i - 1]

(* The status at the Backend changes only to what the running call says,   *)
(* unless by a request of a call whose outcome was unclear: reports of one *)
(* execution overtake each other in no other way.                          *)
OnlyUnclearOvertakes ==
    [][shown' # shown =>
          \/ shown' = script[begun].value
          \/ \E c \in unclear : shown' = script[c].value]_vars

(* README: a client error (4xx) is not retried. *)
RefusalEndsCall == [][Send => answer.code \notin 400..499]_vars

(* The client keeps the promise of BackendCalls. *)
Calls == INSTANCE BackendCalls WITH
            N <- N, Attempts <- MaxRetries + 1,
            begun <- begun, result <- result, executed <- executed
AtLeastOnce == Calls!Spec

(* Every call returns, also when the Backend never answers, or answers     *)
(* every attempt with an error: a worker is not held for ever.             *)
CallsReturn == \A c \in 1..N : <>(result[c] # "none")
================================================================================
