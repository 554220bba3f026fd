--------------------------- MODULE RetryClient_proofs ---------------------------
(***************************************************************************)
(* Theorems on RetryClient, for scripts, retries, codes and late requests  *)
(* without bounds: its types, what a call with a clear outcome has done,   *)
(* who may overtake whom, that it implements BackendCalls, and how long it *)
(* waits between its attempts.                                             *)
(***************************************************************************)
EXTENDS RetryClient, ListLemmas, FiniteSetTheorems

(* The requests of a call, and those of them that are under way. *)
OfCall(S, c) == {r \in S : r[1] = c}
OpenOf(c)    == OfCall(open, c)

(* A call that has returned, or that is still to be made. *)
Over(c)  == c < begun \/ (c = begun /\ pc = "idle")
Ahead(c) == c > begun

(* How many requests a call has sent, at most. *)
Sent(c) ==
    IF Over(c) THEN MaxRetries + 1
    ELSE IF Ahead(c) THEN 0
    ELSE IF pc = "sending" THEN attempt ELSE attempt + 1

Types ==
    /\ script \in [1..N -> [method : Methods, value : Values]]
    /\ begun \in 0..N
    /\ attempt \in 0..MaxRetries
    /\ pc \in {"idle", "sending", "waiting", "failed"}
    /\ pc # "idle" => begun > 0
    /\ answer \in Answers
    /\ result \in [1..N -> {"none", "ok", "error"}]
    /\ open \subseteq (1..begun) \X (0..MaxRetries)
    /\ executed \in [1..N -> Nat]
    /\ shown \in Values \cup {"QUEUED"}
    /\ unique \in BOOLEAN
    /\ unclear \subseteq 1..begun

(* Every execution uses up a request that was sent. *)
Counted == \A c \in 1..N : executed[c] + Cardinality(OpenOf(c)) <= Sent(c)

(* An attempt has its own number. *)
Fresh ==
    /\ pc = "idle" => attempt = 0
    /\ \A r \in open : r[1] = begun /\ pc # "idle" =>
          r[2] < attempt \/ (r[2] = attempt /\ pc # "sending")

(* Exactly the calls that are over have a result. *)
Results == \A c \in 1..N : result[c] # "none" <=> Over(c)

(* What the answer says. *)
AnswerInv ==
    /\ pc = "idle" => answer = NoAnswer
    /\ pc \in {"sending", "failed"} => answer.code \notin 400..499
    /\ pc = "waiting" /\ Succeeded(answer) => executed[begun] > 0

(* A call with a clear outcome: its failed attempts had no effect and are  *)
(* not under way, and the attempt in hand is executed when it succeeds.    *)
ClearCall(c) ==
    /\ Over(c) => OpenOf(c) = {} /\ executed[c] = IF result[c] = "ok" THEN 1 ELSE 0
    /\ Ahead(c) => OpenOf(c) = {} /\ executed[c] = 0
    /\ c = begun /\ pc = "waiting" /\ answer = NoAnswer =>
          OpenOf(c) \subseteq {Request} /\ executed[c] = 0
    /\ c = begun /\ (pc \in {"sending", "failed"} \/ (pc = "waiting" /\ answer # NoAnswer)) =>
          OpenOf(c) = {} /\ executed[c] = IF pc = "waiting" /\ Succeeded(answer) THEN 1 ELSE 0
Clear == \A c \in 1..N : c \notin unclear => ClearCall(c)

CallInv == Types /\ Counted /\ Fresh /\ Results /\ AnswerInv /\ Clear

--------------------------------------------------------------------------------
(* Sets of requests. *)

LEMMA FiniteRequests ==
    ASSUME NEW b \in Nat, NEW S, S \subseteq (1..b) \X (0..MaxRetries), NEW c
    PROVE  IsFiniteSet(OfCall(S, c)) /\ Cardinality(OfCall(S, c)) \in Nat
<1>0. b \in Int /\ MaxRetries \in Int /\ 0 \in Int /\ 1 \in Int
  BY LimitsAssumption
<1>1. IsFiniteSet(1..b) /\ IsFiniteSet(0..MaxRetries)
  BY <1>0, FS_Interval
<1>2. IsFiniteSet((1..b) \X (0..MaxRetries))
  BY <1>1, FS_Product
<1>3. OfCall(S, c) \in SUBSET ((1..b) \X (0..MaxRetries))
  BY DEF OfCall
<1>4. IsFiniteSet(OfCall(S, c))
  BY <1>2, <1>3, FS_Subset
<1> QED
  BY <1>4, FS_CardinalityType

LEMMA FewerRequests ==
    ASSUME NEW S, NEW T, NEW c, T \subseteq S, IsFiniteSet(OfCall(S, c))
    PROVE  Cardinality(OfCall(T, c)) <= Cardinality(OfCall(S, c))
<1>1. OfCall(T, c) \in SUBSET OfCall(S, c)
  BY DEF OfCall
<1> QED
  BY <1>1, FS_Subset

LEMMA OneRequestMore ==
    ASSUME NEW S, NEW q, NEW c, IsFiniteSet(OfCall(S, c))
    PROVE  Cardinality(OfCall(S \cup {q}, c))
              <= Cardinality(OfCall(S, c)) + (IF q[1] = c THEN 1 ELSE 0)
<1>1. Cardinality(OfCall(S, c)) \in Nat
  BY FS_CardinalityType
<1>2. CASE q[1] = c
  <2>1. OfCall(S \cup {q}, c) = OfCall(S, c) \cup {q}
    BY <1>2 DEF OfCall
  <2>2. Cardinality(OfCall(S, c) \cup {q}) =
           IF q \in OfCall(S, c) THEN Cardinality(OfCall(S, c)) ELSE Cardinality(OfCall(S, c)) + 1
    BY FS_AddElement
  <2>3. Cardinality(OfCall(S, c) \cup {q}) <= Cardinality(OfCall(S, c)) + 1
    BY <1>1, <2>2
  <2> QED
    BY <1>2, <2>1, <2>3
<1>3. CASE q[1] # c
  <2>1. OfCall(S \cup {q}, c) = OfCall(S, c)
    BY <1>3 DEF OfCall
  <2> QED
    BY <1>1, <1>3, <2>1
<1> QED
  BY <1>2, <1>3

LEMMA OneRequestLess ==
    ASSUME NEW S, NEW q \in S, IsFiniteSet(OfCall(S, q[1]))
    PROVE  Cardinality(OfCall(S \ {q}, q[1])) = Cardinality(OfCall(S, q[1])) - 1
<1>1. OfCall(S \ {q}, q[1]) = OfCall(S, q[1]) \ {q} /\ q \in OfCall(S, q[1])
  BY DEF OfCall
<1> QED
  BY <1>1, FS_RemoveElement

--------------------------------------------------------------------------------
(* The invariant. *)

LEMMA AnswerTypes ==
    /\ NoAnswer \in Answers /\ NoAnswer.code = 0
    /\ \A k \in {200} \cup RefusalCodes \cup FailureCodes, b \in {"plain", "quotes", "garbled"} :
          /\ [code |-> k, body |-> b] \in Answers
          /\ [code |-> k, body |-> b] # NoAnswer
    /\ \A k \in RefusalCodes \cup FailureCodes : k # 200
<1>1. \A k \in RefusalCodes : k \in Int /\ k >= 400
  BY CodesAssumption
<1>2. \A k \in FailureCodes : k \in Int /\ k >= 500
  BY CodesAssumption
<1>3. \A k \in {200} \cup RefusalCodes \cup FailureCodes : k # 0
  BY <1>1, <1>2
<1>4. \A k \in RefusalCodes \cup FailureCodes : k # 200
  BY <1>1, <1>2
<1>5. \A k, b : [code |-> k, body |-> b].code = k
  OBVIOUS
<1>6. NoAnswer.code = 0
  BY DEF NoAnswer
<1> QED
  BY <1>3, <1>4, <1>5, <1>6 DEF Answers, NoAnswer

(* What the Backend does to a request r that is under way. *)
Served(r, a) ==
    /\ answer' = IF Awaited(r) THEN a ELSE answer
    /\ open' = open \ {r}
    /\ UNCHANGED <<script, begun, attempt, pc, result, unique>>
Executed(r, a) ==
    /\ executed' = [executed EXCEPT ![r[1]] = @ + 1]
    /\ shown' = script[r[1]].value \/ shown' = shown
    /\ (unclear' = unclear /\ Succeeded(a)) \/ unclear' = unclear \cup {r[1]}
Refused(a) == ~ Succeeded(a) /\ UNCHANGED <<executed, shown, unclear>>

LEMMA ServerStep ==
    ASSUME NEW r \in open, Execute(r) \/ Refuse(r)
    PROVE  \E a \in Answers : a # NoAnswer /\ Served(r, a) /\ (Executed(r, a) \/ Refused(a))
<1> USE DEF client, backend
<1>1. CASE Execute(r)
  <2>1. \E a \in Answers :
           /\ a # NoAnswer /\ answer' = IF Awaited(r) THEN a ELSE answer
           /\ (unclear' = unclear /\ Succeeded(a)) \/ unclear' = unclear \cup {r[1]}
    <3>1. CASE Answer(r, [code |-> 200, body |-> "plain"]) /\ UNCHANGED unclear
      <4>1. Succeeded([code |-> 200, body |-> "plain"])
        BY DEF Succeeded
      <4>2. [code |-> 200, body |-> "plain"] \in Answers \ {NoAnswer}
        BY AnswerTypes
      <4> QED
        BY <3>1, <4>1, <4>2 DEF Answer
    <3>2. CASE Answer(r, [code |-> 200, body |-> "garbled"]) /\ unclear' = unclear \cup {r[1]}
      BY <3>2, AnswerTypes DEF Answer
    <3>3. CASE /\ \E k \in FailureCodes, b \in {"plain", "quotes"} : Answer(r, [code |-> k, body |-> b])
               /\ unclear' = unclear \cup {r[1]}
      BY <3>3, AnswerTypes DEF Answer
    <3> QED
      BY <1>1, <3>1, <3>2, <3>3 DEF Execute
  <2>2. /\ open' = open \ {r}
        /\ UNCHANGED <<script, begun, attempt, pc, result, unique>>
        /\ executed' = [executed EXCEPT ![r[1]] = @ + 1]
        /\ shown' = script[r[1]].value \/ shown' = shown
    BY <1>1 DEF Execute, Effect
  <2> QED
    BY <2>1, <2>2 DEF Served, Executed
<1>2. CASE Refuse(r)
  <2>1. PICK k \in RefusalCodes \cup FailureCodes, b \in {"plain", "quotes"} :
           Answer(r, [code |-> k, body |-> b])
    BY <1>2 DEF Refuse
  <2>2. /\ [code |-> k, body |-> b] \in Answers /\ [code |-> k, body |-> b] # NoAnswer
        /\ ~ Succeeded([code |-> k, body |-> b])
    BY AnswerTypes DEF Succeeded
  <2>3. /\ open' = open \ {r}
        /\ UNCHANGED <<script, begun, attempt, pc, result, unique, executed, shown, unclear>>
    BY <1>2 DEF Refuse
  <2> QED
    BY <2>1, <2>2, <2>3 DEF Served, Refused, Answer
<1> QED
  BY <1>1, <1>2

(* What a client step does to what the invariant is about. *)
Returned(r) ==
    /\ result' = [result EXCEPT ![begun] = r]
    /\ pc' = "idle" /\ attempt' = 0 /\ answer' = NoAnswer
    /\ UNCHANGED <<begun, open, unclear>>

LEMMA ReceiveStep ==
    ASSUME Receive
    PROVE  /\ pc = "waiting" /\ answer # NoAnswer
           /\ \/ Succeeded(answer) /\ Returned("ok")
              \/ ~ Succeeded(answer) /\ Returned("error")
              \/ /\ ~ Succeeded(answer) /\ ~ isClientError(answer)
                 /\ pc' = "failed" /\ UNCHANGED <<result, attempt, answer, begun, open, unclear>>
           /\ UNCHANGED <<script, executed, shown, unique>>
BY DEF Receive, Return, Returned, backend

LEMMA InitCallInv == Init => CallInv
<1> SUFFICES ASSUME Init PROVE CallInv
  OBVIOUS
<1>1. \A c \in 1..N : OpenOf(c) = {} /\ executed[c] = 0 /\ result[c] = "none"
  BY DEF Init, OpenOf, OfCall
<1>2. Types
  BY ScriptsAssumption, LimitsAssumption, AnswerTypes DEF Init, Types, Values
<1>3. \A c \in 1..N : Ahead(c) /\ ~ Over(c)
  BY ScriptsAssumption DEF Init, Ahead, Over
<1>4. Counted
  BY <1>1, <1>3, FS_EmptySet DEF Counted, Sent
<1>5. Fresh /\ Results /\ AnswerInv
  BY <1>1, <1>3 DEF Init, Fresh, Results, AnswerInv
<1>6. Clear
  <2>1. \A c \in 1..N : c # begun
    BY ScriptsAssumption DEF Init
  <2> QED
    BY <1>1, <1>3, <2>1 DEF Clear, ClearCall
<1> QED
  BY <1>2, <1>4, <1>5, <1>6 DEF CallInv

LEMMA TypesNext == CallInv /\ [Next]_vars => Types'
<1> SUFFICES ASSUME CallInv, [Next]_vars PROVE Types'
  OBVIOUS
<1> USE ScriptsAssumption, LimitsAssumption, AnswerTypes
<1> USE DEF client, backend
<1>0. Types /\ Fresh
  BY DEF CallInv
<1>1. CASE Call
  BY <1>0, <1>1 DEF Call, Types
<1>2. CASE Send
  BY <1>0, <1>2 DEF Send, Types, Request
<1>3. CASE Receive
  <2>1. CASE Returned("ok") \/ Returned("error")
    <3>1. result' \in [1..N -> {"none", "ok", "error"}]
      BY <1>0, <2>1 DEF Returned, Types
    <3>2. UNCHANGED <<script, executed, shown, unique>>
      BY <1>3, ReceiveStep
    <3>3. /\ pc' = "idle" /\ attempt' \in 0..MaxRetries /\ answer' \in Answers
          /\ UNCHANGED <<begun, open, unclear>>
      BY <2>1 DEF Returned
    <3> QED
      BY <1>0, <3>1, <3>2, <3>3 DEF Types
  <2>2. CASE pc' = "failed" /\ UNCHANGED <<result, attempt, answer, begun, open, unclear>>
    BY <1>0, <1>3, <2>2, ReceiveStep DEF Types
  <2> QED
    BY <1>3, <2>1, <2>2, ReceiveStep
<1>4. CASE Break
  BY <1>0, <1>4 DEF Break, Types
<1>5. CASE BackOff
  BY <1>0, <1>5 DEF BackOff, Types
<1>6. CASE Exhausted
  BY <1>0, <1>6 DEF Exhausted, Return, Types
<1>7. ASSUME NEW r \in open, Execute(r) \/ Refuse(r) PROVE Types'
  <2>1. r[1] \in 1..begun /\ r[1] \in 1..N
    BY <1>0 DEF Types
  <2>2. PICK a \in Answers : Served(r, a) /\ (Executed(r, a) \/ Refused(a))
    BY <1>7, ServerStep
  <2>3. CASE Executed(r, a)
    <3>1. script[r[1]].value \in Values
      BY <1>0, <2>1 DEF Types
    <3>2. executed' \in [1..N -> Nat]
      BY <1>0, <2>1, <2>3 DEF Executed, Types
    <3>3. shown' \in Values \cup {"QUEUED"}
      BY <1>0, <2>3, <3>1 DEF Executed, Types
    <3>4. unclear' \subseteq 1..begun
      BY <1>0, <2>1, <2>3 DEF Executed, Types
    <3> QED
      BY <1>0, <2>2, <3>2, <3>3, <3>4 DEF Served, Types
  <2>4. CASE Refused(a)
    BY <1>0, <2>2, <2>4 DEF Served, Refused, Types
  <2> QED
    BY <2>2, <2>3, <2>4
<1>8. CASE UNCHANGED vars
  BY <1>0, <1>8 DEF Types, vars
<1> QED
  BY <1>1, <1>2, <1>3, <1>4, <1>5, <1>6, <1>7, <1>8 DEF Next, Client, Server

LEMMA CountedNext == CallInv /\ [Next]_vars => Counted'
<1> SUFFICES ASSUME CallInv, [Next]_vars, NEW c \in 1..N
             PROVE  executed'[c] + Cardinality(OfCall(open', c)) <= Sent(c)'
  BY DEF Counted, OpenOf
<1> USE DEF client, backend
<1>0. /\ executed[c] + Cardinality(OfCall(open, c)) <= Sent(c)
      /\ executed[c] \in Nat /\ begun \in Nat /\ N \in Nat /\ MaxRetries \in Nat
      /\ attempt \in Nat /\ attempt <= MaxRetries /\ (pc = "idle" => attempt = 0)
      /\ open \subseteq (1..begun) \X (0..MaxRetries)
      /\ pc \in {"idle", "sending", "waiting", "failed"} /\ DOMAIN executed = 1..N
  BY LimitsAssumption, ScriptsAssumption DEF CallInv, Types, Fresh, Counted, OpenOf
<1>00. IsFiniteSet(OfCall(open, c)) /\ Cardinality(OfCall(open, c)) \in Nat
  BY <1>0, FiniteRequests
<1>1. ASSUME UNCHANGED executed, Cardinality(OfCall(open', c)) <= Cardinality(OfCall(open, c)),
             Cardinality(OfCall(open', c)) \in Nat, Sent(c) <= Sent(c)', Sent(c) \in Nat, Sent(c)' \in Nat
      PROVE  executed'[c] + Cardinality(OfCall(open', c)) <= Sent(c)'
  BY <1>0, <1>00, <1>1
<1>2. Sent(c) \in Nat
  BY <1>0 DEF Sent
<1>3. CASE Call \/ Receive \/ BackOff \/ Exhausted \/ UNCHANGED vars
  <2>1. UNCHANGED <<executed, open>>
    BY <1>3 DEF Call, Receive, BackOff, Exhausted, vars
  <2>2. Sent(c) <= Sent(c)' /\ Sent(c)' \in Nat
    <3>1. CASE Call
      BY <1>0, <3>1 DEF Call, Sent, Over, Ahead
    <3>2. CASE Receive
      BY <1>0, <3>2 DEF Receive, Return, Sent, Over, Ahead
    <3>3. CASE BackOff
      BY <1>0, <3>3 DEF BackOff, Sent, Over, Ahead
    <3>4. CASE Exhausted
      BY <1>0, <3>4 DEF Exhausted, Return, Sent, Over, Ahead
    <3>5. CASE UNCHANGED vars
      BY <1>2, <3>5 DEF vars, Sent, Over, Ahead
    <3> QED
      BY <1>3, <3>1, <3>2, <3>3, <3>4, <3>5
  <2> QED
    BY <1>00, <1>1, <1>2, <2>1, <2>2
<1>4. CASE Send
  <2>1. Cardinality(OfCall(open', c)) <= Cardinality(OfCall(open, c)) + (IF begun = c THEN 1 ELSE 0)
    <3>1. open' = open \cup {Request} /\ Request[1] = begun
      BY <1>4 DEF Send, Request
    <3> QED
      BY <1>00, <3>1, OneRequestMore
  <2>2. Sent(c)' = Sent(c) + (IF begun = c THEN 1 ELSE 0)
    BY <1>0, <1>4 DEF Send, Sent, Over, Ahead
  <2>3. Cardinality(OfCall(open', c)) \in Nat
    <3>1. open' \subseteq (1..begun') \X (0..MaxRetries) /\ begun' = begun
      BY <1>4, TypesNext DEF Send, Types
    <3> QED
      BY <1>0, <3>1, FiniteRequests
  <2> QED
    BY <1>0, <1>00, <1>2, <1>4, <2>1, <2>2, <2>3 DEF Send
<1>5. ASSUME open' \subseteq open
      PROVE  Cardinality(OfCall(open', c)) <= Cardinality(OfCall(open, c)) /\ Cardinality(OfCall(open', c)) \in Nat
  <2>1. open' \subseteq (1..begun) \X (0..MaxRetries)
    BY <1>0, <1>5
  <2> QED
    BY <1>0, <1>00, <1>5, <2>1, FewerRequests, FiniteRequests
<1>6. CASE Break
  <2>1. UNCHANGED executed /\ open' \subseteq open
    BY <1>6 DEF Break
  <2>2. Sent(c)' = Sent(c)
    BY <1>0, <1>6 DEF Break, Sent, Over, Ahead
  <2> QED
    BY <1>1, <1>2, <1>5, <2>1, <2>2
<1>7. ASSUME NEW r \in open, Execute(r) \/ Refuse(r)
      PROVE  executed'[c] + Cardinality(OfCall(open', c)) <= Sent(c)'
  <2>1. PICK a \in Answers : Served(r, a) /\ (Executed(r, a) \/ Refused(a))
    BY <1>7, ServerStep
  <2>2. Sent(c)' = Sent(c) /\ open' = open \ {r}
    BY <2>1 DEF Served, Sent, Over, Ahead
  <2>3. CASE Executed(r, a) /\ r[1] = c
    <3>1. executed'[c] = executed[c] + 1
      BY <1>0, <2>3 DEF Executed
    <3>2. Cardinality(OfCall(open', c)) = Cardinality(OfCall(open, c)) - 1
      BY <1>00, <2>2, <2>3, OneRequestLess
    <3> QED
      BY <1>0, <1>00, <2>2, <3>1, <3>2
  <2>4. CASE ~ (Executed(r, a) /\ r[1] = c)
    <3>1. executed'[c] = executed[c]
      BY <1>0, <2>1, <2>4 DEF Executed, Refused
    <3>2. Cardinality(OfCall(open', c)) <= Cardinality(OfCall(open, c)) /\ Cardinality(OfCall(open', c)) \in Nat
      BY <1>5, <2>2
    <3> QED
      BY <1>0, <1>00, <1>2, <2>2, <3>1, <3>2
  <2> QED
    BY <2>3, <2>4
<1> QED
  BY <1>3, <1>4, <1>6, <1>7 DEF Next, Client, Server

LEMMA FreshNext == CallInv /\ [Next]_vars => Fresh'
<1> SUFFICES ASSUME CallInv, [Next]_vars PROVE Fresh'
  OBVIOUS
<1> USE DEF client, backend
<1>0. /\ Fresh /\ begun \in Nat /\ attempt \in Nat
      /\ \A r \in open : r[1] \in 1..begun /\ r[2] \in 0..MaxRetries
  BY ScriptsAssumption DEF CallInv, Types
<1>1. CASE Call
  BY <1>0, <1>1 DEF Call, Fresh
<1>2. CASE Send
  BY <1>0, <1>2 DEF Send, Fresh, Request
<1>3. CASE Receive
  <2>1. (pc' = "idle" /\ attempt' = 0) \/ (pc' = "failed" /\ attempt' = attempt)
    BY <1>3 DEF Receive, Return
  <2> QED
    BY <1>0, <1>3, <2>1 DEF Receive, Fresh
<1>4. CASE Break
  BY <1>0, <1>4 DEF Break, Fresh
<1>5. CASE BackOff
  BY <1>0, <1>5, LimitsAssumption DEF BackOff, Fresh
<1>6. CASE Exhausted
  BY <1>0, <1>6 DEF Exhausted, Return, Fresh
<1>7. ASSUME NEW r \in open, Execute(r) \/ Refuse(r) PROVE Fresh'
  BY <1>0, <1>7, ServerStep DEF Served, Fresh
<1>8. CASE UNCHANGED vars
  BY <1>0, <1>8 DEF Fresh, vars
<1> QED
  BY <1>1, <1>2, <1>3, <1>4, <1>5, <1>6, <1>7, <1>8 DEF Next, Client, Server

LEMMA ResultsNext == CallInv /\ [Next]_vars => Results'
<1> SUFFICES ASSUME CallInv, [Next]_vars, NEW c \in 1..N PROVE (result[c] # "none" <=> Over(c))'
  BY DEF Results
<1> USE DEF client, backend, Over
<1>0. /\ result[c] # "none" <=> Over(c)
      /\ begun \in Nat /\ DOMAIN result = 1..N /\ (pc # "idle" => begun > 0)
  BY ScriptsAssumption DEF CallInv, Types, Results
<1>1. ASSUME \E r \in {"ok", "error"} : Returned(r), pc # "idle" PROVE (result[c] # "none" <=> Over(c))'
  BY <1>0, <1>1 DEF Returned
<1>2. CASE Receive
  BY <1>0, <1>1, <1>2, ReceiveStep
<1>3. CASE Exhausted
  BY <1>1, <1>3 DEF Exhausted, Return, Returned
<1>4. CASE Call
  BY <1>0, <1>4 DEF Call
<1>5. CASE Send \/ Break \/ BackOff
  BY <1>0, <1>5 DEF Send, Break, BackOff
<1>6. ASSUME NEW r \in open, Execute(r) \/ Refuse(r) PROVE (result[c] # "none" <=> Over(c))'
  BY <1>0, <1>6, ServerStep DEF Served
<1>7. CASE UNCHANGED vars
  BY <1>0, <1>7 DEF vars
<1> QED
  BY <1>2, <1>3, <1>4, <1>5, <1>6, <1>7 DEF Next, Client, Server

LEMMA AnswerNext == CallInv /\ [Next]_vars => AnswerInv'
<1> SUFFICES ASSUME CallInv, [Next]_vars PROVE AnswerInv'
  OBVIOUS
<1> USE AnswerTypes DEF client, backend
<1>0. /\ AnswerInv /\ (pc # "idle" => begun \in 1..N)
      /\ executed \in [1..N -> Nat] /\ (\A r \in open : r[1] \in 1..N)
  BY ScriptsAssumption DEF CallInv, Types
<1>1. ASSUME answer' = NoAnswer PROVE AnswerInv'
  <2>1. NoAnswer.code \notin 400..499 /\ ~ Succeeded(NoAnswer)
    BY DEF Succeeded
  <2>2. ~ Succeeded(answer)'
    BY <1>1, <2>1 DEF Succeeded
  <2> QED
    BY <1>1, <2>1, <2>2 DEF AnswerInv
<1>2. CASE Call
  <2>1. answer' = NoAnswer
    BY <1>0, <1>2 DEF Call, AnswerInv
  <2> QED
    BY <1>1, <2>1
<1>3. CASE Send \/ Break \/ Exhausted
  <2>1. answer' = NoAnswer
    BY <1>3 DEF Send, Break, Exhausted, Return
  <2> QED
    BY <1>1, <2>1
<1>4. CASE Receive
  <2>1. CASE ~ Succeeded(answer) /\ ~ isClientError(answer) /\ pc' = "failed" /\ UNCHANGED answer
    BY <2>1 DEF AnswerInv, isClientError
  <2> QED
    BY <1>1, <1>4, <2>1, ReceiveStep DEF Returned
<1>5. CASE BackOff
  BY <1>0, <1>5 DEF BackOff, AnswerInv
<1>6. ASSUME NEW r \in open, Execute(r) \/ Refuse(r) PROVE AnswerInv'
  <2>1. PICK a \in Answers : Served(r, a) /\ (Executed(r, a) \/ Refused(a))
    BY <1>6, ServerStep
  <2>2. UNCHANGED <<pc, begun>> /\ (~ Awaited(r) => answer' = answer)
    BY <2>1 DEF Served
  <2>3. pc # "waiting" => ~ Awaited(r)
    BY DEF Awaited
  <2>4. ASSUME pc = "waiting", Succeeded(answer') PROVE executed'[begun] > 0
    <3>1. CASE Executed(r, a)
      <4>1. r[1] = begun \/ ~ Awaited(r)
        BY DEF Awaited, Request
      <4> QED
        BY <1>0, <2>2, <2>4, <3>1, <4>1 DEF Executed, AnswerInv
    <3>2. CASE Refused(a)
      BY <1>0, <2>1, <2>4, <3>2 DEF Refused, Served, AnswerInv
    <3> QED
      BY <2>1, <3>1, <3>2
  <2>5. pc' = "idle" => answer' = NoAnswer
    BY <1>0, <2>2, <2>3 DEF AnswerInv
  <2>6. pc' \in {"sending", "failed"} => answer'.code \notin 400..499
    <3>1. pc' \in {"sending", "failed"} => answer' = answer
      BY <2>2, <2>3
    <3>2. pc' \in {"sending", "failed"} => answer.code \notin 400..499
      BY <1>0, <2>2 DEF AnswerInv
    <3> QED
      BY <3>1, <3>2
  <2>7. pc' = "waiting" /\ Succeeded(answer)' => executed'[begun'] > 0
    BY <2>2, <2>4 DEF Succeeded
  <2> QED
    BY <2>5, <2>6, <2>7 DEF AnswerInv
<1>7. CASE UNCHANGED vars
  BY <1>0, <1>7 DEF AnswerInv, vars
<1> QED
  BY <1>2, <1>3, <1>4, <1>5, <1>6, <1>7 DEF Next, Client, Server

LEMMA ClearNext == CallInv /\ [Next]_vars => Clear'
<1> SUFFICES ASSUME CallInv, [Next]_vars, NEW c \in 1..N, c \notin unclear' PROVE ClearCall(c)'
  BY DEF Clear
<1> USE DEF client, backend, Over, Ahead, OpenOf
<1>0. /\ c \in Int /\ begun \in Nat /\ pc \in {"idle", "sending", "waiting", "failed"}
      /\ executed \in [1..N -> Nat] /\ DOMAIN result = 1..N
  BY ScriptsAssumption DEF CallInv, Types
<1>1. c \notin unclear => ClearCall(c)
  BY DEF CallInv, Clear
<1>2. CASE Call
  <2>1. UNCHANGED <<executed, result, open, unclear>> /\ pc' = "sending" /\ pc = "idle" /\ begun' = begun + 1
    BY <1>2 DEF Call
  <2> QED
    BY <1>0, <1>1, <2>1 DEF ClearCall
<1>3. CASE Send
  <2>1. /\ UNCHANGED <<executed, result, begun, unclear>> /\ pc' = "waiting" /\ pc = "sending"
        /\ answer' = NoAnswer /\ open' = open \cup {Request} /\ Request' = Request
    BY <1>3 DEF Send, Request
  <2>2. OfCall(open', c) = IF c = begun THEN OfCall(open, c) \cup {Request} ELSE OfCall(open, c)
    BY <2>1 DEF OfCall, Request
  <2>3. CASE c = begun
    <3>1. OpenOf(c) = {} /\ executed[c] = 0
      BY <1>1, <2>1, <2>3 DEF ClearCall
    <3>2. OfCall(open', c) \subseteq {Request}
      BY <2>2, <2>3, <3>1
    <3>3. /\ c = begun' /\ pc' = "waiting" /\ answer' = NoAnswer /\ Request' = Request
          /\ executed'[c] = 0 /\ ~ Over(c)' /\ ~ Ahead(c)'
      BY <1>0, <2>1, <2>3, <3>1
    <3> QED
      BY <3>2, <3>3 DEF ClearCall
  <2>4. CASE c # begun
    BY <1>0, <1>1, <2>1, <2>2, <2>4 DEF ClearCall
  <2> QED
    BY <2>3, <2>4
<1>4. CASE Receive
  <2>1. UNCHANGED <<executed, open, begun, unclear>> /\ pc = "waiting" /\ answer # NoAnswer
    BY <1>4, ReceiveStep DEF Returned
  <2>2. ASSUME NEW res \in {"ok", "error"}, Returned(res), Succeeded(answer) <=> res = "ok"
        PROVE  ClearCall(c)'
    <3>1. /\ pc' = "idle" /\ UNCHANGED begun
          /\ result'[c] = IF c = begun THEN res ELSE result[c]
      BY <1>0, <2>2 DEF Returned
    <3>2. CASE c = begun
      <4>1. OpenOf(c) = {} /\ executed[c] = IF res = "ok" THEN 1 ELSE 0
        BY <1>1, <2>1, <2>2, <3>2 DEF ClearCall
      <4> QED
        BY <1>0, <2>1, <3>1, <3>2, <4>1 DEF ClearCall
    <3>3. CASE c # begun
      BY <1>0, <1>1, <2>1, <3>1, <3>3 DEF ClearCall
    <3> QED
      BY <3>2, <3>3
  <2>3. CASE ~ Succeeded(answer) /\ pc' = "failed" /\ UNCHANGED result
    BY <1>0, <1>1, <2>1, <2>3 DEF ClearCall
  <2> QED
    BY <1>4, <2>2, <2>3, ReceiveStep
<1>5. CASE Break
  <2>1. c # begun /\ c \notin unclear
    BY <1>5 DEF Break
  <2>2. OfCall(open', c) \subseteq OfCall(open, c)
    BY <1>5 DEF Break, OfCall
  <2>3. UNCHANGED <<executed, result, begun>>
    BY <1>5 DEF Break
  <2> QED
    BY <1>0, <1>1, <2>1, <2>2, <2>3 DEF ClearCall
<1>6. CASE BackOff
  BY <1>0, <1>1, <1>6 DEF BackOff, ClearCall
<1>7. CASE Exhausted
  <2>1. UNCHANGED <<executed, open, begun, unclear>> /\ pc = "failed" /\ Returned("error")
    BY <1>7 DEF Exhausted, Return, Returned
  <2> QED
    BY <1>0, <1>1, <2>1 DEF ClearCall, Returned
<1>8. ASSUME NEW r \in open, Execute(r) \/ Refuse(r) PROVE ClearCall(c)'
  <2>1. PICK a \in Answers : a # NoAnswer /\ Served(r, a) /\ (Executed(r, a) \/ Refused(a))
    BY <1>8, ServerStep
  <2>2. /\ UNCHANGED <<begun, attempt, pc, result>> /\ open' = open \ {r} /\ Request' = Request
        /\ answer' = IF Awaited(r) THEN a ELSE answer
    BY <2>1 DEF Served, Request
  <2>3. c \notin unclear
    BY <2>1 DEF Executed, Refused
  <2>4. CASE r[1] # c
    <3>0. OfCall(open', c) = OfCall(open, c)
      BY <2>2, <2>4 DEF OfCall
    <3>1. executed'[c] = executed[c]
      BY <1>0, <2>1, <2>4 DEF Executed, Refused
    <3>2. c = begun => answer' = answer
      BY <2>2, <2>4 DEF Awaited, Request
    <3>3. /\ c = begun => Succeeded(answer)' = Succeeded(answer)
          /\ Over(c)' = Over(c) /\ Ahead(c)' = Ahead(c)
      BY <2>2, <3>2 DEF Succeeded
    <3>4. ClearCall(c)
      BY <1>1, <2>3
    <3> QED
      BY <2>2, <3>0, <3>1, <3>2, <3>3, <3>4 DEF ClearCall
  <2>5. CASE r[1] = c
    <3>1. r \in OfCall(open, c)
      BY <2>5 DEF OfCall
    <3>2. c = begun /\ pc = "waiting" /\ answer = NoAnswer /\ r = Request /\ executed[c] = 0
      BY <1>0, <1>1, <2>3, <3>1 DEF ClearCall
    <3>3. OfCall(open', c) = {}
      BY <1>1, <2>2, <2>3, <3>2 DEF ClearCall, OfCall
    <3>4. answer' = a
      BY <2>2, <3>2 DEF Awaited
    <3>5. executed'[c] = IF Succeeded(a) THEN 1 ELSE 0
      <4>1. CASE Executed(r, a)
        <5>1. executed'[c] = 1
          BY <1>0, <2>5, <3>2, <4>1 DEF Executed
        <5>2. Succeeded(a)
          BY <2>5, <4>1 DEF Executed
        <5> QED
          BY <5>1, <5>2
      <4>2. CASE Refused(a)
        BY <3>2, <4>2 DEF Refused
      <4> QED
        BY <2>1, <4>1, <4>2
    <3>6. /\ pc' = "waiting" /\ answer' # NoAnswer /\ ~ Over(c)' /\ ~ Ahead(c)'
          /\ Succeeded(answer)' = Succeeded(a)
      BY <1>0, <2>1, <2>2, <3>2, <3>4 DEF Succeeded
    <3> QED
      BY <3>3, <3>5, <3>6 DEF ClearCall
  <2> QED
    BY <2>4, <2>5
<1>9. CASE UNCHANGED vars
  BY <1>1, <1>9 DEF ClearCall, Request, vars
<1> QED
  BY <1>2, <1>3, <1>4, <1>5, <1>6, <1>7, <1>8, <1>9 DEF Next, Client, Server

LEMMA CallInvNext == CallInv /\ [Next]_vars => CallInv'
BY TypesNext, CountedNext, FreshNext, ResultsNext, AnswerNext, ClearNext DEF CallInv

(* CallInv is an invariant of the client and the Backend. *)
THEOREM CallInvHolds == Spec => []CallInv
BY InitCallInv, CallInvNext, PTL DEF Spec

--------------------------------------------------------------------------------
(* What follows from the invariant. *)

(* The types of TypeOK are kept: no call is executed more often than its   *)
(* attempts allow, and no attempt is made twice.                           *)
THEOREM ClientTypes == Spec => []TypeOK
<1>1. Spec => [](script \in Scripts)
  <2>1. Init => script \in Scripts
    BY DEF Init
  <2>2. script \in Scripts /\ [Next]_vars => (script \in Scripts)'
    <3>1. [Next]_vars => script' = script
      BY DEF Next, Client, Server, Call, Send, Receive, Break, BackOff, Exhausted,
             Execute, Refuse, vars
    <3> QED
      BY <3>1
  <2> QED
    BY <2>1, <2>2, PTL DEF Spec
<1>2. CallInv /\ script \in Scripts => TypeOK
  <2> SUFFICES ASSUME CallInv, script \in Scripts PROVE TypeOK
    OBVIOUS
  <2>1. Types /\ Fresh
    BY DEF CallInv
  <2>2. ASSUME NEW c \in 1..N PROVE executed[c] \in 0..(MaxRetries + 1)
    <3>1. executed[c] + Cardinality(OpenOf(c)) <= Sent(c)
      BY DEF CallInv, Counted
    <3>2. Cardinality(OpenOf(c)) \in Nat
      BY <2>1, ScriptsAssumption, FiniteRequests DEF Types, OpenOf
    <3>3. Sent(c) \in 0..(MaxRetries + 1)
      BY <2>1, LimitsAssumption DEF Types, Sent
    <3>4. executed[c] \in Nat
      BY <2>1 DEF Types
    <3> QED
      BY <3>1, <3>2, <3>3, <3>4, LimitsAssumption
  <2>3. executed \in [1..N -> 0..(MaxRetries + 1)]
    BY <2>1, <2>2 DEF Types
  <2>4. pc = "sending" => Request \notin open
    BY <2>1, LimitsAssumption DEF Types, Fresh, Request
  <2> QED
    BY <2>1, <2>3, <2>4 DEF Types, TypeOK
<1> QED
  BY <1>1, <1>2, CallInvHolds, PTL

(* A call whose requests all had a clear outcome was executed once when it *)
(* returned nil, never when it returned an error, and never will be again. *)
THEOREM ClearCallsAreExact == Spec => []ClearIsExact
<1>1. CallInv => ClearIsExact
  BY DEF CallInv, Results, Clear, ClearCall, ClearIsExact, OpenOf, OfCall
<1> QED
  BY <1>1, CallInvHolds, PTL

(* Reports of one execution overtake each other only by a request of a     *)
(* call whose outcome was unclear.                                         *)
THEOREM UnclearOvertakes == Spec => OnlyUnclearOvertakes
<1> DEFINE A == shown' # shown => \/ shown' = script[begun].value
                                 \/ \E c \in unclear : shown' = script[c].value
<1>1. CallInv /\ [Next]_vars => [A]_vars
  <2> SUFFICES ASSUME CallInv, Next, shown' # shown
               PROVE  \/ shown' = script[begun].value
                      \/ \E c \in unclear : shown' = script[c].value
    OBVIOUS
  <2>1. ~ Client
    BY DEF Client, Call, Send, Receive, Break, BackOff, Exhausted, backend
  <2>2. PICK r \in open : Execute(r) \/ Refuse(r)
    BY <2>1 DEF Next, Server
  <2>3. shown' = script[r[1]].value
    BY <2>2 DEF Execute, Refuse, Effect, backend
  <2>4. r[1] \in 1..N /\ r[1] <= begun /\ begun \in Nat
    BY ScriptsAssumption DEF CallInv, Types
  <2>5. CASE r[1] = begun
    BY <2>3, <2>5
  <2>6. CASE r[1] # begun
    <3>1. Over(r[1]) /\ r \in OpenOf(r[1])
      BY <2>4, <2>6 DEF Over, OpenOf, OfCall
    <3>2. r[1] \in unclear
      BY <2>4, <3>1 DEF CallInv, Clear, ClearCall
    <3> QED
      BY <2>3, <3>2
  <2> QED
    BY <2>5, <2>6
<1> QED
  BY <1>1, CallInvHolds, PTL DEF Spec, OnlyUnclearOvertakes

(* A client error is not retried. *)
THEOREM RefusalsEnd == Spec => RefusalEndsCall
<1>1. CallInv /\ [Next]_vars => [Send => answer.code \notin 400..499]_vars
  BY DEF CallInv, AnswerInv, Send
<1> QED
  BY <1>1, CallInvHolds, PTL DEF Spec, RefusalEndsCall

(* Every step of the client and the Backend is a step of BackendCalls or   *)
(* changes none of its variables.                                          *)
LEMMA CallsInit == Init => Calls!Init
BY DEF Init, Calls!Init

LEMMA CallsReturnStep ==
    ASSUME CallInv, NEW r \in {"ok", "error"}, Returned(r), UNCHANGED executed, pc # "idle",
           r = "ok" => pc = "waiting" /\ Succeeded(answer)
    PROVE  Calls!Return(r)
<1>1. begun > 0 /\ begun \in 1..N
  BY ScriptsAssumption DEF CallInv, Types
<1>2. result[begun] = "none"
  BY <1>1 DEF CallInv, Results, Over
<1>3. r = "ok" => executed[begun] > 0
  BY DEF CallInv, AnswerInv
<1> QED
  BY <1>1, <1>2, <1>3 DEF Returned, Calls!Return

LEMMA CallsExecute ==
    ASSUME CallInv, NEW r \in open, NEW a, Served(r, a), Executed(r, a)
    PROVE  r[1] \in 1..N /\ Calls!Execute(r[1])
<1> DEFINE c == r[1]
<1>1. c \in 1..N /\ c \in 1..begun /\ begun \in Nat /\ executed[c] \in Nat
  BY ScriptsAssumption DEF CallInv, Types
<1>2. IsFiniteSet(OpenOf(c)) /\ Cardinality(OpenOf(c)) \in Nat
  BY <1>1, FiniteRequests DEF CallInv, Types, OpenOf
<1>3. r \in OpenOf(c)
  BY DEF OpenOf, OfCall
<1>4. Cardinality(OpenOf(c)) > 0
  BY <1>2, <1>3, FS_EmptySet
<1>5. executed[c] + Cardinality(OpenOf(c)) <= Sent(c)
  BY <1>1 DEF CallInv, Counted
<1>6. Sent(c) \in 0..(MaxRetries + 1)
  BY LimitsAssumption DEF CallInv, Types, Sent
<1>7. executed[c] < MaxRetries + 1
  BY <1>1, <1>2, <1>4, <1>5, <1>6, LimitsAssumption
<1> QED
  BY <1>1, <1>7 DEF Served, Executed, Calls!Execute

LEMMA CallsNext == CallInv /\ [Next]_vars => [Calls!Next]_<<begun, result, executed>>
<1> SUFFICES ASSUME CallInv, [Next]_vars
             PROVE  Calls!Next \/ UNCHANGED <<begun, result, executed>>
  OBVIOUS
<1> USE DEF client, backend
<1>1. CASE Call
  <2>1. begun > 0 => result[begun] # "none"
    BY <1>1, ScriptsAssumption DEF Call, CallInv, Types, Results, Over
  <2> QED
    BY <1>1, <2>1 DEF Call, Calls!Begin, Calls!Next
<1>2. CASE Receive
  <2>1. UNCHANGED executed /\ pc = "waiting"
    BY <1>2, ReceiveStep
  <2>2. CASE Succeeded(answer) /\ Returned("ok")
    BY <2>1, <2>2, CallsReturnStep DEF Calls!Next
  <2>3. CASE Returned("error")
    BY <2>1, <2>3, CallsReturnStep DEF Calls!Next
  <2> QED
    BY <1>2, <2>1, <2>2, <2>3, ReceiveStep
<1>3. CASE Exhausted
  BY <1>3, CallsReturnStep DEF Exhausted, Return, Returned, Calls!Next
<1>4. CASE Send \/ Break \/ BackOff \/ UNCHANGED vars
  BY <1>4 DEF Send, Break, BackOff, vars
<1>5. ASSUME NEW r \in open, Execute(r) \/ Refuse(r)
      PROVE  Calls!Next \/ UNCHANGED <<begun, result, executed>>
  <2>1. PICK a \in Answers : Served(r, a) /\ (Executed(r, a) \/ Refused(a))
    BY <1>5, ServerStep
  <2>2. CASE Executed(r, a)
    BY <2>1, <2>2, CallsExecute DEF Calls!Next
  <2>3. CASE Refused(a)
    BY <2>1, <2>3 DEF Served, Refused
  <2> QED
    BY <2>1, <2>2, <2>3
<1> QED
  BY <1>1, <1>2, <1>3, <1>4, <1>5 DEF Next, Client, Server

(* The retrying client keeps the promise of BackendCalls: at least one     *)
(* execution of a call that returned nil, at most one per attempt.         *)
THEOREM ImplementsCalls == Spec => AtLeastOnce
BY CallsInit, CallsNext, CallInvHolds, PTL DEF Spec, AtLeastOnce, Calls!Spec

--------------------------------------------------------------------------------
(* The delays. *)

LEMMA PowersAre ==
    /\ Pow2 \in [0..MaxRetries -> Nat]
    /\ Pow2[0] = 1
    /\ \A k \in 1..MaxRetries : Pow2[k] = 2 * Pow2[k - 1]
<1> DEFINE n == MaxRetries
           step == [k \in 1..n |-> [x \in Nat |-> 2 * x]]
           Def(f) == [k \in 0..n |-> IF k = 0 THEN 1 ELSE 2 * f[k - 1]]
           h == CHOOSE f : f = Def(f)
<1>1. n \in Nat
  BY LimitsAssumption
<1> HIDE DEF n
<1>2. step \in [1..n -> [Nat -> Nat]]
  OBVIOUS
<1>3. \A k \in 1..n : \A x \in Nat : step[k][x] = 2 * x
  OBVIOUS
<1> HIDE DEF step
<1>4. PICK g \in [0..n -> Nat] : Recursion(g, n, 1, step)
  BY <1>1, <1>2, RecursionExists
<1>5. g = Def(g)
  <2>1. ASSUME NEW k \in 0..n, k # 0 PROVE step[k][g[k - 1]] = 2 * g[k - 1]
    <3>1. k \in 1..n /\ k - 1 \in 0..n
      BY <1>1, <2>1
    <3> QED
      BY <1>3, <3>1
  <2> QED
    BY <1>4, <2>1 DEF Recursion
<1>6. h = Def(h)
  <2> HIDE DEF Def
  <2> QED
    BY <1>5
<1>7. Pow2 = h
  BY DEF Pow2, n
<1> HIDE DEF h
<1>8. DOMAIN h = 0..n /\ h = [k \in 0..n |-> h[k]]
  BY <1>6
<1>9. h[0] = 1 /\ \A k \in 1..n : h[k] = 2 * h[k - 1]
  <2>1. \A k \in 0..n : h[k] = IF k = 0 THEN 1 ELSE 2 * h[k - 1]
    BY <1>6
  <2> HIDE DEF Def
  <2>2. 0 \in 0..n /\ \A k \in 1..n : k \in 0..n /\ k # 0
    BY <1>1
  <2> QED
    BY <2>1, <2>2
<1>10. \A k \in 0..n : h[k] \in Nat
  <2>1. \A k \in 1..n : h[k - 1] \in Nat => h[k] = step[k][h[k - 1]]
    BY <1>3, <1>9
  <2> DEFINE S == Nat
  <2>2. 1 \in S /\ step \in [1..n -> [S -> S]] /\ \A k \in 1..n : h[k - 1] \in S => h[k] = step[k][h[k - 1]]
    BY <1>2, <2>1
  <2> HIDE DEF Def, S
  <2>3. \A k \in 0..n : h[k] \in S
    BY <1>1, <1>9, <2>2, RecursionStays
  <2> QED
    BY <2>3 DEF S
<1> HIDE DEF Def
<1> QED
  BY <1>7, <1>8, <1>9, <1>10 DEF n

LEMMA DocumentedAre ==
    \A i \in 1..MaxRetries : Documented[i] = IF i = 1 THEN BaseDelay ELSE 2 * Documented[i - 1]
<1> DEFINE n == MaxRetries
           Def(f) == [i \in 1..n |-> IF i = 1 THEN BaseDelay ELSE 2 * f[i - 1]]
           h == CHOOSE f : f = Def(f)
           g == [i \in 1..n |-> BaseDelay * Pow2[i - 1]]
<1>1. n \in Nat /\ BaseDelay \in Nat
  BY LimitsAssumption
<1>2. Pow2[0] = 1 /\ \A k \in 1..n : Pow2[k] = 2 * Pow2[k - 1]
  BY PowersAre
<1>3. \A k \in 0..n : Pow2[k] \in Nat
  BY PowersAre
<1> HIDE DEF n
<1>4. ASSUME NEW i \in 1..n PROVE BaseDelay * Pow2[i - 1] = IF i = 1 THEN BaseDelay ELSE 2 * g[i - 1]
  <2>1. CASE i = 1
    <3>1. i - 1 = 0
      BY <2>1
    <3> QED
      BY <1>1, <1>2, <2>1, <3>1
  <2>2. CASE i # 1
    <3> DEFINE j == i - 1
               x == Pow2[j - 1]
    <3>1. j \in 1..n /\ j - 1 \in 0..n
      BY <1>1, <2>2
    <3>2. Pow2[j] = 2 * x /\ x \in Nat
      BY <1>2, <1>3, <3>1
    <3>3. g[j] = BaseDelay * x
      BY <3>1
    <3> HIDE DEF g, j, x
    <3>4. BaseDelay * (2 * x) = 2 * (BaseDelay * x)
      BY <1>1, <3>2
    <3>5. BaseDelay * Pow2[j] = 2 * g[j]
      BY <3>2, <3>3, <3>4
    <3> QED
      BY <2>2, <3>5 DEF j
  <2> QED
    BY <2>1, <2>2
<1>5. g = Def(g)
  BY <1>4
<1>6. h = Def(h)
  <2> HIDE DEF Def, g
  <2> QED
    BY <1>5
<1>7. Documented = h
  BY DEF Documented, n
<1> HIDE DEF h
<1> QED
  BY <1>6, <1>7 DEF n

(* The i-th delay is the first, doubled i - 1 times. *)
LEMMA DocumentedDoubles ==
    \A i \in 1..MaxRetries : /\ Documented[i] = BaseDelay * Pow2[i - 1]
                             /\ Documented[i] \in Nat /\ Documented[i] > 0 /\ Documented[i] % 5 = 0
                             /\ 6 * Documented[i] <= 5 * MaxDelay
                             /\ i > 1 => Documented[i] = 2 * Documented[i - 1]
<1> DEFINE n == MaxRetries
           A(i) == /\ Documented[i] = BaseDelay * Pow2[i - 1]
                   /\ Documented[i] \in Nat /\ Documented[i] > 0 /\ Documented[i] % 5 = 0
           T == {m \in Nat : m + 1 <= n => A(m + 1)}
<1>1. n \in Nat /\ BaseDelay \in Nat /\ BaseDelay > 0 /\ BaseDelay % 5 = 0 /\ MaxDelay \in Nat
  BY LimitsAssumption, DelaysAssumption
<1>2. Pow2[0] = 1 /\ \A k \in 1..n : Pow2[k] = 2 * Pow2[k - 1]
  BY PowersAre
<1>3. \A k \in 0..n : Pow2[k] \in Nat
  BY PowersAre
<1>4. \A i \in 1..n : Documented[i] = IF i = 1 THEN BaseDelay ELSE 2 * Documented[i - 1]
  BY DocumentedAre
<1>0. n > 0 => 6 * Documented[n] <= 5 * MaxDelay
  BY DelaysAssumption
<1> HIDE DEF n
<1>5. 0 \in T
  <2> SUFFICES ASSUME 0 + 1 <= n PROVE A(0 + 1)
    OBVIOUS
  <2>1. 0 + 1 = 1 /\ 1 - 1 = 0 /\ 1 \in 1..n
    BY <1>1
  <2>2. Documented[1] = BaseDelay
    BY <1>4, <2>1
  <2>3. A(1)
    BY <1>1, <1>2, <2>1, <2>2
  <2> QED
    BY <2>1, <2>3
<1>6. ASSUME NEW m \in T PROVE m + 1 \in T
  <2> SUFFICES ASSUME (m + 1) + 1 <= n PROVE A((m + 1) + 1)
    OBVIOUS
  <2> DEFINE i == (m + 1) + 1
             d == Documented[m + 1]
             x == Pow2[m]
  <2>1. i \in 1..n /\ i # 1 /\ i - 1 = m + 1 /\ m + 1 \in 1..n /\ (m + 1) - 1 = m /\ m \in 0..n
    BY <1>1
  <2>2. A(m + 1)
    BY <1>1
  <2>3. d = BaseDelay * x /\ d \in Nat /\ d > 0 /\ d % 5 = 0 /\ x \in Nat
    BY <1>3, <2>1, <2>2
  <2>4. Documented[i] = 2 * d
    BY <1>4, <2>1
  <2>5. Pow2[i - 1] = 2 * x
    BY <1>2, <2>1
  <2> HIDE DEF d, x, i
  <2>6. BaseDelay * (2 * x) = 2 * (BaseDelay * x)
    BY <1>1, <2>3
  <2>7. 2 * d \in Nat /\ 2 * d > 0 /\ (2 * d) % 5 = 0
    BY <2>3
  <2>8. A(i)
    BY <2>3, <2>4, <2>5, <2>6, <2>7
  <2> QED
    BY <2>8 DEF i
<1>7. T = Nat
  <2> HIDE DEF A
  <2>1. T \in SUBSET Nat
    OBVIOUS
  <2> HIDE DEF T
  <2> QED
    BY <1>5, <1>6, <2>1, InductionOnSet
<1>8. ASSUME NEW i \in 1..n PROVE A(i)
  <2>1. i - 1 \in T /\ (i - 1) + 1 = i /\ i <= n
    <3> HIDE DEF T
    <3> QED
      BY <1>1, <1>7
  <2> HIDE DEF A
  <2> QED
    BY <2>1
(* None is longer than the last. *)
<1> DEFINE U == {m \in Nat : m < n => 6 * Documented[n - m] <= 5 * MaxDelay}
<1> HIDE DEF T
<1>9. U = Nat
  <2>1. 0 \in U
    <3>1. n - 0 = n
      BY <1>1
    <3> QED
      BY <1>0, <1>1, <3>1
  <2>2. ASSUME NEW m \in U PROVE m + 1 \in U
    <3> SUFFICES ASSUME m + 1 < n PROVE 6 * Documented[n - (m + 1)] <= 5 * MaxDelay
      OBVIOUS
    <3> DEFINE i == n - m
               d == Documented[i - 1]
    <3>1. m \in Nat /\ i \in 1..n /\ i # 1 /\ i - 1 \in 1..n /\ i - 1 = n - (m + 1) /\ m < n
      BY <1>1
    <3>2. 6 * Documented[i] <= 5 * MaxDelay
      BY <3>1
    <3>3. Documented[i] = 2 * d
      BY <1>4, <3>1
    <3>4. d \in Nat
      <4> HIDE DEF i
      <4> QED
        BY <1>8, <3>1
    <3> HIDE DEF d
    <3>5. 6 * d <= 5 * MaxDelay
      BY <1>1, <3>2, <3>3, <3>4
    <3> QED
      BY <3>1, <3>5 DEF d
  <2>3. U \in SUBSET Nat
    OBVIOUS
  <2> HIDE DEF U
  <2> QED
    BY <2>1, <2>2, <2>3, InductionOnSet
<1>10. ASSUME NEW i \in 1..n PROVE 6 * Documented[i] <= 5 * MaxDelay
  <2>1. n - i \in U /\ n - (n - i) = i /\ n - i < n
    <3> HIDE DEF U
    <3> QED
      BY <1>1, <1>9
  <2> QED
    BY <2>1
<1> QED
  BY <1>4, <1>8, <1>10 DEF n

(* The delay after attempt k, for every jitter: less than the maximum, and *)
(* within a fifth of the documented one. *)
LEMMA BackoffProperties ==
    ASSUME NEW k \in 0..(MaxRetries - 1), NEW j \in Jitters
    PROVE  LET d == Documented[k + 1]
               w == calculateBackoff(k, j)
           IN  w \in Int /\ 4 * d <= 5 * w /\ 5 * w < 6 * d /\ w <= MaxDelay
<1> DEFINE d == Documented[k + 1]
<1>1. /\ MaxRetries \in Nat /\ MaxDelay \in Nat /\ j \in 0..99 /\ k + 1 \in 1..MaxRetries
      /\ (k + 1) - 1 = k
  BY LimitsAssumption
<1>2. d = BaseDelay * Pow2[k] /\ d \in Nat /\ d > 0 /\ d % 5 = 0 /\ 6 * d <= 5 * MaxDelay
  BY <1>1, DocumentedDoubles
<1> HIDE DEF d
<1>3. d <= MaxDelay
  BY <1>1, <1>2
<1> DEFINE m == 2 * j - 100
<1>4. calculateBackoff(k, j) = d + (d * m) \div 500
  BY <1>1, <1>2, <1>3 DEF calculateBackoff
<1>5. m \in Int /\ m >= -100 /\ m <= 98
  BY <1>1
<1> HIDE DEF m
<1>6. PICK e \in Nat : d = 5 * e /\ e > 0
  <2>1. d = 5 * (d \div 5) /\ d \div 5 \in Nat /\ d \div 5 > 0
    BY <1>2
  <2> QED
    BY <2>1
<1> DEFINE x == d * m
<1>7. x \in Int /\ -500 * e <= x /\ x <= 490 * e
  <2>1. x = 5 * (e * m)
    BY <1>5, <1>6
  <2>2. e * m \in Int /\ e * m >= -100 * e /\ e * m <= 98 * e
    BY <1>5, <1>6
  <2> DEFINE y == e * m
  <2> HIDE DEF x, y
  <2>3. x = 5 * y /\ y \in Int /\ y >= -100 * e /\ y <= 98 * e
    BY <2>1, <2>2 DEF y
  <2> QED
    BY <1>6, <2>3
<1> HIDE DEF x
<1>8. x \div 500 \in Int /\ -e <= x \div 500 /\ x \div 500 < e
  BY <1>6, <1>7
<1>9. calculateBackoff(k, j) = d + x \div 500
  BY <1>4 DEF x
<1> DEFINE q == x \div 500
<1> HIDE DEF q
<1>10. q \in Int /\ -e <= q /\ q < e /\ calculateBackoff(k, j) = d + q
  BY <1>8, <1>9 DEF q
<1>11. d + q \in Int /\ 4 * d <= 5 * (d + q) /\ 5 * (d + q) < 6 * d /\ d + q <= MaxDelay
  BY <1>1, <1>2, <1>6, <1>10
<1> QED
  BY <1>10, <1>11 DEF d

(* The delays of the running call are those after its attempts so far. *)
WaitsInv ==
    /\ pc \in {"idle", "sending", "waiting", "failed"}
    /\ attempt \in 0..MaxRetries
    /\ DOMAIN waits = 1..attempt
    /\ waits \in Seq(Int)
    /\ \A i \in 1..attempt : \E j \in Jitters : waits[i] = calculateBackoff(i - 1, j)

LEMMA InitWaits == Init => WaitsInv
BY LimitsAssumption DEF Init, WaitsInv

LEMMA WaitsNext == WaitsInv /\ [Next]_vars => WaitsInv'
<1> SUFFICES ASSUME WaitsInv, [Next]_vars PROVE WaitsInv'
  OBVIOUS
<1>1. MaxRetries \in Nat
  BY LimitsAssumption
<1>2. ASSUME NEW r, Return(r) PROVE attempt' = 0 /\ waits' = <<>> /\ pc' = "idle"
  BY <1>2 DEF Return
<1>3. ASSUME attempt' = 0, waits' = <<>>, pc' = "idle" PROVE WaitsInv'
  BY <1>1, <1>3 DEF WaitsInv
<1>4. ASSUME UNCHANGED <<attempt, waits>>, pc' \in {"idle", "sending", "waiting", "failed"} PROVE WaitsInv'
  BY <1>4 DEF WaitsInv
<1>5. CASE BackOff
  <2>1. PICK j \in Jitters : waits' = Append(waits, calculateBackoff(attempt, j))
    BY <1>5 DEF BackOff
  <2>2. attempt < MaxRetries /\ attempt' = attempt + 1 /\ pc' = "sending"
    BY <1>5 DEF BackOff
  <2> DEFINE w == calculateBackoff(attempt, j)
  <2>3. attempt \in 0..MaxRetries /\ attempt \in 0..(MaxRetries - 1)
    BY <1>1, <2>2 DEF WaitsInv
  <2>4. w \in Int
    BY <2>3, BackoffProperties
  <2> HIDE DEF w
  <2>5. /\ waits \in Seq(Int) /\ Len(waits) = attempt
    BY <2>3 DEF WaitsInv
  <2>6. /\ waits' \in Seq(Int) /\ DOMAIN waits' = 1..(attempt + 1)
        /\ waits'[attempt + 1] = w
        /\ \A i \in 1..attempt : waits'[i] = waits[i]
    BY <2>1, <2>3, <2>4, <2>5, AppendProperties DEF w
  <2>7. ASSUME NEW i \in 1..(attempt + 1) PROVE \E l \in Jitters : waits'[i] = calculateBackoff(i - 1, l)
    <3>1. CASE i = attempt + 1
      <4>1. i - 1 = attempt
        BY <2>3, <3>1
      <4> QED
        BY <2>6, <3>1, <4>1 DEF w
    <3>2. CASE i # attempt + 1
      <4>1. i \in 1..attempt
        BY <2>3, <3>2
      <4> QED
        BY <2>6, <4>1 DEF WaitsInv
    <3> QED
      BY <3>1, <3>2
  <2>8. attempt + 1 \in 0..MaxRetries
    BY <1>1, <2>3
  <2>9. \A i \in 1..attempt' : \E l \in Jitters : waits'[i] = calculateBackoff(i - 1, l)
    BY <2>2, <2>7
  <2> QED
    BY <2>2, <2>6, <2>8, <2>9 DEF WaitsInv
<1>6. CASE Call \/ Send \/ Break
  BY <1>4, <1>6 DEF Call, Send, Break
<1>7. CASE Receive
  <2>1. CASE Succeeded(answer)
    BY <1>2, <1>3, <1>7, <2>1 DEF Receive
  <2>2. CASE ~ Succeeded(answer) /\ isClientError(answer)
    BY <1>2, <1>3, <1>7, <2>2 DEF Receive
  <2>3. CASE ~ Succeeded(answer) /\ ~ isClientError(answer)
    BY <1>4, <1>7, <2>3 DEF Receive
  <2> QED
    BY <2>1, <2>2, <2>3
<1>8. CASE Exhausted
  BY <1>2, <1>3, <1>8 DEF Exhausted
<1>9. CASE Server
  <2>1. UNCHANGED <<attempt, waits, pc>>
    BY <1>9 DEF Server, Execute, Refuse, client
  <2> QED
    BY <1>4, <2>1 DEF WaitsInv
<1>10. CASE UNCHANGED vars
  BY <1>4, <1>10 DEF vars, client, WaitsInv
<1> QED
  BY <1>5, <1>6, <1>7, <1>8, <1>9, <1>10 DEF Next, Client

(* Whatever the first delay and the jitters, as long as the documented     *)
(* delays with their jitter stay below the maximum: a delay is within a    *)
(* fifth of the documented one and the maximum, and longer than the one    *)
(* before it. *)
THEOREM WaitsAreDocumented == Spec => []WaitsAsDocumented
<1>1. WaitsInv => WaitsAsDocumented
  <2> SUFFICES ASSUME WaitsInv, NEW i \in 1..Len(waits)
               PROVE  /\ 5 * waits[i] \in (4 * Documented[i])..(6 * Documented[i])
                      /\ waits[i] <= MaxDelay
                      /\ i > 1 => waits[i] > waits[i - 1]
    BY DEF WaitsAsDocumented
  <2>1. /\ MaxRetries \in Nat /\ attempt \in 0..MaxRetries /\ Len(waits) = attempt
    BY LimitsAssumption DEF WaitsInv
  <2>2. ASSUME NEW l \in 1..attempt
        PROVE  /\ waits[l] \in Int /\ 4 * Documented[l] <= 5 * waits[l] /\ 5 * waits[l] < 6 * Documented[l]
               /\ waits[l] <= MaxDelay
    <3>1. PICK j \in Jitters : waits[l] = calculateBackoff(l - 1, j)
      BY DEF WaitsInv
    <3>2. l - 1 \in 0..(MaxRetries - 1) /\ (l - 1) + 1 = l
      BY <2>1
    <3> QED
      BY <3>1, <3>2, BackoffProperties
  <2>3. \A l \in 1..attempt : /\ Documented[l] \in Nat
                              /\ l > 1 => Documented[l] = 2 * Documented[l - 1]
    BY <2>1, DocumentedDoubles
  <2>4. i \in 1..attempt /\ (i > 1 => i - 1 \in 1..attempt)
    BY <2>1
  <2>5. 5 * waits[i] \in (4 * Documented[i])..(6 * Documented[i])
    BY <2>2, <2>3, <2>4
  <2>6. ASSUME i > 1 PROVE waits[i] > waits[i - 1]
    <3> DEFINE d == Documented[i - 1]
               v == waits[i - 1]
               w == waits[i]
    <3>1. d \in Nat /\ v \in Int /\ w \in Int /\ 4 * (2 * d) <= 5 * w /\ 5 * v < 6 * d
      BY <2>2, <2>3, <2>4, <2>6
    <3> HIDE DEF d, v, w
    <3>2. w > v
      BY <3>1
    <3> QED
      BY <3>2 DEF v, w
  <2> QED
    BY <2>2, <2>4, <2>5, <2>6
<1> QED
  BY <1>1, InitWaits, WaitsNext, PTL DEF Spec
================================================================================
