------------------------------ MODULE BackendCalls ------------------------------
(***************************************************************************)
(* What the caller of the retrying client may rely on: its calls are made  *)
(* one after the other; a call that returns without an error was executed; *)
(* a call that returns an error may have been executed or not; and in      *)
(* either case it may still be executed, again, after it has returned, but *)
(* never more often than it was attempted.                                 *)
(***************************************************************************)
EXTENDS Naturals

CONSTANTS N, Attempts

VARIABLES
    begun,      \* the number of calls made so far
    result,     \* what a call returned
    executed    \* how often the Backend executed a call

Init ==
    /\ begun = 0
    /\ result = [c \in 1..N |-> "none"]
    /\ executed = [c \in 1..N |-> 0]

Begin ==
    /\ begun < N
    /\ begun > 0 => result[begun] # "none"
    /\ begun' = begun + 1
    /\ UNCHANGED <<result, executed>>

Execute(c) ==
    /\ c <= begun
    /\ executed[c] < Attempts
    /\ executed' = [executed EXCEPT ![c] = @ + 1]
    /\ UNCHANGED <<begun, result>>

Return(r) ==
    /\ begun > 0
    /\ result[begun] = "none"
    /\ r = "ok" => executed[begun] > 0
    /\ result' = [result EXCEPT ![begun] = r]
    /\ UNCHANGED <<begun, executed>>

Next == Begin \/ (\E c \in 1..N : Execute(c)) \/ (\E r \in {"ok", "error"} : Return(r))

Spec == Init /\ [][Next]_<<begun, result, executed>>
================================================================================
