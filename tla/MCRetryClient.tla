------------------------------ MODULE MCRetryClient ------------------------------
(* Two calls of an execution that follow each other (a read between them   *)
(* left out in the first pair).                                            *)
EXTENDS RetryClient

Update(s) == [method |-> "UpdateExecutionStatus", value |-> s]
Detail    == [method |-> "GetProjectDetail", value |-> "none"]
Register  == [method |-> "AddInstanceVm", value |-> "none"]

ExecutionCalls == {<<Update("RUNNING"), Update("SUCCESS")>>, <<Detail, Update("FAILED")>>,
                   <<Update("SUCCESS"), Register>>, <<Register, Update("FAILED")>>}
================================================================================
