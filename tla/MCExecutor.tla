------------------------------- MODULE MCExecutor -------------------------------
(* Instances of Executor for TLC: two executions of a project, or one apply. *)
EXTENDS Executor, TLC

CONSTANTS a, d, v1, v2

(* An apply beside a destroy or another apply, and a plan beside a job of  *)
(* a type the worker does not know.                                        *)
Pairs    == {a :> "APPLY" @@ d :> "DESTROY", a :> "APPLY" @@ d :> "APPLY",
             a :> "PLAN" @@ d :> "OTHER"}
OneApply == {a :> "APPLY"}
================================================================================
