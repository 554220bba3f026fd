----------------------------- MODULE MCCommandOutput -----------------------------
(* Instances of CommandOutput for TLC: the output of commands, as scripts. *)
EXTENDS CommandOutput

Out(k) == [kind |-> k, stream |-> "stdout", size |-> 1]
Err(k) == [kind |-> k, stream |-> "stderr", size |-> 1]
Sized(l, n) == [l EXCEPT !.size = n]

(* Of the lines of stderr, those that extractTerraformError tells apart.   *)
ShortLines == {Out(k) : k \in Kinds} \cup {Err(k) : k \in {"error", "resource", "planStart", "text"}}

(* Every output of up to two lines; errors with more details than fit, in  *)
(* one stream and in both; lines that are too long, alone and beside       *)
(* another stream; lines of two pieces; a plan that is followed by an      *)
(* error, and one that is cut short. *)
Outputs ==
    {<<>>} \cup {<<l>> : l \in ShortLines} \cup {<<l, m>> : l, m \in ShortLines}
    \cup
    {<<Out("error"), Out("resource"), Out("location"), Out("resource"), Out("detail"), Out("detail")>>,
     <<Out("error"), Out("detail"), Out("detail"), Out("detail"), Out("text"), Out("detail"), Out("detail"), Out("detail")>>,
     <<Out("error"), Out("location"), Out("location"), Out("error"), Out("location"), Out("detail"), Out("blank"), Out("detail")>>,
     <<Err("error"), Out("resource"), Err("resource"), Out("detail"), Err("text")>>,
     <<Out("planStart"), Out("resource"), Out("planEnd"), Err("error"), Err("text")>>,
     <<Out("text"), Out("planStart"), Err("text"), Err("blank"), Out("planEnd")>>,
     <<Err("text"), Err("text"), Err("error"), Out("text")>>,
     <<Sized(Out("text"), 5), Err("error"), Out("text")>>,
     <<Sized(Out("text"), 3), Err("text")>>,
     <<Sized(Err("error"), 2), Sized(Out("resource"), 2), Sized(Err("text"), 4), Out("text")>>}
================================================================================
