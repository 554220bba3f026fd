------------------------------- MODULE JobDelivery -------------------------------
(***************************************************************************)
(* What the reliable queue promises for each job: after it was submitted   *)
(* there is exactly one place it can be found at, it leaves Redis for good *)
(* only once it is settled, and it is lost only by a requeueing that is    *)
(* cut short, which "dropped" records.  A job that one requeueing pushes   *)
(* more than once has several entries, of which nothing more is promised.  *)
(***************************************************************************)
CONSTANT Jobs

VARIABLES place, settled, dropped

Places == {"unborn", "waiting", "processing", "requeueing", "gone", "several"}

Init ==
    /\ place = [j \in Jobs |-> "unborn"]
    /\ settled = {}
    /\ dropped = {}

Move(j, from, to) ==
    /\ place[j] \in from
    /\ place' = [place EXCEPT ![j] = to]

Submit(j) == Move(j, {"unborn"}, "waiting") /\ UNCHANGED <<settled, dropped>>

Fetch(j) == Move(j, {"waiting"}, "processing") /\ UNCHANGED <<settled, dropped>>

Settle(j) ==
    /\ place[j] # "unborn"
    /\ settled' = settled \cup {j}
    /\ UNCHANGED <<place, dropped>>

Remove(j) ==
    /\ j \in settled
    /\ Move(j, {"processing"}, "gone")
    /\ UNCHANGED <<settled, dropped>>

(* A settled job may come back: recovery decided before it was removed. *)
Withdraw(j) ==
    /\ Move(j, {"processing"} \cup (IF j \in settled THEN {"gone"} ELSE {}), "requeueing")
    /\ UNCHANGED <<settled, dropped>>

Requeue(j) == Move(j, {"requeueing"}, "waiting") /\ UNCHANGED <<settled, dropped>>

Drop(j) ==
    /\ Move(j, {"processing", "requeueing"}, "gone") \/ (place[j] = "several" /\ UNCHANGED place)
    /\ dropped' = dropped \cup {j}
    /\ UNCHANGED settled

(* The entry it was requeued with is where it is, or was taken and settled.*)
Repeat(j) ==
    /\ Move(j, {"waiting", "processing"} \cup (IF j \in settled THEN {"gone"} ELSE {}), "several")
    /\ UNCHANGED <<settled, dropped>>

Next ==
    \E j \in Jobs :
        \/ Submit(j) \/ Fetch(j) \/ Settle(j) \/ Remove(j)
        \/ Withdraw(j) \/ Requeue(j) \/ Repeat(j) \/ Drop(j)

Spec == Init /\ [][Next]_<<place, settled, dropped>>
================================================================================
