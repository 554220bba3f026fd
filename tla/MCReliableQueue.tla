----------------------------- MODULE MCReliableQueue -----------------------------
(* Instances of ReliableQueue for TLC: one worker process, or two. *)
EXTENDS ReliableQueueInv

CONSTANTS p1, p2, w1, w2, j1, j2

OneProcess  == [a \in Agents |-> p1]
TwoProcess == [a \in Agents |-> IF a \in {p1, w1} THEN p1 ELSE p2]

NoJunk   == {<<>>}
WithJunk == {<<>>, <<Junk>>}

(* Two recoveries may multiply the entries of a job without bound. *)
FewEntries == Len(jobQueue) + Len(processing) <= 2
================================================================================
