---------------------------- MODULE MCMdOutbox ----------------------------
(* Small instances of MdOutbox for TLC.                                   *)
EXTENDS MdOutbox

CONSTANTS t1, r1, w1, w2, k1

(* One live trade that also qualifies for the hot path, one replay row.   *)
MCMessages == {t1, r1}
MCTier == [m \in MCMessages |-> IF m = t1 THEN 1 ELSE 3]
MCShard == [m \in MCMessages |-> k1]
===========================================================================
