----------------------------- MODULE MCPlayTime -----------------------------
(***************************************************************************)
(* PlayTime on small instances: in units of 20 s for the overlap with      *)
(* endSession (timer period 3 units, TTL of the lock 4), in coarser ones   *)
(* for the lock (1 and 2).  The TTL of a day is scaled down to a few       *)
(* units.                                                                  *)
(***************************************************************************)
EXTENDS PlayTime

CONSTANTS u1, gateway, auth, k1, k2, l1, l2
=============================================================================
