----------------------------- MODULE ClaimOnce -----------------------------
(***************************************************************************)
(* What claiming a reward promises: a user is granted the points of an     *)
(* event at most once, the grant and the new balance are one step, and     *)
(* the request is approved only after its grant.                           *)
(*                                                                         *)
(* The promise to a user can become void.  Nothing is said of that user's  *)
(* points, grants and requests from then on; it stands for all others.     *)
(***************************************************************************)
EXTENDS Integers

CONSTANTS Users, Events

VARIABLES
  points,      \* each user's balance
  grants,      \* what was granted, to whom, for which event
  approved,    \* the <<user, event>> pairs with an approved request
  voided       \* the users to whom the promise is void

vars == <<points, grants, approved, voided>>

Init ==
  /\ points = [u \in Users |-> 0]
  /\ grants = {}
  /\ approved = {}
  /\ voided = {}

Granted(u, e) == \E g \in grants : g.user = u /\ g.event = e

Grant(u, e) ==
  LET n == points'[u] - points[u]
  IN  /\ u \notin voided
      /\ ~Granted(u, e)
      /\ n \in Nat
      /\ points' = [points EXCEPT ![u] = @ + n]
      /\ grants' = grants \cup {[user |-> u, event |-> e, amount |-> n]}
      /\ UNCHANGED <<approved, voided>>

Approve(u, e) ==
  /\ Granted(u, e)
  /\ <<u, e>> \notin approved
  /\ approved' = approved \cup {<<u, e>>}
  /\ UNCHANGED <<points, grants, voided>>

Void(U) ==
  /\ voided' = voided \cup U
  /\ points' = [u \in Users |-> IF u \in voided' THEN 0 ELSE points[u]]
  /\ grants' = {g \in grants : g.user \notin voided'}
  /\ approved' = {k \in approved : k[1] \notin voided'}

Next ==
  \/ \E u \in Users, e \in Events : Grant(u, e) \/ Approve(u, e)
  \/ \E U \in SUBSET Users : Void(U)

Spec == Init /\ [][Next]_vars

\* A grant does not stay without its approved request.
FairSpec == Spec /\ \A u \in Users, e \in Events : WF_vars(Approve(u, e))
=============================================================================
