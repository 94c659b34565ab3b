--------------------------- MODULE MCAuthSessions ---------------------------
(***************************************************************************)
(* AuthSessions on a small instance: one player with two logins and two    *)
(* logouts in progress.  Two units of time are a period of the timer; the  *)
(* day after which keys expire is scaled down to as much.                  *)
(***************************************************************************)
EXTENDS AuthSessions, TLC

CONSTANTS u1, auth, k1, l1, l2, s1, s2

\* The slots of logouts, and those of logins, are interchangeable.
Slots == Permutations(Ends) \cup Permutations(Logins)

\* Bound on what fails together: a crash and the calls it takes with it, or
\* two failures of another kind.
CONSTANT MaxFaults
FewFaults == \A u \in Players : crashes + cutAuth[u] <= MaxFaults

\* Of a user who is in mixed and whose login or logout was cut off no property
\* says anything but the type, now or later.
StillClaimed == \A u \in mixed : cutAuth[u] = 0
=============================================================================
