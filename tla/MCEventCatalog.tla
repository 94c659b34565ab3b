--------------------------- MODULE MCEventCatalog ---------------------------
(***************************************************************************)
(* EventCatalog on a small instance: one event that exists, one that       *)
(* operators may create or that has been cancelled, and three concurrent   *)
(* addEventReward calls.                                                   *)
(***************************************************************************)
EXTENDS EventCatalog, TLC

CONSTANTS e1, e2, e3, a1, a2, a3, r1, r2, Horizon

MCEvents == {e1, e2, e3}
MCEdits == {a1, a2, a3}
MCRewards == {r1, r2}
MCInitialLists == {<<>>, <<r1>>}
MCDates == 1..Horizon

Doc(s, list) == [status |-> s, start |-> 1, end |-> Horizon, rewards |-> list]

\* e1 is open, e2 does not exist yet, e3 was cancelled by hand in the database
\* (no code path leaves DRAFT).
MCSeed == (e1 :> Doc("DRAFT", <<r1>>)) @@ (e2 :> Absent)
             @@ (e3 :> Doc("CANCELLED", <<>>))
=============================================================================
