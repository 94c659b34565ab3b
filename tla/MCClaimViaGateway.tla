------------------------- MODULE MCClaimViaGateway -------------------------
(***************************************************************************)
(* ClaimViaGateway on a small instance: three claims of e1, which pays for *)
(* one login, of one user or of two.  Users and requests are alike, so     *)
(* every other assignment is one of MCClaimUsers with its values renamed.  *)
(***************************************************************************)
EXTENDS ClaimViaGateway, TLC

CONSTANTS u1, u2, e1, c1, c2, c3

Login == [type |-> "LOGIN", targetValue |-> 1, rewardPoint |-> 3]
MCSeed == e1 :> [status |-> "DRAFT", start |-> 1, end |-> 1, rewards |-> <<Login>>]
MCRewards == {Login}
MCInitialLists == {<<>>}
MCDates == {1}

MCClaimUsers == {c1 :> u1 @@ c2 :> u1 @@ c3 :> u : u \in Users}
MCInit == GatewayInit /\ claimUser \in MCClaimUsers
MCGatewaySpec == MCInit /\ [][GatewayNext]_gatewayVars /\ TimersGoOff
=============================================================================
