----------------------------- MODULE MCListings -----------------------------
(***************************************************************************)
(* A user with two claims, of one event or of two, another user with one,  *)
(* and a reader of what the first user has.                                *)
(***************************************************************************)
EXTENDS MCRewardClaim, Listings

MCInit ==
  /\ ListingInit
  /\ claimUser = (c1 :> u1 @@ c2 :> u1 @@ c3 :> u2)
  /\ claimEvent[c1] = e1 /\ claimEvent[c3] = e1
  /\ visit.user = u1
MCListingSpec == MCInit /\ [][ListingNext]_listingVars /\ ClaimsGoOn

\* Bound: these two claims are made after the login they are paid for, and only
\* the other one may come too early.
LoginsFirst == \A c \in {c2, c3} : pc[c] # "idle" => loginCount[claimUser[c]] > 0
=============================================================================
