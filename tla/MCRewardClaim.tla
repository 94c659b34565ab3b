---------------------------- MODULE MCRewardClaim ----------------------------
(***************************************************************************)
(* RewardClaim on small instances.  The collection starts with an event    *)
(* that has no rewards yet, with two that pay for a login, or with one     *)
(* that does and one that pays for a minute of play as well.               *)
(***************************************************************************)
EXTENDS RewardClaim, TLC

CONSTANTS u1, u2, e1, e2, c1, c2, c3, a1, a2

Login == [type |-> "LOGIN", targetValue |-> 1, rewardPoint |-> 3]
Play == [type |-> "PLAY_TIME", targetValue |-> 1, rewardPoint |-> 2]

MCRewards == {Login, Play}
MCInitialLists == {<<>>}
MCDates == {1}

Draft(list) == [status |-> "DRAFT", start |-> 1, end |-> 1, rewards |-> list]
SeedBare == (e1 :> Draft(<<>>))
SeedTwo == (e1 :> Draft(<<Login>>)) @@ (e2 :> Draft(<<Login, Play>>))
SeedLogins == (e1 :> Draft(<<Login>>)) @@ (e2 :> Draft(<<Login>>))
=============================================================================
