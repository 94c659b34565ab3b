------------------------- MODULE UndisturbedClaims -------------------------
(***************************************************************************)
(* What createRequest keeps to a user and what it takes to lose it.  The   *)
(* claims run, overlap, fail and crash as in RewardClaim; two history      *)
(* variables record to whom what happened.  A user is undisturbed as long  *)
(* as no two of the user's own claims were past the look-up at once and    *)
(* none broke off at one of its writes; whatever other users' claims,      *)
(* logins, play time and operators do does not disturb.                    *)
(***************************************************************************)
EXTENDS RewardClaim

VARIABLES
  crossed,   \* users two of whose claims were past the look-up at once
  cut        \* users one of whose claims broke off at one of its writes

historyVars == <<crossed, cut>>

PastLookup == {"validate"} \cup Paying
Writes == {"updateBalance", "createTransaction", "createRequest"}

Crosses(u) ==
  \E c, d \in Claims :
    /\ c # d /\ claimUser[c] = u /\ claimUser[d] = u
    /\ pc[c] \in PastLookup /\ pc[d] \in PastLookup

BreaksOff(c) == pc[c] \in Writes /\ pc'[c] \in {"payFailed", "failed", "lost"}

Remember ==
  /\ crossed' = crossed \cup {u \in Users : Crosses(u)'}
  /\ cut' = cut \cup {claimUser[c] : c \in {d \in Claims : BreaksOff(d)}}

RememberedInit == Init /\ crossed = {} /\ cut = {}

RememberedNext == Next /\ Remember

RememberedSpec == RememberedInit /\ [][RememberedNext]_<<vars, historyVars>>

disturbed == crossed \cup cut

-----------------------------------------------------------------------------
(* What overlaps can cost *)

(***************************************************************************)
(* Nobody is approved twice for an event unless two of the user's claims   *)
(* overlapped: failures, crashes and retries alone never do it             *)
(* (request.service.ts:43-53, 90-95).                                      *)
(***************************************************************************)
TwiceOnlyByOverlap ==
  \A u \in Users \ crossed, e \in Events : requests[<<u, e>>] <= 1

(***************************************************************************)
(* Nor does anybody lose points otherwise: the balance is the sum of what  *)
(* was paid, although claims break off between their writes and although   *)
(* it is written from an earlier read (request.service.ts:69-75).          *)
(***************************************************************************)
PointsLostOnlyByOverlap == \A u \in Users \ crossed : balance[u] = paid[u]

-----------------------------------------------------------------------------
(* createRequest as an implementation of ClaimOnce *)

\* The abstract grant happens at the balance write: from then on the ledger
\* entry, written next, is accounted for.
Unrecorded == {c \in Claims : pc[c] = "createTransaction"}

GrantOf(c) == [user |-> claimUser[c], event |-> claimEvent[c], amount |-> total[c]]

GrantOfEntry(i) ==
  [user |-> ledger[i].user, event |-> ledger[i].event, amount |-> ledger[i].amount]

AllGrants ==
  {GrantOfEntry(i) : i \in DOMAIN ledger} \cup {GrantOf(c) : c \in Unrecorded}

points == [u \in Users |-> IF u \in disturbed THEN 0 ELSE balance[u]]
grants == {g \in AllGrants : g.user \notin disturbed}
approved == {k \in Users \X Events : k[1] \notin disturbed /\ requests[k] > 0}

Once == INSTANCE ClaimOnce WITH voided <- disturbed

(***************************************************************************)
(* An undisturbed user is granted each event once, the balance changes by  *)
(* exactly the amount the ledger records, and the approval follows the     *)
(* grant (request.service.ts:43-95).                                       *)
(***************************************************************************)
GrantsOnce == Once!Spec

(***************************************************************************)
(* And, the event loop running, no grant stays without its request unless  *)
(* its user is disturbed.                                                  *)
(***************************************************************************)
GrantsAreApproved == Once!FairSpec

(***************************************************************************)
(* The ledger of an undisturbed user is a running account: an entry's      *)
(* balanceAfter is the sum of the user's amounts up to and including it    *)
(* (schema "balance after this transaction",                               *)
(* point-transaction.schema.ts:37).                                        *)
(***************************************************************************)
EntriesOf(u) == {i \in DOMAIN ledger : ledger[i].user = u}
Before(i) == {j \in EntriesOf(ledger[i].user) : j < i}

LedgerIsRunningAccount ==
  \A i \in DOMAIN ledger : ledger[i].user \notin disturbed =>
    \/ Before(i) = {} /\ ledger[i].balanceAfter = ledger[i].amount
    \/ \E j \in Before(i) :
         /\ \A k \in Before(i) : k <= j
         /\ ledger[i].balanceAfter = ledger[j].balanceAfter + ledger[i].amount
=============================================================================
