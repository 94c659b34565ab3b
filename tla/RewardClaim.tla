----------------------------- MODULE RewardClaim -----------------------------
(***************************************************************************)
(* RequestService.createRequest, the claim of an event's rewards.  The     *)
(* handler awaits a database or Redis call at every step and holds no      *)
(* lock or transaction across them, so each await is an action of its own  *)
(* and claims interleave freely with each other, with addEventReward       *)
(* (module EventCatalog) and with the counters that logins and play time   *)
(* write to Redis.                                                         *)
(*                                                                         *)
(* Every createRequest call of a behaviour is an element of Claims; its    *)
(* user and event are fixed in the initial state.                          *)
(***************************************************************************)
EXTENDS EventCatalog

CONSTANTS
  Users,
  Claims,        \* calls of createRequest
  PlayTimes,     \* the totals, in milliseconds, that play time updates write
  MaxInFlight,   \* environment bound: claims in flight at once
  MaxFailures,   \* environment bound: failed calls and crashes
  MaxLogins      \* bound: logins per user

RewardConditionType == {"LOGIN", "PLAY_TIME"}

ASSUME ClaimAssumption ==
  /\ Rewards \subseteq [type : RewardConditionType,
                        targetValue : Nat, rewardPoint : Nat]
  /\ IsFiniteSet(Claims)
  /\ PlayTimes \subseteq Nat
  /\ MaxInFlight \in Nat \ {0}
  /\ MaxFailures \in Nat

VARIABLES
  loginCount,    \* Redis condition:continuous_login:count, per user
  playMs,        \* Redis condition:play_time, per user
  balance,       \* users.balance
  ledger,        \* pointtransactions, in insertion order
  requests,      \* number of APPROVED documents in requests, per user and event
  claimUser, claimEvent,    \* the arguments of each createRequest call
  pc,            \* where each call is, or how it ended
  rewards,       \* its event.rewards
  checked,       \* how many of them its loop has validated
  total,         \* its totalRewardPoints
  newBalance,    \* its newBalance
  failures,      \* failed calls and crashes so far
  paid           \* history: points of all balance writes, per user

progressVars == <<loginCount, playMs>>
argVars == <<claimUser, claimEvent>>
localVars == <<rewards, checked, total, newBalance>>
storeVars == <<balance, ledger, requests>>
vars == <<catalogVars, progressVars, storeVars, argVars, pc, localVars,
          failures, paid>>

\* The awaits of createRequest, in order.
Checking == {"findEventById", "findExisting", "validate"}
Granting == {"findUser", "updateBalance", "createTransaction"}
Running == Checking \cup Granting \cup {"createRequest"}
Paying == Granting \cup {"createRequest"}
Ended == {"badRequest", "alreadyRequested", "conditionNotMet", "payFailed",
          "failed", "lost", "approved"}
ClaimPcs == {"idle"} \cup Running \cup Ended

Entries == [user : Users, event : Events, amount : Nat, balanceAfter : Nat]

TypeOK ==
  /\ CatalogTypeOK
  /\ loginCount \in [Users -> Nat]
  /\ playMs \in [Users -> Nat]
  /\ balance \in [Users -> Nat]
  /\ ledger \in Seq(Entries)
  /\ requests \in [Users \X Events -> Nat]
  /\ claimUser \in [Claims -> Users]
  /\ claimEvent \in [Claims -> Events]
  /\ pc \in [Claims -> ClaimPcs]
  /\ rewards \in [Claims -> Seq(Rewards)]
  /\ checked \in [Claims -> Nat]
  /\ total \in [Claims -> Nat]
  /\ newBalance \in [Claims -> Nat]
  /\ failures \in Nat
  /\ paid \in [Users -> Nat]

Init ==
  /\ CatalogInit
  /\ loginCount = [u \in Users |-> 0]
  /\ playMs = [u \in Users |-> 0]
  /\ balance = [u \in Users |-> 0]
  /\ ledger = <<>>
  /\ requests = [k \in Users \X Events |-> 0]
  /\ claimUser \in [Claims -> Users]
  /\ claimEvent \in [Claims -> Events]
  /\ pc = [c \in Claims |-> "idle"]
  /\ rewards = [c \in Claims |-> <<>>]
  /\ checked = [c \in Claims |-> 0]
  /\ total = [c \in Claims |-> 0]
  /\ newBalance = [c \in Claims |-> 0]
  /\ failures = 0
  /\ paid = [u \in Users |-> 0]

-----------------------------------------------------------------------------
(* createRequest *)

InFlight == {c \in Claims : pc[c] \in Running}
Key(c) == <<claimUser[c], claimEvent[c]>>

Goto(c, from, to) == pc[c] = from /\ pc' = [pc EXCEPT ![c] = to]

\* The call returns or throws: its local variables are gone.
End(c, from, outcome) ==
  /\ Goto(c, from, outcome)
  /\ rewards' = [rewards EXCEPT ![c] = <<>>]
  /\ checked' = [checked EXCEPT ![c] = 0]
  /\ total' = [total EXCEPT ![c] = 0]
  /\ newBalance' = [newBalance EXCEPT ![c] = 0]

Refuse(c, from, outcome) ==
  /\ End(c, from, outcome)
  /\ UNCHANGED <<catalogVars, progressVars, storeVars, argVars, failures, paid>>

StartClaim(c) ==
  /\ Cardinality(InFlight) < MaxInFlight
  /\ Goto(c, "idle", "findEventById")
  /\ UNCHANGED <<catalogVars, progressVars, storeVars, argVars, localVars,
                 failures, paid>>

Claimable(e) == Exists(e) /\ events[e].rewards # <<>>

FindEvent(c) ==
  /\ Goto(c, "findEventById", "findExisting")
  /\ Claimable(claimEvent[c])
  /\ rewards' = [rewards EXCEPT ![c] = events[claimEvent[c]].rewards]
  /\ UNCHANGED <<catalogVars, progressVars, storeVars, argVars, checked, total,
                 newBalance, failures, paid>>

RefuseEvent(c) ==
  /\ ~Claimable(claimEvent[c])
  /\ Refuse(c, "findEventById", "badRequest")

\* Mutants: the look-up never finds the request; or finds only a second one.
NeverRequested(c) == FALSE
RequestedTwice(c) == requests[Key(c)] > 1

AlreadyRequested(c) == requests[Key(c)] > 0

FindExisting(c) ==
  /\ Goto(c, "findExisting", "validate")
  /\ ~AlreadyRequested(c)
  /\ UNCHANGED <<catalogVars, progressVars, storeVars, argVars, localVars,
                 failures, paid>>

RefuseExisting(c) ==
  /\ AlreadyRequested(c)
  /\ Refuse(c, "findExisting", "alreadyRequested")

\* RewardConditionValidatorService: play time counts in whole minutes.
Progress(type, u) ==
  IF type = "LOGIN" THEN loginCount[u] ELSE playMs[u] \div 60000

\* Mutant: off by one.
AlmostMet(reward, u) == Progress(reward.type, u) + 1 >= reward.targetValue

Met(reward, u) == Progress(reward.type, u) >= reward.targetValue

\* Mutant: the loop looks at the event as it stands now.
RewardNow(c) ==
  LET list == events[claimEvent[c]].rewards
  IN  list[IF checked[c] < Len(list) THEN checked[c] + 1 ELSE Len(list)]

NextReward(c) == rewards[c][checked[c] + 1]

\* One iteration of the loop over event.rewards.
ValidateCondition(c) ==
  /\ pc[c] = "validate"
  /\ Met(NextReward(c), claimUser[c])
  /\ Goto(c, "validate",
          IF checked[c] + 1 = Len(rewards[c]) THEN "findUser" ELSE "validate")
  /\ checked' = [checked EXCEPT ![c] = @ + 1]
  /\ total' = [total EXCEPT ![c] = @ + NextReward(c).rewardPoint]
  /\ UNCHANGED <<catalogVars, progressVars, storeVars, argVars, rewards,
                 newBalance, failures, paid>>

\* Mutant: an unmet condition is waited for.
WaitUntilMet(c) ==
  pc[c] = "validate" /\ ~Met(NextReward(c), claimUser[c]) /\ UNCHANGED vars

RefuseCondition(c) ==
  /\ pc[c] = "validate"
  /\ ~Met(NextReward(c), claimUser[c])
  /\ Refuse(c, "validate", "conditionNotMet")

\* Mutants: the points are subtracted; added twice; the old balance is lost.
BalanceMinusTotal(c) == balance[claimUser[c]] - total[c]
BalancePlusTwice(c) == balance[claimUser[c]] + 2 * total[c]
TotalOnly(c) == total[c]

NewBalance(c) == balance[claimUser[c]] + total[c]

\* The balance read here is what the next step's write is computed from.
FindUser(c) ==
  /\ Goto(c, "findUser", "updateBalance")
  /\ newBalance' = [newBalance EXCEPT ![c] = NewBalance(c)]
  /\ UNCHANGED <<catalogVars, progressVars, storeVars, argVars, rewards,
                 checked, total, failures, paid>>

\* updateOne({_id}, {balance}): an absolute write, not an increment.
WriteBalance(c) ==
  /\ balance' = [balance EXCEPT ![claimUser[c]] = newBalance[c]]
  /\ paid' = [paid EXCEPT ![claimUser[c]] = @ + total[c]]
  /\ UNCHANGED <<ledger, requests>>

UpdateBalance(c) ==
  /\ Goto(c, "updateBalance", "createTransaction")
  /\ WriteBalance(c)
  /\ UNCHANGED <<catalogVars, progressVars, argVars, localVars, failures>>

EntryOf(c) == [user |-> claimUser[c], event |-> claimEvent[c],
               amount |-> total[c], balanceAfter |-> newBalance[c]]

WriteEntry(c) ==
  /\ ledger' = Append(ledger, EntryOf(c))
  /\ UNCHANGED <<balance, requests, paid>>

\* Mutant: the claim ends without its request document.
NoRequestAfter(c) ==
  /\ End(c, "createTransaction", "approved")
  /\ WriteEntry(c)
  /\ UNCHANGED <<catalogVars, progressVars, argVars, failures>>

CreateTransaction(c) ==
  /\ Goto(c, "createTransaction", "createRequest")
  /\ WriteEntry(c)
  /\ UNCHANGED <<catalogVars, progressVars, argVars, localVars, failures>>

\* The unique index {userId, requestId, eventId} never refuses the insert,
\* because requestId is a fresh ULID.
WriteRequest(c) ==
  /\ requests' = [requests EXCEPT ![Key(c)] = @ + 1]
  /\ UNCHANGED <<balance, ledger, paid>>

CreateRequest(c) ==
  /\ End(c, "createRequest", "approved")
  /\ WriteRequest(c)
  /\ UNCHANGED <<catalogVars, progressVars, argVars, failures>>

\* Mutant: the catch block logs and carries on.
SwallowPayFailure(c) ==
  /\ failures < MaxFailures
  /\ failures' = failures + 1
  /\ pc[c] \in Granting
  /\ pc' = [pc EXCEPT ![c] = "createRequest"]
  /\ UNCHANGED <<catalogVars, progressVars, storeVars, argVars, localVars, paid>>

\* The write that the call awaits, if it awaits one.
AwaitedWrite(c) ==
  \/ pc[c] = "updateBalance" /\ WriteBalance(c)
  \/ pc[c] = "createTransaction" /\ WriteEntry(c)
  \/ pc[c] = "createRequest" /\ WriteRequest(c)

\* The awaited call throws: a write has been carried out (and its
\* acknowledgement lost) or has not.  Inside the try block the error becomes
\* "point payment failed"; nothing already written is undone.
FailClaim(c) ==
  /\ failures < MaxFailures
  /\ failures' = failures + 1
  /\ pc[c] \in Running
  /\ End(c, pc[c], IF pc[c] \in Granting THEN "payFailed" ELSE "failed")
  /\ AwaitedWrite(c) \/ UNCHANGED <<storeVars, paid>>
  /\ UNCHANGED <<catalogVars, progressVars, argVars>>

\* The event service stops: the calls in flight are gone, what they wrote stays.
Crash ==
  /\ failures < MaxFailures
  /\ failures' = failures + 1
  /\ InFlight # {}
  /\ pc' = [c \in Claims |-> IF c \in InFlight THEN "lost" ELSE pc[c]]
  /\ rewards' = [c \in Claims |-> <<>>]
  /\ checked' = [c \in Claims |-> 0]
  /\ total' = [c \in Claims |-> 0]
  /\ newBalance' = [c \in Claims |-> 0]
  /\ UNCHANGED <<catalogVars, progressVars, storeVars, argVars, paid>>

ClaimStep(c) ==
  \/ FindEvent(c) \/ RefuseEvent(c)
  \/ FindExisting(c) \/ RefuseExisting(c)
  \/ ValidateCondition(c) \/ RefuseCondition(c)
  \/ FindUser(c) \/ UpdateBalance(c) \/ CreateTransaction(c) \/ CreateRequest(c)

-----------------------------------------------------------------------------
(* The steps of the other services that a claim depends on *)

\* AuthService.recordUserLogin: INCR on every login of a USER, since
\* continuous_login:at, which would suppress it, is never written.
RecordLogin(u) ==
  /\ loginCount[u] < MaxLogins
  /\ loginCount' = [loginCount EXCEPT ![u] = @ + 1]
  /\ UNCHANGED <<catalogVars, playMs, storeVars, argVars, pc, localVars,
                 failures, paid>>

\* A write of condition:play_time by endSession or updateAllActiveSessions
\* (module PlayTime).  It is absolute and may be computed from a stale read,
\* so it can lower the total as well as raise it.
WritePlayTime(u, ms) ==
  /\ playMs' = [playMs EXCEPT ![u] = ms]
  /\ UNCHANGED <<catalogVars, loginCount, storeVars, argVars, pc, localVars,
                 failures, paid>>

\* condition:play_time is written without a TTL argument, so the store's
\* default TTL of one day applies and the key expires.
ExpirePlayTime(u) ==
  /\ playMs[u] > 0
  /\ playMs' = [playMs EXCEPT ![u] = 0]
  /\ UNCHANGED <<catalogVars, loginCount, storeVars, argVars, pc, localVars,
                 failures, paid>>

EditCatalog ==
  /\ CatalogNext
  /\ UNCHANGED <<progressVars, storeVars, argVars, pc, localVars, failures, paid>>

Next ==
  \/ \E c \in Claims : StartClaim(c) \/ ClaimStep(c) \/ FailClaim(c)
  \/ Crash
  \/ \E u \in Users : RecordLogin(u) \/ ExpirePlayTime(u)
  \/ \E u \in Users, ms \in PlayTimes : WritePlayTime(u, ms)
  \/ EditCatalog

Spec == Init /\ [][Next]_vars

\* The event loop resumes every claim whose awaited call has answered.
FairSpec == Spec /\ \A c \in Claims : WF_vars(ClaimStep(c))

-----------------------------------------------------------------------------
(* Safety under every interleaving, failed call and crash *)

EntriesFor(u, e) ==
  {i \in DOMAIN ledger : ledger[i].user = u /\ ledger[i].event = e}

(***************************************************************************)
(* Every APPROVED request has its own entry in the point ledger: the       *)
(* balance and ledger writes come before the request document, so an       *)
(* interrupted claim may leave points without a request but never a        *)
(* request without points (request.service.ts:75-95).                      *)
(***************************************************************************)
RequestsBacked ==
  \A u \in Users, e \in Events :
    requests[<<u, e>>] <= Cardinality(EntriesFor(u, e))

(***************************************************************************)
(* The same user is approved for the same event at most as many times as   *)
(* claims are in flight at once: once a request document exists no claim   *)
(* that has still to look for it gets past "Reward already requested".     *)
(***************************************************************************)
ApprovalsBounded ==
  \A u \in Users, e \in Events : requests[<<u, e>>] <= MaxInFlight

(***************************************************************************)
(* A claim that has not looked for existing requests when its user already *)
(* has one for that event never reaches the payment, then or later: a      *)
(* client that retries after an approval is never paid again.              *)
(***************************************************************************)
Late(c) == requests[Key(c)] > 0 /\ pc[c] \in {"idle", "findEventById", "findExisting"}
NoPaymentAfterApproval ==
  \A c \in Claims : [](Late(c) => [](pc[c] \notin Paying))

(***************************************************************************)
(* Login conditions are checked some awaits before the points are written, *)
(* one by one, and still all hold at the payment, because the login        *)
(* counter only grows.  (Play time can expire between check and payment.)  *)
(***************************************************************************)
LoginConditionsHold ==
  \A c \in Claims : pc[c] \in Paying =>
    \A i \in DOMAIN rewards[c] :
      rewards[c][i].type = "LOGIN" =>
        loginCount[claimUser[c]] >= rewards[c][i].targetValue

(***************************************************************************)
(* Overlapping claims compute the new balance from a stale one and can     *)
(* overwrite each other, but they only ever lose points: no interleaving   *)
(* leaves a user with more than the sum of what was paid.                  *)
(***************************************************************************)
BalanceNotInflated == \A u \in Users : balance[u] <= paid[u]

SumOfFirst(k, list) ==
  LET sum[i \in 0..Len(list)] ==
        IF i = 0 THEN 0 ELSE sum[i - 1] + list[i].rewardPoint
  IN  sum[k]

\* The rewards that the claim has read from the event.
WholeTotal(c) == SumOfFirst(Len(rewards[c]), rewards[c])

(***************************************************************************)
(* Every entry that enters the ledger is one claim's, for its own user and *)
(* event, and its amount is what all the rewards that claim read add up    *)
(* to, however many awaits ago that was: rewards that operators add or     *)
(* lose while the claim validates are neither half counted nor counted     *)
(* twice (request.service.ts:34, 52-65, 77-84).                            *)
(***************************************************************************)
AmountsComeFromTheEvent ==
  [][\A i \in DOMAIN ledger' \ DOMAIN ledger :
       \E c \in Claims :
         /\ pc[c] = "createTransaction" /\ pc'[c] # "createTransaction"
         /\ ledger'[i].user = claimUser[c] /\ ledger'[i].event = claimEvent[c]
         /\ ledger'[i].amount = WholeTotal(c)]_vars

(***************************************************************************)
(* Every claim that started is answered.                                   *)
(***************************************************************************)
EveryClaimEnds == \A c \in Claims : pc[c] \in Running ~> pc[c] \in Ended

-----------------------------------------------------------------------------
(* What the documents say and overlapping claims break *)

(***************************************************************************)
(* "should throw error if reward already requested"                        *)
(* (request.service.spec.ts:182): a user is approved once per event.       *)
(***************************************************************************)
ApprovedOnce == \A u \in Users, e \in Events : requests[<<u, e>>] <= 1
=============================================================================
