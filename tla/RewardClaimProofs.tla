------------------------- MODULE RewardClaimProofs -------------------------
(***************************************************************************)
(* Proofs about RewardClaim, for any number of users, events, claims and   *)
(* edits, any overlap and any number of failed calls and crashes.          *)
(***************************************************************************)
EXTENDS RewardClaim, EventCatalogProofs, WellFoundedInduction

-----------------------------------------------------------------------------
(* Types *)

\* The loop over event.rewards stays inside the list the claim has read.
LoopInBounds ==
  \A c \in Claims :
    /\ pc[c] \in {"idle", "findEventById", "findExisting"} => checked[c] = 0
    /\ pc[c] = "findExisting" => rewards[c] # <<>>
    /\ pc[c] = "validate" => checked[c] < Len(rewards[c])
    /\ pc[c] \in Paying => checked[c] = Len(rewards[c])

\* The part of the types that a claim's own steps can disturb.
ClaimTypes ==
  /\ balance \in [Users -> Nat]
  /\ ledger \in Seq(Entries)
  /\ requests \in [Users \X Events -> Nat]
  /\ claimUser \in [Claims -> Users]
  /\ claimEvent \in [Claims -> Events]
  /\ pc \in [Claims -> ClaimPcs]
  /\ rewards \in [Claims -> Seq(Rewards)]
  /\ checked \in [Claims -> Nat]
  /\ total \in [Claims -> Nat]
  /\ newBalance \in [Claims -> Nat]
  /\ failures \in Nat
  /\ paid \in [Users -> Nat]

ProgressTypes ==
  /\ loginCount \in [Users -> Nat]
  /\ playMs \in [Users -> Nat]

TypeInv == CatalogInv /\ ProgressTypes /\ ClaimTypes /\ LoopInBounds

LEMMA TypeInvImpliesTypeOK == TypeInv => TypeOK
BY DEF TypeInv, CatalogInv, ProgressTypes, ClaimTypes, TypeOK

LEMMA TypeInvInit == Init => TypeInv
<1> SUFFICES ASSUME Init PROVE TypeInv OBVIOUS
<1>1. CatalogInv
  BY CatalogInvInit DEF Init
<1>2. ProgressTypes
  BY DEF Init, ProgressTypes
<1>3. ClaimTypes
  BY DEF Init, ClaimTypes, ClaimPcs
<1>4. LoopInBounds
  BY DEF Init, LoopInBounds, Paying, Granting
<1> QED BY <1>1, <1>2, <1>3, <1>4 DEF TypeInv

PcSets == {"idle", "findEventById", "findExisting", "validate", "findUser",
           "updateBalance", "createTransaction", "createRequest", "badRequest",
           "alreadyRequested", "conditionNotMet", "payFailed", "failed", "lost",
           "approved"}

LEMMA PcNames ==
  /\ ClaimPcs = PcSets
  /\ Paying = {"findUser", "updateBalance", "createTransaction", "createRequest"}
  /\ Running = {"findEventById", "findExisting", "validate"} \cup Paying
BY DEF ClaimPcs, Running, Checking, Granting, Ended, Paying, PcSets

\* A call that ends leaves fresh local variables behind.
LEMMA EndTypes ==
  ASSUME ClaimTypes, LoopInBounds, NEW c \in Claims, NEW from, NEW outcome \in Ended,
         End(c, from, outcome)
  PROVE  /\ pc' \in [Claims -> ClaimPcs]
         /\ rewards' \in [Claims -> Seq(Rewards)]
         /\ checked' \in [Claims -> Nat]
         /\ total' \in [Claims -> Nat]
         /\ newBalance' \in [Claims -> Nat]
         /\ LoopInBounds'
<1>1. outcome \in ClaimPcs /\ outcome \notin Paying \cup {"idle", "findExisting", "validate"}
  BY DEF ClaimPcs, Ended, Paying, Granting
<1>2. <<>> \in Seq(Rewards)
  OBVIOUS
<1> QED BY <1>1, <1>2 DEF End, Goto, ClaimTypes, LoopInBounds

LEMMA RefuseTypes ==
  ASSUME TypeInv, NEW c \in Claims, NEW from, NEW outcome \in Ended,
         Refuse(c, from, outcome)
  PROVE  ClaimTypes' /\ LoopInBounds'
BY EndTypes DEF Refuse, TypeInv, ClaimTypes, storeVars, argVars

LEMMA WriteTypes ==
  ASSUME ClaimTypes, NEW c \in Claims,
         WriteBalance(c) \/ WriteEntry(c) \/ WriteRequest(c) \/ UNCHANGED <<storeVars, paid>>
  PROVE  /\ balance' \in [Users -> Nat]
         /\ ledger' \in Seq(Entries)
         /\ requests' \in [Users \X Events -> Nat]
         /\ paid' \in [Users -> Nat]
<1> USE DEF ClaimTypes
<1>1. CASE WriteBalance(c)
  BY <1>1 DEF WriteBalance
<1>2. CASE WriteEntry(c)
  BY <1>2 DEF WriteEntry, EntryOf, Entries
<1>3. CASE WriteRequest(c)
  <2>1. Key(c) \in Users \X Events
    BY DEF Key
  <2> QED BY <1>3, <2>1 DEF WriteRequest
<1>4. CASE UNCHANGED <<storeVars, paid>>
  BY <1>4 DEF storeVars
<1> QED BY <1>1, <1>2, <1>3, <1>4

LEMMA ClaimStepTypes ==
  ASSUME TypeInv, NEW c \in Claims, StartClaim(c) \/ ClaimStep(c) \/ FailClaim(c)
  PROVE  ClaimTypes' /\ LoopInBounds'
<1> USE DEF TypeInv, ClaimTypes, Goto, storeVars, argVars, localVars
<1> USE PcNames DEF PcSets
<1>1. CASE StartClaim(c)
  BY <1>1 DEF StartClaim, LoopInBounds
<1>2. CASE FindEvent(c)
  <2>1. events[claimEvent[c]].rewards \in Seq(Rewards)
    BY RewardsType DEF CatalogInv, CatalogTypeOK
  <2> QED BY <1>2, <2>1 DEF FindEvent, Claimable, LoopInBounds
<1>3. CASE RefuseEvent(c)
  BY <1>3, RefuseTypes DEF RefuseEvent, Ended
<1>4. CASE FindExisting(c)
  BY <1>4 DEF FindExisting, LoopInBounds
<1>5. CASE RefuseExisting(c)
  BY <1>5, RefuseTypes DEF RefuseExisting, Ended
<1>6. CASE ValidateCondition(c)
  <2>1. checked[c] + 1 \in 1..Len(rewards[c])
    BY <1>6 DEF ValidateCondition, LoopInBounds
  <2>2. NextReward(c).rewardPoint \in Nat
    BY <2>1, ClaimAssumption DEF NextReward, ClaimAssumption
  <2>3. ClaimTypes'
    <3>1. pc' \in [Claims -> ClaimPcs] /\ checked' \in [Claims -> Nat]
      BY <1>6 DEF ValidateCondition
    <3>2. total' \in [Claims -> Nat]
      BY <1>6, <2>2 DEF ValidateCondition
    <3> QED BY <1>6, <3>1, <3>2 DEF ValidateCondition
  <2>4. /\ rewards' = rewards
        /\ checked' = [checked EXCEPT ![c] = checked[c] + 1]
        /\ \A d \in Claims \ {c} : pc'[d] = pc[d]
        /\ \/ pc'[c] = "findUser" /\ checked[c] + 1 = Len(rewards[c])
           \/ pc'[c] = "validate" /\ checked[c] + 1 # Len(rewards[c])
    BY <1>6 DEF ValidateCondition
  <2>5. LoopInBounds'
    BY <2>1, <2>4 DEF LoopInBounds
  <2> QED BY <2>3, <2>5
<1>7. CASE RefuseCondition(c)
  BY <1>7, RefuseTypes DEF RefuseCondition, Ended
<1>8. CASE FindUser(c)
  BY <1>8 DEF FindUser, LoopInBounds, NewBalance
<1>9. CASE UpdateBalance(c)
  <2>1. ClaimTypes
    OBVIOUS
  <2>2. /\ balance' \in [Users -> Nat] /\ ledger' \in Seq(Entries)
        /\ requests' \in [Users \X Events -> Nat] /\ paid' \in [Users -> Nat]
    BY <1>9, <2>1, WriteTypes DEF UpdateBalance
  <2> QED BY <1>9, <2>2 DEF UpdateBalance, LoopInBounds
<1>10. CASE CreateTransaction(c)
  <2>1. ClaimTypes
    OBVIOUS
  <2>2. /\ balance' \in [Users -> Nat] /\ ledger' \in Seq(Entries)
        /\ requests' \in [Users \X Events -> Nat] /\ paid' \in [Users -> Nat]
    BY <1>10, <2>1, WriteTypes DEF CreateTransaction
  <2> QED BY <1>10, <2>2 DEF CreateTransaction, LoopInBounds
<1>11. ASSUME NEW from, NEW outcome \in Ended, End(c, from, outcome),
              \/ WriteBalance(c) \/ WriteEntry(c) \/ WriteRequest(c)
              \/ UNCHANGED <<storeVars, paid>>,
              UNCHANGED argVars, failures' \in Nat
       PROVE  ClaimTypes' /\ LoopInBounds'
  <2>1. ClaimTypes /\ LoopInBounds
    OBVIOUS
  <2>2. /\ balance' \in [Users -> Nat] /\ ledger' \in Seq(Entries)
        /\ requests' \in [Users \X Events -> Nat] /\ paid' \in [Users -> Nat]
    BY <1>11, <2>1, WriteTypes
  <2>3. claimUser' \in [Claims -> Users] /\ claimEvent' \in [Claims -> Events]
    BY <1>11
  <2> HIDE DEF ClaimTypes
  <2>4. /\ pc' \in [Claims -> ClaimPcs]
        /\ rewards' \in [Claims -> Seq(Rewards)]
        /\ checked' \in [Claims -> Nat]
        /\ total' \in [Claims -> Nat]
        /\ newBalance' \in [Claims -> Nat]
        /\ LoopInBounds'
    BY <1>11, <2>1, EndTypes
  <2> QED BY <1>11, <2>2, <2>3, <2>4 DEF ClaimTypes
<1>12. CASE CreateRequest(c)
  BY <1>11, <1>12 DEF CreateRequest, Ended
<1>13. CASE FailClaim(c)
  <2>1. PICK outcome \in Ended, from \in Running : End(c, from, outcome)
    BY <1>13 DEF FailClaim, Ended
  <2>2. \/ WriteBalance(c) \/ WriteEntry(c) \/ WriteRequest(c)
        \/ UNCHANGED <<storeVars, paid>>
    BY <1>13 DEF FailClaim, AwaitedWrite
  <2>3. UNCHANGED argVars /\ failures' \in Nat
    BY <1>13 DEF FailClaim
  <2> HIDE DEF TypeInv, ClaimTypes, Goto, storeVars, argVars, localVars
  <2> QED BY <1>11, <2>1, <2>2, <2>3
<1> QED BY <1>1, <1>2, <1>3, <1>4, <1>5, <1>6, <1>7, <1>8, <1>9, <1>10, <1>12,
          <1>13 DEF ClaimStep

LEMMA CrashTypes == ASSUME TypeInv, Crash PROVE ClaimTypes' /\ LoopInBounds'
<1> USE DEF TypeInv, ClaimTypes
<1>1. \A c \in Claims : /\ pc'[c] \in ClaimPcs
                       /\ pc'[c] \notin Paying \cup {"findExisting", "validate"}
  BY PcNames DEF Crash, InFlight, PcSets
<1>2. /\ pc' \in [Claims -> ClaimPcs]
      /\ rewards' \in [Claims -> Seq(Rewards)]
      /\ checked' = [c \in Claims |-> 0]
      /\ total' \in [Claims -> Nat]
      /\ newBalance' \in [Claims -> Nat]
  BY <1>1 DEF Crash
<1>3. ClaimTypes'
  BY <1>2 DEF Crash, storeVars, argVars
<1>4. LoopInBounds'
  BY <1>1, <1>2 DEF LoopInBounds
<1> QED BY <1>3, <1>4

\* A step that leaves the catalog alone keeps its invariant.
LEMMA FrameCatalog == ASSUME CatalogInv, UNCHANGED catalogVars PROVE CatalogInv'
BY DEF CatalogInv, CatalogTypeOK, TargetsExist, SeedKept, Exists, catalogVars

\* A step of the services that feed the progress counters.
LEMMA FrameClaims ==
  ASSUME TypeInv, UNCHANGED <<storeVars, argVars, pc, localVars, failures, paid>>
  PROVE  ClaimTypes' /\ LoopInBounds'
BY DEF TypeInv, ClaimTypes, LoopInBounds, storeVars, argVars, localVars

(***************************************************************************)
(* Each kind of step of the whole system.                                  *)
(***************************************************************************)
LEMMA TypeInvStep == ASSUME TypeInv, [Next]_vars PROVE TypeInv'
<1>1. CASE \E c \in Claims : StartClaim(c) \/ ClaimStep(c) \/ FailClaim(c)
  <2>1. ClaimTypes' /\ LoopInBounds'
    BY <1>1, ClaimStepTypes
  <2>2. UNCHANGED <<catalogVars, progressVars>>
    BY <1>1 DEF StartClaim, ClaimStep, FailClaim, FindEvent, RefuseEvent,
         FindExisting, RefuseExisting, ValidateCondition, RefuseCondition,
         FindUser, UpdateBalance, CreateTransaction, CreateRequest, Refuse
  <2> QED BY <2>1, <2>2, FrameCatalog DEF TypeInv, ProgressTypes, progressVars
<1>2. CASE Crash
  <2>1. ClaimTypes' /\ LoopInBounds'
    BY <1>2, CrashTypes
  <2>2. UNCHANGED <<catalogVars, progressVars>>
    BY <1>2 DEF Crash
  <2> QED BY <2>1, <2>2, FrameCatalog DEF TypeInv, ProgressTypes, progressVars
<1>3. ASSUME NEW u \in Users, RecordLogin(u) PROVE TypeInv'
  <2>1. ClaimTypes' /\ LoopInBounds' /\ CatalogInv'
    BY <1>3, FrameClaims, FrameCatalog DEF RecordLogin, TypeInv
  <2>2. ProgressTypes'
    BY <1>3 DEF RecordLogin, TypeInv, ProgressTypes
  <2> QED BY <2>1, <2>2 DEF TypeInv
<1>4. ASSUME NEW u \in Users, ExpirePlayTime(u) PROVE TypeInv'
  <2>1. ClaimTypes' /\ LoopInBounds' /\ CatalogInv'
    BY <1>4, FrameClaims, FrameCatalog DEF ExpirePlayTime, TypeInv
  <2>2. ProgressTypes'
    BY <1>4 DEF ExpirePlayTime, TypeInv, ProgressTypes
  <2> QED BY <2>1, <2>2 DEF TypeInv
<1>5. ASSUME NEW u \in Users, NEW ms \in PlayTimes, WritePlayTime(u, ms) PROVE TypeInv'
  <2>1. ClaimTypes' /\ LoopInBounds' /\ CatalogInv'
    BY <1>5, FrameClaims, FrameCatalog DEF WritePlayTime, TypeInv
  <2>2. ProgressTypes'
    BY <1>5, ClaimAssumption DEF WritePlayTime, TypeInv, ProgressTypes, ClaimAssumption
  <2> QED BY <2>1, <2>2 DEF TypeInv
<1>6. CASE EditCatalog
  <2>1. ClaimTypes' /\ LoopInBounds'
    BY <1>6, FrameClaims DEF EditCatalog
  <2>2. CatalogInv'
    BY <1>6, CatalogInvStep DEF EditCatalog, TypeInv
  <2> QED BY <1>6, <2>1, <2>2 DEF EditCatalog, TypeInv, ProgressTypes, progressVars
<1>7. CASE UNCHANGED vars
  BY <1>7, FrameClaims, FrameCatalog DEF vars, TypeInv, ProgressTypes, progressVars
<1> QED BY <1>1, <1>2, <1>3, <1>4, <1>5, <1>6, <1>7 DEF Next

(***************************************************************************)
(* Type correctness of the whole composition, for every value of the       *)
(* constants.                                                              *)
(***************************************************************************)
THEOREM TypeCorrect == Spec => []TypeOK
<1>1. Init => TypeInv BY TypeInvInit
<1>2. TypeInv /\ [Next]_vars => TypeInv' BY TypeInvStep
<1>3. TypeInv => TypeOK BY TypeInvImpliesTypeOK
<1> QED BY <1>1, <1>2, <1>3, PTL DEF Spec

(***************************************************************************)
(* The inductive form of the types: a claim past the event look-up has a   *)
(* list of rewards to loop over, and its loop stays inside it.             *)
(***************************************************************************)
THEOREM TypeInvariant == Spec => []TypeInv
BY TypeInvInit, TypeInvStep, PTL DEF Spec

-----------------------------------------------------------------------------
(* The three writes, whether their claim goes on or fails *)

\* The locals of the other claims are their own.
OthersKeep(c) ==
  /\ UNCHANGED <<claimUser, claimEvent>>
  /\ \A d \in Claims \ {c} :
       /\ pc'[d] = pc[d] /\ rewards'[d] = rewards[d] /\ checked'[d] = checked[d]
       /\ total'[d] = total[d] /\ newBalance'[d] = newBalance[d]

Goes(c, from, outcomes) ==
  pc[c] = from /\ \E to \in outcomes : pc' = [pc EXCEPT ![c] = to]

Pays(c) ==
  /\ WriteBalance(c) /\ OthersKeep(c)
  /\ Goes(c, "updateBalance", {"createTransaction", "payFailed"})
  /\ UNCHANGED localVars \/ pc'[c] = "payFailed"
Enters(c) ==
  /\ WriteEntry(c) /\ OthersKeep(c)
  /\ Goes(c, "createTransaction", {"createRequest", "payFailed"})
Approves(c) ==
  /\ WriteRequest(c) /\ OthersKeep(c)
  /\ Goes(c, "createRequest", {"approved", "failed"})

\* A call that fails without having written anything more.
FailsEmpty(c) ==
  /\ \E from \in Running, outcome \in {"payFailed", "failed"} : End(c, from, outcome)
  /\ UNCHANGED <<catalogVars, progressVars, storeVars, argVars, paid>>

LEMMA EndKeepsOthers ==
  ASSUME TypeInv, NEW c \in Claims, NEW from, NEW outcome, End(c, from, outcome),
         UNCHANGED argVars
  PROVE  OthersKeep(c)
BY DEF TypeInv, ClaimTypes, End, Goto, OthersKeep, argVars

LEMMA WriteSteps ==
  ASSUME TypeInv, NEW c \in Claims
  PROVE  /\ UpdateBalance(c) => Pays(c)
         /\ CreateTransaction(c) => Enters(c)
         /\ CreateRequest(c) => Approves(c)
         /\ FailClaim(c) => Pays(c) \/ Enters(c) \/ Approves(c) \/ FailsEmpty(c)
<1>1. ASSUME UpdateBalance(c) PROVE Pays(c)
  BY <1>1 DEF UpdateBalance, Goto, Pays, Goes, OthersKeep, argVars, localVars,
              TypeInv, ClaimTypes
<1>2. ASSUME CreateTransaction(c) PROVE Enters(c)
  BY <1>2 DEF CreateTransaction, Goto, Enters, Goes, OthersKeep, argVars, localVars,
              TypeInv, ClaimTypes
<1>3. ASSUME CreateRequest(c) PROVE Approves(c)
  <2>1. OthersKeep(c)
    BY <1>3, EndKeepsOthers DEF CreateRequest
  <2> QED BY <1>3, <2>1 DEF CreateRequest, End, Goto, Approves, Goes
<1>4. ASSUME FailClaim(c) PROVE Pays(c) \/ Enters(c) \/ Approves(c) \/ FailsEmpty(c)
  <2> DEFINE outcome == IF pc[c] \in Granting THEN "payFailed" ELSE "failed"
  <2>1. /\ pc[c] \in Running /\ End(c, pc[c], outcome)
        /\ UNCHANGED <<catalogVars, progressVars, argVars>>
        /\ AwaitedWrite(c) \/ UNCHANGED <<storeVars, paid>>
    BY <1>4 DEF FailClaim
  <2>2. OthersKeep(c)
    BY <2>1, EndKeepsOthers
  <2>3. pc' = [pc EXCEPT ![c] = outcome]
    BY <2>1 DEF End, Goto
  <2>4. CASE UNCHANGED <<storeVars, paid>>
    BY <2>1, <2>4 DEF FailsEmpty
  <2>5. CASE pc[c] = "updateBalance" /\ WriteBalance(c)
    BY <2>2, <2>3, <2>5 DEF Pays, Goes, Granting, TypeInv, ClaimTypes
  <2>6. CASE pc[c] = "createTransaction" /\ WriteEntry(c)
    BY <2>2, <2>3, <2>6 DEF Enters, Goes, Granting
  <2>7. CASE pc[c] = "createRequest" /\ WriteRequest(c)
    BY <2>2, <2>3, <2>7 DEF Approves, Goes, Granting
  <2> QED BY <2>1, <2>4, <2>5, <2>6, <2>7 DEF AwaitedWrite
<1> QED BY <1>1, <1>2, <1>3, <1>4

-----------------------------------------------------------------------------
(* No interleaving inflates a balance *)

\* A balance about to be written was read as at most what had been paid.
PendingNotInflated ==
  \A c \in Claims :
    pc[c] = "updateBalance" => newBalance[c] <= paid[claimUser[c]] + total[c]

BalanceInv == BalanceNotInflated /\ PendingNotInflated

\* Steps other than the read and the write of a balance.
BalanceQuiet ==
  /\ UNCHANGED <<balance, paid, claimUser>>
  /\ \A c \in Claims : pc'[c] = "updateBalance" =>
       /\ pc[c] = "updateBalance"
       /\ newBalance'[c] = newBalance[c]
       /\ total'[c] = total[c]

LEMMA EndQuiet ==
  ASSUME TypeInv, NEW c \in Claims, NEW from, NEW outcome \in Ended,
         End(c, from, outcome), UNCHANGED <<balance, paid, claimUser>>
  PROVE  BalanceQuiet
BY DEF End, Goto, Ended, BalanceQuiet, TypeInv, ClaimTypes

LEMMA BalanceSteps ==
  ASSUME TypeInv, [Next]_vars
  PROVE  (\E c \in Claims : FindUser(c) \/ Pays(c)) \/ BalanceQuiet
<1> USE DEF storeVars, argVars, localVars
<1>1. ASSUME NEW c \in Claims, StartClaim(c) \/ ClaimStep(c) \/ FailClaim(c)
      PROVE  FindUser(c) \/ Pays(c) \/ BalanceQuiet
  <2>1. CASE StartClaim(c) \/ FindExisting(c)
    BY <2>1 DEF StartClaim, FindExisting, Goto, BalanceQuiet, TypeInv, ClaimTypes
  <2>2. CASE FindEvent(c)
    BY <2>2 DEF FindEvent, Goto, BalanceQuiet, TypeInv, ClaimTypes
  <2>3. CASE RefuseEvent(c) \/ RefuseExisting(c) \/ RefuseCondition(c)
    BY <2>3, EndQuiet DEF RefuseEvent, RefuseExisting, RefuseCondition, Refuse, Ended
  <2>4. CASE ValidateCondition(c)
    <3>1. /\ UNCHANGED <<balance, paid, claimUser, newBalance>>
          /\ pc'[c] # "updateBalance"
          /\ \A d \in Claims \ {c} : pc'[d] = pc[d] /\ total'[d] = total[d]
      BY <2>4 DEF ValidateCondition, Goto, TypeInv, ClaimTypes
    <3> QED BY <3>1 DEF BalanceQuiet
  <2>5. CASE Enters(c)
    BY <2>5 DEF Enters, WriteEntry, OthersKeep, Goes, BalanceQuiet, TypeInv, ClaimTypes
  <2>6. CASE Approves(c)
    BY <2>6 DEF Approves, WriteRequest, OthersKeep, Goes, BalanceQuiet, TypeInv, ClaimTypes
  <2>7. CASE FailsEmpty(c)
    BY <2>7, EndQuiet DEF FailsEmpty, Ended
  <2> QED BY <1>1, <2>1, <2>2, <2>3, <2>4, <2>5, <2>6, <2>7, WriteSteps DEF ClaimStep
<1>2. CASE Crash
  BY <1>2 DEF Crash, BalanceQuiet, InFlight, Running, Paying, Granting
<1>3. CASE UNCHANGED <<storeVars, argVars, pc, localVars, paid>>
  BY <1>3 DEF BalanceQuiet
<1>4. ASSUME NEW u \in Users,
             \/ RecordLogin(u) \/ ExpirePlayTime(u)
             \/ \E ms \in PlayTimes : WritePlayTime(u, ms)
      PROVE  UNCHANGED <<storeVars, argVars, pc, localVars, paid>>
  BY <1>4 DEF RecordLogin, ExpirePlayTime, WritePlayTime
<1>5. EditCatalog \/ UNCHANGED vars => UNCHANGED <<storeVars, argVars, pc, localVars, paid>>
  BY DEF EditCatalog, vars
<1> QED BY <1>1, <1>2, <1>3, <1>4, <1>5 DEF Next

LEMMA BalanceInvStep == ASSUME TypeInv, BalanceInv, [Next]_vars PROVE BalanceInv'
<1> USE DEF TypeInv, ClaimTypes, BalanceInv, BalanceNotInflated, PendingNotInflated
<1>1. ASSUME NEW c \in Claims, FindUser(c) PROVE BalanceInv'
  BY <1>1 DEF FindUser, Goto, NewBalance, storeVars, argVars
<1>2. ASSUME NEW c \in Claims, Pays(c) PROVE BalanceInv'
  BY <1>2 DEF Pays, WriteBalance, OthersKeep, Goes
<1>3. CASE BalanceQuiet
  BY <1>3 DEF BalanceQuiet
<1> QED BY <1>1, <1>2, <1>3, BalanceSteps

(***************************************************************************)
(* However claims overlap, fail or crash, no user's balance exceeds what   *)
(* was paid to them: stale reads lose points, they never create any.       *)
(***************************************************************************)
THEOREM BalanceNeverInflated == Spec => []BalanceNotInflated
<1>1. Init => TypeInv /\ BalanceInv
  BY TypeInvInit DEF Init, BalanceInv, BalanceNotInflated, PendingNotInflated
<1>2. TypeInv /\ BalanceInv /\ [Next]_vars => TypeInv' /\ BalanceInv'
  BY TypeInvStep, BalanceInvStep
<1>3. BalanceInv => BalanceNotInflated
  BY DEF BalanceInv
<1> QED BY <1>1, <1>2, <1>3, PTL DEF Spec

-----------------------------------------------------------------------------
(* Login conditions still hold at the payment *)

PastCheck == {"validate"} \cup Paying

CheckedLogins ==
  \A c \in Claims : pc[c] \in PastCheck =>
    \A i \in 1..checked[c] :
      rewards[c][i].type = "LOGIN" =>
        loginCount[claimUser[c]] >= rewards[c][i].targetValue

\* Steps that check no condition: they restart a claim's count or keep it.
CheckQuiet ==
  /\ UNCHANGED claimUser
  /\ \A u \in Users : loginCount'[u] >= loginCount[u]
  /\ \A c \in Claims : pc'[c] \in PastCheck =>
       \/ checked'[c] = 0
       \/ pc[c] \in PastCheck /\ checked'[c] = checked[c] /\ rewards'[c] = rewards[c]

LEMMA EndCheckQuiet ==
  ASSUME TypeInv, NEW c \in Claims, NEW from, NEW outcome \in Ended,
         End(c, from, outcome), UNCHANGED <<loginCount, claimUser>>
  PROVE  CheckQuiet
BY PcNames DEF End, Goto, Ended, CheckQuiet, TypeInv, ClaimTypes, ProgressTypes, PastCheck

LEMMA CheckSteps ==
  ASSUME TypeInv, [Next]_vars
  PROVE  (\E c \in Claims : ValidateCondition(c)) \/ CheckQuiet
<1> USE DEF TypeInv, ClaimTypes, ProgressTypes, storeVars, argVars, localVars,
            progressVars
<1> USE PcNames DEF PastCheck
<1>1. ASSUME NEW c \in Claims, StartClaim(c) \/ ClaimStep(c) \/ FailClaim(c)
      PROVE  ValidateCondition(c) \/ CheckQuiet
  <2>1. CASE StartClaim(c)
    BY <2>1 DEF StartClaim, Goto, CheckQuiet
  <2>6. CASE FindEvent(c)
    BY <2>6 DEF FindEvent, Goto, CheckQuiet
  <2>7. CASE FindExisting(c)
    BY <2>7 DEF FindExisting, Goto, CheckQuiet, LoopInBounds
  <2>2. CASE RefuseEvent(c) \/ RefuseExisting(c) \/ RefuseCondition(c)
    BY <2>2, EndCheckQuiet DEF RefuseEvent, RefuseExisting, RefuseCondition, Refuse, Ended
  <2>3. CASE FindUser(c)
    BY <2>3 DEF FindUser, Goto, CheckQuiet
  <2>8. CASE UpdateBalance(c)
    BY <2>8 DEF UpdateBalance, Goto, CheckQuiet
  <2>9. CASE CreateTransaction(c)
    BY <2>9 DEF CreateTransaction, Goto, CheckQuiet
  <2>4. CASE CreateRequest(c)
    BY <2>4, EndCheckQuiet DEF CreateRequest, Ended
  <2>5. CASE FailClaim(c)
    <3>1. PICK outcome \in Ended, from \in Running : End(c, from, outcome)
      BY <2>5 DEF FailClaim, Ended
    <3> QED BY <2>5, <3>1, EndCheckQuiet DEF FailClaim
  <2> QED BY <1>1, <2>1, <2>2, <2>3, <2>4, <2>5, <2>6, <2>7, <2>8, <2>9 DEF ClaimStep
<1>2. CASE Crash
  BY <1>2 DEF Crash, CheckQuiet, InFlight
<1>3. CASE UNCHANGED <<argVars, pc, localVars>> /\ \A u \in Users : loginCount'[u] >= loginCount[u]
  BY <1>3 DEF CheckQuiet
<1>4. ASSUME NEW u \in Users,
             \/ RecordLogin(u) \/ ExpirePlayTime(u)
             \/ \E ms \in PlayTimes : WritePlayTime(u, ms)
      PROVE  /\ UNCHANGED <<argVars, pc, localVars>>
             /\ \A v \in Users : loginCount'[v] >= loginCount[v]
  <2>1. CASE RecordLogin(u)
    BY <2>1 DEF RecordLogin
  <2>2. CASE ExpirePlayTime(u) \/ \E ms \in PlayTimes : WritePlayTime(u, ms)
    BY <2>2 DEF ExpirePlayTime, WritePlayTime
  <2> QED BY <1>4, <2>1, <2>2
<1>5. EditCatalog \/ UNCHANGED vars =>
        UNCHANGED <<argVars, pc, localVars>> /\ \A u \in Users : loginCount'[u] >= loginCount[u]
  BY DEF EditCatalog, vars
<1> QED BY <1>1, <1>2, <1>3, <1>4, <1>5 DEF Next

LEMMA CheckedLoginsStep ==
  ASSUME TypeInv, CheckedLogins, [Next]_vars PROVE CheckedLogins'
<1> USE DEF TypeInv, ClaimTypes, ProgressTypes, CheckedLogins
<1>1. ASSUME NEW c \in Claims, ValidateCondition(c) PROVE CheckedLogins'
  <2>1. /\ UNCHANGED <<rewards, loginCount, claimUser>>
        /\ \A d \in Claims \ {c} : pc'[d] = pc[d] /\ checked'[d] = checked[d]
        /\ pc[c] = "validate" /\ checked'[c] = checked[c] + 1
    BY <1>1 DEF ValidateCondition, Goto, progressVars, argVars
  <2>2. LET r == rewards[c][checked[c] + 1]
        IN  r.type = "LOGIN" => loginCount[claimUser[c]] >= r.targetValue
    BY <1>1 DEF ValidateCondition, Met, Progress, NextReward
  <2>3. \A i \in 1..(checked[c] + 1) : i \in 1..checked[c] \/ i = checked[c] + 1
    OBVIOUS
  <2> QED BY <2>1, <2>2, <2>3 DEF PastCheck
<1>2. CASE CheckQuiet
  <2> SUFFICES ASSUME NEW c \in Claims, pc'[c] \in PastCheck, NEW i \in 1..checked'[c],
                      rewards'[c][i].type = "LOGIN"
               PROVE  loginCount'[claimUser'[c]] >= rewards'[c][i].targetValue
    OBVIOUS
  <2>1. i \in 1..checked[c] /\ pc[c] \in PastCheck /\ rewards'[c] = rewards[c]
    BY <1>2 DEF CheckQuiet
  <2>2. loginCount[claimUser[c]] >= rewards[c][i].targetValue
    BY <2>1
  <2>3. /\ loginCount'[claimUser[c]] >= loginCount[claimUser[c]]
        /\ claimUser' = claimUser
    BY <1>2 DEF CheckQuiet
  <2>4. rewards[c][i].targetValue \in Nat
    <3>1. i \in 1..Len(rewards[c])
      BY <2>1, PcNames DEF LoopInBounds, PastCheck
    <3> QED BY <3>1, ClaimAssumption DEF ClaimAssumption
  <2>5. /\ loginCount[claimUser[c]] \in Nat
        /\ loginCount'[claimUser[c]] \in Nat
        /\ rewards'[c][i] = rewards[c][i]
    <3>1. TypeInv'
      BY TypeInvStep
    <3> QED BY <2>1, <2>3, <3>1
  <2> HIDE DEF TypeInv, ClaimTypes, ProgressTypes, CheckedLogins
  <2> QED BY <2>2, <2>3, <2>4, <2>5
<1> QED BY <1>1, <1>2, CheckSteps

(***************************************************************************)
(* Whatever logins, edits, failures and other claims come between the      *)
(* checks and the payment, every login condition that a paying claim read  *)
(* holds while it pays.                                                    *)
(***************************************************************************)
THEOREM PaidLoginsHold == Spec => []LoginConditionsHold
<1>1. Init => TypeInv /\ CheckedLogins
  BY TypeInvInit, PcNames DEF Init, CheckedLogins, PastCheck
<1>2. TypeInv /\ CheckedLogins /\ [Next]_vars => TypeInv' /\ CheckedLogins'
  BY TypeInvStep, CheckedLoginsStep
<1>3. TypeInv /\ CheckedLogins => LoginConditionsHold
  <2> SUFFICES ASSUME TypeInv, CheckedLogins, NEW c \in Claims, pc[c] \in Paying
               PROVE  DOMAIN rewards[c] = 1..checked[c] /\ pc[c] \in PastCheck
    BY DEF CheckedLogins, LoginConditionsHold
  <2> QED BY DEF TypeInv, ClaimTypes, LoopInBounds, PastCheck
<1> QED BY <1>1, <1>2, <1>3, PTL DEF Spec

-----------------------------------------------------------------------------
(* Approvals: how many there can be for one user and event, that each has its
   ledger entry, and that none follows an earlier one *)

Keys == Users \X Events

\* Steps that neither admit a claim to the payment nor record anything.
ApprovalQuiet ==
  /\ UNCHANGED <<requests, ledger, claimUser, claimEvent>>
  /\ \A c \in Claims :
       /\ pc'[c] \in Running => pc[c] \in Running
       /\ pc'[c] \in PastCheck => pc[c] \in PastCheck
       /\ pc'[c] = "createRequest" => pc[c] = "createRequest"

LEMMA EndApprovalQuiet ==
  ASSUME TypeInv, NEW c \in Claims, NEW from, NEW outcome \in Ended,
         End(c, from, outcome), UNCHANGED <<requests, ledger, claimUser, claimEvent>>
  PROVE  ApprovalQuiet
BY PcNames DEF End, Goto, Ended, ApprovalQuiet, TypeInv, ClaimTypes, PastCheck

LEMMA ApprovalSteps ==
  ASSUME TypeInv, [Next]_vars
  PROVE  \/ \E c \in Claims : StartClaim(c) \/ FindExisting(c)
                                \/ Enters(c) \/ Approves(c)
         \/ ApprovalQuiet
<1> USE DEF TypeInv, ClaimTypes, storeVars, argVars, localVars
<1> USE PcNames DEF PastCheck
<1>1. ASSUME NEW c \in Claims, StartClaim(c) \/ ClaimStep(c) \/ FailClaim(c)
      PROVE  \/ StartClaim(c) \/ FindExisting(c)
             \/ Enters(c) \/ Approves(c) \/ ApprovalQuiet
  <2>1. CASE FindEvent(c)
    BY <2>1 DEF FindEvent, Goto, ApprovalQuiet
  <2>2. CASE RefuseEvent(c) \/ RefuseExisting(c) \/ RefuseCondition(c)
    BY <2>2, EndApprovalQuiet DEF RefuseEvent, RefuseExisting, RefuseCondition,
                                  Refuse, Ended
  <2>3. CASE ValidateCondition(c)
    <3>1. /\ pc[c] = "validate" /\ pc'[c] \in {"validate", "findUser"}
          /\ \A d \in Claims \ {c} : pc'[d] = pc[d]
          /\ UNCHANGED <<requests, ledger, claimUser, claimEvent>>
      BY <2>3 DEF ValidateCondition, Goto
    <3> QED BY <3>1 DEF ApprovalQuiet
  <2>4. CASE FindUser(c)
    BY <2>4 DEF FindUser, Goto, ApprovalQuiet
  <2>5. CASE Pays(c)
    BY <2>5 DEF Pays, WriteBalance, OthersKeep, Goes, ApprovalQuiet
  <2>6. CASE FailsEmpty(c)
    BY <2>6, EndApprovalQuiet DEF FailsEmpty, Ended
  <2> QED BY <1>1, <2>1, <2>2, <2>3, <2>4, <2>5, <2>6, WriteSteps DEF ClaimStep
<1>2. CASE Crash
  BY <1>2 DEF Crash, ApprovalQuiet, InFlight
<1>3. CASE UNCHANGED <<storeVars, argVars, pc>>
  BY <1>3 DEF ApprovalQuiet
<1>4. ASSUME NEW u \in Users,
             \/ RecordLogin(u) \/ ExpirePlayTime(u)
             \/ \E ms \in PlayTimes : WritePlayTime(u, ms)
      PROVE  UNCHANGED <<storeVars, argVars, pc>>
  BY <1>4 DEF RecordLogin, ExpirePlayTime, WritePlayTime
<1>5. EditCatalog \/ UNCHANGED vars => UNCHANGED <<storeVars, argVars, pc>>
  BY DEF EditCatalog, vars
<1> QED BY <1>1, <1>2, <1>3, <1>4, <1>5 DEF Next

-----------------------------------------------------------------------------
(* Approvals are bounded by the overlap *)

PastOf(k) == {c \in Claims : Key(c) = k /\ pc[c] \in PastCheck}

BoundInv ==
  /\ Cardinality(InFlight) <= MaxInFlight
  /\ \A k \in Keys : requests[k] + Cardinality(PastOf(k)) <= MaxInFlight

LEMMA SmallerSet ==
  ASSUME NEW S, NEW T, S \subseteq T, T \subseteq Claims
  PROVE  /\ IsFiniteSet(S) /\ IsFiniteSet(T)
         /\ Cardinality(S) \in Nat /\ Cardinality(T) \in Nat
         /\ Cardinality(S) <= Cardinality(T)
BY ClaimAssumption, FS_Subset, FS_CardinalityType DEF ClaimAssumption

LEMMA BoundInvInit == Init => BoundInv
<1> SUFFICES ASSUME Init PROVE BoundInv OBVIOUS
<1>1. InFlight = {} /\ \A k \in Keys : PastOf(k) = {}
  BY PcNames DEF Init, InFlight, PastOf, PastCheck
<1>2. \A k \in Keys : requests[k] = 0
  BY DEF Init, Keys
<1>3. Cardinality(InFlight) = 0 /\ \A k \in Keys : Cardinality(PastOf(k)) = 0
  BY <1>1, FS_EmptySet
<1> QED BY <1>2, <1>3, ClaimAssumption DEF BoundInv, ClaimAssumption

LEMMA BoundInvStep == ASSUME TypeInv, BoundInv, [Next]_vars PROVE BoundInv'
<1>0. /\ MaxInFlight \in Nat
      /\ requests \in [Keys -> Nat]
      /\ \A c \in Claims : Key(c) \in Keys
      /\ pc \in [Claims -> ClaimPcs]
  BY ClaimAssumption DEF ClaimAssumption, TypeInv, ClaimTypes, Keys, Key
<1>6. ASSUME InFlight' \subseteq InFlight, requests' = requests,
             \A k \in Keys : PastOf(k)' \subseteq PastOf(k)
      PROVE  BoundInv'
  <2>1. /\ Cardinality(InFlight') <= Cardinality(InFlight)
        /\ Cardinality(InFlight) \in Nat /\ Cardinality(InFlight') \in Nat
    BY <1>6, SmallerSet DEF InFlight
  <2>2. ASSUME NEW k \in Keys
        PROVE  /\ Cardinality(PastOf(k)') <= Cardinality(PastOf(k))
               /\ Cardinality(PastOf(k)) \in Nat /\ Cardinality(PastOf(k)') \in Nat
    BY <1>6, SmallerSet DEF PastOf
  <2> QED BY <1>0, <1>6, <2>1, <2>2 DEF BoundInv
<1>1. ASSUME NEW c \in Claims, StartClaim(c) PROVE BoundInv'
  <2>1. InFlight' = InFlight \cup {c} /\ c \notin InFlight
    BY <1>0, <1>1, PcNames DEF StartClaim, Goto, InFlight
  <2>2. Cardinality(InFlight') = Cardinality(InFlight) + 1
    BY <2>1, SmallerSet, FS_AddElement DEF InFlight
  <2>3. \A k \in Keys : PastOf(k)' = PastOf(k)
    BY <1>0, <1>1, PcNames DEF StartClaim, Goto, PastOf, PastCheck, Key, argVars
  <2>4. requests' = requests /\ Cardinality(InFlight) < MaxInFlight
    BY <1>1 DEF StartClaim, storeVars
  <2>5. Cardinality(InFlight) \in Nat
    BY SmallerSet DEF InFlight
  <2> QED BY <1>0, <2>2, <2>3, <2>4, <2>5 DEF BoundInv
<1>2. ASSUME NEW c \in Claims, FindExisting(c) PROVE BoundInv'
  <2>1. InFlight' = InFlight /\ \A k \in Keys : PastOf(k)' \subseteq InFlight
    BY <1>0, <1>2, PcNames DEF FindExisting, Goto, InFlight, PastOf, PastCheck
  <2>2. \A k \in Keys \ {Key(c)} : PastOf(k)' = PastOf(k)
    BY <1>0, <1>2, PcNames DEF FindExisting, Goto, PastOf, PastCheck, Key, argVars
  <2>3. requests' = requests /\ requests[Key(c)] = 0
    BY <1>0, <1>2 DEF FindExisting, AlreadyRequested, storeVars
  <2>4. Cardinality(PastOf(Key(c))') <= Cardinality(InFlight)
    <3>1. PICK k \in Keys : k = Key(c)
      BY <1>0
    <3>2. Key(c)' = Key(c)
      BY <1>2 DEF FindExisting, Key, argVars
    <3> QED BY <2>1, <3>1, <3>2, SmallerSet DEF InFlight
  <2>5. Key(c)' = Key(c) /\ Key(c) \in Keys
    BY <1>0, <1>2 DEF FindExisting, Key, argVars
  <2>6. Cardinality(InFlight) \in Nat /\ Cardinality(PastOf(Key(c))') \in Nat
    BY SmallerSet, <2>1, <2>5 DEF InFlight
  <2>7. requests'[Key(c)] + Cardinality(PastOf(Key(c))') <= MaxInFlight
    BY <1>0, <2>3, <2>4, <2>6 DEF BoundInv
  <2> QED BY <2>1, <2>2, <2>3, <2>5, <2>7 DEF BoundInv
<1>3. ASSUME NEW c \in Claims, Enters(c) PROVE BoundInv'
  <2>1. InFlight' \subseteq InFlight /\ \A k \in Keys : PastOf(k)' \subseteq PastOf(k)
    BY <1>0, <1>3, PcNames
       DEF Enters, OthersKeep, Goes, InFlight, PastOf, PastCheck, Key
  <2>2. requests' = requests
    BY <1>3 DEF Enters, WriteEntry
  <2> QED BY <1>6, <2>1, <2>2
<1>4. ASSUME NEW c \in Claims, Approves(c) PROVE BoundInv'
  <2> PICK key \in Keys : key = Key(c)
    BY <1>0
  <2>1. c \in PastOf(key)
    BY <1>4, PcNames DEF Approves, Goes, PastOf, PastCheck
  <2>2. /\ InFlight' \subseteq InFlight
        /\ PastOf(key)' = PastOf(key) \ {c}
        /\ \A k \in Keys \ {key} : PastOf(k)' = PastOf(k)
    BY <1>0, <1>4, PcNames
       DEF Approves, OthersKeep, Goes, InFlight, PastOf, PastCheck, Key
  <2>3. requests' = [requests EXCEPT ![key] = requests[key] + 1]
    BY <1>4 DEF Approves, WriteRequest
  <2>4. Cardinality(PastOf(key)') = Cardinality(PastOf(key)) - 1
    <3>1. IsFiniteSet(PastOf(key))
      BY SmallerSet DEF PastOf
    <3> QED BY <2>1, <2>2, <3>1, FS_RemoveElement
  <2>5. Cardinality(InFlight') <= Cardinality(InFlight)
    BY <2>2, SmallerSet DEF InFlight
  <2>6. /\ Cardinality(InFlight') \in Nat /\ Cardinality(InFlight) \in Nat
        /\ Cardinality(PastOf(key)) \in Nat
    BY <2>2, SmallerSet DEF InFlight, PastOf
  <2>7. requests'[key] + Cardinality(PastOf(key)') <= MaxInFlight
    BY <1>0, <2>3, <2>4, <2>6 DEF BoundInv
  <2> QED BY <1>0, <2>2, <2>3, <2>5, <2>6, <2>7 DEF BoundInv
<1>5. CASE ApprovalQuiet
  <2>1. /\ InFlight' \subseteq InFlight
        /\ \A k \in Keys : PastOf(k)' \subseteq PastOf(k)
        /\ requests' = requests
    BY <1>5 DEF ApprovalQuiet, InFlight, PastOf, Key
  <2> QED BY <1>6, <2>1
<1> QED BY <1>1, <1>2, <1>3, <1>4, <1>5, ApprovalSteps

(***************************************************************************)
(* For any number of calls, crashes and failures: a user is approved for   *)
(* one event at most as often as claims overlap.                           *)
(***************************************************************************)
THEOREM ApprovalsAreBounded == Spec => []ApprovalsBounded
<1>1. Init => TypeInv /\ BoundInv
  BY TypeInvInit, BoundInvInit
<1>2. TypeInv /\ BoundInv /\ [Next]_vars => TypeInv' /\ BoundInv'
  BY TypeInvStep, BoundInvStep
<1>3. TypeInv /\ BoundInv => ApprovalsBounded
  <2> SUFFICES ASSUME TypeInv, BoundInv, NEW u \in Users, NEW e \in Events
               PROVE  requests[<<u, e>>] <= MaxInFlight
    BY DEF ApprovalsBounded
  <2>1. PICK k \in Keys : k = <<u, e>>
    BY DEF Keys
  <2>2. Cardinality(PastOf(k)) \in Nat /\ requests[k] \in Nat /\ MaxInFlight \in Nat
    BY SmallerSet, ClaimAssumption
       DEF PastOf, TypeInv, ClaimTypes, Keys, ClaimAssumption
  <2> QED BY <2>1, <2>2 DEF BoundInv
<1> QED BY <1>1, <1>2, <1>3, PTL DEF Spec

-----------------------------------------------------------------------------
(* No payment after an approval *)

\* A late claim stays out of the payment from now on.
Shut(c) == requests[Key(c)] > 0 /\ pc[c] \notin PastCheck

LEMMA ShutStep ==
  ASSUME TypeInv, NEW c \in Claims, Shut(c), [Next]_vars PROVE Shut(c)'
<1>0. Key(c) \in Keys /\ requests \in [Keys -> Nat] /\ pc \in [Claims -> ClaimPcs]
  BY DEF TypeInv, ClaimTypes, Keys, Key
<1>1. ASSUME NEW d \in Claims, StartClaim(d) PROVE Shut(c)'
  BY <1>0, <1>1, PcNames DEF StartClaim, Goto, Shut, PastCheck, Key, storeVars, argVars
<1>2. ASSUME NEW d \in Claims, FindExisting(d) PROVE Shut(c)'
  BY <1>0, <1>2, PcNames
     DEF FindExisting, AlreadyRequested, Goto, Shut, PastCheck, Key, storeVars, argVars
<1>3. ASSUME NEW d \in Claims, Enters(d) PROVE Shut(c)'
  BY <1>0, <1>3, PcNames DEF Enters, WriteEntry, OthersKeep, Goes, Shut, PastCheck, Key
<1>4. ASSUME NEW d \in Claims, Approves(d) PROVE Shut(c)'
  <2> PICK key \in Keys : key = Key(d)
    BY DEF TypeInv, ClaimTypes, Keys, Key
  <2>1. /\ requests' = [requests EXCEPT ![key] = requests[key] + 1]
        /\ Key(c)' = Key(c)
        /\ \E to \in {"approved", "failed"} : pc' = [pc EXCEPT ![d] = to]
    BY <1>4 DEF Approves, WriteRequest, OthersKeep, Goes, Key
  <2> QED BY <1>0, <2>1, PcNames DEF Shut, PastCheck
<1>5. CASE ApprovalQuiet
  BY <1>5 DEF ApprovalQuiet, Shut, Key
<1> QED BY <1>1, <1>2, <1>3, <1>4, <1>5, ApprovalSteps

(***************************************************************************)
(* A claim that has still to look for an existing request when one exists  *)
(* never reaches the payment.                                              *)
(***************************************************************************)
THEOREM ApprovalEndsPayment == Spec => NoPaymentAfterApproval
<1> SUFFICES ASSUME NEW c \in Claims
             PROVE  Spec => [](Late(c) => [](pc[c] \notin Paying))
  BY DEF NoPaymentAfterApproval
<1>1. Late(c) => Shut(c)
  BY PcNames DEF Late, Shut, PastCheck
<1>2. TypeInv /\ Shut(c) /\ [Next]_vars => Shut(c)'
  BY ShutStep
<1>3. Shut(c) => pc[c] \notin Paying
  BY DEF Shut, PastCheck
<1> QED BY <1>1, <1>2, <1>3, TypeInvariant, PTL DEF Spec

-----------------------------------------------------------------------------
(* Every approval has its ledger entry *)

\* Claims whose entry is written and whose request is not.
Writing(k) == {c \in Claims : Key(c) = k /\ pc[c] = "createRequest"}

EntriesAt(k) == {i \in DOMAIN ledger : <<ledger[i].user, ledger[i].event>> = k}

BackedInv ==
  \A k \in Keys : requests[k] + Cardinality(Writing(k)) <= Cardinality(EntriesAt(k))

LEMMA EntriesFinite ==
  ASSUME TypeInv, NEW k
  PROVE  IsFiniteSet(EntriesAt(k)) /\ Cardinality(EntriesAt(k)) \in Nat
<1>1. DOMAIN ledger = 1..Len(ledger) /\ Len(ledger) \in Nat
  BY DEF TypeInv, ClaimTypes
<1>2. IsFiniteSet(DOMAIN ledger)
  BY <1>1, FS_Interval
<1> QED BY <1>2, FS_Subset, FS_CardinalityType DEF EntriesAt

LEMMA BackedInvInit == Init => BackedInv
<1> SUFFICES ASSUME Init PROVE BackedInv OBVIOUS
<1>1. \A k \in Keys : Writing(k) = {} /\ EntriesAt(k) = {}
  BY DEF Init, Writing, EntriesAt
<1>2. \A k \in Keys : Cardinality(Writing(k)) = 0 /\ Cardinality(EntriesAt(k)) = 0
  BY <1>1, FS_EmptySet
<1>3. \A k \in Keys : requests[k] = 0
  BY DEF Init, Keys
<1> QED BY <1>2, <1>3 DEF BackedInv

LEMMA BackedInvStep == ASSUME TypeInv, BackedInv, [Next]_vars PROVE BackedInv'
<1>0. /\ requests \in [Keys -> Nat]
      /\ \A c \in Claims : Key(c) \in Keys
      /\ pc \in [Claims -> ClaimPcs]
      /\ \A k \in Keys : /\ IsFiniteSet(Writing(k))
                         /\ Cardinality(Writing(k)) \in Nat
                         /\ IsFiniteSet(EntriesAt(k))
                         /\ Cardinality(EntriesAt(k)) \in Nat
  <2>1. ASSUME NEW k \in Keys
        PROVE  IsFiniteSet(Writing(k)) /\ Cardinality(Writing(k)) \in Nat
    BY SmallerSet DEF Writing
  <2> QED BY <2>1, EntriesFinite DEF TypeInv, ClaimTypes, Keys, Key
<1>1. ASSUME UNCHANGED <<requests, ledger, claimUser, claimEvent>>,
             \A c \in Claims : pc'[c] = "createRequest" => pc[c] = "createRequest"
      PROVE  BackedInv'
  <2> SUFFICES ASSUME NEW k \in Keys
               PROVE  requests'[k] + Cardinality(Writing(k)') <= Cardinality(EntriesAt(k)')
    BY DEF BackedInv
  <2>1. Writing(k)' \subseteq Writing(k) /\ EntriesAt(k)' = EntriesAt(k)
    BY <1>1 DEF Writing, EntriesAt, Key
  <2>2. /\ Cardinality(Writing(k)') <= Cardinality(Writing(k))
        /\ Cardinality(Writing(k)') \in Nat
    BY <2>1, SmallerSet DEF Writing
  <2> QED BY <1>0, <1>1, <2>1, <2>2 DEF BackedInv
<1>2. ASSUME NEW c \in Claims, StartClaim(c) \/ FindExisting(c) PROVE BackedInv'
  <2>1. /\ UNCHANGED <<requests, ledger, claimUser, claimEvent>>
        /\ \A d \in Claims : pc'[d] = "createRequest" => pc[d] = "createRequest"
    BY <1>0, <1>2 DEF StartClaim, FindExisting, Goto, storeVars, argVars
  <2> QED BY <2>1, <1>1
<1>3. ASSUME NEW c \in Claims, Enters(c) PROVE BackedInv'
  <2> PICK key \in Keys : key = Key(c)
    BY <1>0
  <2>1. /\ Writing(key)' = Writing(key) \/ Writing(key)' = Writing(key) \cup {c}
        /\ c \notin Writing(key)
        /\ \A k \in Keys \ {key} : Writing(k)' = Writing(k)
    BY <1>0, <1>3 DEF Enters, OthersKeep, Goes, Writing, Key
  <2>2. Len(ledger) \in Nat /\ DOMAIN ledger = 1..Len(ledger) /\ ledger \in Seq(Entries)
    BY DEF TypeInv, ClaimTypes
  <2>3. /\ DOMAIN ledger' = 1..(Len(ledger) + 1)
        /\ \A i \in 1..Len(ledger) : ledger'[i] = ledger[i]
        /\ ledger'[Len(ledger) + 1] = EntryOf(c)
    BY <1>3, <2>2 DEF Enters, WriteEntry
  <2>4. /\ EntriesAt(key)' = EntriesAt(key) \cup {Len(ledger) + 1}
        /\ Len(ledger) + 1 \notin EntriesAt(key)
        /\ \A k \in Keys \ {key} : EntriesAt(k)' = EntriesAt(k)
    BY <2>2, <2>3 DEF EntriesAt, EntryOf, Key
  <2>5. /\ Cardinality(Writing(key)') <= Cardinality(Writing(key)) + 1
        /\ Cardinality(Writing(key)') \in Nat
    <3>1. Cardinality(Writing(key) \cup {c}) = Cardinality(Writing(key)) + 1
      BY <1>0, <2>1, FS_AddElement
    <3>2. CASE Writing(key)' = Writing(key)
      BY <1>0, <3>2
    <3>3. CASE Writing(key)' = Writing(key) \cup {c}
      BY <1>0, <3>1, <3>3
    <3> QED BY <2>1, <3>2, <3>3
  <2>6. Cardinality(EntriesAt(key)') = Cardinality(EntriesAt(key)) + 1
    BY <1>0, <2>4, FS_AddElement
  <2>7. requests' = requests
    BY <1>3 DEF Enters, WriteEntry
  <2>8. requests'[key] + Cardinality(Writing(key)') <= Cardinality(EntriesAt(key)')
    BY <1>0, <2>5, <2>6, <2>7 DEF BackedInv
  <2>9. ASSUME NEW k \in Keys \ {key}
        PROVE  requests'[k] + Cardinality(Writing(k)') <= Cardinality(EntriesAt(k)')
    BY <2>1, <2>4, <2>7 DEF BackedInv
  <2> QED BY <2>8, <2>9 DEF BackedInv
<1>4. ASSUME NEW c \in Claims, Approves(c) PROVE BackedInv'
  <2> PICK key \in Keys : key = Key(c)
    BY <1>0
  <2>1. /\ Writing(key)' = Writing(key) \ {c}
        /\ c \in Writing(key)
        /\ \A k \in Keys \ {key} : Writing(k)' = Writing(k)
    BY <1>0, <1>4 DEF Approves, OthersKeep, Goes, Writing, Key
  <2>2. \A k \in Keys : EntriesAt(k)' = EntriesAt(k)
    BY <1>4 DEF Approves, WriteRequest, EntriesAt
  <2>3. Cardinality(Writing(key)') = Cardinality(Writing(key)) - 1
    BY <1>0, <2>1, FS_RemoveElement
  <2>4. requests' = [requests EXCEPT ![key] = requests[key] + 1]
    BY <1>4 DEF Approves, WriteRequest
  <2>5. requests'[key] + Cardinality(Writing(key)') <= Cardinality(EntriesAt(key)')
    BY <1>0, <2>2, <2>3, <2>4 DEF BackedInv
  <2>6. \A k \in Keys \ {key} : requests'[k] = requests[k]
    BY <1>0, <2>4
  <2> QED BY <2>1, <2>2, <2>5, <2>6 DEF BackedInv
<1>5. CASE ApprovalQuiet
  BY <1>1, <1>5 DEF ApprovalQuiet
<1> QED BY <1>2, <1>3, <1>4, <1>5, ApprovalSteps

(***************************************************************************)
(* However claims overlap, fail or crash, a user never has more approved   *)
(* requests for an event than ledger entries for it.                       *)
(***************************************************************************)
THEOREM RequestsAreBacked == Spec => []RequestsBacked
<1>1. Init => TypeInv /\ BackedInv
  BY TypeInvInit, BackedInvInit
<1>2. TypeInv /\ BackedInv /\ [Next]_vars => TypeInv' /\ BackedInv'
  BY TypeInvStep, BackedInvStep
<1>3. TypeInv /\ BackedInv => RequestsBacked
  <2> SUFFICES ASSUME TypeInv, BackedInv, NEW u \in Users, NEW e \in Events
               PROVE  requests[<<u, e>>] <= Cardinality(EntriesFor(u, e))
    BY DEF RequestsBacked
  <2>1. PICK k \in Keys : k = <<u, e>>
    BY DEF Keys
  <2>2. EntriesFor(u, e) = EntriesAt(k)
    BY <2>1 DEF EntriesFor, EntriesAt
  <2>3. Cardinality(Writing(k)) \in Nat /\ requests[k] \in Nat
    BY SmallerSet DEF Writing, TypeInv, ClaimTypes, Keys
  <2>4. Cardinality(EntriesAt(k)) \in Nat
    BY EntriesFinite
  <2> QED BY <2>1, <2>2, <2>3, <2>4 DEF BackedInv
<1> QED BY <1>1, <1>2, <1>3, PTL DEF Spec

-----------------------------------------------------------------------------
(* Sums of rewards *)

(***************************************************************************)
(* Induction over the natural numbers for a set: if it has 0 and, with a   *)
(* number, the next one, it has them all.                                  *)
(***************************************************************************)
LEMMA SetInduction ==
  ASSUME NEW S, 0 \in S, \A n \in Nat : n \in S => n + 1 \in S
  PROVE  Nat \subseteq S
<1> DEFINE T == Nat \ S
           Less == OpToRel(<, Nat)
<1> SUFFICES ASSUME T # {} PROVE FALSE
  OBVIOUS
<1>1. IsWellFoundedOn(Less, Nat)
  BY NatLessThanWellFounded
<1>2. \A x, y \in Nat : y < x => <<y, x>> \in Less
  BY DEF OpToRel
<1> HIDE DEF Less
<1>3. PICK n \in T : \A m \in T : <<m, n>> \notin Less
  <2>1. T \subseteq Nat
    OBVIOUS
  <2> HIDE DEF T
  <2> QED BY <1>1, <2>1, WFMin
<1>4. n # 0 /\ n \in Nat
  OBVIOUS
<1>5. PICK m \in Nat : m < n /\ m + 1 = n
  <2>1. n - 1 \in Nat /\ n - 1 < n /\ n - 1 + 1 = n
    BY <1>4
  <2> QED BY <2>1
<1>6. m \notin T
  BY <1>2, <1>3, <1>4, <1>5
<1> QED BY <1>4, <1>5, <1>6

\* f holds the sums of the first 0, 1, .. n points of the list.
IsSums(f, list, n) ==
  f = [i \in 0..n |-> IF i = 0 THEN 0 ELSE f[i - 1] + list[i].rewardPoint]

LEMMA SumsExist ==
  ASSUME NEW list \in Seq(Rewards)
  PROVE  \E f : IsSums(f, list, Len(list))
<1> DEFINE S == {n \in Nat : \E f : IsSums(f, list, n)}
<1>1. 0 \in S
  <2> DEFINE g == [i \in 0..0 |-> 0]
  <2>1. g = [i \in 0..0 |-> IF i = 0 THEN 0 ELSE g[i - 1] + list[i].rewardPoint]
    OBVIOUS
  <2> HIDE DEF g
  <2>2. IsSums(g, list, 0)
    BY <2>1 DEF IsSums
  <2> QED BY <2>2
<1>2. ASSUME NEW n \in Nat, n \in S PROVE n + 1 \in S
  <2>1. PICK f : IsSums(f, list, n)
    BY <1>2
  <2> DEFINE g == [i \in 0..(n + 1) |->
                     IF i = n + 1 THEN f[n] + list[n + 1].rewardPoint ELSE f[i]]
  <2>2. \A i \in 0..n : g[i] = f[i]
    OBVIOUS
  <2>3. \A i \in 0..n : f[i] = IF i = 0 THEN 0 ELSE f[i - 1] + list[i].rewardPoint
    <3> DEFINE h == [i \in 0..n |-> IF i = 0 THEN 0 ELSE f[i - 1] + list[i].rewardPoint]
    <3>1. f = h
      BY <2>1 DEF IsSums
    <3>2. \A i \in 0..n : h[i] = IF i = 0 THEN 0 ELSE f[i - 1] + list[i].rewardPoint
      OBVIOUS
    <3> HIDE DEF h
    <3> QED BY <3>1, <3>2
  <2>4. \A i \in 0..(n + 1) :
          g[i] = IF i = 0 THEN 0 ELSE g[i - 1] + list[i].rewardPoint
    <3> TAKE i \in 0..(n + 1)
    <3>1. CASE i = n + 1
      <4>1. g[i] = f[n] + list[n + 1].rewardPoint /\ i - 1 = n /\ n \in 0..n /\ i # 0
        BY <3>1
      <4> HIDE DEF g
      <4> QED BY <2>2, <3>1, <4>1
    <3>2. CASE i = 0
      <4>1. i \in 0..n
        BY <3>2
      <4> HIDE DEF g
      <4> QED BY <2>2, <2>3, <3>2, <4>1
    <3>3. CASE i # 0 /\ i # n + 1
      <4>1. i \in 0..n /\ i - 1 \in 0..n
        BY <3>3
      <4> HIDE DEF g
      <4> QED BY <2>2, <2>3, <3>3, <4>1
    <3> QED BY <3>1, <3>2, <3>3
  <2>5. g = [i \in 0..(n + 1) |-> g[i]]
    OBVIOUS
  <2> HIDE DEF g
  <2>6. g = [i \in 0..(n + 1) |-> IF i = 0 THEN 0 ELSE g[i - 1] + list[i].rewardPoint]
    BY <2>4, <2>5, Zenon
  <2>7. IsSums(g, list, n + 1)
    BY <2>6 DEF IsSums
  <2> QED BY <2>7
<1>3. Nat \subseteq S
  <2> HIDE DEF S
  <2> QED BY <1>1, <1>2, SetInduction
<1>4. Len(list) \in Nat
  OBVIOUS
<1> QED BY <1>3, <1>4

(***************************************************************************)
(* What SumOfFirst computes: nothing of an empty prefix, and one reward's  *)
(* points more for one reward more.                                        *)
(***************************************************************************)
LEMMA SumUnfolds ==
  ASSUME NEW list \in Seq(Rewards)
  PROVE  /\ SumOfFirst(0, list) = 0
         /\ \A k \in 0..Len(list) : k + 1 <= Len(list) =>
              SumOfFirst(k + 1, list) = SumOfFirst(k, list) + list[k + 1].rewardPoint
<1> DEFINE f == CHOOSE g : g = [i \in 0..Len(list) |->
                    IF i = 0 THEN 0 ELSE g[i - 1] + list[i].rewardPoint]
<1>1. \A k : SumOfFirst(k, list) = f[k]
  BY DEF SumOfFirst
<1>2. IsSums(f, list, Len(list))
  <2>1. \E g : g = [i \in 0..Len(list) |->
                      IF i = 0 THEN 0 ELSE g[i - 1] + list[i].rewardPoint]
    BY SumsExist DEF IsSums
  <2> QED BY <2>1 DEF IsSums
<1> HIDE DEF f
<1>3. \A i \in 0..Len(list) : f[i] = IF i = 0 THEN 0 ELSE f[i - 1] + list[i].rewardPoint
  <2> DEFINE h == [i \in 0..Len(list) |-> IF i = 0 THEN 0 ELSE f[i - 1] + list[i].rewardPoint]
  <2>1. f = h
    BY <1>2 DEF IsSums
  <2>2. \A i \in 0..Len(list) : h[i] = IF i = 0 THEN 0 ELSE f[i - 1] + list[i].rewardPoint
    OBVIOUS
  <2> HIDE DEF h
  <2> QED BY <2>1, <2>2
<1>4. Len(list) \in Nat
  OBVIOUS
<1>5. f[0] = 0
  BY <1>3, <1>4
<1>6. ASSUME NEW k \in 0..Len(list), k + 1 <= Len(list)
      PROVE  f[k + 1] = f[k] + list[k + 1].rewardPoint
  <2>1. k + 1 \in 0..Len(list) /\ k + 1 # 0 /\ k + 1 - 1 = k
    BY <1>4, <1>6
  <2> QED BY <1>3, <2>1
<1> QED BY <1>1, <1>5, <1>6

-----------------------------------------------------------------------------
(* What is paid comes from the event *)

\* A claim's total is the sum of the rewards it has checked.
TotalsAreSums == \A c \in Claims : total[c] = SumOfFirst(checked[c], rewards[c])

\* Steps that change no sum: each claim keeps its locals or loses them.
SumsQuiet ==
  \A c \in Claims :
    \/ rewards'[c] = rewards[c] /\ checked'[c] = checked[c] /\ total'[c] = total[c]
    \/ rewards'[c] = <<>> /\ checked'[c] = 0 /\ total'[c] = 0

LEMMA EndSumsQuiet ==
  ASSUME TypeInv, NEW c \in Claims, NEW from, NEW outcome, End(c, from, outcome)
  PROVE  SumsQuiet
<1>1. rewards'[c] = <<>> /\ checked'[c] = 0 /\ total'[c] = 0
  BY DEF End, TypeInv, ClaimTypes
<1>2. \A d \in Claims \ {c} :
        rewards'[d] = rewards[d] /\ checked'[d] = checked[d] /\ total'[d] = total[d]
  BY DEF End, TypeInv, ClaimTypes
<1> QED BY <1>1, <1>2 DEF SumsQuiet

LEMMA SumsSteps ==
  ASSUME TypeInv, [Next]_vars
  PROVE  (\E c \in Claims : FindEvent(c) \/ ValidateCondition(c)) \/ SumsQuiet
<1> USE DEF TypeInv, ClaimTypes, localVars
<1>1. ASSUME NEW c \in Claims, StartClaim(c) \/ ClaimStep(c) \/ FailClaim(c)
      PROVE  FindEvent(c) \/ ValidateCondition(c) \/ SumsQuiet
  <2>1. CASE StartClaim(c) \/ FindExisting(c) \/ UpdateBalance(c) \/ CreateTransaction(c)
    BY <2>1 DEF StartClaim, FindExisting, UpdateBalance, CreateTransaction, SumsQuiet
  <2>2. CASE RefuseEvent(c) \/ RefuseExisting(c) \/ RefuseCondition(c)
    BY <2>2, EndSumsQuiet DEF RefuseEvent, RefuseExisting, RefuseCondition, Refuse
  <2>3. CASE FindUser(c)
    BY <2>3 DEF FindUser, SumsQuiet
  <2>4. CASE CreateRequest(c) \/ FailClaim(c)
    BY <2>4, EndSumsQuiet DEF CreateRequest, FailClaim
  <2> QED BY <1>1, <2>1, <2>2, <2>3, <2>4 DEF ClaimStep
<1>2. CASE Crash
  BY <1>2 DEF Crash, SumsQuiet
<1>3. CASE UNCHANGED localVars
  BY <1>3 DEF SumsQuiet
<1>4. ASSUME NEW u \in Users,
             \/ RecordLogin(u) \/ ExpirePlayTime(u)
             \/ \E ms \in PlayTimes : WritePlayTime(u, ms)
      PROVE  UNCHANGED localVars
  BY <1>4 DEF RecordLogin, ExpirePlayTime, WritePlayTime
<1>5. EditCatalog \/ UNCHANGED vars => UNCHANGED localVars
  BY DEF EditCatalog, vars
<1> QED BY <1>1, <1>2, <1>3, <1>4, <1>5 DEF Next

LEMMA SumsInit == Init => TotalsAreSums
<1>1. <<>> \in Seq(Rewards)
  OBVIOUS
<1>2. SumOfFirst(0, <<>>) = 0
  BY <1>1, SumUnfolds
<1> QED BY <1>2 DEF Init, TotalsAreSums

LEMMA SumsStep == ASSUME TypeInv, TotalsAreSums, [Next]_vars PROVE TotalsAreSums'
<1>0. /\ rewards \in [Claims -> Seq(Rewards)]
      /\ checked \in [Claims -> Nat] /\ total \in [Claims -> Nat]
      /\ claimEvent \in [Claims -> Events]
      /\ \A e \in Events : events[e].rewards \in Seq(Rewards)
  BY RewardsType DEF TypeInv, CatalogInv, CatalogTypeOK, ClaimTypes
<1>1. ASSUME NEW c \in Claims, FindEvent(c) PROVE TotalsAreSums'
  <2> PICK list \in Seq(Rewards) : list = events[claimEvent[c]].rewards
    BY <1>0
  <2>1. /\ UNCHANGED <<checked, total>>
        /\ rewards' = [rewards EXCEPT ![c] = list]
        /\ pc[c] = "findEventById"
    BY <1>1 DEF FindEvent, Goto
  <2>2. checked[c] = 0
    BY <2>1 DEF TypeInv, LoopInBounds
  <2>3. SumOfFirst(0, rewards[c]) = 0 /\ SumOfFirst(0, list) = 0
    BY <1>0, SumUnfolds
  <2> QED BY <1>0, <2>1, <2>2, <2>3 DEF TotalsAreSums
<1>2. ASSUME NEW c \in Claims, ValidateCondition(c) PROVE TotalsAreSums'
  <2>1. /\ UNCHANGED rewards
        /\ checked' = [checked EXCEPT ![c] = checked[c] + 1]
        /\ total' = [total EXCEPT ![c] = total[c] + NextReward(c).rewardPoint]
        /\ pc[c] = "validate"
    BY <1>2 DEF ValidateCondition
  <2>2. checked[c] \in 0..Len(rewards[c]) /\ checked[c] + 1 <= Len(rewards[c])
    BY <1>0, <2>1 DEF TypeInv, LoopInBounds
  <2>3. SumOfFirst(checked[c] + 1, rewards[c])
          = SumOfFirst(checked[c], rewards[c]) + NextReward(c).rewardPoint
    BY <1>0, <2>2, SumUnfolds DEF NextReward
  <2>4. total[c] = SumOfFirst(checked[c], rewards[c])
    BY DEF TotalsAreSums
  <2> QED BY <1>0, <2>1, <2>3, <2>4 DEF TotalsAreSums
<1>3. CASE SumsQuiet
  <2>1. <<>> \in Seq(Rewards)
    OBVIOUS
  <2>2. SumOfFirst(0, <<>>) = 0
    BY <2>1, SumUnfolds
  <2> QED BY <1>3, <2>2 DEF SumsQuiet, TotalsAreSums
<1> QED BY <1>1, <1>2, <1>3, SumsSteps

\* Only a claim that enters the ledger makes it longer, by its own entry.
LEMMA LedgerGrowsByEntries ==
  ASSUME TypeInv, [Next]_vars, NEW i \in DOMAIN ledger' \ DOMAIN ledger
  PROVE  \E c \in Claims : Enters(c) /\ ledger'[i] = EntryOf(c)
<1>1. UNCHANGED ledger \/ \E c \in Claims : Enters(c)
  BY ApprovalSteps
     DEF ApprovalQuiet, StartClaim, FindExisting, Approves, WriteRequest, storeVars
<1>2. PICK c \in Claims : Enters(c)
  BY <1>1
<1>3. Len(ledger) \in Nat /\ DOMAIN ledger = 1..Len(ledger) /\ ledger \in Seq(Entries)
  BY DEF TypeInv, ClaimTypes
<1>4. /\ DOMAIN ledger' = 1..(Len(ledger) + 1)
      /\ ledger'[Len(ledger) + 1] = EntryOf(c)
  BY <1>2, <1>3 DEF Enters, WriteEntry
<1> QED BY <1>2, <1>3, <1>4

(***************************************************************************)
(* Whatever claims, edits (overlapping ones that lose rewards included),   *)
(* failures and crashes interleave: every entry that enters the ledger is  *)
(* one claim's, and its amount is the sum of all the rewards that claim    *)
(* has read.                                                               *)
(***************************************************************************)
THEOREM AmountsAreTheEvents == Spec => AmountsComeFromTheEvent
<1>1. Init => TypeInv /\ TotalsAreSums
  BY TypeInvInit, SumsInit
<1>2. TypeInv /\ TotalsAreSums /\ [Next]_vars => TypeInv' /\ TotalsAreSums'
  BY TypeInvStep, SumsStep
<1>3. TypeInv /\ TotalsAreSums /\ [Next]_vars =>
        [\A i \in DOMAIN ledger' \ DOMAIN ledger :
           \E c \in Claims :
             /\ pc[c] = "createTransaction" /\ pc'[c] # "createTransaction"
             /\ ledger'[i].user = claimUser[c] /\ ledger'[i].event = claimEvent[c]
             /\ ledger'[i].amount = WholeTotal(c)]_vars
  <2> SUFFICES ASSUME TypeInv, TotalsAreSums, [Next]_vars,
                      NEW i \in DOMAIN ledger' \ DOMAIN ledger
               PROVE  \E c \in Claims :
                        /\ pc[c] = "createTransaction" /\ pc'[c] # "createTransaction"
                        /\ ledger'[i].user = claimUser[c]
                        /\ ledger'[i].event = claimEvent[c]
                        /\ ledger'[i].amount = WholeTotal(c)
    OBVIOUS
  <2>1. PICK c \in Claims : Enters(c) /\ ledger'[i] = EntryOf(c)
    BY LedgerGrowsByEntries
  <2>2. pc[c] = "createTransaction" /\ pc'[c] # "createTransaction"
    BY <2>1 DEF Enters, Goes, TypeInv, ClaimTypes
  <2>3. checked[c] = Len(rewards[c])
    BY <2>2, PcNames DEF TypeInv, LoopInBounds
  <2>4. total[c] = WholeTotal(c)
    BY <2>3 DEF TotalsAreSums, WholeTotal
  <2> QED BY <2>1, <2>2, <2>4 DEF EntryOf
<1> QED BY <1>1, <1>2, <1>3, PTL DEF Spec, AmountsComeFromTheEvent
=============================================================================
