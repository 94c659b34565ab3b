---------------------- MODULE UndisturbedClaimsProofs ----------------------
(***************************************************************************)
(* Proofs about claims that overlap, fail and crash as they like: what     *)
(* only an overlap of a user's own claims can break; that createRequest    *)
(* implements ClaimOnce and the ledger is a running account for every      *)
(* undisturbed user (UndisturbedClaims); and what a reader of the two      *)
(* listings sees (Listings).                                               *)
(***************************************************************************)
EXTENDS Listings, RewardClaimProofs

-----------------------------------------------------------------------------
(* The history variables *)

\* The claims of a user who never had two past the look-up.
Alone ==
  \A u \in Users : Crosses(u) => u \in crossed

HistoryTypes == crossed \subseteq Users /\ cut \subseteq Users

\* What the history says of a step.
Remembered ==
  /\ HistoryTypes' /\ crossed \subseteq crossed' /\ cut \subseteq cut'
  /\ Alone'
  /\ \A c \in Claims : BreaksOff(c) => claimUser[c] \in cut'

LEMMA AloneInit == RememberedInit => Alone /\ HistoryTypes
<1> SUFFICES ASSUME RememberedInit PROVE Alone /\ HistoryTypes OBVIOUS
<1>1. \A c \in Claims : pc[c] = "idle"
  BY DEF RememberedInit, Init
<1>2. "idle" \notin PastLookup
  BY PcNames DEF PastLookup
<1> QED BY <1>1, <1>2 DEF RememberedInit, Alone, Crosses, HistoryTypes

LEMMA StepRemembered ==
  ASSUME TypeInv, Alone, HistoryTypes, [RememberedNext]_<<vars, historyVars>>
  PROVE  [Next]_vars /\ Remembered
<1>1. CASE RememberedNext
  <2>1. /\ crossed' = crossed \cup {u \in Users : Crosses(u)'}
        /\ cut' = cut \cup {claimUser[c] : c \in {d \in Claims : BreaksOff(d)}}
    BY <1>1 DEF RememberedNext, Remember
  <2>2. Alone'
    BY <2>1 DEF Alone
  <2>3. \A c \in Claims : claimUser[c] \in Users
    BY DEF TypeInv, ClaimTypes
  <2> QED BY <1>1, <2>1, <2>2, <2>3 DEF RememberedNext, Remembered, HistoryTypes
<1>2. CASE UNCHANGED <<vars, historyVars>>
  <2>1. UNCHANGED <<pc, claimUser, crossed, cut>>
    BY <1>2 DEF vars, historyVars, argVars
  <2>2. Alone'
    BY <2>1 DEF Alone, Crosses
  <2>3. \A c \in Claims : ~BreaksOff(c)
    BY <2>1 DEF BreaksOff, Writes
  <2> QED BY <1>2, <2>1, <2>2, <2>3 DEF Remembered, HistoryTypes
<1> QED BY <1>1, <1>2

\* Two claims of one user past the look-up: the user is crossed.
LEMMA TwoCross ==
  ASSUME Alone, NEW c \in Claims, NEW d \in Claims, c # d, claimUser[c] = claimUser[d],
         claimUser[c] \in Users, pc[c] \in PastLookup, pc[d] \in PastLookup
  PROVE  claimUser[c] \in crossed
BY DEF Alone, Crosses

-----------------------------------------------------------------------------
(* What only an overlap can cost *)

\* A claim past the look-up is its user's only one, and there is no request yet.
FirstAsked ==
  \A c \in Claims :
    pc[c] \in PastLookup /\ claimUser[c] \notin crossed => requests[Key(c)] = 0

LEMMA TwiceStep ==
  ASSUME TypeInv, Alone, TwiceOnlyByOverlap, FirstAsked, [Next]_vars,
         crossed \subseteq crossed'
  PROVE  TwiceOnlyByOverlap' /\ FirstAsked'
<1>0. /\ requests \in [Keys -> Nat] /\ pc \in [Claims -> ClaimPcs]
      /\ \A c \in Claims : Key(c) \in Keys /\ claimUser[c] \in Users
      /\ PastCheck = PastLookup
  BY DEF TypeInv, ClaimTypes, Keys, Key, PastCheck, PastLookup
<1>1. ASSUME UNCHANGED <<requests, claimUser, claimEvent>>,
             \A d \in Claims : pc'[d] \in PastLookup =>
               pc[d] \in PastLookup \/ requests[Key(d)] = 0
      PROVE  TwiceOnlyByOverlap' /\ FirstAsked'
  BY <1>1 DEF TwiceOnlyByOverlap, FirstAsked, Key
<1>2. ASSUME NEW c \in Claims, StartClaim(c) PROVE TwiceOnlyByOverlap' /\ FirstAsked'
  <2>1. /\ UNCHANGED <<requests, claimUser, claimEvent>>
        /\ \A d \in Claims : pc'[d] = pc[d] \/ pc'[d] = "findEventById"
    BY <1>0, <1>2 DEF StartClaim, Goto, storeVars, argVars
  <2>2. "findEventById" \notin PastLookup
    BY PcNames DEF PastLookup
  <2> QED BY <1>1, <2>1, <2>2
<1>3. ASSUME NEW c \in Claims, FindExisting(c) PROVE TwiceOnlyByOverlap' /\ FirstAsked'
  <2>1. /\ UNCHANGED <<requests, claimUser, claimEvent>>
        /\ \A d \in Claims : pc'[d] = pc[d] \/ d = c
        /\ requests[Key(c)] = 0
    BY <1>0, <1>3 DEF FindExisting, AlreadyRequested, Goto, storeVars, argVars
  <2> QED BY <1>1, <2>1
<1>4. ASSUME NEW c \in Claims, Enters(c) PROVE TwiceOnlyByOverlap' /\ FirstAsked'
  <2>1. /\ UNCHANGED <<requests, claimUser, claimEvent>>
        /\ \A d \in Claims : pc'[d] = pc[d] \/ d = c
        /\ pc[c] = "createTransaction"
    BY <1>4 DEF Enters, WriteEntry, OthersKeep, Goes
  <2>2. "createTransaction" \in PastLookup
    BY PcNames DEF PastLookup
  <2> QED BY <1>1, <2>1, <2>2
<1>5. ASSUME NEW c \in Claims, Approves(c) PROVE TwiceOnlyByOverlap' /\ FirstAsked'
  <2> PICK key \in Keys : key = Key(c)
    BY <1>0
  <2>1. /\ UNCHANGED <<claimUser, claimEvent>>
        /\ requests' = [requests EXCEPT ![key] = requests[key] + 1]
        /\ \A d \in Claims \ {c} : pc'[d] = pc[d]
        /\ pc[c] = "createRequest" /\ pc'[c] \in {"approved", "failed"}
    BY <1>0, <1>5 DEF Approves, WriteRequest, OthersKeep, Goes
  <2>2. /\ "createRequest" \in PastLookup /\ "approved" \notin PastLookup
        /\ "failed" \notin PastLookup
    BY PcNames DEF PastLookup
  <2>3. key[1] = claimUser[c]
    BY DEF Key
  <2>4. key[1] \notin crossed => requests[key] = 0
    BY <2>1, <2>2, <2>3 DEF FirstAsked
  <2>5. TwiceOnlyByOverlap'
    <3> SUFFICES ASSUME NEW u \in Users, u \notin crossed', NEW e \in Events
                 PROVE  requests'[<<u, e>>] <= 1
      BY DEF TwiceOnlyByOverlap
    <3>1. PICK k \in Keys : k = <<u, e>>
      BY DEF Keys
    <3>2. requests[k] <= 1 /\ requests[k] \in Nat
      BY <1>0, <3>1 DEF TwiceOnlyByOverlap
    <3>3. CASE k = key
      BY <1>0, <2>1, <2>4, <3>1, <3>3
    <3>4. CASE k # key
      BY <1>0, <2>1, <3>1, <3>2, <3>4
    <3> QED BY <3>3, <3>4
  <2>6. FirstAsked'
    <3> SUFFICES ASSUME NEW d \in Claims, pc'[d] \in PastLookup, claimUser[d] \notin crossed'
                 PROVE  requests'[Key(d)] = 0
      BY <2>1 DEF FirstAsked, Key
    <3>1. d # c /\ pc[d] \in PastLookup
      BY <2>1, <2>2
    <3>2. claimUser[d] # claimUser[c]
      BY <1>0, <2>1, <2>2, <3>1, TwoCross
    <3>3. Key(d) # key
      BY <3>2 DEF Key
    <3>4. requests[Key(d)] = 0
      BY <3>1 DEF FirstAsked
    <3>5. PICK k \in Keys : k = Key(d)
      BY <1>0
    <3> QED BY <1>0, <2>1, <3>3, <3>4, <3>5
  <2> QED BY <2>5, <2>6
<1>6. CASE ApprovalQuiet
  BY <1>0, <1>1, <1>6 DEF ApprovalQuiet
<1> QED BY <1>2, <1>3, <1>4, <1>5, <1>6, ApprovalSteps

\* A balance about to be written by an uncrossed user's claim is as it was read.
ReadsAreFresh ==
  \A c \in Claims :
    pc[c] = "updateBalance" /\ claimUser[c] \notin crossed =>
      newBalance[c] = balance[claimUser[c]] + total[c]

LEMMA FreshStep ==
  ASSUME TypeInv, Alone, PointsLostOnlyByOverlap, ReadsAreFresh, [Next]_vars,
         crossed \subseteq crossed'
  PROVE  PointsLostOnlyByOverlap' /\ ReadsAreFresh'
<1>t. /\ balance \in [Users -> Nat] /\ paid \in [Users -> Nat]
      /\ newBalance \in [Claims -> Nat] /\ total \in [Claims -> Nat]
      /\ claimUser \in [Claims -> Users] /\ pc \in [Claims -> ClaimPcs]
  BY DEF TypeInv, ClaimTypes
<1>1. ASSUME NEW c \in Claims, FindUser(c) PROVE PointsLostOnlyByOverlap' /\ ReadsAreFresh'
  <2>1. /\ UNCHANGED <<balance, paid, claimUser, total>>
        /\ newBalance' = [newBalance EXCEPT ![c] = balance[claimUser[c]] + total[c]]
        /\ pc' = [pc EXCEPT ![c] = "updateBalance"]
    BY <1>1 DEF FindUser, Goto, NewBalance, storeVars, argVars
  <2> QED BY <1>t, <2>1 DEF PointsLostOnlyByOverlap, ReadsAreFresh
<1>2. ASSUME NEW c \in Claims, Pays(c) PROVE PointsLostOnlyByOverlap' /\ ReadsAreFresh'
  <2>1. PICK v \in Users : v = claimUser[c]
    BY <1>t
  <2>2. /\ UNCHANGED claimUser
        /\ balance' = [balance EXCEPT ![v] = newBalance[c]]
        /\ paid' = [paid EXCEPT ![v] = paid[v] + total[c]]
        /\ pc[c] = "updateBalance" /\ pc'[c] # "updateBalance"
        /\ \A d \in Claims \ {c} :
             pc'[d] = pc[d] /\ newBalance'[d] = newBalance[d] /\ total'[d] = total[d]
    BY <1>2, <1>t, <2>1 DEF Pays, WriteBalance, OthersKeep, Goes
  <2>3. v \notin crossed => newBalance[c] = paid[v] + total[c]
    BY <2>1, <2>2 DEF PointsLostOnlyByOverlap, ReadsAreFresh
  <2>4. PointsLostOnlyByOverlap'
    BY <1>t, <2>2, <2>3 DEF PointsLostOnlyByOverlap
  <2>5. ReadsAreFresh'
    <3> SUFFICES ASSUME NEW d \in Claims, pc'[d] = "updateBalance",
                        claimUser[d] \notin crossed'
                 PROVE  newBalance'[d] = balance'[claimUser[d]] + total'[d]
      BY <2>2 DEF ReadsAreFresh
    <3>1. d # c /\ pc[d] = "updateBalance"
      BY <2>2
    <3>2. "updateBalance" \in PastLookup
      BY PcNames DEF PastLookup
    <3>3. claimUser[d] # v
      BY <1>t, <2>1, <2>2, <3>1, <3>2, TwoCross
    <3> QED BY <1>t, <2>2, <3>1, <3>3 DEF ReadsAreFresh
  <2> QED BY <2>4, <2>5
<1>3. CASE BalanceQuiet
  BY <1>3 DEF BalanceQuiet, PointsLostOnlyByOverlap, ReadsAreFresh
<1> QED BY <1>1, <1>2, <1>3, BalanceSteps

OverlapInv ==
  /\ TypeInv /\ Alone /\ HistoryTypes
  /\ TwiceOnlyByOverlap /\ FirstAsked
  /\ PointsLostOnlyByOverlap /\ ReadsAreFresh

LEMMA OverlapInvInit == RememberedInit => OverlapInv
<1> SUFFICES ASSUME RememberedInit PROVE OverlapInv OBVIOUS
<1>1. Init BY DEF RememberedInit
<1>2. \A c \in Claims : pc[c] = "idle"
  BY <1>1 DEF Init
<1>3. "idle" \notin PastLookup
  BY PcNames DEF PastLookup
<1>4. \A u \in Users, e \in Events : requests[<<u, e>>] = 0
  BY <1>1 DEF Init
<1>5. TwiceOnlyByOverlap /\ FirstAsked /\ ReadsAreFresh
  BY <1>2, <1>3, <1>4 DEF TwiceOnlyByOverlap, FirstAsked, ReadsAreFresh
<1>6. PointsLostOnlyByOverlap
  BY <1>1 DEF Init, PointsLostOnlyByOverlap
<1> QED BY <1>1, <1>5, <1>6, TypeInvInit, AloneInit DEF OverlapInv

LEMMA OverlapInvStep ==
  ASSUME OverlapInv, [RememberedNext]_<<vars, historyVars>> PROVE OverlapInv'
<1>1. [Next]_vars /\ Remembered
  BY StepRemembered DEF OverlapInv
<1>2. TypeInv' /\ Alone' /\ HistoryTypes'
  BY <1>1, TypeInvStep DEF OverlapInv, Remembered
<1>3. TwiceOnlyByOverlap' /\ FirstAsked'
  BY <1>1, TwiceStep DEF OverlapInv, Remembered
<1>4. PointsLostOnlyByOverlap' /\ ReadsAreFresh'
  BY <1>1, FreshStep DEF OverlapInv, Remembered
<1> QED BY <1>2, <1>3, <1>4 DEF OverlapInv

(***************************************************************************)
(* Failed calls, crashes, retries and other users' claims never approve a  *)
(* user twice for an event: two of the user's own claims have to be past   *)
(* the look-up at once, for any number of users, events and claims         *)
(* (request.service.ts:43-53, 90-95).                                      *)
(***************************************************************************)
THEOREM ApprovedTwiceOnlyByOverlap == RememberedSpec => []TwiceOnlyByOverlap
<1>1. OverlapInv => TwiceOnlyByOverlap
  BY DEF OverlapInv
<1> QED BY OverlapInvInit, OverlapInvStep, <1>1, PTL DEF RememberedSpec

(***************************************************************************)
(* The other side of BalanceNotInflated: points are lost only when two of  *)
(* a user's own claims overlap, however often claims break off between     *)
(* their writes or the service crashes (request.service.ts:69-75).         *)
(***************************************************************************)
THEOREM LostOnlyByOverlap == RememberedSpec => []PointsLostOnlyByOverlap
<1>1. OverlapInv => PointsLostOnlyByOverlap
  BY DEF OverlapInv
<1> QED BY OverlapInvInit, OverlapInvStep, <1>1, PTL DEF RememberedSpec

-----------------------------------------------------------------------------
(* The steps, seen by one user *)

Touches(c) == FindUser(c) \/ Pays(c) \/ Enters(c) \/ Approves(c)

\* Steps that neither read nor write a balance, an entry or a request.
WritesQuiet ==
  /\ UNCHANGED <<balance, ledger, requests, claimUser, claimEvent>>
  /\ \A c \in Claims : pc[c] \in Writes \/ pc'[c] \in Writes =>
       \/ pc'[c] = pc[c] /\ newBalance'[c] = newBalance[c] /\ total'[c] = total[c]
       \/ BreaksOff(c)

LEMMA WritingSteps ==
  ASSUME TypeInv, [Next]_vars
  PROVE  (\E c \in Claims : Touches(c)) \/ WritesQuiet
<1> USE DEF TypeInv, ClaimTypes, storeVars, argVars, localVars, Writes
<1>1. ASSUME NEW c \in Claims, StartClaim(c) \/ ClaimStep(c) \/ FailClaim(c)
      PROVE  Touches(c) \/ WritesQuiet
  <2>1. CASE StartClaim(c) \/ FindExisting(c)
    BY <2>1 DEF StartClaim, FindExisting, Goto, WritesQuiet
  <2>2. CASE FindEvent(c)
    BY <2>2 DEF FindEvent, Goto, WritesQuiet
  <2>3. ASSUME NEW from, NEW outcome, End(c, from, outcome),
               outcome \notin Writes,
               from \in Writes => outcome \in {"payFailed", "failed"},
               UNCHANGED <<balance, ledger, requests, claimUser, claimEvent>>
        PROVE  WritesQuiet
    <3>1. /\ pc[c] = from /\ pc'[c] = outcome
          /\ \A d \in Claims \ {c} : /\ pc'[d] = pc[d] /\ newBalance'[d] = newBalance[d]
                                     /\ total'[d] = total[d]
      BY <2>3 DEF End, Goto
    <3> QED BY <2>3, <3>1 DEF WritesQuiet, BreaksOff
  <2>4. CASE RefuseEvent(c) \/ RefuseExisting(c) \/ RefuseCondition(c)
    <3>1. PICK from \in {"findEventById", "findExisting", "validate"},
               outcome \in {"badRequest", "alreadyRequested", "conditionNotMet"} :
             Refuse(c, from, outcome)
      BY <2>4 DEF RefuseEvent, RefuseExisting, RefuseCondition
    <3> QED BY <2>3, <3>1 DEF Refuse
  <2>5. CASE ValidateCondition(c)
    <3>1. /\ pc[c] = "validate" /\ pc'[c] \in {"validate", "findUser"}
          /\ \A d \in Claims \ {c} : /\ pc'[d] = pc[d] /\ newBalance'[d] = newBalance[d]
                                     /\ total'[d] = total[d]
          /\ UNCHANGED <<balance, ledger, requests, claimUser, claimEvent>>
      BY <2>5 DEF ValidateCondition, Goto
    <3> QED BY <3>1 DEF WritesQuiet
  <2>6. CASE FailsEmpty(c)
    BY <2>3, <2>6 DEF FailsEmpty
  <2> QED BY <1>1, <2>1, <2>2, <2>4, <2>5, <2>6, WriteSteps DEF ClaimStep, Touches
<1>2. CASE Crash
  <2>1. \A c \in Claims : pc'[c] = IF pc[c] \in Running THEN "lost" ELSE pc[c]
    BY <1>2 DEF Crash, InFlight
  <2>2. Writes \subseteq Running
    BY PcNames
  <2>3. UNCHANGED <<balance, ledger, requests, claimUser, claimEvent>>
    BY <1>2 DEF Crash
  <2> QED BY <2>1, <2>2, <2>3 DEF WritesQuiet, BreaksOff
<1>3. CASE UNCHANGED <<storeVars, argVars, pc, localVars>>
  BY <1>3 DEF WritesQuiet
<1>4. ASSUME NEW u \in Users,
             \/ RecordLogin(u) \/ ExpirePlayTime(u)
             \/ \E ms \in PlayTimes : WritePlayTime(u, ms)
      PROVE  UNCHANGED <<storeVars, argVars, pc, localVars>>
  BY <1>4 DEF RecordLogin, ExpirePlayTime, WritePlayTime
<1>5. EditCatalog \/ UNCHANGED vars => UNCHANGED <<storeVars, argVars, pc, localVars>>
  BY DEF EditCatalog, vars
<1> QED BY <1>1, <1>2, <1>3, <1>4, <1>5 DEF Next

\* A step that is none of the user's concern.
ForeignTo(u) ==
  /\ balance'[u] = balance[u]
  /\ \A e \in Events : requests'[<<u, e>>] = requests[<<u, e>>]
  /\ EntriesOf(u)' = EntriesOf(u)
  /\ \A i \in EntriesOf(u) : ledger'[i] = ledger[i]
  /\ \A c \in Claims :
       /\ claimUser'[c] = claimUser[c] /\ claimEvent'[c] = claimEvent[c]
       /\ claimUser[c] = u /\ (pc[c] \in Writes \/ pc'[c] \in Writes) =>
            pc'[c] = pc[c] /\ newBalance'[c] = newBalance[c] /\ total'[c] = total[c]

\* An entry appended to the ledger: who has it, and what it leaves alone.
LEMMA AppendedEntry ==
  ASSUME TypeInv, NEW c \in Claims, NEW v \in Users, claimUser[c] = v, Enters(c),
         NEW n \in Nat, n = Len(ledger) + 1
  PROVE  /\ n \in DOMAIN ledger' /\ DOMAIN ledger' = DOMAIN ledger \cup {n}
         /\ \A i \in DOMAIN ledger : i \in Nat /\ i < n /\ ledger'[i] = ledger[i]
         /\ ledger'[n] = EntryOf(c) /\ ledger'[n].user = v
<1>1. Len(ledger) \in Nat /\ DOMAIN ledger = 1..Len(ledger) /\ ledger \in Seq(Entries)
  BY DEF TypeInv, ClaimTypes
<1>2. /\ DOMAIN ledger' = 1..n
      /\ \A i \in 1..Len(ledger) : ledger'[i] = ledger[i]
      /\ ledger'[n] = EntryOf(c)
  BY <1>1 DEF Enters, WriteEntry
<1>3. ledger'[n].user = v
  BY <1>2 DEF EntryOf
<1>4. DOMAIN ledger' = DOMAIN ledger \cup {n} /\ \A i \in DOMAIN ledger : i \in Nat /\ i < n
  <2>1. 1..n = 1..Len(ledger) \cup {n} /\ n \in Nat
    BY <1>1
  <2> QED BY <1>1, <1>2, <2>1
<1> QED BY <1>1, <1>2, <1>3, <1>4

LEMMA OthersForeign ==
  ASSUME TypeInv, NEW c \in Claims, Touches(c), NEW u \in Users, u # claimUser[c]
  PROVE  ForeignTo(u)
<1>t. /\ balance \in [Users -> Nat] /\ requests \in [Keys -> Nat]
      /\ claimUser \in [Claims -> Users] /\ pc \in [Claims -> ClaimPcs]
      /\ Key(c) \in Keys /\ newBalance \in [Claims -> Nat] /\ total \in [Claims -> Nat]
  BY DEF TypeInv, ClaimTypes, Keys, Key
<1>1. /\ UNCHANGED <<claimUser, claimEvent>>
      /\ \A d \in Claims \ {c} :
           pc'[d] = pc[d] /\ newBalance'[d] = newBalance[d] /\ total'[d] = total[d]
  BY <1>t DEF Touches, FindUser, Goto, argVars, Pays, Enters, Approves, OthersKeep
<1>2. balance'[u] = balance[u]
  BY <1>t DEF Touches, FindUser, storeVars, Pays, WriteBalance, Enters, WriteEntry,
              Approves, WriteRequest
<1>3. \A e \in Events : requests'[<<u, e>>] = requests[<<u, e>>]
  <2>1. CASE Approves(c)
    <3> SUFFICES ASSUME NEW e \in Events PROVE requests'[<<u, e>>] = requests[<<u, e>>]
      OBVIOUS
    <3>1. <<u, e>> \in Keys /\ <<u, e>> # Key(c)
      BY DEF Keys, Key
    <3> QED BY <1>t, <2>1, <3>1 DEF Approves, WriteRequest
  <2>2. ~Approves(c) => requests' = requests
    BY DEF Touches, FindUser, storeVars, Pays, WriteBalance, Enters, WriteEntry
  <2> QED BY <2>1, <2>2
<1>4. EntriesOf(u)' = EntriesOf(u) /\ \A i \in EntriesOf(u) : ledger'[i] = ledger[i]
  <2>1. CASE Enters(c)
    <3>1. PICK v \in Users, n \in Nat : v = claimUser[c] /\ n = Len(ledger) + 1
      BY DEF TypeInv, ClaimTypes
    <3>2. /\ n \in DOMAIN ledger' /\ DOMAIN ledger' = DOMAIN ledger \cup {n}
          /\ \A i \in DOMAIN ledger : i \in Nat /\ i < n /\ ledger'[i] = ledger[i]
          /\ ledger'[n].user = v
      BY <2>1, <3>1, AppendedEntry
    <3> QED BY <3>1, <3>2 DEF EntriesOf
  <2>2. ~Enters(c) => ledger' = ledger
    BY DEF Touches, FindUser, storeVars, Pays, WriteBalance, Approves, WriteRequest
  <2>3. CASE ledger' = ledger
    BY <2>3 DEF EntriesOf
  <2> QED BY <2>1, <2>2, <2>3
<1> QED BY <1>1, <1>2, <1>3, <1>4 DEF ForeignTo

LEMMA QuietForeign ==
  ASSUME WritesQuiet, Remembered, NEW u \in Users, u \notin disturbed'
  PROVE  ForeignTo(u)
<1>1. UNCHANGED <<balance, ledger, requests, claimUser, claimEvent>>
  BY DEF WritesQuiet
<1>2. \A c \in Claims : claimUser[c] = u => ~BreaksOff(c)
  BY DEF Remembered, disturbed
<1>3. EntriesOf(u)' = EntriesOf(u)
  BY <1>1 DEF EntriesOf
<1> QED BY <1>1, <1>2, <1>3 DEF WritesQuiet, ForeignTo

-----------------------------------------------------------------------------
(***************************************************************************)
(* The account of one user.  Between claims the balance is the             *)
(* balanceAfter of the user's last entry; a claim on its way to the ledger *)
(* carries that balance plus its own amount.  Every entry has its request, *)
(* or the claim that writes it now, and that claim has its entry.          *)
(***************************************************************************)
LastEntry(u, j) == j \in EntriesOf(u) /\ \A k \in EntriesOf(u) : k <= j

Settled(u, b) ==
  \/ EntriesOf(u) = {} /\ b = 0
  \/ \E j \in EntriesOf(u) : LastEntry(u, j) /\ b = ledger[j].balanceAfter

Recorded(u) == \A c \in Claims : pc[c] = "createTransaction" => claimUser[c] # u

BalanceSettled(u) == Recorded(u) => Settled(u, balance[u])

CarriedBalances(u) ==
  \A c \in Claims : claimUser[c] = u =>
    /\ pc[c] = "updateBalance" => newBalance[c] = balance[u] + total[c]
    /\ pc[c] = "createTransaction" =>
         /\ newBalance[c] = balance[u]
         /\ \E b \in Nat : Settled(u, b) /\ newBalance[c] = b + total[c]

Runs(i) ==
  \/ Before(i) = {} /\ ledger[i].balanceAfter = ledger[i].amount
  \/ \E j \in Before(i) :
       /\ \A k \in Before(i) : k <= j
       /\ ledger[i].balanceAfter = ledger[j].balanceAfter + ledger[i].amount

LedgerRuns(u) == \A i \in EntriesOf(u) : Runs(i)

EntriesAnswered(u) ==
  \A i \in EntriesOf(u), k \in Keys : k = <<u, ledger[i].event>> =>
    \/ requests[k] > 0
    \/ \E c \in Claims : pc[c] = "createRequest" /\ Key(c) = k

WritersEntered(u) ==
  \A c \in Claims : pc[c] = "createRequest" /\ claimUser[c] = u =>
    \E i \in EntriesOf(u) : ledger[i].event = claimEvent[c]

Account(u) ==
  /\ BalanceSettled(u) /\ CarriedBalances(u) /\ LedgerRuns(u)
  /\ EntriesAnswered(u) /\ WritersEntered(u)

LEMMA ForeignLedger ==
  ASSUME NEW u \in Users, ForeignTo(u)
  PROVE  /\ \A b : Settled(u, b)' <=> Settled(u, b)
         /\ LedgerRuns(u)' <=> LedgerRuns(u)
<1>1. EntriesOf(u)' = EntriesOf(u) /\ \A i \in EntriesOf(u) : ledger'[i] = ledger[i]
  BY DEF ForeignTo
<1>2. \A b : Settled(u, b)' <=> Settled(u, b)
  BY <1>1 DEF Settled, LastEntry
<1>3. ASSUME NEW i \in EntriesOf(u) PROVE Runs(i)' <=> Runs(i)
  <2>1. ledger[i].user = u /\ ledger'[i] = ledger[i]
    BY <1>1, <1>3 DEF EntriesOf
  <2>2. Before(i) = {j \in EntriesOf(u) : j < i} /\ Before(i)' = Before(i)
    BY <1>1, <2>1 DEF Before
  <2> QED BY <1>1, <2>1, <2>2 DEF Runs
<1> QED BY <1>1, <1>2, <1>3 DEF LedgerRuns

LEMMA ForeignAccount ==
  ASSUME NEW u \in Users, ForeignTo(u), Account(u) PROVE Account(u)'
<1> USE DEF Account
<1>1. /\ balance'[u] = balance[u]
      /\ \A c \in Claims :
           /\ claimUser'[c] = claimUser[c] /\ claimEvent'[c] = claimEvent[c]
           /\ claimUser[c] = u /\ (pc[c] \in Writes \/ pc'[c] \in Writes) =>
                pc'[c] = pc[c] /\ newBalance'[c] = newBalance[c] /\ total'[c] = total[c]
  BY DEF ForeignTo
<1>2. Recorded(u)' => Recorded(u)
  BY <1>1 DEF Recorded, Writes
<1>3. BalanceSettled(u)'
  BY <1>1, <1>2, ForeignLedger DEF BalanceSettled
<1>4. CarriedBalances(u)'
  BY <1>1, ForeignLedger DEF CarriedBalances, Writes
<1>5. EntriesOf(u)' = EntriesOf(u) /\ \A i \in EntriesOf(u) : ledger'[i] = ledger[i]
  BY DEF ForeignTo
<1>6. EntriesAnswered(u)'
  <2> SUFFICES ASSUME NEW i \in EntriesOf(u), NEW k \in Keys, k = <<u, ledger[i].event>>,
                      ~(requests'[k] > 0)
               PROVE  \E c \in Claims : pc'[c] = "createRequest" /\ Key(c)' = k
    BY <1>5 DEF EntriesAnswered
  <2>1. requests'[k] = requests[k]
    BY DEF ForeignTo, Keys
  <2>2. PICK c \in Claims : pc[c] = "createRequest" /\ Key(c) = k
    BY <2>1 DEF EntriesAnswered
  <2>3. claimUser[c] = u
    BY <2>2 DEF Key
  <2> QED BY <1>1, <2>2, <2>3 DEF Key, Writes
<1>7. WritersEntered(u)'
  BY <1>1, <1>5 DEF WritersEntered, Writes
<1> QED BY <1>3, <1>4, <1>6, <1>7, ForeignLedger

\* A step of the user's own claim, the user staying undisturbed: the claim goes
\* on, and it is the only one past the look-up.
LEMMA OwnStep ==
  ASSUME TypeInv, Alone, Remembered, NEW c \in Claims, NEW u \in Users, claimUser[c] = u,
         u \notin disturbed', Touches(c)
  PROVE  /\ claimUser' = claimUser /\ claimEvent' = claimEvent
         /\ \A d \in Claims : d # c => pc'[d] = pc[d]
         /\ \A d \in Claims : d # c /\ claimUser[d] = u =>
              pc[d] \notin Writes \cup {"findUser"}
         /\ FindUser(c) => pc'[c] = "updateBalance"
         /\ Pays(c) => pc[c] = "updateBalance" /\ pc'[c] = "createTransaction"
         /\ Enters(c) => pc[c] = "createTransaction" /\ pc'[c] = "createRequest"
         /\ Approves(c) => pc[c] = "createRequest" /\ pc'[c] = "approved"
         /\ pc[c] \in Writes \cup {"findUser"}
<1>t. pc \in [Claims -> ClaimPcs]
  BY DEF TypeInv, ClaimTypes
<1>0. u \notin crossed /\ u \notin cut' /\ ~BreaksOff(c)
  BY DEF Remembered, disturbed
<1>1. pc[c] \in Writes \cup {"findUser"}
  BY DEF Touches, FindUser, Goto, Pays, Enters, Approves, Goes, Writes
<1>2. Writes \cup {"findUser"} \subseteq PastLookup
  BY PcNames DEF Writes, PastLookup
<1>3. \A d \in Claims : d # c /\ claimUser[d] = u => pc[d] \notin Writes \cup {"findUser"}
  BY <1>0, <1>1, <1>2, TwoCross
<1>4. /\ claimUser' = claimUser /\ claimEvent' = claimEvent
      /\ \A d \in Claims : d # c => pc'[d] = pc[d]
  BY <1>t DEF Touches, FindUser, Goto, argVars, Pays, Enters, Approves, OthersKeep
<1>5. FindUser(c) => pc'[c] = "updateBalance"
  BY <1>t DEF FindUser, Goto
<1>6. Pays(c) => pc[c] = "updateBalance" /\ pc'[c] = "createTransaction"
  BY <1>0, <1>t DEF Pays, Goes, BreaksOff, Writes
<1>7. Enters(c) => pc[c] = "createTransaction" /\ pc'[c] = "createRequest"
  BY <1>0, <1>t DEF Enters, Goes, BreaksOff, Writes
<1>8. Approves(c) => pc[c] = "createRequest" /\ pc'[c] = "approved"
  BY <1>0, <1>t DEF Approves, Goes, BreaksOff, Writes
<1> QED BY <1>1, <1>3, <1>4, <1>5, <1>6, <1>7, <1>8

LEMMA AccountReads ==
  ASSUME TypeInv, Alone, Remembered, NEW c \in Claims, NEW u \in Users, claimUser[c] = u,
         u \notin disturbed', FindUser(c), Account(u)
  PROVE  Account(u)'
<1> USE DEF Account
<1>t. newBalance \in [Claims -> Nat] /\ total \in [Claims -> Nat]
  BY DEF TypeInv, ClaimTypes
<1>1. /\ claimUser' = claimUser /\ claimEvent' = claimEvent
      /\ \A d \in Claims : d # c => pc'[d] = pc[d]
      /\ \A d \in Claims : d # c /\ claimUser[d] = u => pc[d] \notin Writes
      /\ pc[c] = "findUser" /\ pc'[c] = "updateBalance"
      /\ UNCHANGED <<balance, ledger, requests>>
      /\ newBalance'[c] = balance[u] + total[c] /\ total' = total
  BY <1>t, OwnStep DEF Touches, FindUser, Goto, NewBalance, storeVars
<1>2. EntriesOf(u)' = EntriesOf(u) /\ \A b : Settled(u, b)' <=> Settled(u, b)
  BY <1>1 DEF EntriesOf, Settled, LastEntry
<1>3. BalanceSettled(u)'
  BY <1>1, <1>2 DEF BalanceSettled, Recorded
<1>4. CarriedBalances(u)'
  BY <1>1 DEF CarriedBalances, Writes
<1>5. LedgerRuns(u)'
  BY <1>1, <1>2 DEF LedgerRuns, Runs, Before, EntriesOf
<1>6. EntriesAnswered(u)'
  BY <1>1, <1>2 DEF EntriesAnswered, Key
<1>7. WritersEntered(u)'
  BY <1>1, <1>2 DEF WritersEntered
<1> QED BY <1>3, <1>4, <1>5, <1>6, <1>7

LEMMA AccountApproves ==
  ASSUME TypeInv, Alone, Remembered, NEW c \in Claims, NEW u \in Users, claimUser[c] = u,
         u \notin disturbed', Approves(c), Account(u)
  PROVE  Account(u)'
<1> USE DEF Account
<1>t. requests \in [Keys -> Nat] /\ \A d \in Claims : Key(d) \in Keys
  BY DEF TypeInv, ClaimTypes, Keys, Key
<1>1. /\ claimUser' = claimUser /\ claimEvent' = claimEvent
      /\ \A d \in Claims : d # c => pc'[d] = pc[d]
      /\ \A d \in Claims : d # c /\ claimUser[d] = u => pc[d] \notin Writes
      /\ pc[c] = "createRequest" /\ pc'[c] = "approved"
      /\ UNCHANGED <<balance, ledger>>
  BY OwnStep DEF Touches, Approves, WriteRequest
<1>2. EntriesOf(u)' = EntriesOf(u) /\ \A b : Settled(u, b)' <=> Settled(u, b)
  BY <1>1 DEF EntriesOf, Settled, LastEntry
<1>3. BalanceSettled(u)'
  BY <1>1, <1>2 DEF BalanceSettled, Recorded
<1>4. CarriedBalances(u)'
  BY <1>1 DEF CarriedBalances, Writes
<1>5. LedgerRuns(u)'
  BY <1>1, <1>2 DEF LedgerRuns, Runs, Before, EntriesOf
<1>6. EntriesAnswered(u)'
  <2> PICK key \in Keys : key = Key(c)
    BY <1>t
  <2>1. requests' = [requests EXCEPT ![key] = requests[key] + 1]
    BY DEF Approves, WriteRequest
  <2>2. requests'[key] > 0 /\ \A k \in Keys : requests[k] > 0 => requests'[k] > 0
    BY <1>t, <2>1
  <2>3. \A d \in Claims : Key(d)' = Key(d)
    BY <1>1 DEF Key
  <2> QED BY <1>1, <1>2, <2>2, <2>3 DEF EntriesAnswered
<1>7. WritersEntered(u)'
  BY <1>1, <1>2 DEF WritersEntered
<1> QED BY <1>3, <1>4, <1>5, <1>6, <1>7

LEMMA AccountPays ==
  ASSUME TypeInv, Alone, Remembered, NEW c \in Claims, NEW u \in Users, claimUser[c] = u,
         u \notin disturbed', Pays(c), Account(u)
  PROVE  Account(u)'
<1> USE DEF Account
<1>t. /\ newBalance \in [Claims -> Nat] /\ total \in [Claims -> Nat]
      /\ balance \in [Users -> Nat]
  BY DEF TypeInv, ClaimTypes
<1>1. /\ claimUser' = claimUser /\ claimEvent' = claimEvent
      /\ \A d \in Claims : d # c => pc'[d] = pc[d]
      /\ \A d \in Claims : d # c /\ claimUser[d] = u => pc[d] \notin Writes
      /\ pc[c] = "updateBalance" /\ pc'[c] = "createTransaction"
      /\ UNCHANGED <<ledger, requests>>
      /\ balance'[u] = newBalance[c]
  BY <1>t, OwnStep DEF Touches, Pays, WriteBalance
<1>a. newBalance'[c] = newBalance[c] /\ total'[c] = total[c]
  BY <1>1 DEF Pays, localVars
<1>2. EntriesOf(u)' = EntriesOf(u) /\ \A b : Settled(u, b)' <=> Settled(u, b)
  BY <1>1 DEF EntriesOf, Settled, LastEntry
<1>3. Settled(u, balance[u]) /\ newBalance[c] = balance[u] + total[c]
  BY <1>1 DEF BalanceSettled, Recorded, CarriedBalances, Writes
<1>4. BalanceSettled(u)'
  BY <1>1 DEF BalanceSettled, Recorded
<1>5. CarriedBalances(u)'
  <2>1. PICK b \in Nat : b = balance[u]
    BY <1>t
  <2>2. Settled(u, b)' /\ newBalance[c] = b + total[c]
    BY <1>2, <1>3, <2>1
  <2> QED BY <1>1, <1>a, <2>2 DEF CarriedBalances, Writes
<1>6. LedgerRuns(u)'
  BY <1>1, <1>2 DEF LedgerRuns, Runs, Before, EntriesOf
<1>7. EntriesAnswered(u)'
  BY <1>1, <1>2 DEF EntriesAnswered, Key
<1>8. WritersEntered(u)'
  BY <1>1, <1>2 DEF WritersEntered
<1> QED BY <1>4, <1>5, <1>6, <1>7, <1>8

LEMMA AccountEnters ==
  ASSUME TypeInv, Alone, Remembered, NEW c \in Claims, NEW u \in Users, claimUser[c] = u,
         u \notin disturbed', Enters(c), Account(u)
  PROVE  Account(u)'
<1> USE DEF Account
<1>0. PICK n \in Nat : n = Len(ledger) + 1
  BY DEF TypeInv, ClaimTypes
<1>t. total[c] \in Nat /\ pc \in [Claims -> ClaimPcs]
  BY DEF TypeInv, ClaimTypes
<1>1. /\ n \in DOMAIN ledger' /\ DOMAIN ledger' = DOMAIN ledger \cup {n}
      /\ \A i \in DOMAIN ledger : i \in Nat /\ i < n /\ ledger'[i] = ledger[i]
      /\ ledger'[n] = EntryOf(c) /\ ledger'[n].user = u
  BY <1>0, AppendedEntry
<1>2. EntriesOf(u)' = EntriesOf(u) \cup {n} /\ EntriesOf(u) \subseteq DOMAIN ledger
  BY <1>1 DEF EntriesOf
<1>3. /\ claimUser' = claimUser /\ claimEvent' = claimEvent
      /\ \A d \in Claims : d # c => pc'[d] = pc[d]
      /\ \A d \in Claims : d # c /\ claimUser[d] = u => pc[d] \notin Writes
      /\ pc[c] = "createTransaction" /\ pc'[c] = "createRequest"
      /\ UNCHANGED <<balance, requests>>
  BY OwnStep DEF Touches, Enters, WriteEntry
<1>4. newBalance[c] = balance[u]
  BY <1>3 DEF CarriedBalances
<1>5. PICK b \in Nat : Settled(u, b) /\ newBalance[c] = b + total[c]
  BY <1>3 DEF CarriedBalances
<1>6. /\ ledger'[n].amount = total[c] /\ ledger'[n].balanceAfter = newBalance[c]
      /\ ledger'[n].event = claimEvent[c]
  BY <1>1 DEF EntryOf
<1>7. Before(n)' = EntriesOf(u)
  BY <1>1, <1>2 DEF Before
<1>8. LedgerRuns(u)'
  <2>1. ASSUME NEW i \in EntriesOf(u) PROVE Runs(i)'
    <3>1. i \in DOMAIN ledger /\ ledger[i].user = u /\ ledger'[i] = ledger[i] /\ ~(n < i)
      BY <1>1, <2>1 DEF EntriesOf
    <3>2. Before(i) = {j \in EntriesOf(u) : j < i}
      BY <3>1 DEF Before
    <3>3. Before(i)' = {j \in EntriesOf(u) \cup {n} : j < i}
      BY <1>2, <3>1 DEF Before
    <3>4. Before(i)' = Before(i) /\ Before(i) \subseteq DOMAIN ledger
      BY <1>2, <3>1, <3>2, <3>3
    <3>5. Runs(i)
      BY DEF LedgerRuns
    <3> QED BY <1>1, <3>1, <3>4, <3>5 DEF Runs
  <2>2. Runs(n)'
    <3>1. CASE EntriesOf(u) = {} /\ b = 0
      BY <1>5, <1>6, <1>7, <1>t, <3>1 DEF Runs
    <3>2. ASSUME NEW j \in EntriesOf(u), LastEntry(u, j), b = ledger[j].balanceAfter
          PROVE  Runs(n)'
      <4>1. ledger'[j].balanceAfter = b
        BY <1>1, <1>2, <3>2
      <4> QED BY <1>5, <1>6, <1>7, <3>2, <4>1 DEF LastEntry, Runs
    <3> QED BY <1>5, <3>1, <3>2 DEF Settled
  <2> QED BY <1>2, <2>1, <2>2 DEF LedgerRuns
<1>9. Settled(u, balance[u])'
  <2>1. LastEntry(u, n)'
    BY <1>1, <1>2 DEF LastEntry
  <2>2. balance'[u] = ledger'[n].balanceAfter
    BY <1>3, <1>4, <1>6
  <2> QED BY <1>2, <2>1, <2>2 DEF Settled
<1>10. BalanceSettled(u)'
  BY <1>9 DEF BalanceSettled
<1>11. CarriedBalances(u)'
  BY <1>3 DEF CarriedBalances, Writes
<1>12. EntriesAnswered(u)'
  <2> SUFFICES ASSUME NEW i \in EntriesOf(u) \cup {n}, NEW k \in Keys,
                      k = <<u, ledger'[i].event>>
               PROVE  \/ requests[k] > 0
                      \/ \E d \in Claims : pc'[d] = "createRequest" /\ Key(d)' = k
    BY <1>2, <1>3 DEF EntriesAnswered
  <2>1. \A d \in Claims : Key(d)' = Key(d)
    BY <1>3 DEF Key
  <2>2. CASE i = n
    BY <1>3, <1>6, <2>1, <2>2 DEF Key
  <2>3. CASE i \in EntriesOf(u)
    <3>1. ledger'[i] = ledger[i]
      BY <1>1, <1>2, <2>3
    <3>2. requests[k] > 0 \/ \E d \in Claims : pc[d] = "createRequest" /\ Key(d) = k
      BY <2>3, <3>1 DEF EntriesAnswered
    <3> QED BY <1>3, <2>1, <3>2
  <2> QED BY <2>2, <2>3
<1>13. WritersEntered(u)'
  <2> SUFFICES ASSUME NEW d \in Claims, pc'[d] = "createRequest", claimUser[d] = u
               PROVE  \E i \in EntriesOf(u) \cup {n} : ledger'[i].event = claimEvent[d]
    BY <1>2, <1>3 DEF WritersEntered
  <2>1. d = c
    BY <1>3 DEF Writes
  <2> QED BY <1>6, <2>1
<1> QED BY <1>8, <1>10, <1>11, <1>12, <1>13

-----------------------------------------------------------------------------
(* The accounts of all undisturbed users *)

AccountInv == OverlapInv /\ \A u \in Users \ disturbed : Account(u)

LEMMA AccountInvInit == RememberedInit => AccountInv
<1> SUFFICES ASSUME RememberedInit, NEW u \in Users PROVE Account(u)
  BY OverlapInvInit DEF AccountInv
<1>1. /\ \A c \in Claims : pc[c] = "idle"
      /\ EntriesOf(u) = {} /\ balance[u] = 0
  BY DEF RememberedInit, Init, EntriesOf
<1>2. BalanceSettled(u) /\ LedgerRuns(u)
  BY <1>1 DEF BalanceSettled, Settled, LedgerRuns
<1>3. CarriedBalances(u) /\ EntriesAnswered(u) /\ WritersEntered(u)
  BY <1>1 DEF CarriedBalances, EntriesAnswered, WritersEntered
<1> QED BY <1>2, <1>3 DEF Account

LEMMA AccountStep ==
  ASSUME TypeInv, Alone, Remembered, [Next]_vars, NEW u \in Users, u \notin disturbed',
         Account(u)
  PROVE  Account(u)'
<1>1. ASSUME NEW c \in Claims, Touches(c), claimUser[c] = u PROVE Account(u)'
  BY <1>1, AccountReads, AccountPays, AccountEnters, AccountApproves DEF Touches
<1>2. ASSUME NEW c \in Claims, Touches(c), claimUser[c] # u PROVE Account(u)'
  BY <1>2, OthersForeign, ForeignAccount
<1>3. CASE WritesQuiet
  BY <1>3, QuietForeign, ForeignAccount
<1> QED BY <1>1, <1>2, <1>3, WritingSteps

LEMMA AccountInvStep ==
  ASSUME AccountInv, [RememberedNext]_<<vars, historyVars>> PROVE AccountInv'
<1>1. [Next]_vars /\ Remembered /\ TypeInv /\ Alone
  BY StepRemembered DEF AccountInv, OverlapInv
<1>2. OverlapInv'
  BY OverlapInvStep DEF AccountInv
<1>3. ASSUME NEW u \in Users, u \notin disturbed' PROVE Account(u)'
  <2>1. u \notin disturbed
    BY <1>1, <1>3 DEF Remembered, disturbed
  <2> QED BY <1>1, <1>3, <2>1, AccountStep DEF AccountInv
<1> QED BY <1>2, <1>3 DEF AccountInv

(***************************************************************************)
(* The ledger of an undisturbed user is a running account: each entry's    *)
(* balanceAfter is that of the user's entry before it plus its own amount, *)
(* for any number of users, events and claims, whatever happens to the     *)
(* claims of others (request.service.ts:69-84).                            *)
(***************************************************************************)
THEOREM UndisturbedLedgerRuns == RememberedSpec => []LedgerIsRunningAccount
<1>1. ASSUME AccountInv PROVE LedgerIsRunningAccount
  <2> SUFFICES ASSUME NEW i \in DOMAIN ledger, ledger[i].user \notin disturbed PROVE Runs(i)
    BY DEF LedgerIsRunningAccount, Runs
  <2>1. ledger[i].user \in Users
    <3>1. ledger \in Seq(Entries)
      BY <1>1 DEF AccountInv, OverlapInv, TypeInv, ClaimTypes
    <3>2. ledger[i] \in Entries
      BY <3>1
    <3> QED BY <3>2 DEF Entries
  <2>2. i \in EntriesOf(ledger[i].user)
    BY DEF EntriesOf
  <2> QED BY <1>1, <2>1, <2>2 DEF AccountInv, Account, LedgerRuns
<1> QED BY AccountInvInit, AccountInvStep, <1>1, PTL DEF RememberedSpec

-----------------------------------------------------------------------------
(* createRequest implements ClaimOnce for the undisturbed users *)

GrantsTo(u) ==
  {GrantOfEntry(i) : i \in EntriesOf(u)}
    \cup {GrantOf(c) : c \in {d \in Unrecorded : claimUser[d] = u}}

LEMMA GrantsByUser ==
  TypeInv => \A g : g \in grants <=> \E u \in Users \ disturbed : g \in GrantsTo(u)
<1> SUFFICES ASSUME TypeInv
             PROVE  \A g : g \in grants <=> \E u \in Users \ disturbed : g \in GrantsTo(u)
  OBVIOUS
<1>1. ASSUME NEW u \in Users, NEW g \in GrantsTo(u) PROVE g \in AllGrants /\ g.user = u
  BY DEF GrantsTo, AllGrants, GrantOfEntry, GrantOf, EntriesOf
<1>2. ASSUME NEW g \in AllGrants PROVE g.user \in Users /\ g \in GrantsTo(g.user)
  <2>1. CASE \E i \in DOMAIN ledger : g = GrantOfEntry(i)
    <3>1. PICK i \in DOMAIN ledger : g = GrantOfEntry(i)
      BY <2>1
    <3>2. ledger \in Seq(Entries)
      BY DEF TypeInv, ClaimTypes
    <3>3. ledger[i] \in Entries
      BY <3>2
    <3>4. g.user = ledger[i].user /\ g.user \in Users
      BY <3>1, <3>3 DEF GrantOfEntry, Entries
    <3> QED BY <3>1, <3>4 DEF GrantsTo, EntriesOf
  <2>2. CASE \E c \in Unrecorded : g = GrantOf(c)
    <3>1. PICK c \in Unrecorded : g = GrantOf(c)
      BY <2>2
    <3>2. g.user = claimUser[c] /\ g.user \in Users
      BY <3>1 DEF GrantOf, Unrecorded, TypeInv, ClaimTypes
    <3> QED BY <3>1, <3>2 DEF GrantsTo
  <2> QED BY <2>1, <2>2 DEF AllGrants
<1> QED BY <1>1, <1>2 DEF grants

LEMMA GrantsByUserNext ==
  TypeInv' => (\A g : g \in grants <=> \E u \in Users \ disturbed : g \in GrantsTo(u))'
BY GrantsByUser, PTL

LEMMA ForeignGrants ==
  ASSUME NEW u \in Users, ForeignTo(u) PROVE GrantsTo(u)' = GrantsTo(u)
<1>1. EntriesOf(u)' = EntriesOf(u) /\ \A i \in EntriesOf(u) : GrantOfEntry(i)' = GrantOfEntry(i)
  BY DEF ForeignTo, GrantOfEntry
<1>2. \A c \in Claims : claimUser'[c] = claimUser[c] /\ claimEvent'[c] = claimEvent[c]
  BY DEF ForeignTo
<1>3. {d \in Unrecorded : claimUser[d] = u}' = {d \in Unrecorded : claimUser[d] = u}
  BY <1>2 DEF Unrecorded, ForeignTo, Writes
<1>4. \A c \in {d \in Unrecorded : claimUser[d] = u} : GrantOf(c)' = GrantOf(c)
  BY <1>2 DEF Unrecorded, GrantOf, ForeignTo, Writes
<1> QED BY <1>1, <1>3, <1>4 DEF GrantsTo

\* A step that is foreign to all who stay undisturbed can only disturb others.
LEMMA ForeignSimulates ==
  ASSUME TypeInv, TypeInv', HistoryTypes, HistoryTypes', Remembered,
         \A u \in Users \ disturbed' : ForeignTo(u)
  PROVE  Once!Next
<1>1. disturbed \subseteq disturbed' /\ disturbed' \in SUBSET Users
  BY DEF Remembered, disturbed, HistoryTypes
<1>2. disturbed' = disturbed \cup disturbed'
  BY <1>1
<1>3. points' = [u \in Users |-> IF u \in disturbed' THEN 0 ELSE points[u]]
  BY <1>1 DEF points, ForeignTo
<1>4. grants' = {g \in grants : g.user \notin disturbed'}
  <2>1. (\A g : g \in grants <=> \E u \in Users \ disturbed : g \in GrantsTo(u))'
    BY GrantsByUserNext
  <2>2. ASSUME NEW u \in Users, NEW g \in GrantsTo(u) PROVE g.user = u
    BY DEF GrantsTo, GrantOfEntry, GrantOf, EntriesOf
  <2>3. \A u \in Users \ disturbed' : GrantsTo(u)' = GrantsTo(u)
    BY ForeignGrants
  <2> QED BY <1>1, <2>1, <2>2, <2>3, GrantsByUser
<1>5. approved' = {k \in approved : k[1] \notin disturbed'}
  <2>1. \A k \in Users \X Events : k[1] \notin disturbed' => requests'[k] = requests[k]
    BY DEF ForeignTo
  <2> QED BY <1>1, <2>1 DEF approved
<1> QED BY <1>1, <1>2, <1>3, <1>4, <1>5 DEF Once!Next, Once!Void

\* A step of an undisturbed user's claim disturbs nobody.
LEMMA NobodyDisturbed ==
  ASSUME TypeInv, Alone, HistoryTypes, RememberedNext, Remembered,
         NEW c \in Claims, NEW u \in Users, claimUser[c] = u, u \notin disturbed', Touches(c)
  PROVE  disturbed' = disturbed
<1>1. /\ claimUser' = claimUser
      /\ \A d \in Claims : d # c => pc'[d] = pc[d]
  BY OwnStep
<1>2. ASSUME NEW v \in Users, Crosses(v)' PROVE v \in crossed
  <2>1. v # u
    BY <1>2 DEF RememberedNext, Remember, disturbed
  <2>2. PICK d \in Claims, e \in Claims :
          /\ d # e /\ claimUser'[d] = v /\ claimUser'[e] = v
          /\ pc'[d] \in PastLookup /\ pc'[e] \in PastLookup
    BY <1>2 DEF Crosses
  <2>3. Crosses(v)
    BY <1>1, <2>1, <2>2 DEF Crosses
  <2> QED BY <2>3 DEF Alone
<1>3. ASSUME NEW d \in Claims, BreaksOff(d) PROVE FALSE
  <2>1. CASE d = c
    BY <1>3, <2>1 DEF Remembered, disturbed
  <2>2. CASE d # c
    BY <1>1, <1>3, <2>2 DEF BreaksOff, Writes
  <2> QED BY <2>1, <2>2
<1>4. crossed' = crossed /\ cut' = cut
  BY <1>2, <1>3 DEF RememberedNext, Remember
<1> QED BY <1>4 DEF disturbed

\* What the three variables of ClaimOnce become when one user's parts change.
LEMMA OthersKept ==
  ASSUME TypeInv, TypeInv', disturbed' = disturbed, NEW u \in Users, u \notin disturbed,
         \A v \in Users \ {u} : ForeignTo(v)
  PROVE  /\ points' = [points EXCEPT ![u] = balance'[u]]
         /\ \A new : GrantsTo(u)' = GrantsTo(u) \cup new => grants' = grants \cup new
         /\ \A k \in Users \X Events : k[1] # u => (k \in approved' <=> k \in approved)
<1>1. points' = [points EXCEPT ![u] = balance'[u]]
  BY DEF points, ForeignTo
<1>2. ASSUME NEW new, GrantsTo(u)' = GrantsTo(u) \cup new PROVE grants' = grants \cup new
  <2>1. (\A g : g \in grants <=> \E v \in Users \ disturbed : g \in GrantsTo(v))'
    BY GrantsByUserNext
  <2>2. \A v \in Users \ {u} : GrantsTo(v)' = GrantsTo(v)
    BY ForeignGrants
  <2>3. ASSUME NEW g PROVE g \in grants' <=> g \in grants \cup new
    <3>1. g \in grants' <=> \E v \in Users \ disturbed : g \in GrantsTo(v)'
      BY <2>1
    <3>2. g \in grants <=> \E v \in Users \ disturbed : g \in GrantsTo(v)
      BY GrantsByUser
    <3>3. (\E v \in Users \ disturbed : g \in GrantsTo(v)')
            <=> (\E v \in Users \ disturbed : g \in GrantsTo(v)) \/ g \in new
      BY <1>2, <2>2
    <3> QED BY <3>1, <3>2, <3>3
  <2>4. grants' \subseteq grants \cup new /\ grants \cup new \subseteq grants'
    BY <2>3
  <2> QED BY <2>4
<1>3. ASSUME NEW k \in Users \X Events, k[1] # u PROVE k \in approved' <=> k \in approved
  <2>1. requests'[k] = requests[k]
    BY <1>3 DEF ForeignTo
  <2> QED BY <2>1 DEF approved
<1> QED BY <1>1, <1>2, <1>3

\* What an undisturbed user was granted: the entries and the one unrecorded claim.
LEMMA GrantedTo ==
  ASSUME TypeInv, NEW u \in Users, u \notin disturbed, NEW e \in Events
  PROVE  Once!Granted(u, e) <=>
           \/ \E i \in EntriesOf(u) : ledger[i].event = e
           \/ \E c \in Claims : pc[c] = "createTransaction" /\ claimUser[c] = u
                                  /\ claimEvent[c] = e
<1>1. \A g \in grants : g.user = u => g \in GrantsTo(u)
  <2> SUFFICES ASSUME NEW g \in grants, g.user = u PROVE g \in GrantsTo(u)
    OBVIOUS
  <2>1. PICK v \in Users \ disturbed : g \in GrantsTo(v)
    BY GrantsByUser
  <2>2. g.user = v
    BY <2>1 DEF GrantsTo, GrantOfEntry, GrantOf, EntriesOf
  <2> QED BY <2>1, <2>2
<1>2. \A g \in GrantsTo(u) : g \in grants /\ g.user = u
  BY GrantsByUser DEF GrantsTo, GrantOfEntry, GrantOf, EntriesOf
<1>3. Once!Granted(u, e) <=> \E g \in GrantsTo(u) : g.event = e
  BY <1>1, <1>2 DEF Once!Granted
<1>4. (\E g \in GrantsTo(u) : g.event = e) <=>
        \/ \E i \in EntriesOf(u) : ledger[i].event = e
        \/ \E c \in Claims : pc[c] = "createTransaction" /\ claimUser[c] = u
                               /\ claimEvent[c] = e
  <2>1. ASSUME NEW g \in GrantsTo(u), g.event = e
        PROVE  \/ \E i \in EntriesOf(u) : ledger[i].event = e
               \/ \E c \in Claims : pc[c] = "createTransaction" /\ claimUser[c] = u
                                      /\ claimEvent[c] = e
    <3>1. CASE \E i \in EntriesOf(u) : g = GrantOfEntry(i)
      BY <2>1, <3>1 DEF GrantOfEntry
    <3>2. CASE \E c \in {d \in Unrecorded : claimUser[d] = u} : g = GrantOf(c)
      BY <2>1, <3>2 DEF GrantOf, Unrecorded
    <3> QED BY <2>1, <3>1, <3>2 DEF GrantsTo
  <2>2. ASSUME NEW i \in EntriesOf(u), ledger[i].event = e
        PROVE  \E g \in GrantsTo(u) : g.event = e
    <3>1. GrantOfEntry(i) \in GrantsTo(u) /\ GrantOfEntry(i).event = e
      BY <2>2 DEF GrantsTo, GrantOfEntry
    <3> QED BY <3>1
  <2>3. ASSUME NEW c \in Claims, pc[c] = "createTransaction", claimUser[c] = u,
               claimEvent[c] = e
        PROVE  \E g \in GrantsTo(u) : g.event = e
    <3>1. GrantOf(c) \in GrantsTo(u) /\ GrantOf(c).event = e
      BY <2>3 DEF GrantsTo, GrantOf, Unrecorded
    <3> QED BY <3>1
  <2> QED BY <2>1, <2>2, <2>3
<1> QED BY <1>3, <1>4


\* The claim of an undisturbed user that takes a step, and what stands around it.
LEMMA OwnStage ==
  ASSUME AccountInv, [RememberedNext]_<<vars, historyVars>>, RememberedNext,
         NEW c \in Claims, NEW u \in Users, claimUser[c] = u, u \notin disturbed', Touches(c)
  PROVE  /\ TypeInv /\ TypeInv' /\ Alone /\ Remembered /\ Account(u)
         /\ disturbed' = disturbed /\ u \notin disturbed
         /\ \A v \in Users \ {u} : ForeignTo(v)
         /\ claimUser' = claimUser /\ claimEvent' = claimEvent
         /\ \A d \in Claims : d # c => pc'[d] = pc[d]
         /\ \A d \in Claims : d # c /\ claimUser[d] = u => pc[d] \notin Writes
<1>1. TypeInv /\ Alone /\ HistoryTypes /\ [Next]_vars /\ Remembered
  BY StepRemembered DEF AccountInv, OverlapInv
<1>2. TypeInv'
  BY <1>1, TypeInvStep
<1>3. disturbed' = disturbed
  BY <1>1, NobodyDisturbed
<1>4. Account(u)
  BY <1>3 DEF AccountInv
<1>5. \A v \in Users \ {u} : ForeignTo(v)
  BY <1>1, OthersForeign
<1> QED BY <1>1, <1>2, <1>3, <1>4, <1>5, OwnStep

\* The balance write is the grant.
LEMMA PayGrants ==
  ASSUME AccountInv, [RememberedNext]_<<vars, historyVars>>, RememberedNext,
         NEW c \in Claims, NEW u \in Users, claimUser[c] = u, u \notin disturbed', Pays(c)
  PROVE  Once!Next
<1>1. /\ TypeInv /\ TypeInv' /\ Alone /\ Remembered /\ Account(u)
      /\ disturbed' = disturbed /\ u \notin disturbed
      /\ \A v \in Users \ {u} : ForeignTo(v)
      /\ claimUser' = claimUser /\ claimEvent' = claimEvent
      /\ \A d \in Claims : d # c => pc'[d] = pc[d]
      /\ \A d \in Claims : d # c /\ claimUser[d] = u => pc[d] \notin Writes
  BY OwnStage DEF Touches
<1>2. PICK n \in Nat, e \in Events : n = total[c] /\ e = claimEvent[c]
  BY <1>1 DEF TypeInv, ClaimTypes
<1>t. balance \in [Users -> Nat] /\ newBalance \in [Claims -> Nat] /\ requests \in [Keys -> Nat]
  BY <1>1 DEF TypeInv, ClaimTypes, Keys
<1>3. /\ pc[c] = "updateBalance" /\ pc'[c] = "createTransaction"
      /\ UNCHANGED <<ledger, requests>>
      /\ balance'[u] = newBalance[c] /\ total'[c] = n
  <2>1. pc[c] = "updateBalance" /\ pc'[c] = "createTransaction"
    BY <1>1, OwnStep DEF Touches
  <2> QED BY <1>2, <1>t, <2>1 DEF Pays, WriteBalance, localVars
<1>4. balance'[u] = balance[u] + n
  BY <1>1, <1>2, <1>3 DEF Account, CarriedBalances
<1>5. EntriesOf(u)' = EntriesOf(u) /\ \A i \in EntriesOf(u) : GrantOfEntry(i)' = GrantOfEntry(i)
  BY <1>3 DEF EntriesOf, GrantOfEntry
<1>6. {d \in Unrecorded : claimUser[d] = u} = {}
  BY <1>1, <1>3 DEF Unrecorded, Writes
<1>7. {d \in Unrecorded : claimUser[d] = u}' = {c}
  BY <1>1, <1>3 DEF Unrecorded, Writes
<1>8. GrantOf(c)' = [user |-> u, event |-> e, amount |-> n]
  BY <1>1, <1>2, <1>3 DEF GrantOf
<1>9. GrantsTo(u)' = GrantsTo(u) \cup {[user |-> u, event |-> e, amount |-> n]}
  BY <1>5, <1>6, <1>7, <1>8 DEF GrantsTo
<1>10. grants' = grants \cup {[user |-> u, event |-> e, amount |-> n]}
  BY <1>1, <1>9, OthersKept
<1>11. points' = [points EXCEPT ![u] = points[u] + n] /\ points'[u] - points[u] = n
  <2>1. points' = [points EXCEPT ![u] = balance'[u]]
    BY <1>1, OthersKept
  <2>2. points[u] = balance[u] /\ points \in [Users -> Nat]
    BY <1>1, <1>t DEF points
  <2> QED BY <1>4, <1>t, <2>1, <2>2
<1>12. approved' = approved
  BY <1>1, <1>3 DEF approved
<1>13. ~Once!Granted(u, e)
  <2> SUFFICES ASSUME NEW i \in EntriesOf(u), ledger[i].event = e PROVE FALSE
    BY <1>1, <1>3, GrantedTo DEF Writes
  <2>1. PICK k \in Keys : k = <<u, e>>
    BY DEF Keys
  <2>2. k = Key(c) /\ "updateBalance" \in PastLookup
    BY <1>2, <2>1, PcNames DEF Key, PastLookup
  <2>3. requests[k] = 0
    BY <1>1, <1>3, <2>2 DEF AccountInv, OverlapInv, FirstAsked, disturbed
  <2>4. PICK d \in Claims : pc[d] = "createRequest" /\ Key(d) = k
    BY <1>1, <2>1, <2>3 DEF Account, EntriesAnswered
  <2>5. claimUser[d] = u
    BY <2>1, <2>4 DEF Key
  <2> QED BY <1>1, <1>3, <2>4, <2>5 DEF Writes
<1> QED BY <1>1, <1>10, <1>11, <1>12, <1>13 DEF Once!Next, Once!Grant

\* The entry takes over the grant.
LEMMA EntryKeeps ==
  ASSUME AccountInv, [RememberedNext]_<<vars, historyVars>>, RememberedNext,
         NEW c \in Claims, NEW u \in Users, claimUser[c] = u, u \notin disturbed', Enters(c)
  PROVE  UNCHANGED Once!vars
<1>1. /\ TypeInv /\ TypeInv' /\ Alone /\ Remembered /\ Account(u)
      /\ disturbed' = disturbed /\ u \notin disturbed
      /\ \A v \in Users \ {u} : ForeignTo(v)
      /\ claimUser' = claimUser /\ claimEvent' = claimEvent
      /\ \A d \in Claims : d # c => pc'[d] = pc[d]
      /\ \A d \in Claims : d # c /\ claimUser[d] = u => pc[d] \notin Writes
  BY OwnStage DEF Touches
<1>2. PICK n \in Nat : n = Len(ledger) + 1
  BY <1>1 DEF TypeInv, ClaimTypes
<1>3. /\ n \in DOMAIN ledger' /\ DOMAIN ledger' = DOMAIN ledger \cup {n}
      /\ \A i \in DOMAIN ledger : i \in Nat /\ i < n /\ ledger'[i] = ledger[i]
      /\ ledger'[n] = EntryOf(c) /\ ledger'[n].user = u
  <2>1. TypeInv
    BY <1>1
  <2> QED BY <2>1, <1>2, AppendedEntry, Zenon
<1>4. /\ pc[c] = "createTransaction" /\ pc'[c] = "createRequest"
      /\ UNCHANGED <<balance, requests>>
  BY <1>1, OwnStep DEF Touches, Enters, WriteEntry
<1>5. EntriesOf(u)' = EntriesOf(u) \cup {n} /\ EntriesOf(u) \subseteq DOMAIN ledger
  BY <1>3 DEF EntriesOf
<1>6. \A i \in EntriesOf(u) : GrantOfEntry(i)' = GrantOfEntry(i)
  BY <1>3, <1>5 DEF GrantOfEntry
<1>7. {d \in Unrecorded : claimUser[d] = u} = {c}
  BY <1>1, <1>4 DEF Unrecorded, Writes
<1>8. {d \in Unrecorded : claimUser[d] = u}' = {}
  BY <1>1, <1>4 DEF Unrecorded, Writes
<1>9. GrantOfEntry(n)' = GrantOf(c)
  BY <1>3 DEF GrantOfEntry, GrantOf, EntryOf
<1>10. GrantsTo(u)' = GrantsTo(u) \cup {}
  BY <1>5, <1>6, <1>7, <1>8, <1>9 DEF GrantsTo
<1>11. grants' = grants \cup {}
  BY <1>1, <1>10, OthersKept
<1>12. points' = points /\ approved' = approved
  BY <1>1, <1>4 DEF points, approved
<1> QED BY <1>1, <1>11, <1>12 DEF Once!vars

\* The request document is the approval.
LEMMA RequestApproves ==
  ASSUME AccountInv, [RememberedNext]_<<vars, historyVars>>, RememberedNext,
         NEW c \in Claims, NEW u \in Users, claimUser[c] = u, u \notin disturbed', Approves(c)
  PROVE  Once!Next
<1>1. /\ TypeInv /\ TypeInv' /\ Alone /\ Remembered /\ Account(u)
      /\ disturbed' = disturbed /\ u \notin disturbed
      /\ \A v \in Users \ {u} : ForeignTo(v)
      /\ claimUser' = claimUser /\ claimEvent' = claimEvent
      /\ \A d \in Claims : d # c => pc'[d] = pc[d]
      /\ \A d \in Claims : d # c /\ claimUser[d] = u => pc[d] \notin Writes
  BY OwnStage DEF Touches
<1>t. requests \in [Keys -> Nat]
  BY <1>1 DEF TypeInv, ClaimTypes, Keys
<1>2. PICK e \in Events : e = claimEvent[c]
  BY <1>1 DEF TypeInv, ClaimTypes
<1>3. PICK k \in Users \X Events : k = <<u, e>> /\ k = Key(c)
  BY <1>2 DEF Key
<1>4. /\ pc[c] = "createRequest" /\ pc'[c] = "approved"
      /\ UNCHANGED <<balance, ledger>>
      /\ requests' = [requests EXCEPT ![k] = requests[k] + 1]
  BY <1>1, <1>3, OwnStep DEF Touches, Approves, WriteRequest
<1>5. EntriesOf(u)' = EntriesOf(u) /\ \A i \in EntriesOf(u) : GrantOfEntry(i)' = GrantOfEntry(i)
  BY <1>4 DEF EntriesOf, GrantOfEntry
<1>6. /\ {d \in Unrecorded : claimUser[d] = u} = {}
      /\ {d \in Unrecorded : claimUser[d] = u}' = {}
  BY <1>1, <1>4 DEF Unrecorded, Writes
<1>7. GrantsTo(u)' = GrantsTo(u) \cup {}
  BY <1>5, <1>6 DEF GrantsTo
<1>8. grants' = grants
  <2>1. grants' = grants \cup {}
    BY <1>1, <1>7, OthersKept
  <2> QED BY <2>1
<1>9. points' = points
  BY <1>1, <1>4 DEF points
<1>10. requests[k] = 0
  <2>1. "createRequest" \in PastLookup
    BY PcNames DEF PastLookup
  <2> QED BY <1>1, <1>3, <1>4, <2>1 DEF AccountInv, OverlapInv, FirstAsked, disturbed
<1>11. k \notin approved /\ approved' = approved \cup {k}
  <2>1. requests'[k] = 1 /\ \A j \in Keys \ {k} : requests'[j] = requests[j]
    BY <1>4, <1>10, <1>t DEF Keys
  <2>2. k[1] = u
    BY <1>3
  <2> QED BY <1>1, <1>10, <2>1, <2>2 DEF approved, Keys
<1>12. Once!Granted(u, e)
  <2>1. \E i \in EntriesOf(u) : ledger[i].event = e
    BY <1>1, <1>2, <1>4 DEF Account, WritersEntered
  <2> QED BY <1>1, <2>1, GrantedTo
<1> QED BY <1>1, <1>3, <1>8, <1>9, <1>11, <1>12 DEF Once!Next, Once!Approve

LEMMA OnceSimulates ==
  ASSUME AccountInv, [RememberedNext]_<<vars, historyVars>> PROVE [Once!Next]_(Once!vars)
<1>1. TypeInv /\ TypeInv' /\ HistoryTypes /\ HistoryTypes' /\ Remembered /\ [Next]_vars
  BY StepRemembered, TypeInvStep DEF AccountInv, OverlapInv, Remembered
<1>2. CASE UNCHANGED <<vars, historyVars>>
  <2>1. UNCHANGED <<balance, ledger, requests, pc, claimUser, claimEvent, total, disturbed>>
    BY <1>2 DEF vars, storeVars, argVars, localVars, historyVars, disturbed
  <2>2. AllGrants' = AllGrants
    BY <2>1 DEF AllGrants, GrantOfEntry, GrantOf, Unrecorded
  <2> QED BY <2>1, <2>2 DEF Once!vars, points, grants, approved
<1>3. ASSUME NEW c \in Claims, Touches(c), claimUser[c] \notin disturbed', RememberedNext
      PROVE  [Once!Next]_(Once!vars)
  <2>1. PICK u \in Users : u = claimUser[c]
    BY <1>1 DEF TypeInv, ClaimTypes
  <2>2. CASE FindUser(c)
    <3>1. /\ UNCHANGED <<balance, ledger, requests>>
          /\ disturbed' = disturbed
      BY <1>3, <2>1, <2>2, OwnStage DEF FindUser, storeVars
    <3>2. UNCHANGED <<claimUser, claimEvent, total>>
      BY <2>2 DEF FindUser, argVars
    <3>3. Unrecorded' = Unrecorded
      BY <1>1, <2>2 DEF FindUser, Goto, Unrecorded, TypeInv, ClaimTypes
    <3>4. AllGrants' = AllGrants
      BY <3>1, <3>2, <3>3 DEF AllGrants, GrantOfEntry, GrantOf
    <3> QED BY <3>1, <3>4 DEF Once!vars, points, grants, approved
  <2>3. CASE Pays(c)
    BY <1>3, <2>1, <2>3, PayGrants
  <2>4. CASE Enters(c)
    BY <1>3, <2>1, <2>4, EntryKeeps
  <2>5. CASE Approves(c)
    BY <1>3, <2>1, <2>5, RequestApproves
  <2> QED BY <1>3, <2>2, <2>3, <2>4, <2>5 DEF Touches
<1>4. ASSUME NEW c \in Claims, Touches(c), claimUser[c] \in disturbed'
      PROVE  Once!Next
  <2>1. \A u \in Users \ disturbed' : ForeignTo(u)
    BY <1>1, <1>4, OthersForeign
  <2> QED BY <1>1, <2>1, ForeignSimulates
<1>5. CASE WritesQuiet
  BY <1>1, <1>5, QuietForeign, ForeignSimulates
<1> QED BY <1>1, <1>2, <1>3, <1>4, <1>5, WritingSteps

(***************************************************************************)
(* createRequest implements ClaimOnce, whatever overlaps, fails or         *)
(* crashes: every user is granted each event once, in one step with the    *)
(* balance, and approved only after it, until the user is disturbed; for   *)
(* any number of users, events and claims (request.service.ts:43-95).      *)
(***************************************************************************)
THEOREM ClaimsGrantOnce == RememberedSpec => GrantsOnce
<1>1. RememberedInit => Once!Init
  <2> SUFFICES ASSUME RememberedInit PROVE Once!Init
    OBVIOUS
  <2>1. disturbed = {} /\ Init
    BY DEF RememberedInit, disturbed
  <2>2. grants = {}
    BY <2>1 DEF Init, grants, AllGrants, Unrecorded
  <2>3. approved = {}
    BY <2>1 DEF Init, approved
  <2>4. points = [u \in Users |-> 0]
    BY <2>1 DEF Init, points
  <2> QED BY <2>1, <2>2, <2>3, <2>4 DEF Once!Init
<1>2. AccountInv /\ [RememberedNext]_<<vars, historyVars>> => AccountInv'
  BY AccountInvStep
<1>3. AccountInv /\ [RememberedNext]_<<vars, historyVars>> => [Once!Next]_(Once!vars)
  BY OnceSimulates
<1> QED BY AccountInvInit, <1>1, <1>2, <1>3, PTL DEF RememberedSpec, GrantsOnce, Once!Spec


-----------------------------------------------------------------------------
(* The listings, beside claims that overlap, fail and crash *)

\* A user's claims whose entry is written and whose request is not.
WritingFor(u) == {c \in Claims : claimUser[c] = u /\ pc[c] = "createRequest"}

UserBacked(u) ==
  /\ IsFiniteSet(RequestsOf(u))
  /\ Cardinality(RequestsOf(u)) + Cardinality(WritingFor(u)) <= Cardinality(EntriesOf(u))

UsersBacked == \A u \in Users : UserBacked(u)

LEMMA EntriesOfFinite ==
  ASSUME TypeInv, NEW u
  PROVE  /\ IsFiniteSet(EntriesOf(u)) /\ Cardinality(EntriesOf(u)) \in Nat
         /\ EntriesOf(u) \subseteq 1..Len(ledger)
<1>1. DOMAIN ledger = 1..Len(ledger) /\ Len(ledger) \in Nat
  BY DEF TypeInv, ClaimTypes
<1>2. IsFiniteSet(DOMAIN ledger) /\ EntriesOf(u) \subseteq DOMAIN ledger
  BY <1>1, FS_Interval DEF EntriesOf
<1> QED BY <1>1, <1>2, FS_Subset, FS_CardinalityType

LEMMA UsersBackedInit == Init => UsersBacked
<1> SUFFICES ASSUME Init, NEW u \in Users PROVE UserBacked(u)
  BY DEF UsersBacked
<1>1. RequestsOf(u) = {}
  <2>1. \A e \in Events : requests[<<u, e>>] = 0
    BY DEF Init
  <2>2. \A e \in Events : 1..requests[<<u, e>>] = {}
    BY <2>1
  <2> QED BY <2>2 DEF RequestsOf
<1>2. WritingFor(u) = {} /\ EntriesOf(u) = {}
  BY DEF Init, WritingFor, EntriesOf
<1>3. Cardinality({}) = 0 /\ IsFiniteSet({})
  BY FS_EmptySet
<1> QED BY <1>1, <1>2, <1>3 DEF UserBacked

\* A step keeps a user backed, and never takes an entry away.
LEMMA UserBackedStep ==
  ASSUME TypeInv, NEW u \in Users, UserBacked(u), [Next]_vars
  PROVE  /\ UserBacked(u)'
         /\ Cardinality(EntriesOf(u)) <= Cardinality(EntriesOf(u)')
         /\ Cardinality(EntriesOf(u)') \in Nat
<1>0. /\ pc \in [Claims -> ClaimPcs] /\ requests \in [Keys -> Nat]
      /\ \A c \in Claims : claimUser[c] \in Users /\ claimEvent[c] \in Events
      /\ IsFiniteSet(WritingFor(u)) /\ Cardinality(WritingFor(u)) \in Nat
      /\ IsFiniteSet(EntriesOf(u)) /\ Cardinality(EntriesOf(u)) \in Nat
      /\ IsFiniteSet(RequestsOf(u)) /\ Cardinality(RequestsOf(u)) \in Nat
  <2>1. IsFiniteSet(WritingFor(u)) /\ Cardinality(WritingFor(u)) \in Nat
    BY SmallerSet DEF WritingFor
  <2> QED BY <2>1, EntriesOfFinite, FS_CardinalityType DEF TypeInv, ClaimTypes, Keys, UserBacked
<1>1. ASSUME UNCHANGED <<requests, ledger, claimUser>>,
             \A c \in Claims : pc'[c] = "createRequest" => pc[c] = "createRequest"
      PROVE  /\ UserBacked(u)'
             /\ Cardinality(EntriesOf(u)) <= Cardinality(EntriesOf(u)')
             /\ Cardinality(EntriesOf(u)') \in Nat
  <2>1. /\ RequestsOf(u)' = RequestsOf(u) /\ EntriesOf(u)' = EntriesOf(u)
        /\ WritingFor(u)' \subseteq WritingFor(u)
    BY <1>1 DEF RequestsOf, EntriesOf, WritingFor
  <2>2. /\ Cardinality(WritingFor(u)') <= Cardinality(WritingFor(u))
        /\ Cardinality(WritingFor(u)') \in Nat
    BY <2>1, SmallerSet DEF WritingFor
  <2> QED BY <1>0, <2>1, <2>2 DEF UserBacked
<1>2. CASE \E c \in Claims : StartClaim(c) \/ FindExisting(c)
  <2>1. /\ UNCHANGED <<requests, ledger, claimUser>>
        /\ \A d \in Claims : pc'[d] = "createRequest" => pc[d] = "createRequest"
    BY <1>0, <1>2 DEF StartClaim, FindExisting, Goto, storeVars, argVars
  <2> QED BY <1>1, <2>1
<1>3. CASE ApprovalQuiet
  <2>1. /\ UNCHANGED <<requests, ledger, claimUser>>
        /\ \A d \in Claims : pc'[d] = "createRequest" => pc[d] = "createRequest"
    BY <1>3 DEF ApprovalQuiet
  <2> QED BY <1>1, <2>1
<1>4. ASSUME NEW c \in Claims, Enters(c)
      PROVE  /\ UserBacked(u)'
             /\ Cardinality(EntriesOf(u)) <= Cardinality(EntriesOf(u)')
             /\ Cardinality(EntriesOf(u)') \in Nat
  <2>1. PICK v \in Users, n \in Nat : v = claimUser[c] /\ n = Len(ledger) + 1
    BY DEF TypeInv, ClaimTypes
  <2>2. claimUser[c] = v /\ n = Len(ledger) + 1
    BY <2>1
  <2>3. /\ n \in DOMAIN ledger' /\ DOMAIN ledger' = DOMAIN ledger \cup {n}
        /\ \A i \in DOMAIN ledger : i \in Nat /\ i < n /\ ledger'[i] = ledger[i]
        /\ ledger'[n] = EntryOf(c) /\ ledger'[n].user = v
    BY <1>4, <2>2, AppendedEntry
  <2>4. /\ UNCHANGED <<requests, claimUser>>
        /\ pc[c] = "createTransaction" /\ \A d \in Claims \ {c} : pc'[d] = pc[d]
    BY <1>4 DEF Enters, WriteEntry, OthersKeep, Goes
  <2>5. RequestsOf(u)' = RequestsOf(u)
    BY <2>4 DEF RequestsOf
  <2>6. CASE u = v
    <3>1. EntriesOf(u)' = EntriesOf(u) \cup {n} /\ n \notin EntriesOf(u)
      BY <2>3, <2>6 DEF EntriesOf
    <3>2. WritingFor(u)' \subseteq WritingFor(u) \cup {c} /\ c \notin WritingFor(u)
      BY <2>4 DEF WritingFor
    <3>3. /\ Cardinality(EntriesOf(u)') = Cardinality(EntriesOf(u)) + 1
          /\ Cardinality(WritingFor(u) \cup {c}) = Cardinality(WritingFor(u)) + 1
      <4>1. Cardinality(EntriesOf(u) \cup {n}) = Cardinality(EntriesOf(u)) + 1
        BY <1>0, <3>1, FS_AddElement
      <4> QED BY <1>0, <3>1, <3>2, <4>1, FS_AddElement
    <3>4. /\ Cardinality(WritingFor(u)') <= Cardinality(WritingFor(u) \cup {c})
          /\ Cardinality(WritingFor(u)') \in Nat
      BY <3>2, SmallerSet DEF WritingFor
    <3> QED BY <1>0, <2>5, <3>3, <3>4 DEF UserBacked
  <2>7. CASE u # v
    <3>1. EntriesOf(u)' = EntriesOf(u)
      BY <2>3, <2>7 DEF EntriesOf
    <3>2. WritingFor(u)' = WritingFor(u)
      BY <1>0, <2>2, <2>4, <2>7 DEF WritingFor
    <3> QED BY <1>0, <2>5, <3>1, <3>2 DEF UserBacked
  <2> QED BY <2>6, <2>7
<1>5. ASSUME NEW c \in Claims, Approves(c)
      PROVE  /\ UserBacked(u)'
             /\ Cardinality(EntriesOf(u)) <= Cardinality(EntriesOf(u)')
             /\ Cardinality(EntriesOf(u)') \in Nat
  <2>1. PICK v \in Users, e \in Events : v = claimUser[c] /\ e = claimEvent[c]
    BY <1>0
  <2>2. PICK k \in Keys : k = <<v, e>>
    BY DEF Keys
  <2>3. /\ UNCHANGED <<ledger, claimUser>>
        /\ requests' = [requests EXCEPT ![k] = requests[k] + 1]
        /\ pc[c] = "createRequest" /\ pc'[c] # "createRequest"
        /\ \A d \in Claims \ {c} : pc'[d] = pc[d]
    BY <1>0, <1>5, <2>1, <2>2 DEF Approves, WriteRequest, OthersKeep, Goes, Key
  <2>4. EntriesOf(u)' = EntriesOf(u)
    BY <2>3 DEF EntriesOf
  <2>5. CASE u = v
    <3>1. PICK n \in Nat : n = requests[k]
      BY <1>0
    <3>2. /\ requests'[<<u, e>>] = n + 1 /\ requests[<<u, e>>] = n
          /\ \A f \in Events \ {e} : requests'[<<u, f>>] = requests[<<u, f>>]
      BY <1>0, <2>2, <2>3, <2>5, <3>1 DEF Keys
    <3> PICK x : x = <<e, n + 1>>
      OBVIOUS
    <3>3. RequestsOf(u)' = RequestsOf(u) \cup {x}
      <4>1. 1..(n + 1) = (1..n) \cup {n + 1}
        OBVIOUS
      <4>2. {e} \X (1..(n + 1)) = ({e} \X (1..n)) \cup {x}
        BY <4>1
      <4>3. /\ {e} \X (1..requests'[<<u, e>>]) = ({e} \X (1..requests[<<u, e>>])) \cup {x}
            /\ \A f \in Events \ {e} :
                 {f} \X (1..requests'[<<u, f>>]) = {f} \X (1..requests[<<u, f>>])
        BY <3>2, <4>2
      <4>4. ASSUME NEW y PROVE y \in RequestsOf(u)' <=> y \in RequestsOf(u) \cup {x}
        <5>1. y \in RequestsOf(u)'
                <=> \E f \in Events : y \in {f} \X (1..requests'[<<u, f>>])
          BY DEF RequestsOf
        <5>2. y \in RequestsOf(u)
                <=> \E f \in Events : y \in {f} \X (1..requests[<<u, f>>])
          BY DEF RequestsOf
        <5> QED BY <4>3, <5>1, <5>2, Zenon
      <4> QED BY <4>4
    <3>4. x \notin RequestsOf(u)
      <4> SUFFICES ASSUME NEW f \in Events, x \in {f} \X (1..requests[<<u, f>>])
                   PROVE  FALSE
        BY DEF RequestsOf
      <4>1. f = e /\ n + 1 \in 1..requests[<<u, f>>]
        OBVIOUS
      <4> QED BY <3>2, <4>1
    <3>5. WritingFor(u)' = WritingFor(u) \ {c} /\ c \in WritingFor(u)
      BY <1>0, <2>1, <2>3, <2>5 DEF WritingFor
    <3>6. /\ IsFiniteSet(RequestsOf(u)')
          /\ Cardinality(RequestsOf(u)') = Cardinality(RequestsOf(u)) + 1
      <4>1. /\ IsFiniteSet(RequestsOf(u) \cup {x})
            /\ Cardinality(RequestsOf(u) \cup {x}) = Cardinality(RequestsOf(u)) + 1
        BY <1>0, <3>4, FS_AddElement
      <4> QED BY <3>3, <4>1
    <3>7. Cardinality(WritingFor(u)') = Cardinality(WritingFor(u)) - 1
      <4>1. Cardinality(WritingFor(u) \ {c}) = Cardinality(WritingFor(u)) - 1
        BY <1>0, <3>5, FS_RemoveElement
      <4> QED BY <3>5, <4>1
    <3>8. Cardinality(RequestsOf(u)) + Cardinality(WritingFor(u)) <= Cardinality(EntriesOf(u))
      BY DEF UserBacked
    <3>9. Cardinality(RequestsOf(u)') + Cardinality(WritingFor(u)') <= Cardinality(EntriesOf(u)')
      BY <1>0, <2>4, <3>6, <3>7, <3>8
    <3> QED BY <1>0, <2>4, <3>6, <3>9 DEF UserBacked
  <2>6. CASE u # v
    <3>1. \A f \in Events : requests'[<<u, f>>] = requests[<<u, f>>]
      BY <1>0, <2>2, <2>3, <2>6 DEF Keys
    <3>2. RequestsOf(u)' = RequestsOf(u)
      BY <3>1 DEF RequestsOf
    <3>3. WritingFor(u)' = WritingFor(u)
      BY <1>0, <2>1, <2>3, <2>6 DEF WritingFor
    <3> QED BY <1>0, <2>4, <3>2, <3>3 DEF UserBacked
  <2> QED BY <2>5, <2>6
<1> QED BY <1>2, <1>3, <1>4, <1>5, ApprovalSteps

(***************************************************************************)
(* What a reader has been told: no more requests than there are entries    *)
(* now, and no more than the entries it was told of.                       *)
(***************************************************************************)
VisitTypes ==
  /\ visit \in [user : Users, at : Lists \cup {"done", "failed"}, awaited : SUBSET Reads]
  /\ seen \in [Lists -> [Reads -> Nat]]
  /\ visit.awaited # {} => visit.at \in Lists

ToldRequests ==
  \A read \in Reads : seen["requests"][read] <= Cardinality(EntriesOf(visit.user))

ToldEntries ==
  visit.at = "transactions" /\ visit.awaited # {} =>
    \A read \in Reads \ visit.awaited, other \in Reads :
      seen["requests"][other] <= seen["transactions"][read]

ReaderInv ==
  /\ TypeInv /\ UsersBacked
  /\ VisitTypes /\ ToldRequests /\ ToldEntries /\ ListedRequestsArePaid

LEMMA NothingTold ==
  /\ Nothing \in [Lists -> [Reads -> Nat]]
  /\ \A list \in Lists, read \in Reads : Nothing[list][read] = 0
  /\ Lists = {"requests", "transactions"}
BY DEF Nothing, Lists

LEMMA ReaderInvInit == ListingInit => ReaderInv
<1> SUFFICES ASSUME ListingInit PROVE ReaderInv
  OBVIOUS
<1>1. TypeInv /\ UsersBacked
  BY TypeInvInit, UsersBackedInit DEF ListingInit, RememberedInit
<1>2. VisitTypes /\ visit.at = "requests"
  BY NothingTold DEF ListingInit, VisitTypes
<1>3. Cardinality(EntriesOf(visit.user)) \in Nat
  BY <1>1, EntriesOfFinite
<1>4. ToldRequests
  BY <1>3, NothingTold DEF ListingInit, ToldRequests
<1> QED BY <1>1, <1>2, <1>4 DEF ReaderInv, ToldEntries, ListedRequestsArePaid


LEMMA ListingRefines ==
  [ListingNext]_listingVars => [RememberedNext]_<<vars, historyVars>> /\ [Next]_vars
BY DEF ListingNext, RememberedNext, BeginListing, ReadList, FailListing, listingVars

\* A read of a listing: the number it comes back with.
LEMMA ReadCounts ==
  ASSUME ReaderInv, NEW u \in Users, u = visit.user, NEW list \in Lists
  PROVE  /\ Documents(list, u) \in Nat
         /\ list = "requests" => Documents(list, u) <= Cardinality(EntriesOf(u))
         /\ list = "transactions" => Documents(list, u) = Cardinality(EntriesOf(u))
<1>1. Cardinality(EntriesOf(u)) \in Nat /\ UserBacked(u)
  BY EntriesOfFinite DEF ReaderInv, UsersBacked
<1>2. Cardinality(WritingFor(u)) \in Nat
  BY SmallerSet DEF WritingFor
<1>3. /\ Cardinality(RequestsOf(u)) \in Nat
      /\ Cardinality(RequestsOf(u)) <= Cardinality(EntriesOf(u))
  BY <1>1, <1>2, FS_CardinalityType DEF UserBacked
<1> QED BY <1>1, <1>3 DEF Documents, Lists

LEMMA ReadStep ==
  ASSUME ReaderInv, NEW read \in Reads, ReadList(read)
  PROVE  VisitTypes' /\ ToldRequests' /\ ToldEntries' /\ ListedRequestsArePaid'
<1>1. PICK u \in Users, list \in Lists : u = visit.user /\ list = visit.at
  BY DEF ReaderInv, VisitTypes, ReadList
<1>2. PICK n \in Nat : /\ n = Documents(list, u)
                       /\ list = "requests" => n <= Cardinality(EntriesOf(u))
                       /\ list = "transactions" => n = Cardinality(EntriesOf(u))
  BY <1>1, ReadCounts
<1>3. /\ seen \in [Lists -> [Reads -> Nat]]
      /\ seen' = [seen EXCEPT ![list] = [seen[list] EXCEPT ![read] = n]]
      /\ read \in visit.awaited
  BY <1>1, <1>2 DEF ReadList, ReaderInv, VisitTypes
<1>4. /\ seen' \in [Lists -> [Reads -> Nat]]
      /\ seen'[list][read] = n
      /\ \A r \in Reads \ {read} : seen'[list][r] = seen[list][r]
      /\ \A other \in Lists \ {list} : seen'[other] = seen[other]
  BY <1>3
<1>5. /\ visit'.user = u
      /\ visit'.awaited = visit.awaited \ {read}
      /\ visit'.at = IF visit.awaited = {read} THEN NextList[list] ELSE list
      /\ visit' \in [user : Users, at : Lists \cup {"done", "failed"}, awaited : SUBSET Reads]
  <2>1. /\ visit \in [user : Users, at : Lists \cup {"done", "failed"}, awaited : SUBSET Reads]
        /\ visit' = [visit EXCEPT
              !.awaited = visit.awaited \ {read},
              !.at = IF visit.awaited = {read} THEN NextList[list] ELSE list]
    BY <1>1 DEF ReadList, ReaderInv, VisitTypes
  <2>2. NextList[list] \in Lists \cup {"done", "failed"}
    BY DEF NextList, Lists
  <2>3. (IF visit.awaited = {read} THEN NextList[list] ELSE list)
          \in Lists \cup {"done", "failed"}
    BY <2>2
  <2> QED BY <1>1, <2>1, <2>3
<1>6. UNCHANGED ledger
  BY DEF ReadList, vars, storeVars
<1>7. EntriesOf(u)' = EntriesOf(u) /\ Cardinality(EntriesOf(u)) \in Nat
  BY <1>6, EntriesOfFinite DEF EntriesOf, ReaderInv
<1>8. \A r \in Reads : seen["requests"][r] <= Cardinality(EntriesOf(u))
  BY <1>1 DEF ReaderInv, ToldRequests
<1>9. VisitTypes'
  BY <1>4, <1>5 DEF VisitTypes
<1>10. \A r \in Reads : seen'["requests"][r] <= Cardinality(EntriesOf(u))
  BY <1>2, <1>4, <1>8 DEF Lists
<1>11. ToldRequests'
  BY <1>5, <1>7, <1>10 DEF ToldRequests
<1>12. ASSUME list = "requests" PROVE ToldEntries' /\ ListedRequestsArePaid'
  <2>1. visit'.at = "requests" \/ (visit'.at = "transactions" /\ visit'.awaited = {})
    <3>1. NextList["requests"] = "transactions"
      BY DEF NextList
    <3>2. visit.awaited = {read} => visit'.awaited = {}
      BY <1>5
    <3> QED BY <1>5, <1>12, <3>1, <3>2
  <2> QED BY <2>1 DEF ToldEntries, ListedRequestsArePaid
<1>13. ASSUME list = "transactions" PROVE ToldEntries' /\ ListedRequestsArePaid'
  <2>1. \A o \in Reads : seen'["requests"][o] = seen["requests"][o]
    BY <1>4, <1>13 DEF Lists
  <2>2. \A o \in Reads : seen'["requests"][o] <= seen'["transactions"][read]
    BY <1>2, <1>4, <1>10, <1>13
  <2>3. \A r \in Reads \ visit'.awaited, o \in Reads :
          seen'["requests"][o] <= seen'["transactions"][r]
    <3> SUFFICES ASSUME NEW r \in Reads, r # read, r \notin visit.awaited, NEW o \in Reads
                 PROVE  seen'["requests"][o] <= seen'["transactions"][r]
      BY <1>5, <2>2
    <3>1. seen["requests"][o] <= seen["transactions"][r]
      BY <1>1, <1>3, <1>13 DEF ReaderInv, ToldEntries
    <3> QED BY <1>4, <1>13, <2>1, <3>1
  <2>4. visit'.at = "done" => visit'.awaited = {}
    BY <1>5, <1>13 DEF Lists
  <2> QED BY <2>3, <2>4 DEF ToldEntries, ListedRequestsArePaid
<1> QED BY <1>9, <1>11, <1>12, <1>13 DEF Lists

LEMMA ReaderInvStep == ASSUME ReaderInv, [ListingNext]_listingVars PROVE ReaderInv'
<1>0. TypeInv' /\ UsersBacked'
  BY ListingRefines, TypeInvStep, UserBackedStep DEF ReaderInv, UsersBacked
<1>1. ASSUME [Next]_vars, UNCHANGED visitVars PROVE ReaderInv'
  <2>1. visit' = visit /\ seen' = seen
    BY <1>1 DEF visitVars
  <2>2. PICK u \in Users : u = visit.user
    BY DEF ReaderInv, VisitTypes
  <2>3. /\ Cardinality(EntriesOf(u)) <= Cardinality(EntriesOf(u)')
        /\ Cardinality(EntriesOf(u)') \in Nat
    BY <1>1, UserBackedStep DEF ReaderInv, UsersBacked
  <2>4. Cardinality(EntriesOf(u)) \in Nat
    BY EntriesOfFinite DEF ReaderInv
  <2>5. \A r \in Reads : seen["requests"][r] \in Nat
    BY DEF ReaderInv, VisitTypes, Lists
  <2>6. \A r \in Reads : seen["requests"][r] <= Cardinality(EntriesOf(u)')
    BY <2>2, <2>3, <2>4, <2>5 DEF ReaderInv, ToldRequests
  <2>7. ToldRequests'
    BY <2>1, <2>2, <2>6 DEF ToldRequests
  <2> QED BY <1>0, <2>1, <2>7
          DEF ReaderInv, VisitTypes, ToldEntries, ListedRequestsArePaid
<1>2. CASE BeginListing
  <2>1. /\ seen' = seen /\ visit'.user = visit.user /\ visit'.at = visit.at
        /\ visit'.awaited = Reads /\ visit.at \in Lists
        /\ visit' \in [user : Users, at : Lists \cup {"done", "failed"}, awaited : SUBSET Reads]
        /\ UNCHANGED ledger
    BY <1>2 DEF BeginListing, ReaderInv, VisitTypes, vars, storeVars
  <2>2. ToldRequests'
    BY <2>1 DEF ReaderInv, ToldRequests, EntriesOf
  <2> QED BY <1>0, <2>1, <2>2
          DEF ReaderInv, VisitTypes, ToldEntries, ListedRequestsArePaid, Lists
<1>3. CASE FailListing
  <2>1. /\ seen' = Nothing /\ visit'.user = visit.user /\ visit'.at = "failed"
        /\ visit'.awaited = {} /\ visit.user \in Users
        /\ visit' \in [user : Users, at : Lists \cup {"done", "failed"}, awaited : SUBSET Reads]
        /\ UNCHANGED ledger
    BY <1>3 DEF FailListing, ReaderInv, VisitTypes, vars, storeVars
  <2>2. PICK u \in Users : u = visit.user
    BY <2>1
  <2>3. EntriesOf(u)' = EntriesOf(u) /\ Cardinality(EntriesOf(u)) \in Nat
    BY <2>1, EntriesOfFinite DEF EntriesOf, ReaderInv
  <2>4. ToldRequests'
    BY <2>1, <2>2, <2>3, NothingTold DEF ToldRequests
  <2> QED BY <1>0, <2>1, <2>4, NothingTold
          DEF ReaderInv, VisitTypes, ToldEntries, ListedRequestsArePaid
<1>4. ASSUME NEW read \in Reads, ReadList(read) PROVE ReaderInv'
  BY <1>0, <1>4, ReadStep DEF ReaderInv
<1>5. UNCHANGED listingVars => [Next]_vars /\ UNCHANGED visitVars
  BY DEF listingVars
<1> QED BY <1>1, <1>2, <1>3, <1>4, <1>5 DEF ListingNext, RememberedNext

(***************************************************************************)
(* However claims overlap, fail or crash between the reads: a reader who   *)
(* lists a user's requests and then the ledger is told of at least as many *)
(* entries as requests, by the documents and by totalCount.                *)
(***************************************************************************)
THEOREM ListedArePaid == ListingFairSpec => []ListedRequestsArePaid
<1>1. ReaderInv => ListedRequestsArePaid
  BY DEF ReaderInv
<1> QED BY ReaderInvInit, ReaderInvStep, <1>1, PTL DEF ListingFairSpec

(***************************************************************************)
(* The history and the reader only look on: with them the claims still     *)
(* behave as Spec, so what is proved of the claims alone holds beside them *)
(* and the other way round.                                                *)
(***************************************************************************)
THEOREM ReadersOnlyRead == ListingFairSpec => RememberedSpec /\ Spec
<1>1. ListingInit => RememberedInit /\ Init
  BY DEF ListingInit, RememberedInit
<1> QED BY <1>1, ListingRefines, PTL DEF ListingFairSpec, RememberedSpec, Spec
=============================================================================
