----------------------- MODULE ClaimViaGatewayProofs -----------------------
(***************************************************************************)
(* Proofs about claims through the gateway, for any number of users,       *)
(* events and requests, any number of timeouts, failed calls and crashes.  *)
(* To the event service a gateway in front of it is one of its             *)
(* environments, so what is proved of RewardClaim holds here too.          *)
(***************************************************************************)
EXTENDS ClaimViaGateway, RewardClaimProofs

-----------------------------------------------------------------------------
(* The gateway's steps are steps of the claim model *)

LEMMA GatewayStepIsClaimStep == [GatewayNext]_gatewayVars => [Next]_vars
BY DEF GatewayNext, gatewayVars, Send, Deliver, Answer, Timeout, ServiceStep, Next

(***************************************************************************)
(* The gateway, its clients and the event service together implement       *)
(* createRequest as RewardClaim specifies it: neither a timeout nor a      *)
(* retry makes the event service do what it would not do anyway            *)
(* (proxy.controller.ts:706-760).                                          *)
(***************************************************************************)
THEOREM GatewayImplementsClaims == GatewaySpec => Spec
BY GatewayStepIsClaimStep, PTL DEF GatewaySpec, GatewayInit, Spec

-----------------------------------------------------------------------------
(* Steps of the event service *)

\* What a step of the service, other than the start of a claim, can do to the
\* claims: one gets past the look-up if there is no request, or is approved.
ServiceMoves ==
  /\ UNCHANGED <<claimUser, claimEvent>>
  /\ \A c \in Claims :
       /\ pc'[c] \in Running => pc[c] \in Running
       /\ pc[c] \in Ended \cup {"idle"} => pc'[c] = pc[c]
       /\ pc'[c] \in PastCheck => pc[c] \in PastCheck \/ requests[Key(c)] = 0
  /\ \/ \E c \in Claims : Approves(c)
     \/ /\ requests' = requests
        /\ \A c \in Claims : pc'[c] = "approved" => pc[c] = "approved"

\* A step of one claim, from one of its awaits.
LEMMA OneClaimMoves ==
  ASSUME TypeInv, NEW c \in Claims, NEW from \in Running, NEW to \in ClaimPcs,
         Goto(c, from, to), UNCHANGED <<claimUser, claimEvent>>,
         to \in PastCheck => from \in PastCheck \/ requests[Key(c)] = 0,
         Approves(c) \/ (requests' = requests /\ to # "approved")
  PROVE  ServiceMoves
<1>1. pc[c] = from /\ pc' = [pc EXCEPT ![c] = to]
  BY DEF Goto
<1>2. \A d \in Claims \ {c} : pc'[d] = pc[d]
  BY <1>1 DEF TypeInv, ClaimTypes
<1>3. pc'[c] = to
  BY <1>1 DEF TypeInv, ClaimTypes
<1>4. Running \cap (Ended \cup {"idle"}) = {}
  BY PcNames DEF Ended
<1> QED BY <1>1, <1>2, <1>3, <1>4 DEF ServiceMoves

LEMMA StepMoves == ASSUME TypeInv, ServiceStep PROVE ServiceMoves
<1> USE DEF TypeInv, ClaimTypes, storeVars, argVars, localVars
<1>0. \A c \in Claims : Key(c) \in Users \X Events
  BY DEF Key
<1>n. requests \in [Users \X Events -> Nat]
  OBVIOUS
<1>1. ASSUME NEW c \in Claims, ClaimStep(c) \/ FailClaim(c) PROVE ServiceMoves
  <2>1. CASE FindEvent(c)
    BY <2>1, PcNames, OneClaimMoves DEF FindEvent, PastCheck, PcSets
  <2>2. CASE RefuseEvent(c)
    BY <2>2, PcNames, OneClaimMoves DEF RefuseEvent, Refuse, End, PastCheck, PcSets
  <2>3. CASE FindExisting(c)
    BY <1>0, <1>n, <2>3, PcNames, OneClaimMoves
       DEF FindExisting, AlreadyRequested, PastCheck, PcSets
  <2>4. CASE RefuseExisting(c)
    BY <2>4, PcNames, OneClaimMoves DEF RefuseExisting, Refuse, End, PastCheck, PcSets
  <2>5. CASE ValidateCondition(c)
    <3>1. PICK to \in {"findUser", "validate"} : Goto(c, "validate", to)
      BY <2>5 DEF ValidateCondition
    <3> QED BY <2>5, <3>1, PcNames, OneClaimMoves DEF ValidateCondition, PastCheck, PcSets
  <2>6. CASE RefuseCondition(c)
    BY <2>6, PcNames, OneClaimMoves DEF RefuseCondition, Refuse, End, PastCheck, PcSets
  <2>7. CASE FindUser(c)
    BY <2>7, PcNames, OneClaimMoves DEF FindUser, PastCheck, PcSets
  <2>8. CASE UpdateBalance(c)
    BY <2>8, PcNames, OneClaimMoves DEF UpdateBalance, WriteBalance, PastCheck, PcSets
  <2>9. CASE CreateTransaction(c)
    BY <2>9, PcNames, OneClaimMoves DEF CreateTransaction, WriteEntry, PastCheck, PcSets
  <2>10. CASE CreateRequest(c)
    <3>1. Approves(c)
      BY <2>10, WriteSteps
    <3> QED BY <2>10, <3>1, PcNames, OneClaimMoves DEF CreateRequest, End, PastCheck, PcSets
  <2>11. CASE FailClaim(c)
    <3>1. PICK to \in {"payFailed", "failed"} : Goto(c, pc[c], to)
      BY <2>11 DEF FailClaim, End
    <3>2. pc[c] \in Running /\ UNCHANGED <<claimUser, claimEvent>>
      BY <2>11 DEF FailClaim
    <3>3. Approves(c) \/ requests' = requests
      BY <2>11, WriteSteps DEF Pays, WriteBalance, Enters, WriteEntry, FailsEmpty
    <3> QED BY <3>1, <3>2, <3>3, PcNames, OneClaimMoves DEF PastCheck, PcSets
  <2> QED BY <1>1, <2>1, <2>2, <2>3, <2>4, <2>5, <2>6, <2>7, <2>8, <2>9, <2>10, <2>11
          DEF ClaimStep
<1>2. CASE Crash
  <2>1. \A c \in Claims : pc'[c] = IF pc[c] \in Running THEN "lost" ELSE pc[c]
    BY <1>2 DEF Crash, InFlight
  <2>2. UNCHANGED <<requests, claimUser, claimEvent>>
    BY <1>2 DEF Crash
  <2>3. Running \cap (Ended \cup {"idle"}) = {} /\ "lost" \notin Running \cup PastCheck
    BY PcNames DEF Ended, PastCheck
  <2> QED BY <2>1, <2>2, <2>3 DEF ServiceMoves
<1>3. CASE UNCHANGED <<storeVars, argVars, pc>>
  BY <1>3 DEF ServiceMoves
<1>4. ASSUME NEW u \in Users,
             \/ RecordLogin(u) \/ ExpirePlayTime(u)
             \/ \E ms \in PlayTimes : WritePlayTime(u, ms)
      PROVE  UNCHANGED <<storeVars, argVars, pc>>
  BY <1>4 DEF RecordLogin, ExpirePlayTime, WritePlayTime
<1>5. EditCatalog => UNCHANGED <<storeVars, argVars, pc>>
  BY DEF EditCatalog
<1> QED BY <1>1, <1>2, <1>3, <1>4, <1>5 DEF ServiceStep

-----------------------------------------------------------------------------
(* What a client may rely on *)

GatewayTypes ==
  /\ http \in [Claims -> {"unsent", "sent"} \cup Answered]
  /\ timeouts \in Nat
  /\ hasty \subseteq Users

\* A patient user awaits one answer.
OneWaits ==
  \A c, d \in Claims :
    /\ http[c] = "sent" /\ http[d] = "sent"
    /\ claimUser[c] = claimUser[d] /\ claimUser[c] \notin hasty
    => c = d

UnsentIdle == \A c \in Claims : http[c] = "unsent" => pc[c] = "idle"

OkApproved == \A c \in Claims : http[c] = "ok" => pc[c] = "approved"

ApprovedHasRequest == \A c \in Claims : pc[c] = "approved" => requests[Key(c)] > 0

\* After a success, a patient user's other requests for the event that are not
\* answered with an error do not get to the payment.
NoSecondSuccess ==
  \A c, d \in Claims :
    /\ c # d /\ http[c] = "ok" /\ Key(c) = Key(d) /\ http[d] \in {"sent", "ok"}
    /\ claimUser[c] \notin hasty
    => http[d] = "sent" /\ pc[d] \notin PastCheck \cup {"approved"}

ClientInv ==
  /\ GatewayTypes
  /\ OneWaits
  /\ UnsentIdle
  /\ OkApproved
  /\ ApprovedHasRequest
  /\ NoSecondSuccess

LEMMA ClientInit == GatewayInit => ClientInv
<1> SUFFICES ASSUME GatewayInit PROVE ClientInv OBVIOUS
<1>1. /\ http = [c \in Claims |-> "unsent"] /\ timeouts = 0 /\ hasty = {}
      /\ pc = [c \in Claims |-> "idle"]
  BY DEF GatewayInit, Init
<1>2. GatewayTypes
  BY <1>1 DEF GatewayTypes
<1>3. \A c \in Claims : http[c] = "unsent" /\ pc[c] = "idle"
  BY <1>1
<1>4. OneWaits /\ NoSecondSuccess
  BY <1>3 DEF OneWaits, NoSecondSuccess
<1>5. UnsentIdle /\ OkApproved /\ ApprovedHasRequest
  BY <1>3 DEF UnsentIdle, OkApproved, ApprovedHasRequest
<1> QED BY <1>2, <1>4, <1>5 DEF ClientInv

\* An answer, true or not, to a request that waited for it.
LEMMA ReplyKeepsClients ==
  ASSUME ClientInv, NEW x \in Claims, NEW outcome \in Answered,
         http[x] = "sent", Reply(x, outcome), UNCHANGED <<vars, hasty>>,
         timeouts' \in Nat,
         outcome = "ok" => pc[x] = "approved"
  PROVE  ClientInv'
<1> USE DEF ClientInv
<1>0. /\ http'[x] = outcome
      /\ \A c \in Claims \ {x} : http'[c] = http[c]
      /\ GatewayTypes'
  BY DEF Reply, GatewayTypes
<1>1. UNCHANGED <<pc, requests, claimUser, claimEvent, hasty>>
  BY DEF vars, storeVars, argVars
<1>2. \A c \in Claims : Key(c)' = Key(c)
  BY <1>1 DEF Key
<1>3. outcome \notin {"sent", "unsent"}
  BY DEF Answered
<1>4. OneWaits'
  BY <1>0, <1>1, <1>3 DEF OneWaits
<1>5. UnsentIdle' /\ OkApproved' /\ ApprovedHasRequest'
  BY <1>0, <1>1, <1>2, <1>3 DEF UnsentIdle, OkApproved, ApprovedHasRequest
<1>6. ASSUME NEW c \in Claims, NEW d \in Claims, c # d, http'[c] = "ok", Key(c) = Key(d),
             http'[d] \in {"sent", "ok"}, claimUser[c] \notin hasty
      PROVE  http'[d] = "sent" /\ pc[d] \notin PastCheck \cup {"approved"}
  <2>0. claimUser[c] = claimUser[d]
    BY <1>6 DEF Key
  <2>1. CASE c = x
    <3>1. http[d] \in {"sent", "ok"} /\ pc[x] = "approved"
      BY <1>0, <1>6, <2>1
    <3>2. http[d] # "sent"
      BY <1>6, <2>0, <2>1 DEF OneWaits
    <3>3. http[d] # "ok"
      BY <1>6, <2>0, <2>1, <3>1 DEF NoSecondSuccess
    <3> QED BY <3>1, <3>2, <3>3
  <2>2. CASE d = x
    <3>1. http[c] = "ok" /\ outcome = "ok" /\ pc[x] = "approved"
      BY <1>0, <1>3, <1>6, <2>2
    <3>2. pc[x] # "approved"
      BY <1>6, <2>2, <3>1 DEF NoSecondSuccess
    <3> QED BY <3>1, <3>2
  <2>3. CASE c # x /\ d # x
    BY <1>0, <1>6, <2>3 DEF NoSecondSuccess
  <2> QED BY <2>1, <2>2, <2>3
<1>7. NoSecondSuccess'
  BY <1>1, <1>2, <1>6 DEF NoSecondSuccess
<1> QED BY <1>0, <1>4, <1>5, <1>7

\* The event service moves and the client sees nothing.
LEMMA ServiceKeepsClients ==
  ASSUME TypeInv, ClientInv, ServiceMoves, UNCHANGED <<http, timeouts, hasty>>
  PROVE  ClientInv'
<1> USE DEF ClientInv
<1>0. /\ requests \in [Users \X Events -> Nat]
      /\ \A c \in Claims : Key(c) \in Users \X Events /\ Key(c)' = Key(c)
  BY DEF TypeInv, ClaimTypes, Key, ServiceMoves
<1>1. GatewayTypes' /\ OneWaits'
  BY DEF GatewayTypes, OneWaits, ServiceMoves
<1>2. UnsentIdle' /\ OkApproved'
  BY DEF UnsentIdle, OkApproved, ServiceMoves, Ended
<1>3. \A k \in Users \X Events : requests'[k] \in Nat /\ requests'[k] >= requests[k]
  <2>1. ASSUME NEW c \in Claims, Approves(c)
        PROVE  \A k \in Users \X Events : requests'[k] \in Nat /\ requests'[k] >= requests[k]
    <3>1. requests' = [requests EXCEPT ![Key(c)] = @ + 1]
      BY <2>1 DEF Approves, WriteRequest
    <3> HIDE DEF Key
    <3> QED BY <1>0, <3>1
  <2>2. CASE requests' = requests
    BY <1>0, <2>2
  <2> QED BY <2>1, <2>2 DEF ServiceMoves
<1>4. ASSUME NEW d \in Claims, pc'[d] = "approved"
      PROVE  pc[d] = "approved" \/ (pc[d] \in PastCheck /\ requests'[Key(d)] > 0)
  <2>1. ASSUME NEW c \in Claims, Approves(c)
        PROVE  pc[d] = "approved" \/ (pc[d] \in PastCheck /\ requests'[Key(d)] > 0)
    <3>1. /\ requests' = [requests EXCEPT ![Key(c)] = @ + 1]
          /\ pc[c] = "createRequest" /\ \A x \in Claims \ {c} : pc'[x] = pc[x]
      BY <2>1 DEF Approves, WriteRequest, OthersKeep, Goes
    <3>2. CASE d = c
      <4>1. requests'[Key(c)] > 0
        BY <1>0, <3>1
      <4> QED BY <3>1, <3>2, <4>1, PcNames DEF PastCheck
    <3>3. CASE d # c
      BY <1>4, <3>1, <3>3 DEF TypeInv, ClaimTypes
    <3> QED BY <3>2, <3>3
  <2>2. CASE \A c \in Claims : pc'[c] = "approved" => pc[c] = "approved"
    BY <1>4, <2>2
  <2> QED BY <2>1, <2>2 DEF ServiceMoves
<1>5. ApprovedHasRequest'
  <2> SUFFICES ASSUME NEW d \in Claims, pc'[d] = "approved" PROVE requests'[Key(d)] > 0
    BY <1>0 DEF ApprovedHasRequest
  <2>1. CASE pc[d] = "approved"
    <3>1. requests[Key(d)] > 0
      BY <2>1 DEF ApprovedHasRequest
    <3>2. PICK k \in Users \X Events : k = Key(d)
      BY <1>0
    <3>3. requests[k] \in Nat /\ requests'[k] \in Nat /\ requests'[k] >= requests[k]
      BY <1>0, <1>3
    <3> QED BY <3>1, <3>2, <3>3
  <2> QED BY <1>4, <2>1
<1>6. ASSUME NEW c \in Claims, NEW d \in Claims, c # d, http[c] = "ok", Key(c) = Key(d),
             http[d] \in {"sent", "ok"}, claimUser[c] \notin hasty
      PROVE  http[d] = "sent" /\ pc'[d] \notin PastCheck \cup {"approved"}
  <2>1. http[d] = "sent" /\ pc[d] \notin PastCheck \cup {"approved"}
    BY <1>6 DEF NoSecondSuccess
  <2>2. requests[Key(d)] > 0
    BY <1>6 DEF OkApproved, ApprovedHasRequest
  <2>3. pc'[d] \notin PastCheck
    BY <1>0, <2>1, <2>2 DEF ServiceMoves
  <2> QED BY <1>4, <2>1, <2>3
<1>7. NoSecondSuccess'
  BY <1>0, <1>6 DEF NoSecondSuccess, ServiceMoves
<1> QED BY <1>1, <1>2, <1>5, <1>7

\* A message reaches the event service.
LEMMA DeliverKeepsClients ==
  ASSUME TypeInv, ClientInv, NEW x \in Claims, Deliver(x) PROVE ClientInv'
<1> USE DEF ClientInv
<1>1. /\ pc[x] = "idle" /\ http[x] # "unsent"
      /\ pc' = [pc EXCEPT ![x] = "findEventById"]
      /\ UNCHANGED <<requests, claimUser, claimEvent, http, timeouts, hasty>>
  BY DEF Deliver, StartClaim, Goto, storeVars, argVars
<1>2. pc'[x] = "findEventById" /\ \A c \in Claims \ {x} : pc'[c] = pc[c]
  BY <1>1 DEF TypeInv, ClaimTypes
<1>3. \A c \in Claims : Key(c)' = Key(c)
  BY <1>1 DEF Key
<1>4. "findEventById" \notin PastCheck
  BY PcNames DEF PastCheck
<1> QED BY <1>1, <1>2, <1>3, <1>4
        DEF GatewayTypes, OneWaits, UnsentIdle, OkApproved, ApprovedHasRequest,
            NoSecondSuccess

LEMMA SendKeepsClients ==
  ASSUME TypeInv, ClientInv, NEW x \in Claims, Send(x) PROVE ClientInv'
<1> USE DEF ClientInv
<1>1. /\ http[x] = "unsent"
      /\ http' = [http EXCEPT ![x] = "sent"]
      /\ hasty' = hasty \cup ({claimUser[x]} \cap WaitingUsers)
      /\ UNCHANGED <<pc, requests, claimUser, claimEvent, timeouts>>
  BY DEF Send, Reply, vars, storeVars, argVars
<1>2. http'[x] = "sent" /\ (\A c \in Claims \ {x} : http'[c] = http[c]) /\ GatewayTypes'
  <2>1. WaitingUsers \cap {claimUser[x]} \subseteq Users
    BY DEF TypeInv, ClaimTypes
  <2> QED BY <1>1, <2>1 DEF GatewayTypes
<1>3. \A c \in Claims : Key(c)' = Key(c)
  BY <1>1 DEF Key
<1>4. pc[x] = "idle" /\ "idle" \notin PastCheck
  BY <1>1, PcNames DEF UnsentIdle, PastCheck
<1>5. OneWaits'
  BY <1>1, <1>2 DEF OneWaits, WaitingUsers
<1> QED BY <1>1, <1>2, <1>3, <1>4, <1>5
        DEF UnsentIdle, OkApproved, ApprovedHasRequest, NoSecondSuccess

LEMMA OutcomeTypes ==
  \A ended : Outcome(ended) \in Answered /\ (Outcome(ended) = "ok" => ended = "approved")
BY DEF Outcome, Answered

LEMMA ClientStep ==
  ASSUME TypeInv, ClientInv, [GatewayNext]_gatewayVars PROVE ClientInv'
<1>1. ASSUME NEW c \in Claims, Answer(c) PROVE ClientInv'
  BY <1>1, ReplyKeepsClients, OutcomeTypes DEF Answer, ClientInv, GatewayTypes
<1>2. ASSUME NEW c \in Claims, Timeout(c) PROVE ClientInv'
  BY <1>2, ReplyKeepsClients DEF Timeout, ClientInv, GatewayTypes, Answered
<1>3. CASE ServiceStep /\ UNCHANGED <<http, timeouts, hasty>>
  BY <1>3, StepMoves, ServiceKeepsClients
<1>4. CASE UNCHANGED gatewayVars
  BY <1>4 DEF gatewayVars, vars, storeVars, argVars, ClientInv, GatewayTypes, OneWaits,
     UnsentIdle, OkApproved, ApprovedHasRequest, NoSecondSuccess, Key
<1> QED BY <1>1, <1>2, <1>3, <1>4, SendKeepsClients, DeliverKeepsClients DEF GatewayNext

LEMMA GatewayInvariants == GatewaySpec => [](TypeInv /\ BackedInv /\ ClientInv)
<1>1. GatewayInit => TypeInv /\ BackedInv /\ ClientInv
  BY TypeInvInit, BackedInvInit, ClientInit DEF GatewayInit
<1>2. TypeInv /\ BackedInv /\ ClientInv /\ [GatewayNext]_gatewayVars
        => (TypeInv /\ BackedInv /\ ClientInv)'
  BY GatewayStepIsClaimStep, TypeInvStep, BackedInvStep, ClientStep
<1> QED BY <1>1, <1>2, PTL DEF GatewaySpec

(***************************************************************************)
(* The claims, the clients and the counter of timeouts keep their types.   *)
(***************************************************************************)
THEOREM GatewayTypeCorrect == GatewaySpec => []GatewayTypeOK
<1>1. TypeInv /\ BackedInv /\ ClientInv => GatewayTypeOK
  BY TypeInvImpliesTypeOK DEF ClientInv, GatewayTypes, GatewayTypeOK
<1> QED BY <1>1, GatewayInvariants, PTL

(***************************************************************************)
(* A success is true of the stores.  A user who has never sent a request   *)
(* while another was awaited is told of success once per event at most,    *)
(* however many of the earlier requests timed out and were carried out     *)
(* behind the user's back (proxy.controller.ts:706-760,                    *)
(* request.service.ts:36-95).                                              *)
(***************************************************************************)
THEOREM SuccessTrueAndUnique == GatewaySpec => []SuccessIsTrueAndUnique
<1>1. ASSUME TypeInv, BackedInv, ClientInv PROVE SuccessIsTrueAndUnique
  <2> SUFFICES ASSUME NEW u \in Users, NEW e \in Events
               PROVE  /\ Succeeded(u, e) # {} =>
                           requests[<<u, e>>] > 0 /\ EntriesFor(u, e) # {}
                      /\ u \notin hasty => Cardinality(Succeeded(u, e)) <= 1
    BY DEF SuccessIsTrueAndUnique
  <2>1. u \notin hasty => \A c, d \in Succeeded(u, e) : c = d
    BY <1>1 DEF Succeeded, ClientInv, NoSecondSuccess, Key
  <2>2. ASSUME u \notin hasty PROVE Cardinality(Succeeded(u, e)) <= 1
    <3>1. CASE Succeeded(u, e) = {}
      BY <3>1, FS_EmptySet
    <3>2. CASE Succeeded(u, e) # {}
      <4>1. PICK c \in Succeeded(u, e) : Succeeded(u, e) = {c}
        BY <2>1, <2>2, <3>2
      <4> QED BY <4>1, FS_Singleton
    <3> QED BY <3>1, <3>2
  <2>3. ASSUME NEW c \in Succeeded(u, e)
        PROVE  requests[<<u, e>>] > 0 /\ EntriesFor(u, e) # {}
    <3>1. PICK k \in Keys : k = <<u, e>>
      BY DEF Keys
    <3>2. requests[k] > 0 /\ requests[k] \in Nat
      BY <1>1, <3>1 DEF Succeeded, ClientInv, OkApproved, ApprovedHasRequest, TypeInv,
                        ClaimTypes, Keys
    <3>3. requests[k] + Cardinality(Writing(k)) <= Cardinality(EntriesAt(k))
      BY <1>1 DEF BackedInv
    <3>4. Cardinality(Writing(k)) \in Nat
      BY SmallerSet DEF Writing
    <3>5. Cardinality(EntriesAt(k)) \in Nat
      BY <1>1, EntriesFinite
    <3>a. Cardinality(EntriesAt(k)) # 0
      BY <3>2, <3>3, <3>4, <3>5
    <3>6. EntriesAt(k) # {}
      BY <3>a, FS_EmptySet
    <3>7. EntriesFor(u, e) = EntriesAt(k)
      BY <3>1 DEF EntriesFor, EntriesAt
    <3> QED BY <3>1, <3>2, <3>6, <3>7
  <2> QED BY <2>2, <2>3
<1> QED BY <1>1, GatewayInvariants, PTL

-----------------------------------------------------------------------------
(* Patience is enough while nothing times out *)

\* Without timeouts, the gateway waits for as long as a claim runs; so a patient
\* user has one claim running, and it gets past the look-up only without a request.
Patient ==
  /\ \A c \in Claims : pc[c] \in Running => http[c] = "sent"
  /\ \A c \in Claims : http[c] \in Answered => pc[c] \in Ended
  /\ \A k \in Keys : k[1] \notin hasty => requests[k] <= 1
  /\ \A c \in Claims :
       pc[c] \in PastCheck /\ claimUser[c] \notin hasty => requests[Key(c)] = 0

PatientInv == timeouts = 0 => Patient

LEMMA PatientInit == GatewayInit => PatientInv
<1>1. "idle" \notin Running \cup PastCheck /\ "unsent" \notin Answered
  BY PcNames DEF PastCheck, Answered
<1> QED BY <1>1 DEF GatewayInit, Init, PatientInv, Patient, Keys

LEMMA ServiceKeepsPatience ==
  ASSUME TypeInv, ClientInv, Patient, ServiceMoves, UNCHANGED <<http, hasty>> PROVE Patient'
<1>0. /\ requests \in [Keys -> Nat] /\ pc \in [Claims -> ClaimPcs]
      /\ \A c \in Claims :
           Key(c) \in Keys /\ Key(c)' = Key(c) /\ Key(c)[1] = claimUser[c]
      /\ claimUser' = claimUser
  BY DEF TypeInv, ClaimTypes, Key, Keys, ServiceMoves
<1>1. \A c \in Claims : pc'[c] \in Running => http'[c] = "sent"
  BY DEF Patient, ServiceMoves
<1>2. \A c \in Claims : http'[c] \in Answered => pc'[c] \in Ended
  BY DEF Patient, ServiceMoves
<1>3. PastCheck \subseteq Running /\ {"approved", "failed"} \cap PastCheck = {}
  BY PcNames DEF PastCheck
<1>4. ASSUME NEW c \in Claims, Approves(c)
      PROVE  /\ \A k \in Keys : k[1] \notin hasty => requests'[k] <= 1
             /\ \A d \in Claims :
                  pc'[d] \in PastCheck /\ claimUser[d] \notin hasty
                    => requests'[Key(d)] = 0
  <2>1. /\ requests' = [requests EXCEPT ![Key(c)] = @ + 1]
        /\ pc[c] = "createRequest" /\ pc'[c] \in {"approved", "failed"}
        /\ \A d \in Claims \ {c} : pc'[d] = pc[d]
    BY <1>4 DEF Approves, WriteRequest, OthersKeep, Goes, TypeInv, ClaimTypes
  <2>2. /\ claimUser[c] \notin hasty => requests[Key(c)] = 0
        /\ http[c] = "sent"
    BY <2>1, PcNames DEF Patient, PastCheck
  <2>3. PICK key \in Keys : key = Key(c)
    BY <1>0
  <2>4. \A k \in Keys : k[1] \notin hasty => requests'[k] <= 1
    BY <1>0, <2>1, <2>2, <2>3 DEF Patient
  <2>5. ASSUME NEW d \in Claims, pc'[d] \in PastCheck, claimUser[d] \notin hasty
        PROVE  requests'[Key(d)] = 0
    <3>1. d # c /\ pc[d] \in PastCheck
      BY <1>0, <1>3, <2>1, <2>5
    <3>2. http[d] = "sent" /\ requests[Key(d)] = 0
      BY <1>3, <2>5, <3>1 DEF Patient
    <3>3. claimUser[d] # claimUser[c]
      BY <2>2, <2>5, <3>1, <3>2 DEF ClientInv, OneWaits
    <3>4. Key(d) # Key(c)
      BY <3>3 DEF Key
    <3>5. PICK other \in Keys : other = Key(d)
      BY <1>0
    <3> QED BY <1>0, <2>1, <2>3, <3>2, <3>4, <3>5
  <2> QED BY <2>4, <2>5
<1>6. \/ requests' = requests
      \/ \E c \in Claims : Approves(c)
  BY DEF ServiceMoves
<1>7. /\ \A k \in Keys : k[1] \notin hasty => requests'[k] <= 1
      /\ \A d \in Claims :
           pc'[d] \in PastCheck /\ claimUser[d] \notin hasty => requests'[Key(d)] = 0
  <2>1. CASE requests' = requests
    BY <1>0, <2>1 DEF Patient, ServiceMoves
  <2> QED BY <1>4, <1>6, <2>1
<1> QED BY <1>0, <1>1, <1>2, <1>7 DEF Patient

LEMMA PatientStep ==
  ASSUME TypeInv, ClientInv, PatientInv, [GatewayNext]_gatewayVars PROVE PatientInv'
<1>1. timeouts \in Nat /\ (\A x \in Claims : Timeout(x) => timeouts' = timeouts + 1)
  BY DEF Timeout, ClientInv, GatewayTypes
<1>a. timeouts' = timeouts \/ timeouts' = timeouts + 1
  BY <1>1 DEF GatewayNext, Send, Deliver, Answer, gatewayVars
<1>2. SUFFICES ASSUME timeouts' = timeouts, Patient PROVE Patient'
  BY <1>1, <1>a DEF PatientInv
<1>0. /\ pc \in [Claims -> ClaimPcs] /\ http \in [Claims -> {"unsent", "sent"} \cup Answered]
      /\ "idle" \notin Running \cup Ended \cup PastCheck
      /\ {"unsent", "sent"} \cap Answered = {} /\ Running \cap Ended = {}
  BY PcNames DEF TypeInv, ClaimTypes, ClientInv, GatewayTypes, Answered, Ended, PastCheck
<1>3. ASSUME NEW x \in Claims, NEW outcome, Reply(x, outcome), UNCHANGED vars,
             hasty \subseteq hasty',
             outcome = "sent" \/ (outcome \in Answered /\ pc[x] \in Ended)
      PROVE  Patient'
  <2>1. /\ http'[x] = outcome /\ \A c \in Claims \ {x} : http'[c] = http[c]
        /\ UNCHANGED <<pc, requests, claimUser, claimEvent>>
    BY <1>0, <1>3 DEF Reply, vars, storeVars, argVars
  <2>2. \A c \in Claims : Key(c)' = Key(c)
    BY <2>1 DEF Key
  <2> QED BY <1>0, <1>2, <1>3, <2>1, <2>2 DEF Patient
<1>4. ASSUME NEW x \in Claims, Send(x) PROVE Patient'
  BY <1>3, <1>4 DEF Send
<1>5. ASSUME NEW x \in Claims, Answer(x) PROVE Patient'
  BY <1>3, <1>5, OutcomeTypes DEF Answer
<1>6. ASSUME NEW x \in Claims, Deliver(x) PROVE Patient'
  <2>1. /\ pc[x] = "idle" /\ http[x] # "unsent" /\ pc' = [pc EXCEPT ![x] = "findEventById"]
        /\ UNCHANGED <<requests, claimUser, claimEvent, http, hasty>>
    BY <1>6 DEF Deliver, StartClaim, Goto, storeVars, argVars
  <2>2. pc'[x] = "findEventById" /\ \A c \in Claims \ {x} : pc'[c] = pc[c]
    BY <1>0, <2>1
  <2>3. http[x] = "sent"
    BY <1>0, <1>2, <2>1 DEF Patient
  <2>4. "findEventById" \notin PastCheck
    BY PcNames DEF PastCheck
  <2>5. \A c \in Claims : Key(c)' = Key(c)
    BY <2>1 DEF Key
  <2> QED BY <1>0, <1>2, <2>1, <2>2, <2>3, <2>4, <2>5 DEF Patient
<1>7. CASE ServiceStep /\ UNCHANGED <<http, timeouts, hasty>>
  BY <1>2, <1>7, StepMoves, ServiceKeepsPatience
<1>8. CASE UNCHANGED gatewayVars
  BY <1>2, <1>8 DEF gatewayVars, vars, storeVars, argVars, Patient, Key
<1> QED BY <1>1, <1>2, <1>4, <1>5, <1>6, <1>7, <1>8 DEF GatewayNext

(***************************************************************************)
(* While no request times out, users who wait for their answers are        *)
(* approved once per event, whatever fails and however hasty the others    *)
(* are (request.service.ts:46-53).                                         *)
(***************************************************************************)
THEOREM PatienceSuffices == GatewaySpec => []PatientApprovedOnce
<1>1. GatewayInit => TypeInv /\ ClientInv /\ PatientInv
  BY TypeInvInit, ClientInit, PatientInit DEF GatewayInit
<1>2. TypeInv /\ ClientInv /\ PatientInv /\ [GatewayNext]_gatewayVars
        => (TypeInv /\ ClientInv /\ PatientInv)'
  BY GatewayStepIsClaimStep, TypeInvStep, ClientStep, PatientStep
<1>3. PatientInv => PatientApprovedOnce
  BY DEF PatientInv, Patient, PatientApprovedOnce, ApprovedOnce, Keys
<1> QED BY <1>1, <1>2, <1>3, PTL DEF GatewaySpec
=============================================================================
