-------------------------- MODULE HealthCheckProofs --------------------------
(***************************************************************************)
(* Proofs about HealthCheck, for any number of overlapping checks and of   *)
(* outages.                                                                *)
(***************************************************************************)
EXTENDS HealthCheck, TLAPS

\* What one call's step does to the response of that call.
Steps(k, from, s, to) == Passed(k, from, to) \/ Failed(k, from, s, to)

\* Which service a call asks, and where it goes on.
Leg(from, s, to) ==
  \/ from = "idle" /\ s = "mongodb" /\ to \in {"ping", "set"}
  \/ from = "ping" /\ s = "mongodb" /\ to = "set"
  \/ from = "set" /\ s = "redis" /\ to \in {"get", "auth"}
  \/ from = "get" /\ s = "redis" /\ to = "auth"
  \/ from = "auth" /\ s = "auth" /\ to = "event"
  \/ from = "event" /\ s = "event" /\ to = "end"

Agrees(r) == r.status = "error" <=> \E s \in Services : r.services[s] = "error"

LEMMA Goes ==
  ASSUME NEW from, NEW s, NEW to, Leg(from, s, to), NEW status \in Status
  PROVE  s \in Services /\ Continue(to, status) \in Asking \cup Answers
BY DEF Leg, Services, Continue, Asking, Answers

LEMMA ResponseTypes ==
  ASSUME HealthTypeOK, NEW k \in Checks, NEW from, NEW s, NEW to,
         Leg(from, s, to), Steps(k, from, s, to)
  PROVE  /\ check' \in [Checks -> Responses]
         /\ \A d \in Checks : Agrees(check'[d])
<1>1. /\ s \in Services /\ check[k].status \in Status
      /\ Continue(to, check[k].status) \in HealthPcs /\ Continue(to, "error") \in HealthPcs
  BY Goes DEF HealthTypeOK, Responses, Status, HealthPcs
<1>2. \A d \in Checks : Agrees(check[d])
  BY DEF HealthTypeOK, Agrees
<1>3. CASE Passed(k, from, to)
  <2>1. check' = [check EXCEPT ![k].pc = Continue(to, check[k].status)]
    BY <1>3 DEF Passed
  <2>2. check' \in [Checks -> Responses]
    BY <1>1, <2>1 DEF HealthTypeOK, Responses
  <2>3. \A d \in Checks : /\ check'[d].status = check[d].status
                          /\ check'[d].services = check[d].services
    BY <2>1 DEF HealthTypeOK, Responses
  <2> QED BY <1>2, <2>2, <2>3 DEF Agrees
<1>4. CASE Failed(k, from, s, to)
  <2>1. check' = [check EXCEPT ![k] =
                    [pc |-> Continue(to, "error"), status |-> "error",
                     services |-> [check[k].services EXCEPT ![s] = "error"]]]
    BY <1>4 DEF Failed
  <2>2. [check[k].services EXCEPT ![s] = "error"] \in [Services -> Status]
    BY <1>1 DEF HealthTypeOK, Responses, Status
  <2>3. check' \in [Checks -> Responses]
    BY <1>1, <2>1, <2>2 DEF HealthTypeOK, Responses, Status
  <2>4. check'[k].status = "error" /\ check'[k].services[s] = "error"
    BY <1>1, <2>1 DEF HealthTypeOK, Responses
  <2>5. \A d \in Checks \ {k} : check'[d] = check[d]
    BY <2>1 DEF HealthTypeOK
  <2> QED BY <1>1, <1>2, <2>3, <2>4, <2>5 DEF Agrees
<1> QED BY <1>3, <1>4 DEF Steps

\* Every step of a call is such a leg; the other steps leave the calls alone.
LEMMA EveryStepIsALeg ==
  ASSUME [HealthNext]_healthVars
  PROVE  \/ check' = check
         \/ \E k \in Checks : \E from, s, to : Leg(from, s, to) /\ Steps(k, from, s, to)
<1>1. ASSUME NEW k \in Checks, Begin(k)
      PROVE  \E from, s, to : Leg(from, s, to) /\ Steps(k, from, s, to)
  <2>1. Steps(k, "idle", "mongodb", "ping") \/ Steps(k, "idle", "mongodb", "set")
    BY <1>1 DEF Begin, Steps
  <2> QED BY <2>1 DEF Leg
<1>2. ASSUME NEW k \in Checks, DriverStep(k)
      PROVE  \E from, s, to : Leg(from, s, to) /\ Steps(k, from, s, to)
  <2>1. \/ Steps(k, "ping", "mongodb", "set")
        \/ Steps(k, "set", "redis", "get") \/ Steps(k, "set", "redis", "auth")
        \/ Steps(k, "get", "redis", "auth")
    BY <1>2 DEF DriverStep, Ping, SetTestKey, GetTestKey, Steps
  <2> QED BY <2>1 DEF Leg
<1>3. ASSUME NEW k \in Checks, NEW s \in DOMAIN AfterHttp, HttpAnswer(k, s) \/ HttpTimeout(k, s)
      PROVE  \E from, t, to : Leg(from, t, to) /\ Steps(k, from, t, to)
  <2>1. Leg(s, s, AfterHttp[s])
    BY DEF AfterHttp, Leg
  <2> QED BY <1>3, <2>1 DEF HttpAnswer, HttpTimeout, Steps
<1> QED BY <1>1, <1>2, <1>3
        DEF HealthNext, healthVars, GoDown, ComeBack, NoticeMongo, LoseTestKey

LEMMA NotedTyped ==
  ASSUME NEW history \in [Checks -> SUBSET Services], NEW calls, NEW s \in Services
  PROVE  Noted(history, calls, s) \in [Checks -> SUBSET Services]
<1>1. \A k \in Checks :
        (IF k \in calls THEN history[k] \cup {s} ELSE history[k]) \in SUBSET Services
  OBVIOUS
<1> QED BY <1>1 DEF Noted

LEMMA HealthTypeStep == ASSUME HealthTypeOK, [HealthNext]_healthVars PROVE HealthTypeOK'
<1>1. /\ check' \in [Checks -> Responses]
      /\ \A d \in Checks : Agrees(check'[d])
  <2>1. CASE check' = check
    BY <2>1 DEF HealthTypeOK, Agrees
  <2> QED BY <2>1, EveryStepIsALeg, ResponseTypes
<1> DEFINE RestOK == /\ up' \subseteq Services /\ ready' \in BOOLEAN /\ testKey' \in BOOLEAN
                     /\ seenUp' \in [Checks -> SUBSET Services]
                     /\ troubled' \in [Checks -> SUBSET Services]
                     /\ outages' \in Nat
<1>2. ASSUME NEW k \in Checks, Begin(k) PROVE RestOK
  BY <1>2 DEF Begin, environmentVars, HealthTypeOK, Services
<1>3. ASSUME NEW k \in Checks, DriverStep(k) PROVE RestOK
  BY <1>3 DEF DriverStep, Ping, SetTestKey, GetTestKey, environmentVars, historyVars, HealthTypeOK
<1>4. ASSUME NEW k \in Checks, NEW s \in DOMAIN AfterHttp, HttpAnswer(k, s) \/ HttpTimeout(k, s)
      PROVE  RestOK
  <2>1. s \in Services
    BY DEF AfterHttp, Services
  <2> QED BY <1>4, <2>1 DEF HttpAnswer, HttpTimeout, environmentVars, historyVars, HealthTypeOK
<1>5. ASSUME NEW s \in Services, GoDown(s) \/ ComeBack(s) PROVE RestOK
  <2>1. CASE GoDown(s)
    <3>1. troubled' \in [Checks -> SUBSET Services]
      BY <2>1, NotedTyped DEF GoDown, HealthTypeOK
    <3>2. testKey' \in BOOLEAN
      BY <2>1, Zenon DEF GoDown, HealthTypeOK
    <3>3. outages' \in Nat
      BY <2>1 DEF GoDown, HealthTypeOK
    <3>4. up' \subseteq Services /\ ready' \in BOOLEAN /\ seenUp' \in [Checks -> SUBSET Services]
      BY <2>1, Zenon DEF GoDown, HealthTypeOK
    <3> QED BY <3>1, <3>2, <3>3, <3>4
  <2>2. CASE ComeBack(s)
    <3>1. seenUp' \in [Checks -> SUBSET Services]
      BY <2>2, NotedTyped DEF ComeBack, HealthTypeOK
    <3> QED BY <2>2, <3>1 DEF ComeBack, HealthTypeOK
  <2> QED BY <1>5, <2>1, <2>2
<1>6. ASSUME NoticeMongo \/ LoseTestKey PROVE RestOK
  <2>1. CASE NoticeMongo
    BY <2>1 DEF NoticeMongo, historyVars, HealthTypeOK
  <2>2. CASE LoseTestKey
    <3>1. "redis" \in Services
      BY DEF Services
    <3>2. troubled' \in [Checks -> SUBSET Services]
      BY <2>2, <3>1, NotedTyped DEF LoseTestKey, HealthTypeOK
    <3>3. testKey' \in BOOLEAN
      BY <2>2, Zenon DEF LoseTestKey
    <3>4. outages' \in Nat
      BY <2>2 DEF LoseTestKey, HealthTypeOK
    <3>5. up' \subseteq Services /\ ready' \in BOOLEAN /\ seenUp' \in [Checks -> SUBSET Services]
      BY <2>2, Zenon DEF LoseTestKey, HealthTypeOK
    <3> QED BY <3>2, <3>3, <3>4, <3>5
  <2> QED BY <1>6, <2>1, <2>2
<1>7. RestOK
  BY <1>2, <1>3, <1>4, <1>5, <1>6
     DEF HealthNext, healthVars, environmentVars, historyVars, HealthTypeOK
<1> QED BY <1>1, <1>7 DEF HealthTypeOK, Agrees

\* The variables keep their types, and response.status is "error" exactly when
\* some service's line is.
THEOREM HealthTypeCorrect == HealthSpec => []HealthTypeOK
<1>1. HealthInit => HealthTypeOK
  <2>1. AllOk \in Responses /\ AllOk.status = "ok" /\ \A s \in Services : AllOk.services[s] = "ok"
    BY DEF AllOk, Responses, HealthPcs, Status
  <2> SUFFICES ASSUME HealthInit PROVE HealthTypeOK
    OBVIOUS
  <2>2. check \in [Checks -> Responses]
    BY <2>1 DEF HealthInit
  <2>3. \A k \in Checks : check[k] = AllOk
    BY DEF HealthInit
  <2> QED BY <2>1, <2>2, <2>3 DEF HealthInit, HealthTypeOK
<1> QED BY <1>1, HealthTypeStep, PTL DEF HealthSpec

-----------------------------------------------------------------------------
(* Verdicts *)

\* The services a call has dealt with.
Dealt(p) ==
  CASE p \in {"set", "get"} -> {"mongodb"}
    [] p = "auth" -> {"mongodb", "redis"}
    [] p = "event" -> {"mongodb", "redis", "auth"}
    [] p \in Answers -> Services
    [] OTHER -> {}

\* Every line of a response that is decided has its evidence.
Witnessed(k) ==
  /\ \A s \in Services : check[k].services[s] = "error" => s \in troubled[k]
  /\ \A s \in Dealt(check[k].pc) : check[k].services[s] = "ok" => s \in seenUp[k]

\* The strengthening: while a call runs, what is up has been seen up and what
\* is down is in trouble, and so is Redis if the test key is not there to be
\* read; the answer is that of the status; a call not begun has no errors.
Evidence(k) ==
  /\ Witnessed(k)
  /\ InCall(k) => up \subseteq seenUp[k] /\ Services \ up \subseteq troubled[k]
  /\ check[k].pc = "get" /\ ~testKey => "redis" \in troubled[k]
  /\ check[k].pc = "ok" => check[k].status = "ok"
  /\ check[k].pc = "unavailable" => check[k].status = "error"
  /\ check[k].pc = "idle" => check[k].status = "ok"

EvidenceOfAll == \A k \in Checks : Evidence(k)

LEMMA EvidenceImplies == HealthTypeOK /\ EvidenceOfAll => VerdictsAreTrue
<1> SUFFICES ASSUME HealthTypeOK, NEW k \in Checks, Evidence(k), check[k].pc \in Answers
             PROVE  /\ \A s \in Services :
                         s \in IF check[k].services[s] = "ok" THEN seenUp[k] ELSE troubled[k]
                    /\ check[k].pc = "ok" <=> \A s \in Services : check[k].services[s] = "ok"
  BY DEF VerdictsAreTrue, EvidenceOfAll
<1>1. \A s \in Services : check[k].services[s] \in {"ok", "error"}
  BY DEF HealthTypeOK, Responses, Status
<1>2. Dealt(check[k].pc) = Services
  BY DEF Dealt, Answers
<1>3. check[k].status = "error" <=> \E s \in Services : check[k].services[s] = "error"
  BY DEF HealthTypeOK
<1>4. check[k].pc \in {"ok", "unavailable"}
  BY DEF Answers
<1> QED BY <1>1, <1>2, <1>3, <1>4 DEF Evidence, Witnessed

\* What does not touch a call leaves its evidence, which only grows.
LEMMA EvidenceStays ==
  ASSUME NEW k \in Checks, Evidence(k), check'[k] = check[k],
         seenUp[k] \subseteq seenUp'[k], troubled[k] \subseteq troubled'[k],
         InCall(k) => up' \subseteq seenUp'[k] /\ Services \ up' \subseteq troubled'[k],
         check[k].pc = "get" /\ ~testKey' => "redis" \in troubled'[k]
  PROVE  Evidence(k)'
<1>1. Dealt(check'[k].pc) = Dealt(check[k].pc)
  OBVIOUS
<1>2. Witnessed(k)'
  BY <1>1 DEF Evidence, Witnessed
<1> QED BY <1>2 DEF Evidence, InCall

\* A leg that ends with the service seen, or in trouble, keeps the evidence.
LEMMA LegEvidence ==
  ASSUME HealthTypeOK, NEW k \in Checks, Evidence(k), NEW from, NEW s, NEW to,
         Leg(from, s, to), up' = up,
         from # "idle" => seenUp[k] \subseteq seenUp'[k] /\ troubled[k] \subseteq troubled'[k],
         up \subseteq seenUp'[k], Services \ up \subseteq troubled'[k],
         to = "get" => testKey',
         \/ Passed(k, from, to) /\ (to \in {"ping", "get"} \/ s \in seenUp'[k])
         \/ Failed(k, from, s, to) /\ to \notin {"ping", "get"} /\ s \in troubled'[k]
  PROVE  Evidence(k)'
<1> DEFINE p == check'[k].pc
<1>1. check[k] \in Responses /\ check[k].pc = from /\ from # "end"
  BY DEF Passed, Failed, HealthTypeOK, Leg
<1>2. /\ p = Continue(to, check'[k].status)
      /\ \/ /\ check'[k].services = check[k].services
            /\ check'[k].status = check[k].status
            /\ to \in {"ping", "get"} \/ s \in seenUp'[k]
         \/ /\ check'[k].services = [check[k].services EXCEPT ![s] = "error"]
            /\ check'[k].status = "error"
            /\ to \notin {"ping", "get"} /\ s \in troubled'[k]
  <2>1. CASE Passed(k, from, to) /\ (to \in {"ping", "get"} \/ s \in seenUp'[k])
    BY <1>1, <2>1 DEF Passed, HealthTypeOK, Responses
  <2>2. CASE Failed(k, from, s, to) /\ to \notin {"ping", "get"} /\ s \in troubled'[k]
    BY <1>1, <2>2 DEF Failed, HealthTypeOK, Responses
  <2> QED BY <2>1, <2>2
<1>3. check[k].services \in [Services -> Status] /\ check[k].status \in Status
  BY <1>1 DEF Responses
<1>4. from = "idle" => \A t \in Services : check[k].services[t] # "error"
  BY <1>1 DEF Evidence, HealthTypeOK
<1>5. ASSUME NEW t \in Services, check'[k].services[t] = "error" PROVE t \in troubled'[k]
  <2>1. CASE check[k].services[t] = "error"
    BY <1>4, <2>1 DEF Evidence, Witnessed
  <2> QED BY <1>2, <1>3, <1>5, <2>1
<1>6. /\ Dealt(p) \subseteq Dealt(from) \cup IF to \in {"ping", "get"} THEN {} ELSE {s}
      /\ Dealt(from) \subseteq Services /\ Dealt("idle") = {}
  <2>1. CASE to # "end"
    BY <1>2, <2>1 DEF Leg, Dealt, Continue, Answers, Services
  <2>2. CASE to = "end"
    BY <1>2, <2>2 DEF Leg, Dealt, Continue, Answers, Services
  <2> QED BY <2>1, <2>2
<1>7. ASSUME NEW t \in Dealt(p), check'[k].services[t] = "ok" PROVE t \in seenUp'[k]
  <2>1. CASE t \in Dealt(from) /\ check[k].services[t] = "ok"
    BY <1>1, <1>6, <2>1 DEF Evidence, Witnessed
  <2>2. CASE to \notin {"ping", "get"} /\ t = s
    BY <1>2, <1>3, <1>7, <2>2 DEF Leg, Services
  <2>3. t \in Services /\ (check[k].services[t] = "ok" \/ t = s)
    BY <1>2, <1>3, <1>6, <1>7 DEF Leg, Services
  <2>4. t \in Dealt(from) => check[k].services[t] = "ok"
    BY <1>2, <1>3, <1>6, <1>7
  <2> QED BY <1>6, <1>7, <2>1, <2>2, <2>4
<1>8. /\ p = "get" /\ ~testKey' => "redis" \in troubled'[k]
      /\ p # "idle"
      /\ p = "ok" => check'[k].status = "ok"
      /\ p = "unavailable" => check'[k].status = "error"
  BY <1>2, <1>3 DEF Leg, Continue, Status
<1> QED BY <1>5, <1>7, <1>8 DEF Evidence, Witnessed

LEMMA EvidenceStep ==
  ASSUME HealthTypeOK, EvidenceOfAll, [HealthNext]_healthVars
  PROVE  EvidenceOfAll'
<1> SUFFICES ASSUME NEW k \in Checks PROVE Evidence(k)'
  BY DEF EvidenceOfAll
<1>0. Evidence(k) /\ check \in [Checks -> Responses]
  BY DEF HealthTypeOK, EvidenceOfAll
<1>1. ASSUME NEW d \in Checks, Begin(d) PROVE Evidence(k)'
  <2>1. CASE k # d
    BY <1>0, <1>1, <2>1, EvidenceStays
       DEF Begin, Passed, Failed, environmentVars, HealthTypeOK, Evidence
  <2>2. CASE k = d
    <3>1. seenUp'[k] = up
      BY <1>1, <2>2 DEF Begin, HealthTypeOK
    <3>2. troubled'[k] = (Services \ up) \cup (IF ready THEN {} ELSE {"mongodb"})
      BY <1>1, <2>2 DEF Begin, HealthTypeOK
    <3>3. CASE Passed(k, "idle", "ping")
      BY <1>0, <1>1, <3>1, <3>2, <3>3, LegEvidence DEF Begin, environmentVars, Leg
    <3>4. CASE Failed(k, "idle", "mongodb", "set") /\ ~ready
      BY <1>0, <1>1, <3>1, <3>2, <3>4, LegEvidence DEF Begin, environmentVars, Leg
    <3> QED BY <1>1, <2>2, <3>3, <3>4 DEF Begin
  <2> QED BY <2>1, <2>2
<1>2. ASSUME NEW d \in Checks, DriverStep(d) \/ \E s \in DOMAIN AfterHttp : HttpAnswer(d, s)
      PROVE  Evidence(k)'
  <2>1. /\ up' = up /\ seenUp' = seenUp /\ troubled' = troubled
        /\ testKey' = testKey \/ testKey'
    BY <1>2 DEF DriverStep, Ping, SetTestKey, GetTestKey, HttpAnswer, environmentVars, historyVars
  <2>2. CASE k # d
    <3>1. check'[k] = check[k]
      BY <1>0, <1>2, <2>2 DEF DriverStep, Ping, SetTestKey, GetTestKey, HttpAnswer, Passed, Failed
    <3> QED BY <1>0, <2>1, <3>1, EvidenceStays DEF Evidence
  <2>3. CASE k = d
    <3> DEFINE Asks(from, s, to) ==
          /\ Leg(from, s, to)
          /\ to = "get" => testKey'
          /\ \/ Passed(k, from, to) /\ (to \in {"ping", "get"} \/ s \in up)
             \/ /\ Failed(k, from, s, to) /\ to \notin {"ping", "get"}
                /\ s \notin up \/ (from = "get" /\ s = "redis" /\ ~testKey)
    <3>1. PICK from \in Asking, s \in Services, to \in Asking \cup {"end"} : Asks(from, s, to)
      <4>1. CASE Ping(k)
        <5>1. Asks("ping", "mongodb", "set")
          BY <4>1 DEF Ping, Leg
        <5> QED BY <5>1 DEF Asking, Services
      <4>2. CASE SetTestKey(k)
        <5>1. Asks("set", "redis", "get") \/ Asks("set", "redis", "auth")
          BY <4>2 DEF SetTestKey, Leg
        <5> QED BY <5>1 DEF Asking, Services
      <4>3. CASE GetTestKey(k)
        <5>1. Asks("get", "redis", "auth")
          BY <4>3 DEF GetTestKey, Leg
        <5> QED BY <5>1 DEF Asking, Services
      <4>4. ASSUME NEW s \in DOMAIN AfterHttp, HttpAnswer(k, s)
            PROVE  /\ Asks(s, s, AfterHttp[s]) /\ s \in Asking /\ s \in Services
                   /\ AfterHttp[s] \in Asking \cup {"end"}
        BY <4>4 DEF HttpAnswer, AfterHttp, Leg, Asking, Services
      <4> HIDE DEF Asks
      <4> QED BY <1>2, <2>3, <4>1, <4>2, <4>3, <4>4 DEF DriverStep
    <3>2. check[k].pc = from
      BY <3>1 DEF Passed, Failed
    <3>3. up \subseteq seenUp[k] /\ Services \ up \subseteq troubled[k]
      BY <1>0, <3>2 DEF Evidence, InCall
    <3>4. from = "get" /\ ~testKey => "redis" \in troubled[k]
      BY <1>0, <3>2 DEF Evidence
    <3> QED BY <1>0, <2>1, <3>1, <3>3, <3>4, LegEvidence
  <2> QED BY <2>2, <2>3
<1>3. ASSUME NEW d \in Checks, NEW s \in DOMAIN AfterHttp, HttpTimeout(d, s)
      PROVE  Evidence(k)'
  <2>1. /\ UNCHANGED <<up, testKey, seenUp>>
        /\ troubled' = [troubled EXCEPT ![d] = @ \cup {s}]
        /\ Failed(d, s, s, AfterHttp[s])
    BY <1>3 DEF HttpTimeout, environmentVars
  <2>2. CASE k # d
    BY <1>0, <2>1, <2>2, EvidenceStays DEF Failed, HealthTypeOK, Evidence
  <2>3. CASE k = d
    <3>1. /\ Leg(s, s, AfterHttp[s]) /\ s \in Asking
          /\ s # "idle" /\ AfterHttp[s] \notin {"ping", "get"}
      BY DEF AfterHttp, Leg, Asking
    <3>2. up \subseteq seenUp[k] /\ Services \ up \subseteq troubled[k]
      BY <1>0, <2>1, <2>3, <3>1 DEF Evidence, InCall, Failed
    <3>3. troubled'[k] = troubled[k] \cup {s}
      BY <2>1, <2>3 DEF HealthTypeOK
    <3> QED BY <1>0, <2>1, <2>3, <3>1, <3>2, <3>3, LegEvidence
  <2> QED BY <2>2, <2>3
<1>4. ASSUME NEW s \in Services, GoDown(s) PROVE Evidence(k)'
  <2>1. troubled'[k] = IF InCall(k) THEN troubled[k] \cup {s} ELSE troubled[k]
    BY <1>4 DEF GoDown, Noted, Calls
  <2>2. check[k].pc = "get" => InCall(k)
    BY DEF InCall, Asking
  <2>3. testKey' # testKey => s = "redis"
    BY <1>4 DEF GoDown
  <2> QED BY <1>0, <1>4, <2>1, <2>2, <2>3, EvidenceStays DEF GoDown, Evidence
<1>5. ASSUME NEW s \in Services, ComeBack(s) PROVE Evidence(k)'
  <2>1. seenUp'[k] = IF InCall(k) THEN seenUp[k] \cup {s} ELSE seenUp[k]
    BY <1>5 DEF ComeBack, Noted, Calls
  <2> QED BY <1>0, <1>5, <2>1, EvidenceStays DEF ComeBack, Evidence
<1>6. ASSUME LoseTestKey PROVE Evidence(k)'
  <2>1. troubled'[k] = IF check[k].pc = "get" THEN troubled[k] \cup {"redis"} ELSE troubled[k]
    BY <1>6 DEF LoseTestKey, Noted
  <2> QED BY <1>0, <1>6, <2>1, EvidenceStays DEF LoseTestKey, Evidence
<1>7. ASSUME UNCHANGED <<up, testKey, check, seenUp, troubled>> PROVE Evidence(k)'
  BY <1>0, <1>7, EvidenceStays DEF Evidence
<1> QED BY <1>1, <1>2, <1>3, <1>4, <1>5, <1>6, <1>7
        DEF HealthNext, healthVars, environmentVars, historyVars, NoticeMongo

\* What a finished check says of each service was true at some moment of it,
\* however many checks overlap and whatever goes down meanwhile.
THEOREM VerdictsTrue == HealthSpec => []VerdictsAreTrue
<1>1. HealthInit => EvidenceOfAll
  <2> SUFFICES ASSUME HealthInit, NEW k \in Checks PROVE Evidence(k)
    BY DEF EvidenceOfAll
  <2>1. /\ check[k].pc = "idle" /\ check[k].status = "ok"
        /\ \A s \in Services : check[k].services[s] = "ok"
    BY DEF HealthInit, AllOk
  <2>2. Dealt("idle") = {}
    BY DEF Dealt, Answers
  <2>3. Witnessed(k)
    BY <2>1, <2>2 DEF Witnessed
  <2> QED BY <2>1, <2>3 DEF Evidence, InCall, Asking
<1> QED BY <1>1, HealthTypeCorrect, EvidenceStep, EvidenceImplies, PTL DEF HealthSpec
=============================================================================
