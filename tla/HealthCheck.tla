----------------------------- MODULE HealthCheck -----------------------------
(***************************************************************************)
(* GET /health of the gateway (GatewayController.checkHealth): one after   *)
(* the other it asks MongoDB, Redis, the auth and the event service, and   *)
(* answers 200 or 503 with a line for each.  The services go down and come *)
(* back while it asks, and other health checks, which use the same test    *)
(* key in Redis, run at the same time.  The route is public, so no guard   *)
(* needs Redis before it.                                                  *)
(***************************************************************************)
EXTENDS Naturals

CONSTANTS
  Checks,       \* calls of checkHealth
  MaxOutages    \* environment bound: services that go down, test keys that get lost

ASSUME HealthAssumption == MaxOutages \in Nat

Services == {"mongodb", "redis", "auth", "event"}

VARIABLES
  up,           \* which services are up
  ready,        \* readyState of the gateway's MongoDB connection is 1
  testKey,      \* Redis has health:check:test
  check,        \* each call: where it is, its response
  seenUp,       \* history: services that were up at some time during the call
  troubled,     \* history: services that gave a reason to complain during it
  outages

environmentVars == <<up, ready, testKey, outages>>
historyVars == <<seenUp, troubled>>
healthVars == <<environmentVars, check, historyVars>>

\* The awaits of checkHealth, in order.
Asking == {"ping", "set", "get", "auth", "event"}
Answers == {"ok", "unavailable"}
HealthPcs == {"idle"} \cup Asking \cup Answers

Status == {"ok", "error"}

Responses == [pc : HealthPcs, status : Status, services : [Services -> Status]]

\* The variables have their types, and the two places where a response notes an
\* error agree.
HealthTypeOK ==
  /\ up \subseteq Services
  /\ ready \in BOOLEAN
  /\ testKey \in BOOLEAN
  /\ check \in [Checks -> Responses]
  /\ \A k \in Checks :
       check[k].status = "error" <=> \E s \in Services : check[k].services[s] = "error"
  /\ seenUp \in [Checks -> SUBSET Services]
  /\ troubled \in [Checks -> SUBSET Services]
  /\ outages \in Nat

\* The response starts with "ok" everywhere.
AllOk == [pc |-> "idle", status |-> "ok", services |-> [s \in Services |-> "ok"]]

HealthInit ==
  /\ up = Services
  /\ ready = TRUE
  /\ testKey = FALSE
  /\ check = [k \in Checks |-> AllOk]
  /\ seenUp = [k \in Checks |-> {}]
  /\ troubled = [k \in Checks |-> {}]
  /\ outages = 0

-----------------------------------------------------------------------------
(* checkHealth *)

\* After the last service the response is returned, or thrown as a 503.
Continue(to, status) ==
  IF to # "end" THEN to ELSE IF status = "ok" THEN "ok" ELSE "unavailable"

\* The service answered well.
Passed(k, from, to) ==
  /\ check[k].pc = from
  /\ check' = [check EXCEPT ![k].pc = Continue(to, check[k].status)]

\* Mutant: the catch block forgets the status of the whole.
FailedQuietly(k, from, s, to) ==
  /\ check[k].pc = from
  /\ check' = [check EXCEPT ![k] =
        [pc |-> Continue(to, @.status), status |-> @.status,
         services |-> [@.services EXCEPT ![s] = "error"]]]

\* A catch block: the error is noted, and the next service is asked.
Failed(k, from, s, to) ==
  /\ check[k].pc = from
  /\ check' = [check EXCEPT ![k] =
        [pc |-> Continue(to, "error"), status |-> "error",
         services |-> [@.services EXCEPT ![s] = "error"]]]

\* checkMongoHealth starts: without a connection it fails before any await.
Begin(k) ==
  /\ IF ready THEN Passed(k, "idle", "ping") ELSE Failed(k, "idle", "mongodb", "set")
  /\ seenUp' = [seenUp EXCEPT ![k] = up]
  /\ troubled' = [troubled EXCEPT ![k] =
        (Services \ up) \cup (IF ready THEN {} ELSE {"mongodb"})]
  /\ UNCHANGED environmentVars

Ping(k) ==
  /\ IF "mongodb" \in up THEN Passed(k, "ping", "set") ELSE Failed(k, "ping", "mongodb", "set")
  /\ UNCHANGED <<environmentVars, historyVars>>

SetTestKey(k) ==
  /\ IF "redis" \in up
     THEN Passed(k, "set", "get") /\ testKey' = TRUE
     ELSE Failed(k, "set", "redis", "auth") /\ UNCHANGED testKey
  /\ UNCHANGED <<up, ready, outages, historyVars>>

\* Mutant: the test key is removed once it was read.
GetAndDelete(k) ==
  /\ IF "redis" \in up /\ testKey
     THEN Passed(k, "get", "auth") ELSE Failed(k, "get", "redis", "auth")
  /\ testKey' = ("redis" \notin up /\ testKey)
  /\ UNCHANGED <<up, ready, outages, historyVars>>

GetTestKey(k) ==
  /\ IF "redis" \in up /\ testKey
     THEN Passed(k, "get", "auth") ELSE Failed(k, "get", "redis", "auth")
  /\ UNCHANGED <<environmentVars, historyVars>>

\* The two HTTP services, and where their check goes on.
AfterHttp == [auth |-> "event", event |-> "end"]

\* GET of the service: 200 if it is up, else a refused connection.
HttpAnswer(k, s) ==
  /\ IF s \in up THEN Passed(k, s, AfterHttp[s]) ELSE Failed(k, s, s, AfterHttp[s])
  /\ UNCHANGED <<environmentVars, historyVars>>

\* Mutant: no timeout; who is up is waited for.
WaitForAnswer(k, s) ==
  /\ s \notin up
  /\ Failed(k, s, s, AfterHttp[s])
  /\ troubled' = [troubled EXCEPT ![k] = @ \cup {s}]
  /\ UNCHANGED <<environmentVars, seenUp>>

\* timeout(3000): a service may be up and not answer in time.
HttpTimeout(k, s) ==
  /\ Failed(k, s, s, AfterHttp[s])
  /\ troubled' = [troubled EXCEPT ![k] = @ \cup {s}]
  /\ UNCHANGED <<environmentVars, seenUp>>

\* The drivers of MongoDB and Redis end each of their calls, by an error if
\* by nothing else.
DriverStep(k) == Ping(k) \/ SetTestKey(k) \/ GetTestKey(k)

-----------------------------------------------------------------------------
(* The environment *)

InCall(k) == check[k].pc \in Asking

Noted(history, calls, s) ==
  [k \in Checks |-> IF k \in calls THEN history[k] \cup {s} ELSE history[k]]

Calls == {k \in Checks : InCall(k)}

\* A service goes down; Redis may forget the test key with it.
GoDown(s) ==
  /\ s \in up
  /\ outages < MaxOutages
  /\ outages' = outages + 1
  /\ up' = up \ {s}
  /\ testKey' \in IF s = "redis" THEN {testKey, FALSE} ELSE {testKey}
  /\ troubled' = Noted(troubled, Calls, s)
  /\ UNCHANGED <<ready, check, seenUp>>

ComeBack(s) ==
  /\ s \in Services \ up
  /\ up' = up \cup {s}
  /\ seenUp' = Noted(seenUp, Calls, s)
  /\ UNCHANGED <<ready, testKey, check, troubled, outages>>

\* The MongoDB driver notices that the server is gone or back.
NoticeMongo ==
  /\ ready # ("mongodb" \in up)
  /\ ready' = ~ready
  /\ UNCHANGED <<up, testKey, check, historyVars, outages>>

\* The test key's ten seconds are over before a check has read it, or Redis
\* has evicted it.
LoseTestKey ==
  /\ testKey
  /\ outages < MaxOutages
  /\ outages' = outages + 1
  /\ testKey' = FALSE
  /\ troubled' = Noted(troubled, {k \in Checks : check[k].pc = "get"}, "redis")
  /\ UNCHANGED <<up, ready, check, seenUp>>

HealthNext ==
  \/ \E k \in Checks : Begin(k) \/ DriverStep(k)
  \/ \E k \in Checks, s \in DOMAIN AfterHttp : HttpAnswer(k, s) \/ HttpTimeout(k, s)
  \/ \E s \in Services : GoDown(s) \/ ComeBack(s)
  \/ NoticeMongo \/ LoseTestKey

HealthSpec == HealthInit /\ [][HealthNext]_healthVars

\* The drivers' calls end and the timers go off; no service has to answer.
HealthFairSpec ==
  /\ HealthSpec
  /\ \A k \in Checks : WF_healthVars(DriverStep(k))
  /\ \A k \in Checks, s \in DOMAIN AfterHttp : WF_healthVars(HttpTimeout(k, s))

-----------------------------------------------------------------------------
(* Properties *)

\* What a finished check says of each service is true of some moment of the
\* check: "ok" of a service that was up, "error" of one that was down, did
\* not answer in time, or lost the test key between the two calls.  Neither a
\* failure before it in the list nor an overlapping check, which shares the
\* test key, counts for or against a service; and 200 means that all are "ok"
\* (checkHealth).
VerdictsAreTrue ==
  \A k \in Checks : check[k].pc \in Answers =>
    /\ \A s \in Services : s \in IF check[k].services[s] = "ok" THEN seenUp[k] ELSE troubled[k]
    /\ check[k].pc = "ok" <=> \A s \in Services : check[k].services[s] = "ok"

\* Every health check is answered, even by services that are up and silent
\* (timeout(3000) of both HTTP calls).
EveryCheckAnswered == \A k \in Checks : InCall(k) ~> check[k].pc \in Answers
=============================================================================
