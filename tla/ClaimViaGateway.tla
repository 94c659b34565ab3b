-------------------------- MODULE ClaimViaGateway --------------------------
(***************************************************************************)
(* POST /api/requests through the gateway: ProxyController forwards the    *)
(* request to the event service (module RewardClaim), waits ten seconds    *)
(* for its answer, and answers with an error if none came.  It cannot take *)
(* the message back: the event service goes on with the claim.             *)
(*                                                                         *)
(* Each element of Claims is one HTTP request.  A patient user sends one   *)
(* only when the last one has been answered; nothing makes users patient,  *)
(* and the history variable hasty records who was not.                     *)
(***************************************************************************)
EXTENDS RewardClaim

CONSTANT MaxTimeouts   \* environment bound: requests that time out

ASSUME GatewayAssumption == MaxTimeouts \in Nat

VARIABLES
  http,        \* what the client has seen of each request
  timeouts,
  hasty        \* history: the users who sent a request while one was awaited

gatewayVars == <<vars, http, timeouts, hasty>>

Answered == {"ok", "refused", "error"}

GatewayTypeOK ==
  /\ TypeOK
  /\ http \in [Claims -> {"unsent", "sent"} \cup Answered]
  /\ timeouts \in Nat
  /\ hasty \subseteq Users

GatewayInit ==
  /\ Init
  /\ http = [c \in Claims |-> "unsent"]
  /\ timeouts = 0
  /\ hasty = {}

Reply(c, outcome) == http' = [http EXCEPT ![c] = outcome]

WaitingUsers == {claimUser[c] : c \in {d \in Claims : http[d] = "sent"}}

Send(c) ==
  /\ http[c] = "unsent"
  /\ Reply(c, "sent")
  /\ hasty' = hasty \cup ({claimUser[c]} \cap WaitingUsers)
  /\ UNCHANGED <<vars, timeouts>>

\* The message reaches the event service, whether or not the gateway still
\* waits.
Deliver(c) ==
  /\ http[c] # "unsent"
  /\ StartClaim(c)
  /\ UNCHANGED <<http, timeouts, hasty>>

Outcome(ended) ==
  CASE ended = "approved" -> "ok"
    [] ended \in {"badRequest", "alreadyRequested", "conditionNotMet"} -> "refused"
    [] OTHER -> "error"

\* The first value or error of the observable answers the request; the claims
\* of a crashed service are never answered.
Answer(c) ==
  /\ http[c] = "sent"
  /\ pc[c] \in Ended \ {"lost"}
  /\ Reply(c, Outcome(pc[c]))
  /\ UNCHANGED <<vars, timeouts, hasty>>

\* Mutant: the gateway waits for as long as the service works on the claim.
WaitForService(c) ==
  /\ http[c] = "sent"
  /\ timeouts < MaxTimeouts
  /\ timeouts' = timeouts + 1
  /\ pc[c] \notin Running
  /\ Reply(c, "error")
  /\ UNCHANGED <<vars, hasty>>

\* timeout(10000), or the connection to the service breaks.  Later values of
\* the observable find no subscriber.
Timeout(c) ==
  /\ http[c] = "sent"
  /\ timeouts < MaxTimeouts
  /\ timeouts' = timeouts + 1
  /\ Reply(c, "error")
  /\ UNCHANGED <<vars, hasty>>

ServiceStep ==
  \/ \E c \in Claims : ClaimStep(c) \/ FailClaim(c)
  \/ Crash
  \/ \E u \in Users : RecordLogin(u) \/ ExpirePlayTime(u)
  \/ \E u \in Users, ms \in PlayTimes : WritePlayTime(u, ms)
  \/ EditCatalog

GatewayNext ==
  \/ \E c \in Claims : Send(c) \/ Deliver(c) \/ Answer(c) \/ Timeout(c)
  \/ ServiceStep /\ UNCHANGED <<http, timeouts, hasty>>

GatewaySpec == GatewayInit /\ [][GatewayNext]_gatewayVars

\* Only the gateway's own timer is certain to go off.
TimersGoOff == \A c \in Claims : WF_gatewayVars(Timeout(c))

GatewayFairSpec == GatewaySpec /\ TimersGoOff

-----------------------------------------------------------------------------

(***************************************************************************)
(* Success is true: the request and its ledger entry exist.  And a user    *)
(* who never sends a request while another is awaited is told of it at     *)
(* most once per event, even when earlier requests of the same user timed  *)
(* out and were carried out behind their back.                             *)
(***************************************************************************)
Succeeded(u, e) == {c \in Claims : http[c] = "ok" /\ Key(c) = <<u, e>>}
SuccessIsTrueAndUnique ==
  \A u \in Users, e \in Events :
    /\ Succeeded(u, e) # {} => requests[<<u, e>>] > 0 /\ EntriesFor(u, e) # {}
    /\ u \notin hasty => Cardinality(Succeeded(u, e)) <= 1

(***************************************************************************)
(* While no request times out, patience is enough: a patient user is never *)
(* approved twice for an event, whatever fails and whatever other users    *)
(* claim, in haste or not.  (request.service.spec.ts:182)                  *)
(***************************************************************************)
PatientApprovedOnce ==
  timeouts = 0 =>
    \A u \in Users \ hasty, e \in Events : requests[<<u, e>>] <= 1

(***************************************************************************)
(* Every request is answered, even if the event service never moves.       *)
(***************************************************************************)
EveryRequestAnswered == \A c \in Claims : http[c] = "sent" ~> http[c] \in Answered
=============================================================================
