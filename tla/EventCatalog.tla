---------------------------- MODULE EventCatalog ----------------------------
(***************************************************************************)
(* EventService: the events collection and the two operations that write   *)
(* it, createEvent (one insert) and addEventReward (a read, a push on the  *)
(* document in memory, and a write of the whole rewards array).            *)
(*                                                                         *)
(* Every addEventReward call of a behaviour is an element of Edits.  Its   *)
(* arguments are fixed in the initial state; when it starts, and how its   *)
(* two database calls interleave with those of the others, is not.         *)
(***************************************************************************)
EXTENDS Naturals, Sequences, FiniteSets

CONSTANTS
  Events,      \* event documents that exist or may be created
  Edits,       \* calls of addEventReward
  Rewards,     \* the rewards an operator may submit
  InitialLists,\* the reward lists a createEvent call may carry
  Dates,       \* calendar: the instants an event may start or end at
  Seed,        \* the collection when the services start
  MaxEdits     \* environment bound: addEventReward calls in flight at once

EventStatus == {"DRAFT", "SCHEDULED", "ACTIVE", "ENDED", "CANCELLED"}

Absent == [status |-> "ABSENT", start |-> 0, end |-> 0, rewards |-> <<>>]

EventDocs == [status : EventStatus, start : Dates, end : Dates,
              rewards : Seq(Rewards)]

ASSUME CatalogAssumption ==
  /\ Dates \subseteq Nat
  /\ InitialLists \subseteq Seq(Rewards)
  /\ IsFiniteSet(Edits)
  /\ MaxEdits \in Nat \ {0}
  /\ Seed \in [Events -> EventDocs \cup {Absent}]

VARIABLES
  events,      \* the events collection
  editPc,      \* where each addEventReward call is
  editEvent,   \* its eventId argument
  editReward,  \* its rewardDto argument
  editDoc,     \* event.rewards in its memory, between its read and its write
  overlapped   \* history: calls that shared their event with one in flight

editVars == <<editPc, editEvent, editReward, editDoc, overlapped>>
catalogVars == <<events, editPc, editEvent, editReward, editDoc, overlapped>>

\* "failed" is a read that threw, "unknown" a write that threw.  The client gets
\* the same error for both, but only the first tells that nothing was stored.
EditDone == {"added", "refused", "failed", "unknown"}
EditPcs == {"idle", "findById", "update"} \cup EditDone

CatalogTypeOK ==
  /\ events \in [Events -> EventDocs \cup {Absent}]
  /\ editPc \in [Edits -> EditPcs]
  /\ editEvent \in [Edits -> Events]
  /\ editReward \in [Edits -> Rewards]
  /\ editDoc \in [Edits -> Seq(Rewards)]
  /\ overlapped \subseteq Edits

CatalogInit ==
  /\ events = Seed
  /\ editPc = [a \in Edits |-> "idle"]
  /\ editEvent \in [Edits -> Events]
  /\ editReward \in [Edits -> Rewards]
  /\ editDoc = [a \in Edits |-> <<>>]
  /\ overlapped = {}

-----------------------------------------------------------------------------

Exists(e) == events[e].status # "ABSENT"

\* createEvent: rejects only a start after the end, inserts a DRAFT with the
\* optional initial rewards.
CreateEvent(e, start, end, initial) ==
  /\ ~Exists(e)
  /\ ~(start > end)
  /\ events' = [events EXCEPT ![e] =
        [status |-> "DRAFT", start |-> start, end |-> end, rewards |-> initial]]
  /\ UNCHANGED editVars

EditsInFlight == {a \in Edits : editPc[a] \in {"findById", "update"}}

\* The other calls that are editing the event of call a.
Rivals(a) == {b \in EditsInFlight \ {a} : editEvent[b] = editEvent[a]}

StartEdit(a) ==
  /\ editPc[a] = "idle"
  /\ Cardinality(EditsInFlight) < MaxEdits
  /\ editPc' = [editPc EXCEPT ![a] = "findById"]
  /\ overlapped' = overlapped \cup Rivals(a) \cup {b \in {a} : Rivals(a) # {}}
  /\ UNCHANGED <<events, editEvent, editReward, editDoc>>

\* Mutant: neither existence nor status is looked at.
AlwaysAccepts(e) == TRUE

AcceptsRewards(e) ==
  Exists(e) /\ events[e].status \notin {"ENDED", "CANCELLED"}

\* addEventReward's read: the document of this instant is kept across the await.
ReadForEdit(a) ==
  /\ editPc[a] = "findById"
  /\ AcceptsRewards(editEvent[a])
  /\ editDoc' = [editDoc EXCEPT ![a] = events[editEvent[a]].rewards]
  /\ editPc' = [editPc EXCEPT ![a] = "update"]
  /\ UNCHANGED <<events, editEvent, editReward, overlapped>>

\* Mutant: the status is looked at only after the reward has been stored.
RefusedTooLate(a) ==
  /\ editPc[a] = "findById"
  /\ ~AcceptsRewards(editEvent[a])
  /\ editPc' = [editPc EXCEPT ![a] = "refused"]
  /\ events' = [events EXCEPT ![editEvent[a]].rewards =
                   IF Exists(editEvent[a]) THEN Append(@, editReward[a]) ELSE @]
  /\ UNCHANGED <<editEvent, editReward, editDoc, overlapped>>

RefuseEdit(a) ==
  /\ editPc[a] = "findById"
  /\ ~AcceptsRewards(editEvent[a])
  /\ editPc' = [editPc EXCEPT ![a] = "refused"]
  /\ UNCHANGED <<events, editEvent, editReward, editDoc, overlapped>>

\* Mutants: push applied twice; assignment instead of push.
PushedTwice(a) == editDoc[a] \o <<editReward[a], editReward[a]>>
NotPushed(a) == <<editReward[a]>>

NewRewards(a) == Append(editDoc[a], editReward[a])

\* addEventReward's push and write: the array in the collection is replaced by
\* the array in memory.
StoreRewards(a) ==
  events' = [events EXCEPT ![editEvent[a]].rewards = NewRewards(a)]

WriteRewards(a) ==
  /\ editPc[a] = "update"
  /\ StoreRewards(a)
  /\ editPc' = [editPc EXCEPT ![a] = "added"]
  /\ editDoc' = [editDoc EXCEPT ![a] = <<>>]
  /\ UNCHANGED <<editEvent, editReward, overlapped>>

\* Mutant: a failed call is retried for ever.
RetryForEver(a) ==
  /\ editPc[a] \in {"findById", "update"}
  /\ editPc' = [editPc EXCEPT ![a] = "findById"]
  /\ UNCHANGED <<events, editEvent, editReward, editDoc, overlapped>>

\* Either database call of addEventReward throws.  A read that throws changes
\* nothing; a write that throws (its acknowledgement may be what was lost) has
\* stored the array or has not.
FailEdit(a) ==
  /\ editDoc' = [editDoc EXCEPT ![a] = <<>>]
  /\ UNCHANGED <<editEvent, editReward, overlapped>>
  /\ \/ /\ editPc[a] = "findById"
        /\ editPc' = [editPc EXCEPT ![a] = "failed"]
        /\ UNCHANGED events
     \/ /\ editPc[a] = "update"
        /\ editPc' = [editPc EXCEPT ![a] = "unknown"]
        /\ StoreRewards(a) \/ UNCHANGED events

EditStep(a) == ReadForEdit(a) \/ RefuseEdit(a) \/ WriteRewards(a) \/ FailEdit(a)

Creations ==
  \E e \in Events, start, end \in Dates :
    \E initial \in InitialLists : CreateEvent(e, start, end, initial)

CatalogNext ==
  \/ Creations
  \/ \E a \in Edits : StartEdit(a) \/ EditStep(a)

CatalogSpec == CatalogInit /\ [][CatalogNext]_catalogVars

\* The event loop resumes every call that awaits the database.
CatalogFairSpec == CatalogSpec /\ \A a \in Edits : WF_catalogVars(EditStep(a))

-----------------------------------------------------------------------------

\* The calls whose write on event e was acknowledged or threw.
WrittenTo(e) ==
  {a \in Edits : editEvent[a] = e /\ editPc[a] \in {"added", "unknown"}}

RewardsOf(e) == {events[e].rewards[i] : i \in DOMAIN events[e].rewards}

\* What an event may hold before any addEventReward.
GivenLists(e) ==
  IF Seed[e] = Absent THEN {<<>>} \cup InitialLists ELSE {Seed[e].rewards}
GivenRewards(e) == UNION {{l[i] : i \in DOMAIN l} : l \in GivenLists(e)}

(***************************************************************************)
(* A reward is in an event only because the event was created with it or   *)
(* because an addEventReward call for that very event got as far as its    *)
(* write: a refused call, one whose read throws and one for another event  *)
(* never leave their reward behind, however the reads and writes of the    *)
(* calls interleave.  A call whose write throws may have stored it, though *)
(* its client is told it failed (event.service.ts:37-55).                  *)
(***************************************************************************)
NoForeignReward ==
  \A e \in Events :
    RewardsOf(e)
      \subseteq GivenRewards(e) \cup {editReward[a] : a \in WrittenTo(e)}

(***************************************************************************)
(* No call is applied twice: writing back whole arrays can drop rewards    *)
(* but never multiplies them, so an event never holds more rewards than it *)
(* was created with plus one for every call that succeeded or whose write  *)
(* threw (event.service.ts:51-52).                                         *)
(***************************************************************************)
NoRewardAppliedTwice ==
  \A e \in Events :
    \E given \in GivenLists(e) :
      Len(events[e].rewards) <= Len(given) + Cardinality(WrittenTo(e))

(***************************************************************************)
(* A reward whose addEventReward call succeeded stays in the event for     *)
(* good, unless that call was in flight together with another one on the   *)
(* same event: only such a pair can lose it, since each writes back the    *)
(* whole array it has read (event.service.ts:40, 51-52).  Calls that       *)
(* overlap afterwards, fail or lose their acknowledgement never drop it.   *)
(***************************************************************************)
AddedRewardsStay ==
  \A a \in Edits :
    editPc[a] = "added" /\ a \notin overlapped =>
      editReward[a] \in RewardsOf(editEvent[a])

(***************************************************************************)
(* Every addEventReward call that started is answered.                     *)
(***************************************************************************)
EveryEditEnds ==
  \A a \in Edits : editPc[a] = "findById" ~> editPc[a] \in EditDone
=============================================================================
