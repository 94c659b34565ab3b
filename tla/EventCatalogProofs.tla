------------------------- MODULE EventCatalogProofs -------------------------
(***************************************************************************)
(* Type correctness of EventCatalog, that an event holds no reward no call *)
(* on it may have stored, none twice, and that a reward whose call never   *)
(* overlapped another on its event stays.                                  *)
(***************************************************************************)
EXTENDS EventCatalog, FiniteSetTheorems, TLAPS

LEMMA AppendType ==
  ASSUME NEW S, NEW s \in Seq(S), NEW x \in S
  PROVE  /\ Append(s, x) \in Seq(S)
         /\ Len(Append(s, x)) = Len(s) + 1
         /\ \A i \in 1..Len(s) : Append(s, x)[i] = s[i]
         /\ Append(s, x)[Len(s) + 1] = x
  OBVIOUS

LEMMA RewardsType ==
  ASSUME NEW d \in EventDocs \cup {Absent} PROVE d.rewards \in Seq(Rewards)
<1>1. CASE d \in EventDocs BY <1>1 DEF EventDocs
<1>2. CASE d = Absent BY <1>2 DEF Absent
<1> QED BY <1>1, <1>2

(***************************************************************************)
(* The types are inductive only together with the fact that an edit about  *)
(* to write has seen its event exist: events are never deleted.            *)
(***************************************************************************)
TargetsExist == \A a \in Edits : editPc[a] = "update" => Exists(editEvent[a])
SeedKept == \A e \in Events : Seed[e] # Absent => Exists(e)

CatalogInv == CatalogTypeOK /\ TargetsExist /\ SeedKept

\* Storing an array keeps the collection's types and every event in existence.
LEMMA StoreKeeps ==
  ASSUME CatalogInv, NEW a \in Edits, editPc[a] = "update", StoreRewards(a)
  PROVE  /\ events' \in [Events -> EventDocs \cup {Absent}]
         /\ events'[editEvent[a]].rewards = Append(editDoc[a], editReward[a])
         /\ \A f \in Events \ {editEvent[a]} : events'[f] = events[f]
         /\ \A f \in Events : events[f].status # "ABSENT" => events'[f].status # "ABSENT"
<1> USE DEF CatalogInv, CatalogTypeOK, TargetsExist, SeedKept, Exists
<1> DEFINE e == editEvent[a]
           d == [events[e] EXCEPT !.rewards = NewRewards(a)]
<1>1. NewRewards(a) \in Seq(Rewards)
  BY DEF NewRewards
<1>2. events[e] \in EventDocs
  BY DEF Absent
<1>3. d \in EventDocs /\ d.status = events[e].status /\ d.rewards = NewRewards(a)
  BY <1>1, <1>2 DEF EventDocs
<1>4. d.status # "ABSENT"
  BY <1>3
<1>5. events' = [events EXCEPT ![e] = d]
  BY DEF StoreRewards
<1>6. e \in Events
  OBVIOUS
<1> HIDE DEF d
<1> QED BY <1>3, <1>4, <1>5, <1>6 DEF NewRewards

LEMMA CatalogInvInit == CatalogInit => CatalogInv
BY CatalogAssumption
   DEF CatalogInit, CatalogInv, CatalogTypeOK, TargetsExist, SeedKept, CatalogAssumption,
       EditPcs, Exists, EventDocs, EventStatus

LEMMA CatalogInvStep ==
  ASSUME CatalogInv, [CatalogNext]_catalogVars PROVE CatalogInv'
<1> USE DEF CatalogInv, CatalogTypeOK, TargetsExist, SeedKept, Exists
<1>1. ASSUME NEW e \in Events, NEW start \in Dates, NEW end \in Dates,
             NEW initial \in InitialLists, CreateEvent(e, start, end, initial)
      PROVE  CatalogInv'
  <2>1. [status |-> "DRAFT", start |-> start, end |-> end, rewards |-> initial]
          \in EventDocs
    BY CatalogAssumption DEF EventDocs, EventStatus, CatalogAssumption
  <2> QED BY <1>1, <2>1 DEF CreateEvent, editVars
<1>2. ASSUME NEW a \in Edits, StartEdit(a) PROVE CatalogInv'
  BY <1>2 DEF StartEdit, EditPcs, Rivals, EditsInFlight
<1>3. ASSUME NEW a \in Edits, ReadForEdit(a) PROVE CatalogInv'
  <2>1. events[editEvent[a]].rewards \in Seq(Rewards)
    BY RewardsType
  <2> QED BY <1>3, <2>1 DEF ReadForEdit, EditPcs, AcceptsRewards
<1>4. ASSUME NEW a \in Edits, RefuseEdit(a) PROVE CatalogInv'
  BY <1>4 DEF RefuseEdit, EditPcs, EditDone
<1>5. ASSUME NEW a \in Edits, WriteRewards(a) PROVE CatalogInv'
  <2>1. events' \in [Events -> EventDocs \cup {Absent}]
    BY <1>5, StoreKeeps DEF WriteRewards
  <2>2. \A f \in Events : events[f].status # "ABSENT" => events'[f].status # "ABSENT"
    BY <1>5, StoreKeeps DEF WriteRewards
  <2>3. /\ editPc' \in [Edits -> EditPcs]
        /\ editDoc' \in [Edits -> Seq(Rewards)]
        /\ UNCHANGED <<editEvent, editReward, overlapped>>
        /\ \A b \in Edits : editPc'[b] = "update" => editPc[b] = "update"
    BY <1>5 DEF WriteRewards, EditPcs, EditDone
  <2> QED BY <2>1, <2>2, <2>3
<1>6. ASSUME NEW a \in Edits, FailEdit(a) PROVE CatalogInv'
  <2>1. /\ events' \in [Events -> EventDocs \cup {Absent}]
        /\ \A f \in Events : events[f].status # "ABSENT" => events'[f].status # "ABSENT"
    <3>1. CASE UNCHANGED events
      BY <3>1
    <3>2. CASE editPc[a] = "update" /\ StoreRewards(a)
      BY <3>2, StoreKeeps
    <3> QED BY <1>6, <3>1, <3>2 DEF FailEdit
  <2>2. /\ editPc' \in [Edits -> EditPcs]
        /\ editDoc' \in [Edits -> Seq(Rewards)]
        /\ UNCHANGED <<editEvent, editReward, overlapped>>
        /\ \A b \in Edits : editPc'[b] = "update" => editPc[b] = "update"
    <3>1. PICK r \in {"failed", "unknown"} : editPc' = [editPc EXCEPT ![a] = r]
      BY <1>6 DEF FailEdit
    <3>2. /\ editDoc' = [editDoc EXCEPT ![a] = <<>>]
          /\ UNCHANGED <<editEvent, editReward, overlapped>>
      BY <1>6 DEF FailEdit
    <3> QED BY <3>1, <3>2 DEF EditPcs, EditDone
  <2> QED BY <2>1, <2>2
<1>7. CASE UNCHANGED catalogVars
  BY <1>7 DEF catalogVars
<1> QED BY <1>1, <1>2, <1>3, <1>4, <1>5, <1>6, <1>7 DEF CatalogNext, Creations, EditStep

(***************************************************************************)
(* Type correctness of the events collection and of every addEventReward   *)
(* call, for any number of events, calls and rewards.                      *)
(***************************************************************************)
THEOREM CatalogTypeCorrect == CatalogSpec => []CatalogTypeOK
<1>1. CatalogInit => CatalogInv BY CatalogInvInit
<1>2. CatalogInv /\ [CatalogNext]_catalogVars => CatalogInv' BY CatalogInvStep
<1>3. CatalogInv => CatalogTypeOK BY DEF CatalogInv
<1> QED BY <1>1, <1>2, <1>3, PTL DEF CatalogSpec

(***************************************************************************)
(* The inductive invariant: types, and that a call about to write has seen *)
(* its event exist.                                                        *)
(***************************************************************************)
THEOREM CatalogInvariant == CatalogSpec => []CatalogInv
BY CatalogInvInit, CatalogInvStep, PTL DEF CatalogSpec

-----------------------------------------------------------------------------
(* No foreign reward *)

Elements(list) == {list[i] : i \in DOMAIN list}

Allowed(e) == GivenRewards(e) \cup {editReward[a] : a \in WrittenTo(e)}

\* What an edit holds in memory came from the event, so it is allowed too.
MemoryAllowed ==
  \A a \in Edits : Elements(editDoc[a]) \subseteq Allowed(editEvent[a])

Written(a) == editPc[a] \in {"added", "unknown"}

\* An edit ends by storing its array (acknowledged or not), or it stores nothing.
EndsStoring(a) ==
  /\ editPc[a] = "update"
  /\ StoreRewards(a)
  /\ \E r \in {"added", "unknown"} : editPc' = [editPc EXCEPT ![a] = r]
  /\ editDoc' = [editDoc EXCEPT ![a] = <<>>]
  /\ UNCHANGED <<editEvent, editReward, overlapped>>

EndsEmpty(a) ==
  /\ \/ editPc[a] = "findById" /\ editPc' = [editPc EXCEPT ![a] = "failed"]
     \/ editPc[a] = "update" /\ editPc' = [editPc EXCEPT ![a] = "unknown"]
  /\ editDoc' = [editDoc EXCEPT ![a] = <<>>]
  /\ UNCHANGED <<events, editEvent, editReward, overlapped>>

LEMMA WriteStores == ASSUME NEW a, WriteRewards(a) PROVE EndsStoring(a)
BY DEF WriteRewards, EndsStoring

LEMMA FailStoresOrNot ==
  ASSUME NEW a, FailEdit(a) PROVE EndsStoring(a) \/ EndsEmpty(a)
BY DEF FailEdit, EndsStoring, EndsEmpty

ForeignInv == NoForeignReward /\ MemoryAllowed

LEMMA ElementsOfAppend ==
  ASSUME NEW S, NEW s \in Seq(S), NEW x \in S
  PROVE  Elements(Append(s, x)) \subseteq Elements(s) \cup {x}
BY AppendType DEF Elements

LEMMA ForeignInit == CatalogInit => ForeignInv
<1> SUFFICES ASSUME CatalogInit PROVE ForeignInv OBVIOUS
<1>1. \A e \in Events : RewardsOf(e) \subseteq GivenRewards(e)
  BY DEF CatalogInit, RewardsOf, GivenRewards, GivenLists, Absent
<1>2. \A a \in Edits : Elements(editDoc[a]) = {}
  BY DEF CatalogInit, Elements
<1> QED BY <1>1, <1>2 DEF ForeignInv, NoForeignReward, MemoryAllowed, Allowed

\* Reads, refusals and failures leave every allowed set as large as it was.
LEMMA ForeignQuiet ==
  ASSUME CatalogInv, ForeignInv, UNCHANGED <<editEvent, editReward>>,
         \A a \in Edits : Written(a) => Written(a)',
         \A e \in Events : \/ events'[e].rewards = events[e].rewards
                           \/ events'[e].rewards \in GivenLists(e),
         \A a \in Edits : \/ editDoc'[a] = editDoc[a]
                          \/ editDoc'[a] = <<>>
                          \/ editDoc'[a] = events[editEvent[a]].rewards
  PROVE  ForeignInv'
<1>1. \A e \in Events : Allowed(e) \subseteq Allowed(e)'
  BY DEF Allowed, WrittenTo, Written, GivenRewards, GivenLists
<1>2. \A e \in Events : RewardsOf(e)' \subseteq Allowed(e)'
  <2> TAKE e \in Events
  <2>1. CASE events'[e].rewards = events[e].rewards
    BY <2>1, <1>1 DEF RewardsOf, ForeignInv, NoForeignReward, Allowed
  <2>2. CASE events'[e].rewards \in GivenLists(e)
    BY <2>2 DEF RewardsOf, Allowed, GivenRewards, GivenLists
  <2> QED BY <2>1, <2>2
<1>3. \A a \in Edits : Elements(editDoc[a])' \subseteq Allowed(editEvent[a])'
  <2> TAKE a \in Edits
  <2>1. editEvent[a] \in Events
    BY DEF CatalogInv, CatalogTypeOK
  <2>2. CASE editDoc'[a] = editDoc[a]
    BY <2>1, <2>2, <1>1 DEF Elements, ForeignInv, MemoryAllowed
  <2>3. CASE editDoc'[a] = <<>>
    BY <2>3 DEF Elements
  <2>4. CASE editDoc'[a] = events[editEvent[a]].rewards
    BY <2>1, <2>4, <1>1
       DEF Elements, RewardsOf, ForeignInv, NoForeignReward, Allowed
  <2> QED BY <2>2, <2>3, <2>4
<1> QED BY <1>2, <1>3 DEF ForeignInv, NoForeignReward, MemoryAllowed, Allowed

LEMMA ForeignStore ==
  ASSUME CatalogInv, ForeignInv, NEW a \in Edits, EndsStoring(a)
  PROVE  ForeignInv'
<1> PICK e \in Events : e = editEvent[a]
  BY DEF CatalogInv, CatalogTypeOK
<1>1. /\ e \in Events
      /\ editReward[a] \in Rewards
      /\ editDoc \in [Edits -> Seq(Rewards)]
      /\ editPc \in [Edits -> EditPcs]
  BY DEF CatalogInv, CatalogTypeOK
<1>3. /\ events'[e].rewards = Append(editDoc[a], editReward[a])
      /\ \A f \in Events \ {e} : events'[f] = events[f]
  BY StoreKeeps DEF EndsStoring
<1>4. /\ UNCHANGED <<editEvent, editReward>>
      /\ Written(a)'
      /\ \A b \in Edits : Written(b) => Written(b)'
      /\ editDoc'[a] = <<>>
      /\ \A b \in Edits \ {a} : editDoc'[b] = editDoc[b]
  BY <1>1 DEF EndsStoring, Written
<1>5. \A f \in Events : Allowed(f) \subseteq Allowed(f)'
  BY <1>4 DEF Allowed, WrittenTo, Written, GivenRewards, GivenLists
<1>6. editReward[a] \in Allowed(e)'
  BY <1>4 DEF Allowed, WrittenTo, Written
<1>7. RewardsOf(e)' \subseteq Allowed(e)'
  <2>1. RewardsOf(e)' = Elements(Append(editDoc[a], editReward[a]))
    BY <1>3 DEF RewardsOf, Elements
  <2>2. Elements(editDoc[a]) \subseteq Allowed(e)'
    BY <1>1, <1>5 DEF ForeignInv, MemoryAllowed
  <2> QED BY <2>1, <2>2, <1>1, <1>6, ElementsOfAppend
<1>8. \A f \in Events \ {e} : RewardsOf(f)' \subseteq Allowed(f)'
  BY <1>3, <1>5 DEF RewardsOf, ForeignInv, NoForeignReward, Allowed
<1>9. \A b \in Edits : Elements(editDoc[b])' \subseteq Allowed(editEvent[b])'
  <2> TAKE b \in Edits
  <2>1. editEvent[b] \in Events
    BY DEF CatalogInv, CatalogTypeOK
  <2>2. CASE b = a
    BY <2>2, <1>4 DEF Elements
  <2>3. CASE b # a
    BY <2>1, <2>3, <1>4, <1>5 DEF Elements, ForeignInv, MemoryAllowed
  <2> QED BY <2>2, <2>3
<1> QED BY <1>7, <1>8, <1>9 DEF ForeignInv, NoForeignReward, MemoryAllowed, Allowed

LEMMA ForeignStep ==
  ASSUME CatalogInv, ForeignInv, [CatalogNext]_catalogVars PROVE ForeignInv'
<1> USE DEF CatalogInv, CatalogTypeOK
<1>1. ASSUME NEW e \in Events, NEW start \in Dates, NEW end \in Dates,
             NEW initial \in InitialLists, CreateEvent(e, start, end, initial)
      PROVE  ForeignInv'
  <2>1. events'[e].rewards \in GivenLists(e)
    <3>1. events[e] = Absent
      BY <1>1 DEF CreateEvent, Exists, EventDocs, EventStatus
    <3>2. Seed[e] = Absent
      BY <1>1 DEF CreateEvent, SeedKept
    <3> QED BY <1>1, <3>2 DEF CreateEvent, GivenLists, EventDocs
  <2>2. \A f \in Events \ {e} : events'[f] = events[f]
    BY <1>1 DEF CreateEvent
  <2> QED BY <1>1, <2>1, <2>2, ForeignQuiet DEF CreateEvent, editVars, Written
<1>2. ASSUME NEW a \in Edits, StartEdit(a) PROVE ForeignInv'
  BY <1>2, ForeignQuiet DEF StartEdit, Written
<1>3. ASSUME NEW a \in Edits, ReadForEdit(a) PROVE ForeignInv'
  BY <1>3, ForeignQuiet DEF ReadForEdit, Written
<1>4. ASSUME NEW a \in Edits, RefuseEdit(a) PROVE ForeignInv'
  BY <1>4, ForeignQuiet DEF RefuseEdit, Written
<1>5. ASSUME NEW a \in Edits, WriteRewards(a) PROVE ForeignInv'
  BY <1>5, WriteStores, ForeignStore
<1>6. ASSUME NEW a \in Edits, FailEdit(a) PROVE ForeignInv'
  <2>1. CASE EndsStoring(a)
    BY <2>1, ForeignStore
  <2>2. CASE EndsEmpty(a)
    BY <2>2, ForeignQuiet DEF EndsEmpty, Written
  <2> QED BY <1>6, <2>1, <2>2, FailStoresOrNot
<1>7. CASE UNCHANGED catalogVars
  BY <1>7, ForeignQuiet DEF catalogVars, Written
<1> QED BY <1>1, <1>2, <1>3, <1>4, <1>5, <1>6, <1>7 DEF CatalogNext, Creations, EditStep

(***************************************************************************)
(* For any number of concurrent addEventReward calls, of which any may     *)
(* fail or lose its acknowledgement: no reward is in an event without      *)
(* having been given at its creation or written by a call on that event.   *)
(***************************************************************************)
THEOREM NoForeignRewardHolds == CatalogSpec => []NoForeignReward
<1>1. CatalogInit => CatalogInv /\ ForeignInv
  BY CatalogInvInit, ForeignInit
<1>2. CatalogInv /\ ForeignInv /\ [CatalogNext]_catalogVars => CatalogInv' /\ ForeignInv'
  BY CatalogInvStep, ForeignStep
<1>3. ForeignInv => NoForeignReward
  BY DEF ForeignInv
<1> QED BY <1>1, <1>2, <1>3, PTL DEF CatalogSpec

-----------------------------------------------------------------------------
(* No reward is applied twice *)

\* Only a call that is about to write holds an array in memory.
MemoryWhileWriting == \A a \in Edits : editPc[a] # "update" => editDoc[a] = <<>>

\* Neither the event nor what any of its calls holds in memory is longer than
\* one and the same initial list plus one reward per call that may have written.
LengthBound(e, given) ==
  /\ Len(events[e].rewards) <= Len(given) + Cardinality(WrittenTo(e))
  /\ \A a \in Edits : editEvent[a] = e =>
       Len(editDoc[a]) <= Len(given) + Cardinality(WrittenTo(e))

LengthInv ==
  /\ MemoryWhileWriting
  /\ \A e \in Events : \E given \in GivenLists(e) : LengthBound(e, given)

LEMMA GivenAreLists ==
  ASSUME NEW e \in Events, NEW given \in GivenLists(e)
  PROVE  given \in Seq(Rewards) /\ Len(given) \in Nat
<1>1. Seed[e] \in EventDocs \cup {Absent} /\ InitialLists \subseteq Seq(Rewards)
  BY CatalogAssumption DEF CatalogAssumption
<1>2. Seed[e].rewards \in Seq(Rewards)
  BY <1>1, RewardsType
<1>3. given = <<>> \/ given \in InitialLists \/ given = Seed[e].rewards
  BY DEF GivenLists
<1>4. <<>> \in Seq(Rewards)
  OBVIOUS
<1>5. given \in Seq(Rewards)
  BY <1>1, <1>2, <1>3, <1>4, Zenon
<1> QED BY <1>5

LEMMA WrittenFinite ==
  ASSUME NEW e PROVE IsFiniteSet(WrittenTo(e)) /\ Cardinality(WrittenTo(e)) \in Nat
BY CatalogAssumption, FS_Subset, FS_CardinalityType DEF CatalogAssumption, WrittenTo

LEMMA LengthInit == CatalogInit => LengthInv
<1> SUFFICES ASSUME CatalogInit PROVE LengthInv
  OBVIOUS
<1>1. MemoryWhileWriting
  BY DEF CatalogInit, MemoryWhileWriting
<1>2. ASSUME NEW e \in Events PROVE \E given \in GivenLists(e) : LengthBound(e, given)
  <2>1. events[e].rewards \in GivenLists(e)
    BY DEF CatalogInit, GivenLists, Absent
  <2>2. Len(events[e].rewards) \in Nat /\ Cardinality(WrittenTo(e)) \in Nat
    BY <2>1, GivenAreLists, WrittenFinite
  <2>3. \A a \in Edits : Len(editDoc[a]) = 0
    BY DEF CatalogInit
  <2>4. LengthBound(e, events[e].rewards)
    BY <2>2, <2>3 DEF LengthBound
  <2> QED BY <2>1, <2>4
<1> QED BY <1>1, <1>2 DEF LengthInv

\* Reads, refusals and failures: the arrays in memory are the event's or none.
LEMMA LengthQuiet ==
  ASSUME CatalogInv, LengthInv, UNCHANGED <<events, editEvent>>,
         \A a \in Edits : Written(a) => Written(a)',
         \A a \in Edits :
           \/ /\ editDoc'[a] = editDoc[a]
              /\ editPc'[a] = "update" <=> editPc[a] = "update"
           \/ editDoc'[a] = <<>>
           \/ editDoc'[a] = events[editEvent[a]].rewards /\ editPc'[a] = "update"
  PROVE  LengthInv'
<1>1. MemoryWhileWriting'
  BY DEF LengthInv, MemoryWhileWriting
<1>2. ASSUME NEW e \in Events PROVE \E given \in GivenLists(e) : LengthBound(e, given)'
  <2>1. PICK given \in GivenLists(e) : LengthBound(e, given)
    BY DEF LengthInv
  <2>2. Cardinality(WrittenTo(e)) <= Cardinality(WrittenTo(e)')
    <3>1. WrittenTo(e) \subseteq WrittenTo(e)'
      BY DEF WrittenTo, Written
    <3>2. IsFiniteSet(WrittenTo(e)')
      BY CatalogAssumption, FS_Subset DEF CatalogAssumption, WrittenTo
    <3> QED BY <3>1, <3>2, FS_Subset
  <2>3. /\ Len(given) \in Nat
        /\ Cardinality(WrittenTo(e)) \in Nat /\ Cardinality(WrittenTo(e)') \in Nat
    <3>1. IsFiniteSet(WrittenTo(e)')
      BY CatalogAssumption, FS_Subset DEF CatalogAssumption, WrittenTo
    <3> QED BY <3>1, GivenAreLists, WrittenFinite, FS_CardinalityType
  <2>6. /\ Len(events[e].rewards) \in Nat
        /\ Len(events[e].rewards) <= Len(given) + Cardinality(WrittenTo(e)')
    BY <2>1, <2>2, <2>3, RewardsType DEF LengthBound, CatalogInv, CatalogTypeOK
  <2>4. ASSUME NEW a \in Edits, editEvent[a] = e
        PROVE  Len(editDoc'[a]) <= Len(given) + Cardinality(WrittenTo(e)')
    <3>1. Len(<<>>) <= Len(given) + Cardinality(WrittenTo(e)')
      BY <2>3
    <3>2. Len(editDoc[a]) \in Nat
      BY DEF CatalogInv, CatalogTypeOK
    <3>3. Len(editDoc[a]) <= Len(given) + Cardinality(WrittenTo(e)')
      BY <2>1, <2>2, <2>3, <2>4, <3>2 DEF LengthBound
    <3> QED BY <2>4, <2>6, <3>1, <3>3
  <2>5. LengthBound(e, given)'
    BY <2>4, <2>6 DEF LengthBound
  <2> QED BY <2>5
<1>3. \A e \in Events : GivenLists(e)' = GivenLists(e)
  BY DEF GivenLists
<1> QED BY <1>1, <1>2, <1>3 DEF LengthInv

\* An event that is created has no call that holds an array in memory.
LEMMA LengthCreate ==
  ASSUME CatalogInv, LengthInv, NEW e \in Events, NEW start \in Dates,
         NEW end \in Dates, NEW initial \in InitialLists,
         CreateEvent(e, start, end, initial)
  PROVE  LengthInv'
<1>1. UNCHANGED <<editPc, editEvent, editDoc>>
  BY DEF CreateEvent, editVars
<1>2. \A f \in Events : WrittenTo(f)' = WrittenTo(f)
  BY <1>1 DEF WrittenTo
<1>3. MemoryWhileWriting'
  BY <1>1 DEF LengthInv, MemoryWhileWriting
<1>4. /\ events'[e].rewards = initial
      /\ \A f \in Events \ {e} : events'[f] = events[f]
  BY DEF CreateEvent, CatalogInv, CatalogTypeOK
<1>5. initial \in GivenLists(e)
  BY DEF CreateEvent, CatalogInv, SeedKept, GivenLists
<1>6. \A a \in Edits : editEvent[a] = e => editDoc[a] = <<>>
  BY DEF CreateEvent, CatalogInv, TargetsExist, LengthInv, MemoryWhileWriting
<1>7. LengthBound(e, initial)'
  <2>1. Len(initial) \in Nat /\ Cardinality(WrittenTo(e)) \in Nat
    BY <1>5, GivenAreLists, WrittenFinite
  <2>2. Len(initial) <= Len(initial) + Cardinality(WrittenTo(e))
    BY <2>1
  <2>3. Len(<<>>) <= Len(initial) + Cardinality(WrittenTo(e))
    BY <2>1
  <2> QED BY <1>1, <1>2, <1>4, <1>6, <2>2, <2>3 DEF LengthBound
<1>8. ASSUME NEW f \in Events \ {e}, NEW given \in GivenLists(f), LengthBound(f, given)
      PROVE  LengthBound(f, given)'
  BY <1>1, <1>2, <1>4, <1>8 DEF LengthBound
<1>9. \A f \in Events : GivenLists(f)' = GivenLists(f)
  BY DEF GivenLists
<1> QED BY <1>3, <1>5, <1>7, <1>8, <1>9 DEF LengthInv

\* Storing makes the event one longer than the writer's array, and the writer a
\* call that may have written.
LEMMA LengthStore ==
  ASSUME CatalogInv, LengthInv, NEW a \in Edits, EndsStoring(a)
  PROVE  LengthInv'
<1> PICK e \in Events : e = editEvent[a]
  BY DEF CatalogInv, CatalogTypeOK
<1>1. /\ editReward[a] \in Rewards
      /\ editDoc \in [Edits -> Seq(Rewards)]
      /\ editPc \in [Edits -> EditPcs]
  BY DEF CatalogInv, CatalogTypeOK
<1>3. /\ events'[e].rewards = Append(editDoc[a], editReward[a])
      /\ \A f \in Events \ {e} : events'[f] = events[f]
  BY StoreKeeps DEF EndsStoring
<1>4. /\ UNCHANGED editEvent
      /\ editPc[a] = "update" /\ ~Written(a) /\ Written(a)'
      /\ editPc'[a] # "update"
      /\ editDoc'[a] = <<>>
      /\ \A b \in Edits \ {a} : editDoc'[b] = editDoc[b] /\ editPc'[b] = editPc[b]
  BY <1>1 DEF EndsStoring, Written
<1>5. MemoryWhileWriting'
  BY <1>4 DEF LengthInv, MemoryWhileWriting
<1>6. Len(events'[e].rewards) = Len(editDoc[a]) + 1 /\ Len(editDoc[a]) \in Nat
  BY <1>1, <1>3, AppendType
<1>7. /\ WrittenTo(e)' = WrittenTo(e) \cup {a}
      /\ a \notin WrittenTo(e)
      /\ \A f \in Events \ {e} : WrittenTo(f)' = WrittenTo(f)
  BY <1>4 DEF WrittenTo, Written
<1>8. Cardinality(WrittenTo(e)') = Cardinality(WrittenTo(e)) + 1
  BY <1>7, WrittenFinite, FS_AddElement
<1>9. ASSUME NEW given \in GivenLists(e), LengthBound(e, given)
      PROVE  LengthBound(e, given)'
  <2>1. Len(given) \in Nat /\ Cardinality(WrittenTo(e)) \in Nat
    BY GivenAreLists, WrittenFinite
  <2>2. Len(editDoc[a]) <= Len(given) + Cardinality(WrittenTo(e))
    BY <1>9 DEF LengthBound
  <2>3. Len(events'[e].rewards) <= Len(given) + Cardinality(WrittenTo(e)')
    BY <1>6, <1>8, <2>1, <2>2
  <2>4. ASSUME NEW b \in Edits, editEvent[b] = e
        PROVE  Len(editDoc'[b]) <= Len(given) + Cardinality(WrittenTo(e)')
    <3>1. CASE b = a
      BY <1>4, <1>8, <2>1, <3>1
    <3>2. CASE b # a
      <4>1. editDoc'[b] = editDoc[b] /\ Len(editDoc[b]) \in Nat
        BY <1>1, <1>4, <3>2
      <4>2. Len(editDoc[b]) <= Len(given) + Cardinality(WrittenTo(e))
        BY <1>9, <2>4 DEF LengthBound
      <4> QED BY <1>8, <2>1, <4>1, <4>2
    <3> QED BY <3>1, <3>2
  <2> QED BY <1>4, <2>3, <2>4 DEF LengthBound
<1>10. ASSUME NEW f \in Events \ {e}, NEW given \in GivenLists(f), LengthBound(f, given)
       PROVE  LengthBound(f, given)'
  BY <1>3, <1>4, <1>7, <1>10 DEF LengthBound
<1>11. \A f \in Events : GivenLists(f)' = GivenLists(f)
  BY DEF GivenLists
<1> QED BY <1>5, <1>9, <1>10, <1>11 DEF LengthInv

LEMMA LengthStep ==
  ASSUME CatalogInv, LengthInv, [CatalogNext]_catalogVars PROVE LengthInv'
<1> USE DEF CatalogInv, CatalogTypeOK
<1>1. ASSUME NEW e \in Events, NEW start \in Dates, NEW end \in Dates,
             NEW initial \in InitialLists, CreateEvent(e, start, end, initial)
      PROVE  LengthInv'
  BY <1>1, LengthCreate
<1>2. ASSUME NEW a \in Edits, StartEdit(a) PROVE LengthInv'
  BY <1>2, LengthQuiet DEF StartEdit, Written
<1>3. ASSUME NEW a \in Edits, ReadForEdit(a) PROVE LengthInv'
  BY <1>3, LengthQuiet DEF ReadForEdit, Written
<1>4. ASSUME NEW a \in Edits, RefuseEdit(a) PROVE LengthInv'
  BY <1>4, LengthQuiet DEF RefuseEdit, Written
<1>5. ASSUME NEW a \in Edits, WriteRewards(a) PROVE LengthInv'
  BY <1>5, WriteStores, LengthStore
<1>6. ASSUME NEW a \in Edits, FailEdit(a) PROVE LengthInv'
  <2>1. CASE EndsStoring(a)
    BY <2>1, LengthStore
  <2>2. CASE EndsEmpty(a)
    BY <2>2, LengthQuiet DEF EndsEmpty, Written
  <2> QED BY <1>6, <2>1, <2>2, FailStoresOrNot
<1>7. CASE UNCHANGED catalogVars
  BY <1>7, LengthQuiet DEF catalogVars, Written
<1> QED BY <1>1, <1>2, <1>3, <1>4, <1>5, <1>6, <1>7 DEF CatalogNext, Creations, EditStep

(***************************************************************************)
(* For any number of overlapping addEventReward calls, of which any may    *)
(* fail or lose its acknowledgement: an event never holds more rewards     *)
(* than one of its initial lists plus one per call whose write was         *)
(* acknowledged or threw.                                                  *)
(***************************************************************************)
THEOREM NoRewardTwice == CatalogSpec => []NoRewardAppliedTwice
<1>1. CatalogInit => CatalogInv /\ LengthInv
  BY CatalogInvInit, LengthInit
<1>2. CatalogInv /\ LengthInv /\ [CatalogNext]_catalogVars => CatalogInv' /\ LengthInv'
  BY CatalogInvStep, LengthStep
<1>3. LengthInv => NoRewardAppliedTwice
  BY DEF LengthInv, LengthBound, NoRewardAppliedTwice
<1> QED BY <1>1, <1>2, <1>3, PTL DEF CatalogSpec

-----------------------------------------------------------------------------
(* Rewards that stay *)

\* Calls in flight together on one event are remembered, and what a call about
\* to write holds in memory contains every reward that must stay.
OverlapsRecorded ==
  \A a, b \in EditsInFlight :
    a # b /\ editEvent[a] = editEvent[b] => a \in overlapped

MustStay(a) == editPc[a] = "added" /\ a \notin overlapped

MemoryKeeps ==
  \A a, b \in Edits :
    MustStay(a) /\ editPc[b] = "update" /\ editEvent[b] = editEvent[a] =>
      editReward[a] \in Elements(editDoc[b])

StayInv == AddedRewardsStay /\ OverlapsRecorded /\ MemoryKeeps

LEMMA AppendKeeps ==
  ASSUME NEW S, NEW s \in Seq(S), NEW x \in S
  PROVE  Elements(s) \cup {x} \subseteq Elements(Append(s, x))
<1>1. x \in Elements(Append(s, x))
  BY AppendType DEF Elements
<1>2. ASSUME NEW i \in DOMAIN s PROVE s[i] \in Elements(Append(s, x))
  <2>1. i \in 1..Len(s) /\ i \in DOMAIN Append(s, x)
    BY AppendType
  <2> QED BY <2>1, AppendType DEF Elements
<1> QED BY <1>1, <1>2 DEF Elements

LEMMA StayStore ==
  ASSUME CatalogInv, StayInv, NEW a \in Edits, EndsStoring(a)
  PROVE  StayInv'
<1> PICK e \in Events : e = editEvent[a]
  BY DEF CatalogInv, CatalogTypeOK
<1>1. /\ editReward[a] \in Rewards
      /\ editDoc[a] \in Seq(Rewards)
      /\ editDoc \in [Edits -> Seq(Rewards)]
      /\ editPc \in [Edits -> EditPcs]
  BY DEF CatalogInv, CatalogTypeOK
<1>2. /\ events'[e].rewards = Append(editDoc[a], editReward[a])
      /\ \A f \in Events \ {e} : events'[f] = events[f]
  BY StoreKeeps DEF EndsStoring
<1>3. /\ UNCHANGED <<editEvent, editReward, overlapped>>
      /\ editPc[a] = "update" /\ editPc'[a] \in {"added", "unknown"}
      /\ \A b \in Edits \ {a} : editDoc'[b] = editDoc[b] /\ editPc'[b] = editPc[b]
  BY <1>1 DEF EndsStoring
<1>4. \A b \in Edits \ {a} : MustStay(b)' => MustStay(b)
  BY <1>3 DEF MustStay
<1>5. RewardsOf(e)' = Elements(Append(editDoc[a], editReward[a]))
  BY <1>2 DEF RewardsOf, Elements
<1>6. AddedRewardsStay'
  <2> SUFFICES ASSUME NEW b \in Edits, NEW f \in Events, f = editEvent[b],
                      MustStay(b)'
               PROVE  editReward[b] \in RewardsOf(f)'
    BY <1>3 DEF AddedRewardsStay, MustStay, CatalogInv, CatalogTypeOK
  <2>1. CASE b = a
    BY <2>1, <1>1, <1>5, AppendKeeps
  <2>2. CASE b # a /\ f = e
    <3>1. editReward[b] \in Elements(editDoc[a])
      BY <2>2, <1>3, <1>4 DEF StayInv, MemoryKeeps
    <3> QED BY <3>1, <2>2, <1>1, <1>5, AppendKeeps
  <2>3. CASE b # a /\ f # e
    <3>1. editReward[b] \in RewardsOf(f)
      BY <2>3, <1>4 DEF StayInv, AddedRewardsStay, MustStay
    <3> QED BY <3>1, <2>3, <1>2 DEF RewardsOf
  <2> QED BY <2>1, <2>2, <2>3
<1>7. EditsInFlight' = EditsInFlight \ {a}
  BY <1>3 DEF EditsInFlight
<1>8. OverlapsRecorded'
  BY <1>3, <1>7 DEF StayInv, OverlapsRecorded
<1>9. MemoryKeeps'
  <2> SUFFICES ASSUME NEW b \in Edits, NEW c \in Edits, MustStay(b)',
                      editPc'[c] = "update", editEvent[c] = editEvent[b]
               PROVE  editReward[b] \in Elements(editDoc'[c])
    BY <1>3 DEF MemoryKeeps, Elements
  <2>1. c # a /\ editPc[c] = "update" /\ editDoc'[c] = editDoc[c]
    BY <1>3
  <2>2. CASE b = a
    <3>1. a \in EditsInFlight /\ c \in EditsInFlight
      BY <1>3, <2>1 DEF EditsInFlight
    <3>2. a \in overlapped
      BY <2>1, <2>2, <3>1 DEF StayInv, OverlapsRecorded
    <3> QED BY <2>2, <3>2, <1>3 DEF MustStay
  <2>3. CASE b # a
    BY <2>1, <2>3, <1>4 DEF StayInv, MemoryKeeps
  <2> QED BY <2>2, <2>3
<1> QED BY <1>6, <1>8, <1>9 DEF StayInv

LEMMA StayStep ==
  ASSUME CatalogInv, StayInv, [CatalogNext]_catalogVars PROVE StayInv'
<1> USE DEF CatalogInv, CatalogTypeOK
<1>1. ASSUME NEW e \in Events, NEW start \in Dates, NEW end \in Dates,
             NEW initial \in InitialLists, CreateEvent(e, start, end, initial)
      PROVE  StayInv'
  <2>1. events[e] = Absent /\ \A f \in Events \ {e} : events'[f] = events[f]
    BY <1>1 DEF CreateEvent, Exists, EventDocs, EventStatus
  <2>2. RewardsOf(e) = {}
    BY <2>1 DEF RewardsOf, Absent
  <2>3. \A f \in Events : RewardsOf(f) \subseteq RewardsOf(f)'
    BY <2>1, <2>2 DEF RewardsOf
  <2> QED BY <1>1, <2>3
        DEF CreateEvent, editVars, StayInv, AddedRewardsStay, OverlapsRecorded,
            MemoryKeeps, MustStay, EditsInFlight, Elements
<1>2. ASSUME NEW a \in Edits, StartEdit(a) PROVE StayInv'
  <2>1. /\ UNCHANGED <<events, editEvent, editReward, editDoc>>
        /\ overlapped \subseteq overlapped'
        /\ editPc' = [editPc EXCEPT ![a] = "findById"]
    BY <1>2 DEF StartEdit
  <2>2. AddedRewardsStay' /\ MemoryKeeps'
    <3>1. \A b \in Edits : MustStay(b)' => MustStay(b)
      BY <2>1 DEF MustStay
    <3>2. AddedRewardsStay'
      BY <2>1, <3>1 DEF StayInv, AddedRewardsStay, MustStay, RewardsOf
    <3>3. MemoryKeeps'
      BY <2>1, <3>1 DEF StayInv, MemoryKeeps, Elements
    <3> QED BY <3>2, <3>3
  <2>3. EditsInFlight' = EditsInFlight \cup {a}
    BY <2>1 DEF EditsInFlight
  <2>4. ASSUME NEW b \in EditsInFlight', NEW c \in EditsInFlight', b # c,
               editEvent[b] = editEvent[c]
        PROVE  b \in overlapped'
    <3>1. CASE b = a
      <4>1. c \in Rivals(a)
        BY <2>3, <2>4, <3>1 DEF Rivals
      <4> QED BY <1>2, <3>1, <4>1 DEF StartEdit
    <3>2. CASE c = a
      <4>1. b \in Rivals(a)
        BY <2>3, <2>4, <3>2 DEF Rivals
      <4> QED BY <1>2, <4>1 DEF StartEdit
    <3>3. CASE b # a /\ c # a
      BY <2>1, <2>3, <2>4, <3>3 DEF StayInv, OverlapsRecorded
    <3> QED BY <3>1, <3>2, <3>3
  <2>5. OverlapsRecorded'
    BY <2>1, <2>4 DEF OverlapsRecorded
  <2> QED BY <2>2, <2>5 DEF StayInv
<1>3. ASSUME NEW a \in Edits, ReadForEdit(a) PROVE StayInv'
  <2>1. /\ UNCHANGED <<events, editEvent, editReward, overlapped>>
        /\ editPc' = [editPc EXCEPT ![a] = "update"] /\ editPc[a] = "findById"
        /\ editDoc' = [editDoc EXCEPT ![a] = events[editEvent[a]].rewards]
    BY <1>3 DEF ReadForEdit
  <2>2. EditsInFlight' = EditsInFlight
    BY <2>1 DEF EditsInFlight
  <2>3. Elements(editDoc'[a]) = RewardsOf(editEvent[a])
    BY <2>1 DEF Elements, RewardsOf
  <2>4. \A b \in Edits : MustStay(b)' => MustStay(b)
    BY <2>1 DEF MustStay
  <2>5. MemoryKeeps'
    <3> SUFFICES ASSUME NEW b \in Edits, NEW c \in Edits, MustStay(b)',
                        editPc'[c] = "update", editEvent[c] = editEvent[b]
                 PROVE  editReward[b] \in Elements(editDoc'[c])
      BY <2>1 DEF MemoryKeeps, Elements
    <3>1. CASE c = a
      BY <3>1, <2>3, <2>4 DEF StayInv, AddedRewardsStay, MustStay
    <3>2. CASE c # a
      BY <3>2, <2>1, <2>4 DEF StayInv, MemoryKeeps
    <3> QED BY <3>1, <3>2
  <2>6. AddedRewardsStay' /\ OverlapsRecorded'
    BY <2>1, <2>2
       DEF StayInv, AddedRewardsStay, OverlapsRecorded, RewardsOf
  <2> QED BY <2>5, <2>6 DEF StayInv
<1>4. ASSUME NEW a \in Edits, RefuseEdit(a) PROVE StayInv'
  BY <1>4
     DEF RefuseEdit, StayInv, AddedRewardsStay, OverlapsRecorded, MemoryKeeps,
         MustStay, EditsInFlight, RewardsOf, Elements
<1>5. ASSUME NEW a \in Edits, WriteRewards(a) PROVE StayInv'
  BY <1>5, WriteStores, StayStore
<1>6. ASSUME NEW a \in Edits, FailEdit(a) PROVE StayInv'
  <2>1. CASE EndsStoring(a)
    BY <2>1, StayStore
  <2>2. CASE EndsEmpty(a)
    <3>1. /\ UNCHANGED <<events, editEvent, editReward, overlapped>>
          /\ editPc'[a] \in {"failed", "unknown"} /\ editDoc'[a] = <<>>
          /\ \A b \in Edits \ {a} : editPc'[b] = editPc[b] /\ editDoc'[b] = editDoc[b]
      BY <2>2 DEF EndsEmpty
    <3>2. \A b \in Edits : MustStay(b)' => MustStay(b)
      BY <3>1 DEF MustStay
    <3>3. AddedRewardsStay'
      BY <3>1, <3>2 DEF StayInv, AddedRewardsStay, MustStay, RewardsOf
    <3>4. OverlapsRecorded'
      BY <3>1 DEF StayInv, OverlapsRecorded, EditsInFlight
    <3>5. MemoryKeeps'
      <4> SUFFICES ASSUME NEW b \in Edits, NEW c \in Edits, MustStay(b)',
                          editPc'[c] = "update", editEvent[c] = editEvent[b]
                   PROVE  editReward[b] \in Elements(editDoc'[c])
        BY <3>1 DEF MemoryKeeps, Elements
      <4>1. editPc[c] = "update" /\ editDoc'[c] = editDoc[c]
        BY <3>1
      <4> QED BY <3>2, <4>1 DEF StayInv, MemoryKeeps
    <3> QED BY <3>3, <3>4, <3>5 DEF StayInv
  <2> QED BY <1>6, <2>1, <2>2, FailStoresOrNot
<1>7. CASE UNCHANGED catalogVars
  BY <1>7
     DEF catalogVars, StayInv, AddedRewardsStay, OverlapsRecorded, MemoryKeeps,
         MustStay, EditsInFlight, RewardsOf, Elements
<1> QED BY <1>1, <1>2, <1>3, <1>4, <1>5, <1>6, <1>7 DEF CatalogNext, Creations, EditStep

(***************************************************************************)
(* For any number of concurrent addEventReward calls, of which any may     *)
(* fail or lose its acknowledgement: the reward of a call that succeeded   *)
(* and that shared its event with no other call in flight stays in the     *)
(* event for good.                                                         *)
(***************************************************************************)
THEOREM AddedRewardsStayHolds == CatalogSpec => []AddedRewardsStay
<1>1. CatalogInit => CatalogInv /\ StayInv
  BY CatalogInvInit
     DEF CatalogInit, StayInv, AddedRewardsStay, OverlapsRecorded, MemoryKeeps,
         MustStay, EditsInFlight
<1>2. CatalogInv /\ StayInv /\ [CatalogNext]_catalogVars => CatalogInv' /\ StayInv'
  BY CatalogInvStep, StayStep
<1>3. StayInv => AddedRewardsStay
  BY DEF StayInv
<1> QED BY <1>1, <1>2, <1>3, PTL DEF CatalogSpec
=============================================================================
