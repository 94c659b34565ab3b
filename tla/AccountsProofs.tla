--------------------------- MODULE AccountsProofs ---------------------------
(***************************************************************************)
(* The properties of Accounts, for any number of names, registrations and  *)
(* changes of role.                                                        *)
(***************************************************************************)
EXTENDS Accounts, TLAPS

\* A call of register past its first checks has a name and, for the role
\* ADMIN, the key.
FormsChecked ==
  \A r \in Registrations : reg[r].pc \in {"findByUsername", "create"} \cup Makers =>
    /\ reg[r].form.name \in Names
    /\ reg[r].form.role = "ADMIN" => reg[r].form.key = "right"

\* A change of role gets to its update with an _id, where it needs a userId.
UpdatesNameObjectIds ==
  \A h \in RoleChanges : change[h].pc = "update" => change[h].ref \in ObjectIds

\* r made the account i, which is still as r asked for it.
Made(r, i) ==
  /\ reg[r].pc \in Makers
  /\ reg[r].id = i
  /\ i \in Stored
  /\ users[i].name = reg[r].form.name
  /\ users[i].role = reg[r].form.role

AccountsHaveMakers == \A i \in Stored : \E r \in Registrations : Made(r, i)

CreatedOnes == \A r \in Registrations : reg[r].pc \in Makers => Made(r, reg[r].id)

\* Who was told that the name exists was beaten by another call.
BeatenByAnother ==
  \A r \in Registrations : reg[r].pc \in {"exists", "duplicateKey"} =>
    \E s \in Registrations \ {r} :
      reg[s].pc \in Makers /\ reg[s].form.name = reg[r].form.name

AccountsInv ==
  /\ AccountsTypeOK
  /\ FormsChecked
  /\ UpdatesNameObjectIds
  /\ OneAccountPerName
  /\ AccountsHaveMakers
  /\ CreatedOnes
  /\ BeatenByAnother

RegRecords == [pc : RegPcs, form : Forms, id : ObjectIds]
ChangeRecords == [pc : ChangePcs, ref : Refs, role : UserRole]

LEMMA MakerPcs ==
  /\ Makers \subseteq RegPcs /\ "created" \in Makers
  /\ \A pc \in {"idle", "findByUsername", "create"} \cup Refusals : pc \notin Makers
  /\ {"exists", "duplicateKey", "failed", "badRequest", "unauthorized"} \subseteq Refusals
BY DEF Makers, RegPcs, Refusals

LEMMA AnyoneTypes == AnyForm \in Forms /\ AnyId \in ObjectIds
BY AccountsAssumption DEF AnyForm, AnyId, AccountsAssumption

LEMMA FormTypes ==
  ASSUME NEW form \in Forms
  PROVE  form.name \in Names \cup {NoName} /\ form.role \in UserRole /\ form.key \in AdminKeys
BY AccountsAssumption DEF AccountsAssumption

\* The checks before the first await let through complete forms only.
LEMMA ScreenedForms ==
  ASSUME NEW form \in Forms
  PROVE  /\ Screened(form) \in {"badRequest", "unauthorized", "findByUsername"}
         /\ Screened(form) = "findByUsername" =>
              form.name \in Names /\ (form.role = "ADMIN" => form.key = "right")
BY FormTypes, AccountsAssumption DEF Screened, AdminKeys, AccountsAssumption

LEMMA ExaminedRefs ==
  ASSUME NEW ref \in Refs, NEW role
  PROVE  /\ Examined(ref, role) \in {"castError", "notFound", "badRequest", "update"}
         /\ Examined(ref, role) = "update" => ref \in ObjectIds
BY DEF Examined, Refs, Stored

\* A call that only moves on, and is not answered with an account.
LEMMA RegMoves ==
  ASSUME AccountsInv, NEW r \in Registrations, NEW rec \in RegRecords,
         reg[r].pc \notin Makers, rec.pc \notin Makers,
         reg' = [reg EXCEPT ![r] = rec], UNCHANGED <<users, change>>, failedCalls' \in Nat,
         rec.pc \in {"findByUsername", "create"} =>
           rec.form.name \in Names /\ (rec.form.role = "ADMIN" => rec.form.key = "right"),
         rec.pc \in {"exists", "duplicateKey"} =>
           \E i \in Stored : users[i].name = rec.form.name
  PROVE  AccountsInv'
<1> USE DEF AccountsInv
<1>1. reg \in [Registrations -> RegRecords]
  BY DEF AccountsTypeOK, RegRecords
<1>2. AccountsTypeOK'
  BY <1>1 DEF AccountsTypeOK, RegRecords
<1>3. Stored' = Stored
  BY DEF Stored
<1>4. \A s \in Registrations : reg[s].pc \in Makers => s # r /\ reg'[s] = reg[s]
  BY <1>1
<1>5. FormsChecked'
  BY <1>1 DEF FormsChecked
<1>6. UpdatesNameObjectIds' /\ OneAccountPerName'
  BY <1>3 DEF UpdatesNameObjectIds, OneAccountPerName
<1>7. \A s \in Registrations, i \in Stored : Made(s, i) => Made(s, i)'
  BY <1>3, <1>4 DEF Made
<1>8. AccountsHaveMakers'
  BY <1>3, <1>7 DEF AccountsHaveMakers
<1>9. CreatedOnes'
  BY <1>1, <1>3, <1>4 DEF CreatedOnes, Made
<1>10. ASSUME NEW s \in Registrations, reg'[s].pc \in {"exists", "duplicateKey"}
       PROVE  \E t \in Registrations \ {s} :
                reg'[t].pc \in Makers /\ reg'[t].form.name = reg'[s].form.name
  <2>1. CASE s # r
    <3>1. reg'[s] = reg[s]
      BY <1>1, <2>1
    <3>2. PICK t \in Registrations \ {s} :
            reg[t].pc \in Makers /\ reg[t].form.name = reg[s].form.name
      BY <1>10, <3>1 DEF BeatenByAnother
    <3> QED BY <1>4, <3>1, <3>2
  <2>2. CASE s = r
    <3>1. reg'[s] = rec
      BY <1>1, <2>2
    <3>2. PICK i \in Stored : users[i].name = rec.form.name
      BY <1>10, <3>1
    <3>3. PICK t \in Registrations : Made(t, i)
      BY DEF AccountsHaveMakers
    <3>4. t # r /\ reg'[t] = reg[t] /\ reg[t].pc \in Makers
      BY <1>4, <3>3 DEF Made
    <3>5. reg[t].form.name = rec.form.name
      BY <3>2, <3>3 DEF Made
    <3> QED BY <2>2, <3>1, <3>4, <3>5
  <2> QED BY <2>1, <2>2
<1> QED BY <1>2, <1>5, <1>6, <1>8, <1>9, <1>10 DEF BeatenByAnother

\* A change of role leaves accounts and registrations as they are.
LEMMA ChangeMoves ==
  ASSUME AccountsInv, NEW h \in RoleChanges, NEW rec \in ChangeRecords,
         rec.pc = "update" => rec.ref \in ObjectIds,
         change' = [change EXCEPT ![h] = rec], UNCHANGED <<users, reg>>, failedCalls' \in Nat
  PROVE  AccountsInv'
<1> USE DEF AccountsInv
<1>1. AccountsTypeOK'
  BY DEF AccountsTypeOK, ChangeRecords
<1>2. UpdatesNameObjectIds'
  BY DEF UpdatesNameObjectIds, AccountsTypeOK
<1>3. Stored' = Stored
  BY DEF Stored
<1> QED BY <1>1, <1>2, <1>3 DEF FormsChecked, OneAccountPerName, AccountsHaveMakers,
           CreatedOnes, BeatenByAnother, Made

\* findOneAndUpdate never matches: no userId is an _id.
LEMMA NothingMatches ==
  ASSUME AccountsTypeOK, NEW ref \in ObjectIds PROVE Matches(ref) = {}
BY AccountsAssumption DEF Matches, Stored, AccountsTypeOK, UserDocs, AccountsAssumption

LEMMA AccountsInvInit == AccountsInit => AccountsInv
<1> SUFFICES ASSUME AccountsInit PROVE AccountsInv
  OBVIOUS
<1>1. Stored = {}
  BY DEF AccountsInit, Stored
<1>2. AccountsTypeOK
  BY AnyoneTypes DEF AccountsInit, AccountsTypeOK, RegPcs, ChangePcs, Refs, UserRole
<1> QED BY MakerPcs, <1>1, <1>2 DEF AccountsInit, AccountsInv, FormsChecked, UpdatesNameObjectIds,
           OneAccountPerName, AccountsHaveMakers, CreatedOnes, BeatenByAnother

LEMMA InsertKeeps ==
  ASSUME AccountsInv, NEW r \in Registrations, NEW i \in ObjectIds, NEW x \in Ulids,
         NEW outcome \in Makers, Create(r, i, x, outcome), failedCalls' \in Nat
  PROVE  AccountsInv'
<1> USE DEF AccountsInv
<1> DEFINE doc == NewUser(i, x, reg[r].form)
           rec == [reg[r] EXCEPT !.pc = outcome, !.id = i]
<1>0. /\ outcome \in RegPcs
      /\ \A pc \in {"create", "exists", "duplicateKey"} : pc \notin Makers
  BY MakerPcs DEF Refusals
<1>1. reg[r] \in RegRecords /\ reg[r].pc = "create" /\ i \notin Stored
  BY DEF AccountsTypeOK, RegRecords, Create
<1>2. reg[r].form.name \in Names
  BY <1>1 DEF FormsChecked
<1>3. doc \in UserDocs /\ doc # NoUser
  BY <1>1, <1>2, FormTypes, AccountsAssumption
     DEF UserDocs, NewUser, NoUser, RegRecords, AccountsAssumption
<1>4. doc.name = reg[r].form.name /\ doc.role = reg[r].form.role
  BY DEF NewUser
<1>5. rec \in RegRecords /\ rec.pc = outcome /\ rec.id = i /\ rec.form = reg[r].form
  BY <1>1 DEF RegRecords, RegPcs
<1>6. users' = [users EXCEPT ![i] = doc] /\ reg' = [reg EXCEPT ![r] = rec]
      /\ change' = change
  BY DEF Create
<1>7. \A j \in Stored : users[j].name # reg[r].form.name
  BY DEF Create, IndexRefuses
<1> HIDE DEF doc, rec
<1>8. users \in [ObjectIds -> UserDocs \cup {NoUser}] /\ reg \in [Registrations -> RegRecords]
  BY DEF AccountsTypeOK, RegRecords
<1>9. Stored' = Stored \cup {i}
  BY <1>3, <1>6, <1>8 DEF Stored
<1>10. \A j \in Stored : users'[j] = users[j]
  BY <1>1, <1>6, <1>8 DEF Stored
<1>11. users'[i] = doc /\ reg'[r] = rec
  BY <1>6, <1>8
<1>12. \A s \in Registrations \ {r} : reg'[s] = reg[s]
  BY <1>6, <1>8
<1>13. AccountsTypeOK'
  BY <1>3, <1>5, <1>6, <1>8 DEF AccountsTypeOK, RegRecords
<1>14. FormsChecked'
  BY <1>1, <1>5, <1>11, <1>12 DEF FormsChecked
<1>15. UpdatesNameObjectIds'
  BY <1>6 DEF UpdatesNameObjectIds
<1>16. OneAccountPerName'
  BY <1>4, <1>7, <1>9, <1>10, <1>11 DEF OneAccountPerName
<1>17. Made(r, i)'
  BY <1>4, <1>5, <1>9, <1>11 DEF Made
<1>18. ASSUME NEW s \in Registrations, NEW j \in Stored, Made(s, j) PROVE Made(s, j)'
  <2>1. s # r
    BY <1>0, <1>1, <1>18 DEF Made
  <2> QED BY <2>1, <1>9, <1>10, <1>12, <1>18 DEF Made
<1>19. AccountsHaveMakers'
  BY <1>9, <1>17, <1>18 DEF AccountsHaveMakers
<1>20. ASSUME NEW s \in Registrations, reg'[s].pc \in Makers PROVE Made(s, reg[s].id)' 
  <2>1. CASE s = r
    BY <2>1, <1>5, <1>11, <1>17
  <2>2. CASE s # r
    <3>1. Made(s, reg[s].id) /\ reg[s].id \in Stored
      BY <2>2, <1>12, <1>20 DEF CreatedOnes, Made
    <3>2. reg'[s].id = reg[s].id
      BY <2>2, <1>12
    <3> QED BY <3>1, <3>2, <1>18
  <2> QED BY <2>1, <2>2
<1>21. CreatedOnes'
  BY <1>20 DEF CreatedOnes
<1>22. ASSUME NEW s \in Registrations, reg'[s].pc \in {"exists", "duplicateKey"}
       PROVE  \E t \in Registrations \ {s} :
                reg'[t].pc \in Makers /\ reg'[t].form.name = reg'[s].form.name
  <2>1. s # r
    BY <1>0, <1>5, <1>11, <1>22
  <2>2. PICK t \in Registrations \ {s} :
          reg[t].pc \in Makers /\ reg[t].form.name = reg[s].form.name
    BY <2>1, <1>12, <1>22 DEF BeatenByAnother
  <2>3. t # r
    BY <1>0, <1>1, <2>2
  <2> QED BY <2>1, <2>2, <2>3, <1>12
<1> QED BY <1>13, <1>14, <1>15, <1>16, <1>19, <1>21, <1>22 DEF BeatenByAnother

LEMMA AccountsInvStep == ASSUME AccountsInv, [AccountsNext]_accountVars PROVE AccountsInv'
<1> USE DEF AccountsInv
<1>a. \A r \in Registrations : reg[r] \in RegRecords
  BY DEF AccountsTypeOK, RegRecords
<1>b. \A h \in RoleChanges : change[h] \in ChangeRecords
  BY DEF AccountsTypeOK, ChangeRecords
<1>c. failedCalls \in Nat /\ reg \in [Registrations -> RegRecords]
      /\ change \in [RoleChanges -> ChangeRecords]
  BY DEF AccountsTypeOK, RegRecords, ChangeRecords
<1>1. ASSUME NEW r \in Registrations, NEW form \in Forms, Submit(r, form) PROVE AccountsInv'
  <2> DEFINE rec == [reg[r] EXCEPT !.pc = Screened(form), !.form = form]
  <2>1. rec \in RegRecords /\ rec.pc = Screened(form) /\ rec.form = form
    BY <1>a, ScreenedForms DEF RegRecords, RegPcs, Refusals
  <2>2. reg' = [reg EXCEPT ![r] = rec] /\ reg[r].pc = "idle"
    BY <1>1, <1>c DEF Submit
  <2> HIDE DEF rec
  <2>3. UNCHANGED <<users, change>> /\ failedCalls' \in Nat
    BY <1>1, <1>c DEF Submit
  <2> QED BY MakerPcs, <2>1, <2>2, <2>3, ScreenedForms, RegMoves
<1>2. ASSUME NEW r \in Registrations, LookUpName(r) PROVE AccountsInv'
  <2> DEFINE next == IF Taken(reg[r].form.name) THEN "exists" ELSE "create"
             rec == [reg[r] EXCEPT !.pc = next]
  <2>1. rec \in RegRecords /\ rec.pc = next /\ rec.form = reg[r].form
    BY <1>a DEF RegRecords, RegPcs, Refusals
  <2>2. reg' = [reg EXCEPT ![r] = rec] /\ reg[r].pc = "findByUsername"
    BY <1>2, <1>c DEF LookUpName
  <2>3. UNCHANGED <<users, change>> /\ failedCalls' \in Nat
    BY <1>2, <1>c DEF LookUpName
  <2>4. rec.pc = "exists" => \E i \in Stored : users[i].name = rec.form.name
    BY <2>1 DEF Taken
  <2>5. reg[r].form.name \in Names /\ (reg[r].form.role = "ADMIN" => reg[r].form.key = "right")
    BY <2>2 DEF FormsChecked
  <2>6. rec.pc \in {"exists", "create"}
    BY <2>1
  <2> HIDE DEF rec, next
  <2> QED BY MakerPcs, <2>1, <2>2, <2>3, <2>4, <2>5, <2>6, RegMoves
<1>3. ASSUME NEW r \in Registrations, Duplicate(r) PROVE AccountsInv'
  <2> DEFINE rec == [reg[r] EXCEPT !.pc = "duplicateKey"]
  <2>1. rec \in RegRecords /\ rec.pc = "duplicateKey" /\ rec.form = reg[r].form
    BY <1>a DEF RegRecords, RegPcs, Refusals
  <2>2. reg' = [reg EXCEPT ![r] = rec] /\ reg[r].pc = "create"
    BY <1>3, <1>c DEF Duplicate
  <2>3. UNCHANGED <<users, change>> /\ failedCalls' \in Nat
    BY <1>3, <1>c DEF Duplicate
  <2>4. \E i \in Stored : users[i].name = rec.form.name
    BY <1>3, <2>1 DEF Duplicate, IndexRefuses
  <2> HIDE DEF rec
  <2> QED BY MakerPcs, <2>1, <2>2, <2>3, <2>4, RegMoves
<1>4. ASSUME NEW r \in Registrations, FailRegister(r) PROVE AccountsInv'
  <2> DEFINE rec == [reg[r] EXCEPT !.pc = "failed"]
  <2>1. rec \in RegRecords /\ rec.pc = "failed"
    BY <1>a DEF RegRecords, RegPcs, Refusals
  <2>2. reg' = [reg EXCEPT ![r] = rec] /\ reg[r].pc \in {"findByUsername", "create"}
    BY <1>4, <1>c DEF FailRegister
  <2>3. UNCHANGED <<users, change>> /\ failedCalls' \in Nat
    BY <1>4, <1>c DEF FailRegister
  <2> HIDE DEF rec
  <2> QED BY MakerPcs, <2>1, <2>2, <2>3, RegMoves
<1>5. ASSUME NEW r \in Registrations, NEW i \in ObjectIds, NEW x \in Ulids,
             Insert(r, i, x) \/ LoseAnswer(r, i, x)
      PROVE  AccountsInv'
  <2>1. PICK outcome \in Makers : Create(r, i, x, outcome)
    BY <1>5 DEF Insert, LoseAnswer, Makers
  <2>2. failedCalls' \in Nat
    BY <1>5, <1>c DEF Insert, LoseAnswer
  <2> QED BY <2>1, <2>2, InsertKeeps
<1>6. ASSUME NEW h \in RoleChanges, NEW ref \in Refs, NEW role \in UserRole,
             RequestChange(h, ref, role)
      PROVE  AccountsInv'
  <2> DEFINE rec == [pc |-> "findById", ref |-> ref, role |-> role]
  <2>1. rec \in ChangeRecords /\ rec.pc = "findById"
    BY DEF ChangeRecords, ChangePcs
  <2> HIDE DEF rec
  <2>2. change' = [change EXCEPT ![h] = rec] /\ UNCHANGED <<users, reg>> /\ failedCalls' \in Nat
    BY <1>6, <1>c DEF RequestChange, rec
  <2> QED BY <2>1, <2>2, ChangeMoves
<1>7. ASSUME NEW h \in RoleChanges, FindUserById(h) PROVE AccountsInv'
  <2> DEFINE next == Examined(change[h].ref, change[h].role)
             rec == [change[h] EXCEPT !.pc = next]
  <2>0. next \in {"castError", "notFound", "badRequest", "update"}
        /\ (next = "update" => change[h].ref \in ObjectIds)
    BY <1>b, ExaminedRefs DEF ChangeRecords
  <2> HIDE DEF next
  <2>1. rec \in ChangeRecords /\ rec.pc = next /\ rec.ref = change[h].ref
    BY <1>b, <2>0 DEF ChangeRecords, ChangePcs
  <2>2. change' = [change EXCEPT ![h] = rec] /\ UNCHANGED <<users, reg>> /\ failedCalls' \in Nat
    BY <1>7, <1>c DEF FindUserById, next
  <2> HIDE DEF rec
  <2> QED BY <2>0, <2>1, <2>2, ChangeMoves
<1>8. ASSUME NEW h \in RoleChanges, UpdateRole(h) PROVE AccountsInv'
  <2> DEFINE rec == [change[h] EXCEPT !.pc = "notUpdated"]
  <2>1. Matches(change[h].ref) = {}
    BY <1>8, NothingMatches DEF UpdateRole, WriteRole, UpdatesNameObjectIds
  <2>2. users' = users
    BY <1>8, <2>1 DEF UpdateRole, WriteRole, AccountsTypeOK
  <2>3. rec \in ChangeRecords /\ rec.pc = "notUpdated"
    BY <1>b DEF ChangeRecords, ChangePcs
  <2>4. change' = [change EXCEPT ![h] = rec] /\ reg' = reg /\ failedCalls' \in Nat
    BY <1>8, <1>c, <2>1 DEF UpdateRole
  <2> HIDE DEF rec
  <2> QED BY <2>2, <2>3, <2>4, ChangeMoves
<1>9. ASSUME NEW h \in RoleChanges, FailChange(h) PROVE AccountsInv'
  <2> DEFINE rec == [change[h] EXCEPT !.pc = "failed"]
  <2>1. rec \in ChangeRecords /\ rec.pc = "failed"
    BY <1>b DEF ChangeRecords, ChangePcs
  <2>2. change' = [change EXCEPT ![h] = rec] /\ reg' = reg /\ failedCalls' \in Nat
    BY <1>9, <1>c DEF FailChange
  <2>3. users' = users
    <3>1. CASE WriteRole(h)
      <4>1. Matches(change[h].ref) = {}
        BY <3>1, NothingMatches DEF WriteRole, UpdatesNameObjectIds
      <4> QED BY <3>1, <4>1 DEF WriteRole, AccountsTypeOK
    <3> QED BY <1>9, <3>1 DEF FailChange
  <2> HIDE DEF rec
  <2> QED BY <2>1, <2>2, <2>3, ChangeMoves
<1>10. CASE UNCHANGED accountVars
  BY <1>10 DEF accountVars, AccountsTypeOK, FormsChecked, UpdatesNameObjectIds,
     OneAccountPerName, AccountsHaveMakers, CreatedOnes, BeatenByAnother, Made, Stored
<1> QED BY <1>1, <1>2, <1>3, <1>4, <1>5, <1>6, <1>7, <1>8, <1>9, <1>10 DEF AccountsNext

LEMMA AccountsInvariant == AccountsSpec => []AccountsInv
<1>1. AccountsInv /\ [AccountsNext]_accountVars => AccountsInv'
  BY AccountsInvStep
<1> QED BY AccountsInvInit, <1>1, PTL DEF AccountsSpec

(***************************************************************************)
(* The users, the calls of register and those of updateRole keep their     *)
(* types (user.service.ts:33-98).                                          *)
(***************************************************************************)
THEOREM AccountsTypeCorrect == AccountsSpec => []AccountsTypeOK
<1>1. AccountsInv => AccountsTypeOK
  BY DEF AccountsInv
<1> QED BY AccountsInvariant, <1>1, PTL

(***************************************************************************)
(* However many registrations of a name overlap, one account comes of them *)
(* (user.service.ts:56-69, user.schema.ts:73).                             *)
(***************************************************************************)
THEOREM OneAccount == AccountsSpec => []OneAccountPerName
<1>1. AccountsInv => OneAccountPerName
  BY DEF AccountsInv
<1> QED BY AccountsInvariant, <1>1, PTL

(***************************************************************************)
(* What register answered stays true: the account of a success, and the    *)
(* account of somebody else behind a refusal (user.service.ts:56-72).      *)
(***************************************************************************)
THEOREM AnswersTrue == AccountsSpec => []AnswersAreTrue
<1>1. AccountsInv => AnswersAreTrue
  BY MakerPcs DEF AccountsInv, AnswersAreTrue, CreatedOnes, BeatenByAnother, Made
<1> QED BY AccountsInvariant, <1>1, PTL

(***************************************************************************)
(* Every ADMIN account was registered with the admin key, whatever changes *)
(* of role were asked for (user.service.ts:40-50, 78-84).                  *)
(***************************************************************************)
THEOREM AdminsHaveTheKey == AccountsSpec => []AdminsHoldTheKey
<1>1. ASSUME AccountsInv PROVE AdminsHoldTheKey
  <2> SUFFICES ASSUME NEW i \in Stored, users[i].role = "ADMIN"
               PROVE  \E r \in Registrations :
                        reg[r].pc \in Makers /\ reg[r].id = i /\ reg[r].form.key = "right"
    BY DEF AdminsHoldTheKey
  <2>1. PICK r \in Registrations : Made(r, i)
    BY <1>1 DEF AccountsInv, AccountsHaveMakers
  <2> QED BY <1>1, <2>1 DEF AccountsInv, FormsChecked, Made
<1> QED BY AccountsInvariant, <1>1, PTL
=============================================================================
