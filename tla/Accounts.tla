------------------------------ MODULE Accounts ------------------------------
(***************************************************************************)
(* UserService: the users collection and the two operations that write it, *)
(* register (a look-up of the name, a hash, an insert) and updateRole (a   *)
(* look-up of the user, an update).  Calls interleave at their awaits.     *)
(*                                                                         *)
(* A user document has two identities: _id, the ObjectId MongoDB assigns,  *)
(* and userId, a ULID.  Sign-up answers with the second, findById looks    *)
(* for the first.  A name stands for what the schema's trim leaves of it.  *)
(***************************************************************************)
EXTENDS Naturals, FiniteSets

CONSTANTS
  Names,          \* user names
  NoName,         \* a missing user name or password
  ObjectIds,      \* values of _id
  Ulids,          \* values of userId
  Forms,          \* what clients submit to sign-up
  Registrations,  \* calls of register
  RoleChanges,    \* calls of updateRole
  MaxFailedCalls  \* environment bound: failed database calls

UserRole == {"USER", "OPERATOR", "AUDITOR", "ADMIN"}
AdminKeys == {"none", "wrong", "right"}

ASSUME AccountsAssumption ==
  /\ NoName \notin Names
  /\ ObjectIds \cap Ulids = {}
  /\ ObjectIds # {}
  /\ Forms # {}
  /\ Forms \subseteq [name : Names \cup {NoName}, role : UserRole, key : AdminKeys]
  /\ MaxFailedCalls \in Nat

UserDocs == [userId : Ulids, name : Names, role : UserRole]
NoUser == [userId |-> "none", name |-> NoName, role |-> "none"]

VARIABLES
  users,       \* the users collection
  reg,         \* the call of register in each slot: its form and where it is
  change,      \* the call of updateRole in each slot
  failedCalls

accountVars == <<users, reg, change, failedCalls>>

Refusals == {"badRequest", "unauthorized", "exists", "duplicateKey", "failed"}
\* The calls whose account exists: answered with a success, or with an error
\* because the acknowledgement of the insert was lost.
Makers == {"created", "answerLost"}
RegPcs == {"idle", "findByUsername", "create"} \cup Makers \cup Refusals
ChangePcs == {"idle", "findById", "update", "updated", "badRequest", "castError",
              "notFound", "notUpdated", "failed"}
Refs == ObjectIds \cup Ulids

AnyForm == CHOOSE f \in Forms : TRUE
AnyId == CHOOSE i \in ObjectIds : TRUE

AccountsTypeOK ==
  /\ users \in [ObjectIds -> UserDocs \cup {NoUser}]
  /\ reg \in [Registrations -> [pc : RegPcs, form : Forms, id : ObjectIds]]
  /\ change \in [RoleChanges -> [pc : ChangePcs, ref : Refs, role : UserRole]]
  /\ failedCalls \in Nat

AccountsInit ==
  /\ users = [i \in ObjectIds |-> NoUser]
  /\ reg = [r \in Registrations |-> [pc |-> "idle", form |-> AnyForm, id |-> AnyId]]
  /\ change = [h \in RoleChanges |-> [pc |-> "idle", ref |-> AnyId, role |-> "USER"]]
  /\ failedCalls = 0

Stored == {i \in ObjectIds : users[i] # NoUser}

-----------------------------------------------------------------------------
(* register *)

\* Mutant: an admin key is looked at only when there is one.
KeyIfGiven(form) ==
  CASE form.role = "ADMIN" /\ form.key = "wrong" -> "unauthorized"
    [] form.name = NoName -> "badRequest"
    [] OTHER -> "findByUsername"

\* The checks before the first await.
Screened(form) ==
  CASE form.role = "ADMIN" /\ form.key = "none" -> "badRequest"
    [] form.role = "ADMIN" /\ form.key = "wrong" -> "unauthorized"
    [] form.name = NoName /\ (form.role = "ADMIN" => form.key = "right") -> "badRequest"
    [] OTHER -> "findByUsername"

Submit(r, form) ==
  /\ reg[r].pc = "idle"
  /\ reg' = [reg EXCEPT ![r].pc = Screened(form), ![r].form = form]
  /\ UNCHANGED <<users, change, failedCalls>>

\* Mutant: a name that another call is about to create counts as taken.
TakenOrPending(name) ==
  \/ \E i \in Stored : users[i].name = name
  \/ \E r \in Registrations : reg[r].pc = "create" /\ reg[r].form.name = name

Taken(name) == \E i \in Stored : users[i].name = name

\* findByUsername; the answer is used after the password has been hashed.
LookUpName(r) ==
  /\ reg[r].pc = "findByUsername"
  /\ reg' = [reg EXCEPT ![r].pc =
        IF Taken(reg[r].form.name) THEN "exists" ELSE "create"]
  /\ UNCHANGED <<users, change, failedCalls>>

\* Mutant: the collection has no unique index on username.
NoIndex(name) == FALSE

IndexRefuses(name) == \E i \in Stored : users[i].name = name

\* Mutant: userId is a copy of _id.
SameId(i, x, form) == [userId |-> i, name |-> form.name, role |-> form.role]

NewUser(i, x, form) == [userId |-> x, name |-> form.name, role |-> form.role]

Create(r, i, x, outcome) ==
  /\ reg[r].pc = "create"
  /\ ~IndexRefuses(reg[r].form.name)
  /\ i \notin Stored
  /\ x \notin {users[j].userId : j \in Stored}
  /\ users' = [users EXCEPT ![i] = NewUser(i, x, reg[r].form)]
  /\ reg' = [reg EXCEPT ![r].pc = outcome, ![r].id = i]
  /\ UNCHANGED change

Insert(r, i, x) == Create(r, i, x, "created") /\ UNCHANGED failedCalls

\* The insert throws although it has been carried out.
LoseAnswer(r, i, x) ==
  /\ failedCalls < MaxFailedCalls
  /\ failedCalls' = failedCalls + 1
  /\ Create(r, i, x, "answerLost")

Duplicate(r) ==
  /\ reg[r].pc = "create"
  /\ IndexRefuses(reg[r].form.name)
  /\ reg' = [reg EXCEPT ![r].pc = "duplicateKey"]
  /\ UNCHANGED <<users, change, failedCalls>>

\* A look-up or an insert throws and nothing has been written.
FailRegister(r) ==
  /\ failedCalls < MaxFailedCalls
  /\ failedCalls' = failedCalls + 1
  /\ reg[r].pc \in {"findByUsername", "create"}
  /\ reg' = [reg EXCEPT ![r].pc = "failed"]
  /\ UNCHANGED <<users, change>>

-----------------------------------------------------------------------------
(* updateRole *)

RequestChange(h, ref, role) ==
  /\ change[h].pc = "idle"
  /\ change' = [change EXCEPT ![h] = [pc |-> "findById", ref |-> ref, role |-> role]]
  /\ UNCHANGED <<users, reg, failedCalls>>

\* findById and the checks of the role it read.  A ULID is no ObjectId: the
\* query does not get past Mongoose's cast.
Examined(ref, role) ==
  CASE ref \notin ObjectIds -> "castError"
    [] ref \in ObjectIds \ Stored -> "notFound"
    [] ref \in Stored ->
         IF users[ref].role = "ADMIN" \/ role = "ADMIN" THEN "badRequest" ELSE "update"

FindUserById(h) ==
  /\ change[h].pc = "findById"
  /\ change' = [change EXCEPT ![h].pc = Examined(change[h].ref, change[h].role)]
  /\ UNCHANGED <<users, reg, failedCalls>>

\* findOneAndUpdate({userId}, {role}), with the id that findById took for _id.
Matches(ref) == {i \in Stored : users[i].userId = ref}

WriteRole(h) ==
  /\ change[h].pc = "update"
  /\ users' = [i \in ObjectIds |->
        IF i \in Matches(change[h].ref)
        THEN [users[i] EXCEPT !.role = change[h].role] ELSE users[i]]

UpdateRole(h) ==
  /\ WriteRole(h)
  /\ change' = [change EXCEPT ![h].pc =
        IF Matches(change[h].ref) = {} THEN "notUpdated" ELSE "updated"]
  /\ UNCHANGED <<reg, failedCalls>>

FailChange(h) ==
  /\ failedCalls < MaxFailedCalls
  /\ failedCalls' = failedCalls + 1
  /\ change[h].pc \in {"findById", "update"}
  /\ change' = [change EXCEPT ![h].pc = "failed"]
  /\ WriteRole(h) \/ UNCHANGED users
  /\ UNCHANGED reg

AccountsNext ==
  \/ \E r \in Registrations, form \in Forms : Submit(r, form)
  \/ \E r \in Registrations : LookUpName(r) \/ Duplicate(r) \/ FailRegister(r)
  \/ \E r \in Registrations, i \in ObjectIds, x \in Ulids :
       Insert(r, i, x) \/ LoseAnswer(r, i, x)
  \/ \E h \in RoleChanges, ref \in Refs, role \in UserRole : RequestChange(h, ref, role)
  \/ \E h \in RoleChanges : FindUserById(h) \/ UpdateRole(h) \/ FailChange(h)

AccountsSpec == AccountsInit /\ [][AccountsNext]_accountVars

-----------------------------------------------------------------------------

(***************************************************************************)
(* Registrations of one name that overlap leave one account: the look-up   *)
(* before the hash lets them all through and the unique index decides      *)
(* (user.service.ts:56-69, user.schema.ts:73).                             *)
(***************************************************************************)
OneAccountPerName ==
  \A i, j \in Stored : users[i].name = users[j].name => i = j

(***************************************************************************)
(* What sign-up answered stays true: a success has its account, with the   *)
(* name and the role asked for; and who was told that the name exists has  *)
(* really been beaten by the account of another call, so that of several   *)
(* clients that want a name one gets it, even if it was told of an error   *)
(* (user.service.ts:56-69).                                                *)
(***************************************************************************)
AnswersAreTrue ==
  \A r \in Registrations :
    /\ reg[r].pc = "created" =>
         /\ reg[r].id \in Stored
         /\ users[reg[r].id].name = reg[r].form.name
         /\ users[reg[r].id].role = reg[r].form.role
    /\ reg[r].pc \in {"exists", "duplicateKey"} =>
         \E s \in Registrations \ {r} :
           reg[s].pc \in Makers /\ reg[s].form.name = reg[r].form.name

(***************************************************************************)
(* Every ADMIN account was registered by a call that presented the admin   *)
(* key; changes of role, whose check and update are an await apart, make   *)
(* no further ones (user.service.ts:40-50, 78-84).                         *)
(***************************************************************************)
AdminsHoldTheKey ==
  \A i \in Stored : users[i].role = "ADMIN" =>
    \E r \in Registrations :
      reg[r].pc \in Makers /\ reg[r].id = i /\ reg[r].form.key = "right"

(***************************************************************************)
(* "Admin successfully changes user role to OPERATOR"                      *)
(* (auth.e2e-spec.ts:173): a change of role that names an account, by      *)
(* either identity, does not fail to find it.                              *)
(***************************************************************************)
RoleChangeFindsItsUser ==
  \A h \in RoleChanges :
    change[h].pc \in {"castError", "notUpdated"} =>
      change[h].ref \notin Stored \cup {users[i].userId : i \in Stored}
=============================================================================
