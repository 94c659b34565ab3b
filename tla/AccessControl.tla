---------------------------- MODULE AccessControl ----------------------------
(***************************************************************************)
(* Who gets through the gateway: the two JwtAuthGuards and the RolesGuard  *)
(* that run before every route, the OwnershipGuard of some, and what the   *)
(* services behind them do to tokens and permissions.  A guard awaits      *)
(* Redis, so tokens and permissions can change under a request that is     *)
(* being decided.  Redis itself may die and come back with its last        *)
(* snapshot; init-redis.sh then runs again, some seconds after the server. *)
(*                                                                         *)
(* Each element of Calls is one HTTP request.  A role never changes: it is *)
(* in the token, and no change of role succeeds (module Accounts).         *)
(***************************************************************************)
EXTENDS Naturals

CONSTANTS
  Users,
  RoleOf,       \* each user's role
  Calls,        \* HTTP requests
  Requests,     \* what clients may ask for
  Granted,      \* the permissions that init-redis.sh writes
  Literals,     \* ids in a path that are neither ObjectIds nor parameter names
  MaxTokens,    \* bound: logins per user
  MaxFailures   \* environment bound: failed calls and restarts of Redis

UserRole == {"USER", "OPERATOR", "AUDITOR", "ADMIN"}
Managed == UserRole \ {"ADMIN"}

PublicRoutes == {"signUp", "login"}
AdminRoutes == {"setPermission", "getPermissions", "removePermission", "updateRole"}
EventRoutes == {"createEvent", "addReward"}
OwnedRoutes == {"userRequests", "userRequest", "userPoints"}
OtherRoutes == {"logout", "listEvents", "getEvent", "getRewards",
                "createRequest", "getRequest", "listRequests"}
Routes == PublicRoutes \cup AdminRoutes \cup EventRoutes \cup OwnedRoutes \cup OtherRoutes

\* How a path spells the ids in it: as ObjectIds; as the parameters' names, as in
\* "/api/events/:eventId" (a path without ids is its own pattern); or otherwise.
Forms == {"objectId", "pattern"} \cup Literals
Paths == Routes \X Forms

\* user sends it; about is the user that its path or body names (a path that
\* names nobody is as one that names somebody else); role, target and allow are
\* the body of a change of permissions, whose path may be any string.
RequestRecords ==
  [user : Users, route : Routes, form : Forms, about : Users,
   role : UserRole, target : Paths, allow : BOOLEAN]

ASSUME AccessAssumption ==
  /\ RoleOf \in [Users -> UserRole]
  /\ Requests \subseteq RequestRecords
  /\ Requests # {}
  /\ Granted \in [Managed -> SUBSET Paths]
  /\ MaxTokens \in Nat
  /\ MaxFailures \in Nat

VARIABLES
  token,        \* auth:token, per user: the number of a token, or 0
  issued,       \* tokens issued so far, per user
  permissions,  \* authorization:<role>:<method>, per role
  saved,        \* the snapshot of both on Redis's disk
  initialising, \* Redis has started and init-redis.sh has not run yet
  restarts,
  call,         \* each request: where it is, what it asks, its token
  failures

redisVars == <<saved, initialising, restarts>>
accessVars == <<token, issued, permissions, redisVars, call, failures>>

Deciding == {"appGuard", "globalGuard", "rolesGuard"}
Admitted == {"forwarded", "done", "serviceError"}
Rejected == {"unauthorized", "forbidden", "error"}
CallPcs == {"unsent"} \cup Deciding \cup Admitted \cup Rejected

AnyRequest == CHOOSE q \in Requests : TRUE

Stores == [token : [Users -> Nat], permissions : [Managed -> SUBSET Paths]]

\* The variables have their types, and the token in Redis, or in its snapshot,
\* is one that was issued, the newest (login stores what it returns) or none
\* unless Redis went back in time.
AccessTypeOK ==
  /\ token \in [Users -> Nat]
  /\ saved \in Stores
  /\ \A u \in Users : token[u] <= issued[u] /\ saved.token[u] <= issued[u]
  /\ restarts = 0 => \A u \in Users : token[u] \in {0, issued[u]}
  /\ issued \in [Users -> Nat]
  /\ permissions \in [Managed -> SUBSET Paths]
  /\ call \in [Calls -> [pc : CallPcs, req : RequestRecords, token : Nat]]
  /\ failures \in Nat
  /\ initialising \in BOOLEAN
  /\ restarts \in Nat

\* Redis starts empty, with an empty disk.
AccessInit ==
  /\ token = [u \in Users |-> 0]
  /\ issued = [u \in Users |-> 0]
  /\ permissions = [role \in Managed |-> {}]
  /\ saved = [token |-> token, permissions |-> permissions]
  /\ initialising = TRUE
  /\ restarts = 0
  /\ call = [c \in Calls |-> [pc |-> "unsent", req |-> AnyRequest, token |-> 0]]
  /\ failures = 0

Req(c) == call[c].req
RoleIn(req) == RoleOf[req.user]
Goto(c, from, to) == call[c].pc = from /\ call' = [call EXCEPT ![c].pc = to]

-----------------------------------------------------------------------------
(* The guards *)

\* A client sends a token it once got, or none; with what is public nobody
\* looks at it.
Arrive(c, req, t) ==
  /\ call[c].pc = "unsent"
  /\ t <= issued[req.user]
  /\ req.route \in PublicRoutes => t = 0
  /\ call' = [call EXCEPT ![c] =
        [pc |-> IF req.route \in PublicRoutes THEN "forwarded" ELSE "appGuard",
         req |-> req, token |-> t]]
  /\ UNCHANGED <<token, issued, permissions, redisVars, failures>>

\* Mutant: a token that was ever issued will do.
EverIssued(c) == call[c].token \in 1..issued[Req(c).user]

\* validateToken: the token is the one in Redis.
Current(c) == call[c].token # 0 /\ token[Req(c).user] = call[c].token

NextGuard == [appGuard |-> "globalGuard", globalGuard |-> "rolesGuard"]

\* JwtAuthGuard, once as APP_GUARD and once as a global guard.
JwtAuthGuard(c) ==
  /\ call[c].pc \in DOMAIN NextGuard
  /\ Goto(c, call[c].pc, IF Current(c) THEN NextGuard[call[c].pc] ELSE "unauthorized")
  /\ UNCHANGED <<token, issued, permissions, redisVars, failures>>

\* @Roles of the route; none means that permissions decide.
RequiredRoles(route) ==
  CASE route \in AdminRoutes -> {"ADMIN"}
    [] route \in EventRoutes -> {"ADMIN", "OPERATOR"}
    [] OTHER -> {}

\* normalizePathPattern turns ObjectIds into parameter names and leaves all else
\* as it is, a parameter's name too.
Normalized(req) ==
  <<req.route, IF req.form = "objectId" THEN "pattern" ELSE req.form>>

\* Mutant: any id is turned into the parameter's name.
AnyIdPermitted(req) ==
  RoleIn(req) = "ADMIN" \/ <<req.route, "pattern">> \in permissions[RoleIn(req)]

Permitted(req) ==
  RoleIn(req) = "ADMIN" \/ Normalized(req) \in permissions[RoleIn(req)]

\* Mutant: a route bound to roles lets in whoever has a role.
AnyRoleWillDo(req) ==
  IF RequiredRoles(req.route) # {} THEN RoleIn(req) \in UserRole ELSE Permitted(req)

RoleAllows(req) ==
  IF RequiredRoles(req.route) # {} THEN RoleIn(req) \in RequiredRoles(req.route)
                                   ELSE Permitted(req)

\* OwnershipGuard, of three routes.
Owns(req) ==
  req.route \in OwnedRoutes /\ RoleIn(req) = "USER" => req.about = req.user

\* handleGetUserRequests itself refuses everyone, ADMIN too, another user's list.
HandlerAllows(req) == req.route = "userRequests" => req.about = req.user

\* RolesGuard reads the permissions; OwnershipGuard and the proxy follow at once.
RolesGuard(c) ==
  /\ Goto(c, "rolesGuard",
          IF RoleAllows(Req(c)) /\ Owns(Req(c)) /\ HandlerAllows(Req(c))
          THEN "forwarded" ELSE "forbidden")
  /\ UNCHANGED <<token, issued, permissions, redisVars, failures>>

\* The RolesGuard asks Redis.
AsksPermissions(req) == RequiredRoles(req.route) = {} /\ RoleIn(req) # "ADMIN"

\* Redis does not answer: validateToken says no, the permissions throw.
GuardFails(c) ==
  /\ failures < MaxFailures
  /\ failures' = failures + 1
  /\ call[c].pc \in Deciding
  /\ call[c].pc = "rolesGuard" => AsksPermissions(Req(c))
  /\ Goto(c, call[c].pc,
          IF call[c].pc = "rolesGuard" THEN "error" ELSE "unauthorized")
  /\ UNCHANGED <<token, issued, permissions, redisVars>>

-----------------------------------------------------------------------------
(* What forwarded requests do *)

\* Mutant: an earlier session keeps its token.
KeepsSession(c) ==
  LET u == Req(c).about IN
  /\ Req(c).route = "login"
  /\ Goto(c, "forwarded", "done")
  /\ issued[u] < MaxTokens
  /\ issued' = [issued EXCEPT ![u] = @ + 1]
  /\ token' = [token EXCEPT ![u] = IF @ = 0 THEN issued'[u] ELSE @]
  /\ UNCHANGED <<permissions, redisVars, failures>>

Login(c) ==
  LET u == Req(c).about IN
  /\ Req(c).route = "login"
  /\ Goto(c, "forwarded", "done")
  /\ issued[u] < MaxTokens
  /\ issued' = [issued EXCEPT ![u] = @ + 1]
  /\ token' = [token EXCEPT ![u] = issued'[u]]
  /\ UNCHANGED <<permissions, redisVars, failures>>

Logout(c) ==
  /\ Req(c).route = "logout"
  /\ Goto(c, "forwarded", "done")
  /\ token' = [token EXCEPT ![Req(c).about] = 0]
  /\ UNCHANGED <<issued, permissions, redisVars, failures>>

\* setRolePermission adds the path or, without allow, removes it, and
\* removeRolePermission removes it; neither touches ADMIN.
Changed(req) ==
  IF req.route = "setPermission" /\ req.allow
  THEN permissions[req.role] \cup {req.target}
  ELSE permissions[req.role] \ {req.target}

ChangePermission(c) ==
  /\ Req(c).route \in {"setPermission", "removePermission"}
  /\ Req(c).role \in Managed
  /\ Goto(c, "forwarded", "done")
  /\ permissions' = [permissions EXCEPT ![Req(c).role] = Changed(Req(c))]
  /\ UNCHANGED <<token, issued, redisVars, failures>>

\* Requests that leave tokens and permissions alone; a login with a wrong
\* password and a change of ADMIN's permissions are refused.
Serve(c) ==
  /\ Req(c).route \in {"setPermission", "removePermission"} => Req(c).role = "ADMIN"
  /\ Req(c).route # "logout"
  /\ Goto(c, "forwarded", "done")
  /\ UNCHANGED <<token, issued, permissions, redisVars, failures>>

ServiceFails(c) ==
  /\ failures < MaxFailures
  /\ failures' = failures + 1
  /\ Goto(c, "forwarded", "serviceError")
  /\ UNCHANGED <<token, issued, permissions, redisVars>>

-----------------------------------------------------------------------------
(* Redis *)

\* The token's TTL, in Redis and in the JWT itself.  A snapshot keeps the time
\* of expiry, and the user's token in it is no younger.
Expire(u) ==
  /\ token[u] # 0
  /\ token' = [token EXCEPT ![u] = 0]
  /\ saved' = [saved EXCEPT !.token[u] = 0]
  /\ UNCHANGED <<issued, permissions, initialising, restarts, call, failures>>

\* A background save.  After the last restart nobody reads it.
Save ==
  /\ failures < MaxFailures
  /\ saved' = [token |-> token, permissions |-> permissions]
  /\ UNCHANGED <<token, issued, permissions, initialising, restarts, call, failures>>

\* The container dies, without a last save, and is started again.
RestartRedis ==
  /\ failures < MaxFailures
  /\ failures' = failures + 1
  /\ restarts' = restarts + 1
  /\ token' = saved.token
  /\ permissions' = saved.permissions
  /\ initialising' = TRUE
  /\ UNCHANGED <<issued, saved, call>>

\* Mutant: the script leaves a store alone that is not new.
InitOnce ==
  /\ initialising
  /\ initialising' = FALSE
  /\ permissions' = [role \in Managed |->
        permissions[role] \cup (IF restarts = 0 THEN Granted[role] ELSE {})]
  /\ UNCHANGED <<token, issued, saved, restarts, call, failures>>

\* init-redis.sh, five seconds after every start of the server: SADD of what
\* is shipped, to whatever is there.
InitRedis ==
  /\ initialising
  /\ initialising' = FALSE
  /\ permissions' = [role \in Managed |-> permissions[role] \cup Granted[role]]
  /\ UNCHANGED <<token, issued, saved, restarts, call, failures>>

GuardStep(c) == JwtAuthGuard(c) \/ RolesGuard(c)
ServiceStep(c) == Login(c) \/ Logout(c) \/ ChangePermission(c) \/ Serve(c)

AccessNext ==
  \/ \E c \in Calls, req \in Requests :
       \E t \in 0..issued[req.user] : Arrive(c, req, t)
  \/ \E c \in Calls : GuardStep(c) \/ GuardFails(c) \/ ServiceStep(c) \/ ServiceFails(c)
  \/ \E u \in Users : Expire(u)
  \/ Save \/ RestartRedis \/ InitRedis

AccessSpec == AccessInit /\ [][AccessNext]_accessVars

-----------------------------------------------------------------------------
(* Properties *)

\* The token that Redis holds for the user, if any, is not the request's.
Revoked(c) == token[Req(c).user] = 0 \/ call[c].token # token[Req(c).user]

\* Once its token is no longer the stored one, because of a logout, of a later
\* login or of the TTL, a request that still is before a JwtAuthGuard
\* is turned away, and nothing makes its token good again but a Redis that
\* has lost the revocation (JwtAuthGuard, validateToken, storeToken).
RevokedTokenStaysOut ==
  [][\A c \in Calls :
       call[c].pc \in DOMAIN NextGuard /\ Revoked(c) =>
         /\ call'[c].pc \in {call[c].pc, "unauthorized"}
         /\ Revoked(c)' \/ restarts' # restarts]_accessVars

\* An ADMIN's request put this path among the permissions of the role.
GrantedByAdmin(role, path) ==
  \E c \in Calls :
    /\ call[c].pc = "done"
    /\ Req(c).route = "setPermission" /\ Req(c).allow
    /\ Req(c).role = role /\ Req(c).target = path
    /\ RoleIn(Req(c)) = "ADMIN"

\* Nobody but an ADMIN extends the permissions of a role, whatever an ADMIN has
\* granted to others, the change of permissions itself included, and whatever
\* Redis forgets (@Roles of role-permissions, RolesGuard, setRolePermission).
PermissionsComeFromAdmins ==
  \A role \in Managed :
    \A path \in permissions[role] \ Granted[role] : GrantedByAdmin(role, path)

WithdrawnByAdmin(role, path) ==
  \E c \in Calls :
    /\ call[c].pc = "done"
    /\ Req(c).route \in {"setPermission", "removePermission"}
    /\ Req(c).route = "setPermission" => ~Req(c).allow
    /\ Req(c).role = role /\ Req(c).target = path
    /\ RoleIn(Req(c)) = "ADMIN"

\* A permission that is shipped is lost only to an ADMIN who withdrew it: once
\* init-redis.sh has run, also after Redis came back with an old snapshot,
\* nobody is locked out of what the role has had from the start
\* (docker-compose.yml:24-36, init-redis.sh).
ShippedPermissionsReturn ==
  ~initialising =>
    \A role \in Managed :
      \A path \in Granted[role] \ permissions[role] : WithdrawnByAdmin(role, path)

\* What is neither public nor bound to a role is served to an ADMIN, or for a
\* path that was given to the user's role at some time, by init-redis.sh or by
\* an ADMIN, as normalizePathPattern reads it: an id that is no ObjectId does not
\* pass for one, whatever Redis forgets and whoever is granted what meanwhile.
ServedPathsWereGranted ==
  \A c \in Calls :
    call[c].pc \in Admitted /\ Req(c).route \in OwnedRoutes \cup OtherRoutes =>
      LET role == RoleIn(Req(c))
          path == Normalized(Req(c))
      IN  \/ role = "ADMIN"
          \/ path \in Granted[role]
          \/ GrantedByAdmin(role, path)
=============================================================================
