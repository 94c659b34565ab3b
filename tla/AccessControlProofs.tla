------------------------- MODULE AccessControlProofs -------------------------
(***************************************************************************)
(* Proofs about AccessControl, for any users, requests, shipped            *)
(* permissions, failures and restarts of Redis.  Every step moves a single *)
(* request, in one of the ways that Moves lists; the properties follow     *)
(* from that list and from what the few writing steps do to tokens and     *)
(* permissions.                                                            *)
(***************************************************************************)
EXTENDS AccessControl, TLAPS

CallRecords == [pc : CallPcs, req : RequestRecords, token : Nat]

\* A request arrives, is decided, or is served.
Arrives(c) ==
  /\ call[c].pc = "unsent"
  /\ call'[c].req \in Requests
  /\ call'[c].token \in 0..issued[call'[c].req.user]
  /\ \/ call'[c].pc = "appGuard"
     \/ call'[c].pc = "forwarded" /\ call'[c].req.route \in PublicRoutes

Decided(c) ==
  \/ /\ call[c].pc = "appGuard" /\ Current(c)
     /\ call'[c].pc = "globalGuard"
  \/ /\ call[c].pc = "globalGuard" /\ Current(c)
     /\ call'[c].pc = "rolesGuard"
  \/ /\ call[c].pc = "rolesGuard" /\ RoleAllows(Req(c)) /\ Owns(Req(c))
     /\ call'[c].pc = "forwarded"
  \/ call[c].pc \in Deciding /\ call'[c].pc = "unauthorized"
  \/ call[c].pc = "rolesGuard" /\ call'[c].pc \in {"forbidden", "error"}

Served(c) == call[c].pc = "forwarded" /\ call'[c].pc \in {"done", "serviceError"}

Moves(c) ==
  \/ call'[c] = call[c]
  \/ Arrives(c)
  \/ /\ call'[c].req = call[c].req /\ call'[c].token = call[c].token
     /\ Decided(c) \/ Served(c)

LEMMA Pcs == /\ Deciding \subseteq CallPcs /\ Admitted \subseteq CallPcs
             /\ Rejected \subseteq CallPcs
             /\ "unsent" \notin Deciding \cup Admitted \cup Rejected
             /\ Deciding \cap (Admitted \cup Rejected) = {} /\ Admitted \cap Rejected = {}
BY DEF Deciding, Admitted, Rejected, CallPcs

LEMMA Guards == /\ DOMAIN NextGuard = {"appGuard", "globalGuard"}
                /\ NextGuard["appGuard"] = "globalGuard"
                /\ NextGuard["globalGuard"] = "rolesGuard"
BY DEF NextGuard

LEMMA GotoMoves ==
  ASSUME AccessTypeOK, NEW c \in Calls, NEW from \in CallPcs, NEW to \in CallPcs,
         Goto(c, from, to)
  PROVE  /\ call' \in [Calls -> CallRecords]
         /\ call[c].pc = from /\ call'[c].pc = to
         /\ call'[c].req = call[c].req /\ call'[c].token = call[c].token
         /\ \A d \in Calls \ {c} : call'[d] = call[d]
BY DEF Goto, AccessTypeOK, CallRecords

LEMMA EveryStepMoves ==
  ASSUME AccessTypeOK, [AccessNext]_accessVars
  PROVE  call' \in [Calls -> CallRecords] /\ \A c \in Calls : Moves(c)
<1> SUFFICES ASSUME AccessNext
             PROVE  call' \in [Calls -> CallRecords] /\ \A c \in Calls : Moves(c)
  BY DEF accessVars, Moves, AccessTypeOK, CallRecords
<1>1. ASSUME NEW c \in Calls, NEW req \in Requests, NEW t \in 0..issued[req.user],
             Arrive(c, req, t)
      PROVE  call' \in [Calls -> CallRecords] /\ \A d \in Calls : Moves(d)
  <2>1. req \in RequestRecords /\ t \in Nat
    BY AccessAssumption DEF AccessAssumption, AccessTypeOK, RequestRecords
  <2>2. \A d \in Calls \ {c} : call'[d] = call[d]
    BY <1>1 DEF Arrive, AccessTypeOK
  <2>3. /\ call[c].pc = "unsent" /\ call'[c].req = req /\ call'[c].token = t
        /\ call'[c].pc = IF req.route \in PublicRoutes THEN "forwarded" ELSE "appGuard"
    BY <1>1 DEF Arrive, AccessTypeOK
  <2>4. call' \in [Calls -> CallRecords]
    BY <1>1, <2>1, Pcs DEF Arrive, AccessTypeOK, CallRecords, Deciding, Admitted
  <2> QED BY <2>2, <2>3, <2>4 DEF Moves, Arrives
<1>2. ASSUME NEW c \in Calls, GuardStep(c) \/ GuardFails(c)
      PROVE  call' \in [Calls -> CallRecords] /\ \A d \in Calls : Moves(d)
  <2>1. CASE JwtAuthGuard(c)
    <3>1. PICK to \in {"globalGuard", "rolesGuard", "unauthorized"} :
             /\ Goto(c, call[c].pc, to) /\ call[c].pc \in {"appGuard", "globalGuard"}
             /\ \/ to = "unauthorized"
                \/ Current(c) /\ call[c].pc = "appGuard" /\ to = "globalGuard"
                \/ Current(c) /\ call[c].pc = "globalGuard" /\ to = "rolesGuard"
      BY <2>1, Guards DEF JwtAuthGuard
    <3>2. call[c].pc \in CallPcs /\ to \in CallPcs
      BY <3>1 DEF CallPcs, Deciding, Rejected
    <3> QED BY <3>1, <3>2, GotoMoves DEF Moves, Decided, Deciding
  <2>2. CASE RolesGuard(c)
    <3>1. PICK to \in {"forwarded", "forbidden"} :
             /\ Goto(c, "rolesGuard", to)
             /\ to = "forwarded" => RoleAllows(Req(c)) /\ Owns(Req(c))
      BY <2>2 DEF RolesGuard
    <3>2. "rolesGuard" \in CallPcs /\ to \in CallPcs
      BY <3>1 DEF CallPcs, Deciding, Rejected, Admitted
    <3> QED BY <3>1, <3>2, GotoMoves DEF Moves, Decided
  <2>3. CASE GuardFails(c)
    <3>1. PICK to \in {"error", "unauthorized"} :
             /\ Goto(c, call[c].pc, to) /\ call[c].pc \in Deciding
             /\ to = "error" => call[c].pc = "rolesGuard"
      BY <2>3 DEF GuardFails
    <3>2. call[c].pc \in CallPcs /\ to \in CallPcs
      BY <3>1 DEF CallPcs, Rejected
    <3> QED BY <3>1, <3>2, GotoMoves DEF Moves, Decided
  <2> QED BY <1>2, <2>1, <2>2, <2>3 DEF GuardStep
<1>3. ASSUME NEW c \in Calls, ServiceStep(c) \/ ServiceFails(c)
      PROVE  call' \in [Calls -> CallRecords] /\ \A d \in Calls : Moves(d)
  <2>1. PICK to \in {"done", "serviceError"} : Goto(c, "forwarded", to)
    BY <1>3 DEF ServiceStep, ServiceFails, Login, Logout, ChangePermission, Serve
  <2>2. "forwarded" \in CallPcs /\ to \in CallPcs
    BY <2>1 DEF CallPcs, Admitted
  <2> QED BY <2>1, <2>2, GotoMoves DEF Moves, Served
<1>4. ASSUME NEW u \in Users, Expire(u)
      PROVE  call' \in [Calls -> CallRecords] /\ \A d \in Calls : Moves(d)
  BY <1>4 DEF Expire, Moves, AccessTypeOK, CallRecords
<1>5. ASSUME Save \/ RestartRedis \/ InitRedis
      PROVE  call' \in [Calls -> CallRecords] /\ \A d \in Calls : Moves(d)
  BY <1>5 DEF Save, RestartRedis, InitRedis, Moves, AccessTypeOK, CallRecords
<1> QED BY <1>1, <1>2, <1>3, <1>4, <1>5 DEF AccessNext

-----------------------------------------------------------------------------
(* Types *)

LEMMA AccessTypeInit == AccessInit => AccessTypeOK
<1>1. AnyRequest \in RequestRecords
  BY AccessAssumption DEF AccessAssumption, AnyRequest
<1> QED BY <1>1, AccessAssumption
        DEF AccessInit, AccessTypeOK, AccessAssumption, CallPcs, Stores

LEMMA AccessTypeStep == ASSUME AccessTypeOK, [AccessNext]_accessVars PROVE AccessTypeOK'
<1> DEFINE TokensOK == /\ token' \in [Users -> Nat]
                       /\ issued' \in [Users -> Nat]
                       /\ \A u \in Users : token'[u] <= issued'[u]
                       /\ restarts' = 0 => \A u \in Users : token'[u] \in {0, issued'[u]}
           SavedOK == saved' \in Stores /\ \A u \in Users : saved'.token[u] <= issued'[u]
           RestOK == /\ permissions' \in [Managed -> SUBSET Paths]
                     /\ failures' \in Nat
                     /\ initialising' \in BOOLEAN
                     /\ restarts' \in Nat
           StoreOK == TokensOK /\ SavedOK /\ RestOK
<1>1. \A c \in Calls : /\ Req(c).about \in Users /\ Req(c).user \in Users
                       /\ Req(c).target \in Paths
  BY DEF AccessTypeOK, RequestRecords, Req
<1>2. ASSUME NEW c \in Calls, Login(c) PROVE StoreOK
  <2>1. TokensOK
    BY <1>1, <1>2 DEF Login, redisVars, AccessTypeOK
  <2>2. \A u \in Users : issued[u] <= issued'[u]
    BY <1>1, <1>2 DEF Login, AccessTypeOK
  <2>3. SavedOK
    BY <1>2, <2>1, <2>2 DEF Login, redisVars, AccessTypeOK, Stores
  <2> QED BY <2>1, <2>3, <1>2 DEF Login, redisVars, AccessTypeOK
<1>3. ASSUME NEW c \in Calls, Logout(c) PROVE StoreOK
  BY <1>1, <1>3 DEF Logout, redisVars, AccessTypeOK
<1>4. ASSUME NEW c \in Calls, ChangePermission(c) PROVE StoreOK
  <2>1. Changed(Req(c)) \in SUBSET Paths
    BY <1>1, <1>4 DEF ChangePermission, Changed, AccessTypeOK
  <2> QED BY <2>1, <1>4 DEF ChangePermission, redisVars, AccessTypeOK
<1>5. ASSUME NEW u \in Users, Expire(u) PROVE StoreOK
  <2>1. /\ saved'.permissions = saved.permissions
        /\ saved'.token = [saved.token EXCEPT ![u] = 0]
        /\ saved' \in Stores
    BY <1>5 DEF Expire, AccessTypeOK, Stores
  <2>2. SavedOK
    BY <1>5, <2>1 DEF Expire, AccessTypeOK, Stores
  <2> QED BY <2>2, <1>5 DEF Expire, AccessTypeOK
<1>6. ASSUME UNCHANGED <<token, issued, permissions, saved, initialising, restarts>>,
             failures' \in {failures, failures + 1}
      PROVE  StoreOK
  BY <1>6 DEF AccessTypeOK
<1>7. ASSUME NEW c \in Calls,
             \/ \E req \in Requests : \E t \in 0..issued[req.user] : Arrive(c, req, t)
             \/ GuardStep(c) \/ GuardFails(c) \/ Serve(c) \/ ServiceFails(c)
      PROVE  StoreOK
  BY <1>6, <1>7 DEF Arrive, GuardStep, JwtAuthGuard, RolesGuard, GuardFails, Serve,
                    ServiceFails, redisVars
<1>8. ASSUME Save PROVE StoreOK
  BY <1>8 DEF Save, AccessTypeOK, Stores
<1>9. ASSUME RestartRedis PROVE StoreOK
  BY <1>9 DEF RestartRedis, AccessTypeOK, Stores
<1>10. ASSUME InitRedis PROVE StoreOK
  BY <1>10, AccessAssumption DEF InitRedis, AccessTypeOK, AccessAssumption
<1>11. StoreOK
  BY <1>2, <1>3, <1>4, <1>5, <1>6, <1>7, <1>8, <1>9, <1>10
     DEF AccessNext, ServiceStep, accessVars, redisVars
<1> QED BY <1>11, EveryStepMoves DEF AccessTypeOK, CallRecords

\* The variables keep their types for any number of users and requests, and
\* the token in Redis was issued: the newest one, as long as Redis lives.
THEOREM AccessTypeCorrect == AccessSpec => []AccessTypeOK
BY AccessTypeInit, AccessTypeStep, PTL DEF AccessSpec

-----------------------------------------------------------------------------
(* Who is let in *)

\* What only an ADMIN is let into, whatever is granted.
AdminsManage ==
  \A c \in Calls :
    call[c].pc \in Admitted /\ Req(c).route \in AdminRoutes => RoleIn(Req(c)) = "ADMIN"

LEMMA AdminsManageStep ==
  ASSUME AccessTypeOK, AdminsManage, [AccessNext]_accessVars PROVE AdminsManage'
<1> SUFFICES ASSUME NEW c \in Calls, call'[c].pc \in Admitted,
                    call'[c].req.route \in AdminRoutes
             PROVE  RoleIn(call'[c].req) = "ADMIN"
  BY DEF AdminsManage, Req, RoleIn
<1>1. Moves(c)
  BY EveryStepMoves
<1>2. CASE call'[c].req = call[c].req /\ call[c].pc \in Admitted
  BY <1>2 DEF AdminsManage, Req
<1>3. CASE Arrives(c)
  BY <1>3 DEF Arrives, Admitted, PublicRoutes, AdminRoutes
<1>4. CASE call'[c].req = call[c].req /\ RoleAllows(Req(c))
  <2>1. RequiredRoles(Req(c).route) = {"ADMIN"}
    BY <1>4 DEF RequiredRoles, Req, AdminRoutes, EventRoutes
  <2> QED BY <1>4, <2>1 DEF RoleAllows, Req
<1> QED BY <1>1, <1>2, <1>3, <1>4 DEF Moves, Decided, Served, Admitted

LEMMA AdminsDoManage == AccessSpec => []AdminsManage
<1>1. AccessInit => AdminsManage
  BY DEF AccessInit, AdminsManage, Admitted
<1> QED BY <1>1, AccessTypeCorrect, AdminsManageStep, PTL DEF AccessSpec

LEMMA GrantsLast ==
  ASSUME AccessTypeOK, [AccessNext]_accessVars, NEW role, NEW path,
         GrantedByAdmin(role, path)
  PROVE  GrantedByAdmin(role, path)'
<1>1. PICK c \in Calls : /\ call[c].pc = "done"
                         /\ Req(c).route = "setPermission" /\ Req(c).allow
                         /\ Req(c).role = role /\ Req(c).target = path
                         /\ RoleIn(Req(c)) = "ADMIN"
  BY DEF GrantedByAdmin
<1>2. Moves(c)
  BY EveryStepMoves
<1>3. call'[c] = call[c]
  BY <1>1, <1>2 DEF Moves, Arrives, Decided, Served, Deciding
<1> QED BY <1>1, <1>3 DEF GrantedByAdmin, Req, RoleIn

\* The strengthening: so do those in the snapshot.
SavedComeFromAdmins ==
  \A role \in Managed :
    \A path \in saved.permissions[role] \ Granted[role] : GrantedByAdmin(role, path)

LEMMA PermissionsStep ==
  ASSUME AccessTypeOK, AdminsManage, PermissionsComeFromAdmins,
         SavedComeFromAdmins, [AccessNext]_accessVars
  PROVE  PermissionsComeFromAdmins' /\ SavedComeFromAdmins'
<1>1. ASSUME permissions' = permissions PROVE PermissionsComeFromAdmins'
  BY <1>1, GrantsLast DEF PermissionsComeFromAdmins
<1>2. ASSUME saved'.permissions = saved.permissions PROVE SavedComeFromAdmins'
  BY <1>2, GrantsLast DEF SavedComeFromAdmins
<1>3. ASSUME NEW c \in Calls, ChangePermission(c) PROVE PermissionsComeFromAdmins'
  <2> SUFFICES ASSUME NEW role \in Managed, NEW path \in permissions'[role] \ Granted[role]
               PROVE  GrantedByAdmin(role, path)'
    BY DEF PermissionsComeFromAdmins
  <2>1. CASE path \in permissions[role]
    BY <2>1, GrantsLast DEF PermissionsComeFromAdmins
  <2>2. CASE path \notin permissions[role]
    <3>1. /\ Req(c).route = "setPermission" /\ Req(c).allow
          /\ Req(c).role = role /\ Req(c).target = path
      BY <1>3, <2>2 DEF ChangePermission, Changed, AccessTypeOK
    <3>2. RoleIn(Req(c)) = "ADMIN"
      BY <1>3, <3>1 DEF ChangePermission, Goto, AdminsManage, Admitted, AdminRoutes
    <3>3. call'[c].pc = "done" /\ call'[c].req = call[c].req
      BY <1>3 DEF ChangePermission, Goto, AccessTypeOK
    <3> QED BY <3>1, <3>2, <3>3 DEF GrantedByAdmin, Req, RoleIn
  <2> QED BY <2>1, <2>2
<1>4. ASSUME InitRedis PROVE PermissionsComeFromAdmins'
  <2>1. \A role \in Managed : permissions'[role] \ Granted[role] \subseteq permissions[role]
    BY <1>4 DEF InitRedis
  <2> QED BY <2>1, GrantsLast DEF PermissionsComeFromAdmins
<1>5. ASSUME RestartRedis PROVE PermissionsComeFromAdmins' /\ SavedComeFromAdmins'
  BY <1>5, GrantsLast DEF RestartRedis, PermissionsComeFromAdmins, SavedComeFromAdmins
<1>6. ASSUME Save PROVE PermissionsComeFromAdmins' /\ SavedComeFromAdmins'
  BY <1>6, GrantsLast DEF Save, PermissionsComeFromAdmins, SavedComeFromAdmins
<1>7. ASSUME NEW u \in Users, Expire(u)
      PROVE  permissions' = permissions /\ saved'.permissions = saved.permissions
  BY <1>7 DEF Expire, AccessTypeOK, Stores
<1> QED BY <1>1, <1>2, <1>3, <1>4, <1>5, <1>6, <1>7
        DEF AccessNext, accessVars, redisVars, Arrive, GuardStep, JwtAuthGuard, RolesGuard,
            GuardFails, ServiceStep, Login, Logout, ChangePermission, Serve, ServiceFails,
            InitRedis

\* Nobody but an ADMIN ever extends the permissions of a role.
THEOREM PermissionsFromAdmins == AccessSpec => []PermissionsComeFromAdmins
<1>1. AccessInit => PermissionsComeFromAdmins /\ SavedComeFromAdmins
  BY DEF AccessInit, PermissionsComeFromAdmins, SavedComeFromAdmins
<1> QED BY <1>1, AccessTypeCorrect, AdminsDoManage, PermissionsStep, PTL DEF AccessSpec

LEMMA WithdrawalsLast ==
  ASSUME AccessTypeOK, [AccessNext]_accessVars, NEW role, NEW path,
         WithdrawnByAdmin(role, path)
  PROVE  WithdrawnByAdmin(role, path)'
<1>1. PICK c \in Calls : /\ call[c].pc = "done"
                         /\ Req(c).route \in {"setPermission", "removePermission"}
                         /\ Req(c).route = "setPermission" => ~Req(c).allow
                         /\ Req(c).role = role /\ Req(c).target = path
                         /\ RoleIn(Req(c)) = "ADMIN"
  BY DEF WithdrawnByAdmin
<1>2. Moves(c)
  BY EveryStepMoves
<1>3. call'[c] = call[c]
  BY <1>1, <1>2 DEF Moves, Arrives, Decided, Served, Deciding
<1> QED BY <1>1, <1>3 DEF WithdrawnByAdmin, Req, RoleIn

LEMMA ShippedStep ==
  ASSUME AccessTypeOK, AdminsManage, ShippedPermissionsReturn, [AccessNext]_accessVars
  PROVE  ShippedPermissionsReturn'
<1>1. ASSUME initialising' = initialising, permissions' = permissions
      PROVE  ShippedPermissionsReturn'
  BY <1>1, WithdrawalsLast DEF ShippedPermissionsReturn
<1>2. ASSUME NEW c \in Calls, ChangePermission(c) PROVE ShippedPermissionsReturn'
  <2> SUFFICES ASSUME ~initialising, NEW role \in Managed, NEW path \in Granted[role],
                      path \notin permissions'[role]
               PROVE  WithdrawnByAdmin(role, path)'
    BY <1>2 DEF ShippedPermissionsReturn, ChangePermission, redisVars
  <2>1. CASE path \notin permissions[role]
    BY <2>1, WithdrawalsLast DEF ShippedPermissionsReturn
  <2>2. CASE path \in permissions[role]
    <3>1. /\ Req(c).route \in {"setPermission", "removePermission"}
          /\ Req(c).route = "setPermission" => ~Req(c).allow
          /\ Req(c).role = role /\ Req(c).target = path
      BY <1>2, <2>2 DEF ChangePermission, Changed, AccessTypeOK
    <3>2. RoleIn(Req(c)) = "ADMIN"
      BY <1>2, <3>1 DEF ChangePermission, Goto, AdminsManage, Admitted, AdminRoutes
    <3>3. call'[c].pc = "done" /\ call'[c].req = call[c].req
      BY <1>2 DEF ChangePermission, Goto, AccessTypeOK
    <3> QED BY <3>1, <3>2, <3>3 DEF WithdrawnByAdmin, Req, RoleIn
  <2> QED BY <2>1, <2>2
<1>3. ASSUME RestartRedis \/ InitRedis PROVE ShippedPermissionsReturn'
  BY <1>3 DEF RestartRedis, InitRedis, ShippedPermissionsReturn
<1> QED BY <1>1, <1>2, <1>3
        DEF AccessNext, accessVars, redisVars, Arrive, GuardStep, JwtAuthGuard, RolesGuard,
            GuardFails, ServiceStep, Login, Logout, Serve, ServiceFails, Expire, Save

\* Whatever Redis forgets, once init-redis.sh has run a shipped permission is
\* missing only when an ADMIN withdrew it.
THEOREM ShippedReturn == AccessSpec => []ShippedPermissionsReturn
<1>1. AccessInit => ShippedPermissionsReturn
  BY DEF AccessInit, ShippedPermissionsReturn
<1> QED BY <1>1, AccessTypeCorrect, AdminsDoManage, ShippedStep, PTL DEF AccessSpec

LEMMA ServedStep ==
  ASSUME AccessTypeOK, PermissionsComeFromAdmins, ServedPathsWereGranted,
         [AccessNext]_accessVars
  PROVE  ServedPathsWereGranted'
<1> SUFFICES ASSUME NEW c \in Calls, call'[c].pc \in Admitted,
                    NEW req, req = call'[c].req, NEW role, role = RoleIn(req),
                    NEW path, path = Normalized(req),
                    req.route \in OwnedRoutes \cup OtherRoutes, role # "ADMIN"
             PROVE  path \in Granted[role] \/ GrantedByAdmin(role, path)'
  <2> SUFFICES ASSUME NEW c \in Calls
               PROVE  (/\ call[c].pc \in Admitted
                       /\ Req(c).route \in OwnedRoutes \cup OtherRoutes
                       => \/ RoleIn(Req(c)) = "ADMIN"
                          \/ Normalized(Req(c)) \in Granted[RoleIn(Req(c))]
                          \/ GrantedByAdmin(RoleIn(Req(c)), Normalized(Req(c))))'
    BY DEF ServedPathsWereGranted
  <2> QED BY DEF Req, RoleIn, Normalized, GrantedByAdmin
<1>1. Moves(c)
  BY EveryStepMoves
<1>2. ~Arrives(c)
  BY DEF Arrives, Admitted, PublicRoutes, OwnedRoutes, OtherRoutes
<1>3. CASE call'[c].req = call[c].req /\ call[c].pc \in Admitted
  <2>1. path \in Granted[role] \/ GrantedByAdmin(role, path)
    BY <1>3 DEF ServedPathsWereGranted, Req
  <2> QED BY <2>1, GrantsLast
<1>4. CASE call'[c].req = call[c].req /\ RoleAllows(Req(c))
  <2>1. req = Req(c) /\ RequiredRoles(req.route) = {}
    BY <1>4 DEF RequiredRoles, Req, OwnedRoutes, OtherRoutes, AdminRoutes, EventRoutes
  <2>2. path \in permissions[role]
    BY <1>4, <2>1 DEF RoleAllows, Permitted
  <2>3. role \in Managed
    BY <1>4, AccessAssumption DEF AccessAssumption, RoleIn, Managed, Req, AccessTypeOK, RequestRecords
  <2>4. path \in Granted[role] \/ GrantedByAdmin(role, path)
    BY <2>2, <2>3 DEF PermissionsComeFromAdmins
  <2> QED BY <2>4, GrantsLast
<1> QED BY <1>1, <1>2, <1>3, <1>4 DEF Moves, Decided, Served, Admitted

\* Whoever is served without being ADMIN asks for a path that was given to the
\* role by init-redis.sh or by an ADMIN.
THEOREM ServedWereGranted == AccessSpec => []ServedPathsWereGranted
<1>1. AccessInit => ServedPathsWereGranted
  BY DEF AccessInit, ServedPathsWereGranted, Admitted
<1> QED BY <1>1, AccessTypeCorrect, PermissionsFromAdmins, ServedStep, PTL DEF AccessSpec

-----------------------------------------------------------------------------
(* Revoked tokens *)

\* The strengthening: a token that a request carries was issued before.
TokensWereIssued == \A c \in Calls : call[c].token \in 0..issued[Req(c).user]

LEMMA IssuedGrows ==
  ASSUME AccessTypeOK, [AccessNext]_accessVars, NEW u \in Users
  PROVE  /\ issued'[u] \in Nat /\ issued'[u] >= issued[u]
         /\ \/ token'[u] \in {0, token[u]} \/ token'[u] = issued[u] + 1
            \/ restarts' # restarts
<1>1. \A c \in Calls : Req(c).about \in Users
  BY DEF AccessTypeOK, RequestRecords, Req
<1>2. ASSUME NEW c \in Calls, Login(c)
      PROVE  /\ issued'[u] \in Nat /\ issued'[u] >= issued[u]
             /\ token'[u] \in {0, token[u]} \/ token'[u] = issued[u] + 1
  BY <1>1, <1>2 DEF Login, AccessTypeOK
<1>3. ASSUME issued' = issued
      PROVE  issued'[u] \in Nat /\ issued'[u] >= issued[u]
  BY <1>3 DEF AccessTypeOK
<1>4. ASSUME NEW c \in Calls, Logout(c)
      PROVE  issued' = issued /\ token'[u] \in {0, token[u]}
  BY <1>1, <1>4 DEF Logout, AccessTypeOK
<1>5. ASSUME NEW v \in Users, Expire(v)
      PROVE  issued' = issued /\ token'[u] \in {0, token[u]}
  BY <1>5 DEF Expire, AccessTypeOK
<1>6. ASSUME RestartRedis PROVE issued' = issued /\ restarts' # restarts
  BY <1>6 DEF RestartRedis, AccessTypeOK
<1> QED BY <1>2, <1>3, <1>4, <1>5, <1>6
        DEF AccessNext, accessVars, Arrive, GuardStep, JwtAuthGuard, RolesGuard,
            GuardFails, ServiceStep, ChangePermission, Serve, ServiceFails, Save, InitRedis

LEMMA TokensStep ==
  ASSUME AccessTypeOK, TokensWereIssued, [AccessNext]_accessVars
  PROVE  TokensWereIssued'
<1> SUFFICES ASSUME NEW c \in Calls PROVE call'[c].token \in 0..issued'[call'[c].req.user]
  BY DEF TokensWereIssued, Req
<1>1. Moves(c) /\ call'[c].req.user \in Users
  BY EveryStepMoves DEF CallRecords, RequestRecords
<1>2. call'[c].token \in 0..issued[call'[c].req.user]
  BY <1>1 DEF Moves, Arrives, TokensWereIssued, Req
<1> QED BY <1>1, <1>2, IssuedGrows DEF AccessTypeOK

LEMMA RevokedStep ==
  ASSUME AccessTypeOK, TokensWereIssued, [AccessNext]_accessVars,
         NEW c \in Calls, call[c].pc \in DOMAIN NextGuard, Revoked(c)
  PROVE  /\ call'[c].pc \in {call[c].pc, "unauthorized"}
         /\ Revoked(c)' \/ restarts' # restarts
<1> DEFINE u == Req(c).user
<1>1. Moves(c) /\ u \in Users /\ call[c].token \in 0..issued[u]
  BY EveryStepMoves DEF TokensWereIssued, AccessTypeOK, RequestRecords, Req
<1>2. ~Current(c)
  BY DEF Current, Revoked
<1>3. call'[c].pc \in {call[c].pc, "unauthorized"}
  BY <1>1, <1>2, Guards DEF Moves, Arrives, Decided, Served
<1>4. call'[c].req = call[c].req /\ call'[c].token = call[c].token
  BY <1>1, Guards DEF Moves, Arrives
<1>5. token'[u] = 0 \/ call[c].token # token'[u] \/ restarts' # restarts
  BY <1>1, IssuedGrows DEF Revoked, AccessTypeOK
<1> QED BY <1>3, <1>4, <1>5 DEF Revoked, Req

\* A request whose token is revoked before its last JwtAuthGuard is turned
\* away, and nothing but a restart of Redis makes the old token good again.
THEOREM RevokedStaysOut == AccessSpec => RevokedTokenStaysOut
<1>1. AccessInit => TokensWereIssued
  BY AccessAssumption DEF AccessInit, TokensWereIssued, AccessAssumption, Req, RequestRecords, AnyRequest
<1>2. AccessTypeOK /\ TokensWereIssued /\ [AccessNext]_accessVars =>
        [\A c \in Calls :
           call[c].pc \in DOMAIN NextGuard /\ Revoked(c) =>
             /\ call'[c].pc \in {call[c].pc, "unauthorized"}
             /\ Revoked(c)' \/ restarts' # restarts]_accessVars
  BY RevokedStep
<1> QED BY <1>1, <1>2, AccessTypeCorrect, TokensStep, PTL DEF AccessSpec, RevokedTokenStaysOut
=============================================================================
