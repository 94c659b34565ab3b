--------------------------- MODULE MCAccessControl ---------------------------
(* An ADMIN and a USER: who is let in while tokens and permissions change. *)
EXTENDS AccessControl, TLC

CONSTANTS admin, user, c1, c2, c3, c4

MCUsers == {admin, user}
MCRoleOf == (admin :> "ADMIN") @@ (user :> "USER")
MCCalls == {c1, c2, c3, c4}
MCLiterals == {"first"}

Pattern(route) == <<route, "pattern">>

\* Some of what init-redis.sh gives to USER.
MCGranted ==
  [USER |-> {Pattern("userPoints"), Pattern("getEvent")}, OPERATOR |-> {}, AUDITOR |-> {}]

Plain(u, route, form, about) ==
  [user |-> u, route |-> route, form |-> form, about |-> about,
   role |-> "USER", target |-> Pattern(route), allow |-> FALSE]
Change(u, route, target, allow) ==
  [user |-> u, route |-> route, form |-> "pattern", about |-> u,
   role |-> "USER", target |-> target, allow |-> allow]

MCRequests ==
  {Plain(u, "login", "pattern", u) : u \in MCUsers}
  \cup {Plain(user, "userPoints", "objectId", user),
        Plain(admin, "logout", "pattern", user)}
  \cup {Plain(user, "getEvent", form, user) : form \in {"pattern", "first"}}
  \cup {Change(admin, "setPermission", Pattern("setPermission"), TRUE),
        Change(admin, "setPermission", <<"getEvent", "first">>, TRUE),
        Change(admin, "removePermission", Pattern("userPoints"), FALSE),
        Change(user, "setPermission", <<"getEvent", "first">>, TRUE)}

Symmetric == Permutations(MCCalls)

\* Once Redis cannot die again nobody reads its snapshot.
Seen ==
  <<token, issued, permissions, initialising, restarts, call, failures,
    IF failures < MaxFailures THEN saved ELSE 0>>
=============================================================================
