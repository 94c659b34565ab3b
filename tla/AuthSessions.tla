---------------------------- MODULE AuthSessions ----------------------------
(***************************************************************************)
(* AuthService.login and logout of users with the role USER, around the    *)
(* play sessions of module PlayTime.  A login stores the user's access     *)
(* token in Redis, counts the login and starts a play session; a logout    *)
(* ends the play session and then deletes the token.  Nothing orders calls *)
(* of the same user, so their steps interleave with each other and with    *)
(* updateAllActiveSessions.  (For other roles a login ends after the       *)
(* token.)                                                                 *)
(***************************************************************************)
EXTENDS PlayTime

CONSTANTS
  Logins,        \* slots for calls of login in progress
  MaxLogins,     \* bound: logins counted per user
  MaxFailedAuth  \* environment bound: logins and logouts cut off, per user

ASSUME AuthAssumption ==
  /\ MaxLogins \in Nat
  /\ MaxFailedAuth \in Nat

VARIABLES
  token,       \* auth:token, per user
  loginCount,  \* condition:continuous_login:count, per user
  login,       \* the login call in each slot
  logout,      \* the logout call around each endSession slot
  cutAuth,     \* history: the user's logins and logouts that failed or died
  loggedOut    \* history: a logout that no login overlapped was answered,
               \* and no login has begun since

authVars == <<token, loginCount, login, logout, cutAuth, loggedOut>>
allVars == <<playVars, authVars>>

LoginPcs == {"idle", "storeToken", "recordUserLogin", "startSession"}
LogoutPcs == {"idle", "endSession", "deleteToken"}

NoLogin == [pc |-> "idle", user |-> AnyPlayer]
NoLogout == [pc |-> "idle", user |-> AnyPlayer, alone |-> TRUE]

AuthTypeOK ==
  /\ PlayTypeOK
  /\ token \in [Players -> Keys]
  /\ loginCount \in [Players -> Nat]
  /\ login \in [Logins -> [pc : LoginPcs, user : Players]]
  /\ logout \in [Ends -> [pc : LogoutPcs, user : Players, alone : BOOLEAN]]
  /\ cutAuth \in [Players -> Nat]
  /\ loggedOut \in [Players -> BOOLEAN]

AuthInit ==
  /\ PlayInit
  /\ token = [u \in Players |-> None]
  /\ loginCount = [u \in Players |-> 0]
  /\ login = [s \in Logins |-> NoLogin]
  /\ logout = [l \in Ends |-> NoLogout]
  /\ cutAuth = [u \in Players |-> 0]
  /\ loggedOut = [u \in Players |-> FALSE]

LoginsOf(u) == {s \in Logins : login[s].pc # "idle" /\ login[s].user = u}
LogoutsOf(u) == {l \in Ends : logout[l].pc # "idle" /\ logout[l].user = u}

-----------------------------------------------------------------------------
(* login *)

\* Mutant: the token is stored last.
TokenLast(pc) ==
  CASE pc = "idle" -> "recordUserLogin"
    [] pc = "recordUserLogin" -> "startSession"
    [] pc = "startSession" -> "storeToken"
    [] pc = "storeToken" -> "idle"

\* The await after the one at pc; "idle" when the call has returned.
NextAwait(pc) ==
  CASE pc = "idle" -> "storeToken"
    [] pc = "storeToken" -> "recordUserLogin"
    [] pc = "recordUserLogin" -> "startSession"
    [] pc = "startSession" -> "idle"

Advance(s) == login' = [login EXCEPT ![s].pc = NextAwait(@)]

\* validateUser accepted the credentials.
BeginLogin(s, u) ==
  /\ login[s].pc = "idle"
  /\ loginCount[u] + Cardinality(LoginsOf(u)) < MaxLogins
  /\ login' = [login EXCEPT ![s] = [pc |-> NextAwait("idle"), user |-> u]]
  /\ loggedOut' = [loggedOut EXCEPT ![u] = FALSE]
  /\ logout' = [l \in Ends |-> IF logout[l].user = u /\ logout[l].pc # "idle"
                               THEN [logout[l] EXCEPT !.alone = FALSE]
                               ELSE logout[l]]
  /\ UNCHANGED <<playVars, token, loginCount, cutAuth>>

\* The writes of a login.  The token's TTL is a day, like the cache's default
\* TTL; continuous_login:at is never written, so every login is counted.
WriteToken(s) ==
  /\ login[s].pc = "storeToken"
  /\ token' = [token EXCEPT ![login[s].user] = Put(1)]
  /\ UNCHANGED <<playVars, loginCount>>
CountLogin(s) ==
  /\ login[s].pc = "recordUserLogin"
  /\ loginCount' = [loginCount EXCEPT ![login[s].user] = @ + 1]
  /\ UNCHANGED <<playVars, token>>
WriteSession(s) ==
  /\ login[s].pc = "startSession"
  /\ StartSession(login[s].user)
  /\ UNCHANGED <<token, loginCount>>

StoreToken(s) == WriteToken(s) /\ Advance(s) /\ UNCHANGED <<logout, cutAuth, loggedOut>>
RecordUserLogin(s) == CountLogin(s) /\ Advance(s) /\ UNCHANGED <<logout, cutAuth, loggedOut>>
SessionStarts(s) == WriteSession(s) /\ Advance(s) /\ UNCHANGED <<logout, cutAuth, loggedOut>>

\* A call of the user fails.
AuthFails(u) ==
  /\ cutAuth[u] < MaxFailedAuth
  /\ cutAuth' = [cutAuth EXCEPT ![u] = @ + 1]

\* A Redis call throws, its write applied or not: what was written stays.
FailLogin(s) ==
  /\ login[s].pc # "idle"
  /\ AuthFails(login[s].user)
  /\ \/ WriteToken(s) \/ CountLogin(s) \/ WriteSession(s)
     \/ UNCHANGED <<playVars, token, loginCount>>
  /\ login' = [login EXCEPT ![s] = NoLogin]
  /\ UNCHANGED <<logout, loggedOut>>

LoginStep(s) == StoreToken(s) \/ RecordUserLogin(s) \/ SessionStarts(s)

-----------------------------------------------------------------------------
(* logout *)

BeginLogout(l, u) ==
  /\ logout[l].pc = "idle"
  /\ BeginEnd(l, u)
  /\ logout' = [logout EXCEPT ![l] =
        [pc |-> "endSession", user |-> u, alone |-> LoginsOf(u) = {}]]
  /\ UNCHANGED <<token, loginCount, login, cutAuth, loggedOut>>

SessionEnding(l) ==
  /\ EndGetStart(l) \/ EndGetPlay(l) \/ EndSetPlay(l)
  /\ UNCHANGED authVars

\* The call returns; loggedOut is what the client may rely on from then on.
LogoutAnswered(l) ==
  /\ logout' = [logout EXCEPT ![l] = NoLogout]
  /\ loggedOut' = [loggedOut EXCEPT ![logout[l].user] = @ \/ logout[l].alone]

\* Mutant: a logout without a session to end returns at once.
ReturnEarly(l) ==
  /\ \/ EndWithoutSession(l) /\ LogoutAnswered(l)
     \/ /\ EndDelete(l)
        /\ logout' = [logout EXCEPT ![l].pc = "deleteToken"]
        /\ UNCHANGED loggedOut
  /\ UNCHANGED <<token, loginCount, login, cutAuth>>

\* endSession returns, whether or not there was a session to end.
SessionEnded(l) ==
  /\ EndWithoutSession(l) \/ EndDelete(l)
  /\ logout' = [logout EXCEPT ![l].pc = "deleteToken"]
  /\ UNCHANGED <<token, loginCount, login, cutAuth, loggedOut>>

DropToken(l) ==
  /\ logout[l].pc = "deleteToken"
  /\ token' = [token EXCEPT ![logout[l].user] = None]

DeleteToken(l) ==
  /\ DropToken(l)
  /\ LogoutAnswered(l)
  /\ UNCHANGED <<playVars, loginCount, login, cutAuth>>

\* A failing logout does not go on to the token.
FailLogout(l) ==
  /\ logout[l].pc # "idle"
  /\ AuthFails(logout[l].user)
  /\ \/ logout[l].pc = "endSession" /\ FailEnd(l) /\ UNCHANGED token
     \/ logout[l].pc = "deleteToken" /\ (DropToken(l) \/ UNCHANGED token) /\ UNCHANGED playVars
  /\ logout' = [logout EXCEPT ![l] = NoLogout]
  /\ UNCHANGED <<loginCount, login, loggedOut>>

LogoutStep(l) == SessionEnding(l) \/ SessionEnded(l) \/ DeleteToken(l)

-----------------------------------------------------------------------------

\* When the auth service's process ends, its logins and logouts die with it.
LoseCalls(w) ==
  LET dies(u) == w = Auth /\ LoginsOf(u) \cup LogoutsOf(u) # {}
  IN  /\ login' = [s \in Logins |-> IF w = Auth THEN NoLogin ELSE login[s]]
      /\ logout' = [l \in Ends |-> IF w = Auth THEN NoLogout ELSE logout[l]]
      /\ cutAuth' = [u \in Players |-> cutAuth[u] + (IF dies(u) THEN 1 ELSE 0)]
      /\ UNCHANGED <<token, loginCount, loggedOut>>

TrackerStep(r) ==
  /\ RunStep(r)
  /\ IF run[r].pc = "releaseAndThrow" THEN LoseCalls(run[r].worker)
     ELSE UNCHANGED authVars

ProcessStops(w) == Crash(w) /\ LoseCalls(w)

AuthNext ==
  \/ \E s \in Logins, u \in Players : BeginLogin(s, u)
  \/ \E s \in Logins : LoginStep(s) \/ FailLogin(s)
  \/ \E l \in Ends, u \in Players : BeginLogout(l, u)
  \/ \E l \in Ends : LogoutStep(l) \/ FailLogout(l)
  \/ \E r \in Runs : TrackerStep(r)
  \/ \E w \in Workers : ProcessStops(w)
  \/ /\ \/ Tick
        \/ \E r \in Runs, w \in Workers : TimerFires(r, w)
        \/ \E r \in Runs : FailRun(r)
     /\ UNCHANGED authVars

AuthSpec == AuthInit /\ [][AuthNext]_allVars

-----------------------------------------------------------------------------

(***************************************************************************)
(* A USER with a valid token is playing: while none of the user's logins   *)
(* and logouts is under way, and none of them has failed or died, a token  *)
(* in Redis means that the login was counted and that a play session is    *)
(* running, however the calls before overlapped and whatever became of     *)
(* other users' calls.  It rests on the opposite orders of login (token    *)
(* first) and logout (session first), and on the session start expiring no *)
(* earlier than the token (auth.service.ts:59-62, 113-114).                *)
(***************************************************************************)
TokenMeansSession ==
  \A u \in Players :
    LoginsOf(u) \cup LogoutsOf(u) = {} /\ cutAuth[u] = 0 /\ Live(token[u])
      => loginCount[u] > 0 /\ Live(start[u])

(***************************************************************************)
(* After a logout was answered that no login of the user overlapped, and   *)
(* until the next login, the user has neither a token nor a play session,  *)
(* whatever failed or crashed before, unless a call ever looked at the     *)
(* session start while another one was crediting it (mixed): an update     *)
(* that overlaps the logout revives the session (auth.service.ts:111-115). *)
(***************************************************************************)
LoggedOutStaysOut ==
  \A u \in Players \ mixed : loggedOut[u] => ~Live(token[u]) /\ ~Live(start[u])
=============================================================================
