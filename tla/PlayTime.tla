------------------------------ MODULE PlayTime ------------------------------
(***************************************************************************)
(* PlayTimeTrackerService: play sessions and accumulated play time, kept   *)
(* in Redis.  startSession and endSession run in the auth service; every   *)
(* process that imports CommonModule (gateway and auth) also runs          *)
(* updateAllActiveSessions on a timer, under the Redis lock                *)
(* lock:playtime:update.  Each await on Redis is an action of its own.     *)
(*                                                                         *)
(* Time is a global clock in units that divide the timer period and the    *)
(* lock's TTL (20 s in the code).  A Redis key is a value and an expiry.   *)
(***************************************************************************)
EXTENDS Naturals, FiniteSets

CONSTANTS
  Players,     \* users with the role USER
  Workers,     \* processes that run the timer
  Auth,        \* the one of them that also runs endSession
  Runs,        \* slots for calls of updateAllActiveSessions in progress
  Ends,        \* slots for calls of endSession in progress
  Interval,    \* MINIMUM_PLAY_TIME, in clock units
  Grace,       \* what the lock's TTL adds to it
  KeyTtl,      \* the cache's default TTL
  MaxRunTime,  \* environment bound: how long a call may hold the lock
  MaxCalls,    \* environment bound: calls in progress at once
  MaxCrashes,  \* environment bound: crashes and failed updateAllActiveSessions
  MaxFailedEnds, \* environment bound: endSessions cut off, per player
  MaxNow       \* bound on the clock

LockTtl == Interval + Grace

ASSUME PlayTimeAssumption ==
  /\ Players # {}
  /\ Auth \in Workers
  /\ IsFiniteSet(Runs)
  /\ IsFiniteSet(Ends)
  /\ Interval \in Nat \ {0}
  /\ Grace \in Nat
  /\ KeyTtl \in Nat \ {0}
  /\ MaxRunTime \in Nat
  /\ MaxCalls \in Nat \ {0}
  /\ MaxCrashes \in Nat
  /\ MaxFailedEnds \in Nat
  /\ MaxNow \in Nat

VARIABLES
  now,
  dueAt,       \* when each worker's timer fires next
  lock,        \* when lock:playtime:update expires
  start,       \* condition:play_time:session_start, per player
  play,        \* condition:play_time, per player
  run,         \* the updateAllActiveSessions call in each slot
  end,         \* the endSession call in each slot
  crashes,
  cutEnds,     \* history: the player's endSessions cut off at their writes
  loggedIn,    \* history: a session was started, and no endSession answered since
  online,      \* history: clock units spent logged in
  mixed        \* history: players whose session start a call looked at while
               \* another call that had read it was still crediting it

playVars == <<now, dueAt, lock, start, play, run, end, crashes, cutEnds,
              loggedIn, online, mixed>>

faults == <<crashes, cutEnds>>
history == <<loggedIn, online, mixed>>

Keys == [val : Nat, until : Nat]
None == [val |-> 0, until |-> 0]
Live(key) == key.until > now
Value(key) == IF Live(key) THEN key.val ELSE 0
Held == lock > now

\* Mutant: the duration is negative.
ElapsedBackwards(session) == session.val - now

Elapsed(session) == now - session.val

Put(val) == [val |-> val, until |-> now + KeyTtl]

\* The awaits of updateAllActiveSessions, those under its try block, and those
\* of endSession.
Aggregating == {"scan", "getStart", "setStart", "getPlay", "setPlay"}
Locked == Aggregating \cup {"release", "releaseAndThrow"}
RunPcs == {"idle", "acquire"} \cup Locked
EndPcs == {"idle", "getStart", "getPlay", "setPlay", "delete"}

AnyPlayer == CHOOSE u \in Players : TRUE

NoRun == [pc |-> "idle", worker |-> Auth, since |-> 0, todo |-> {},
          again |-> {}, user |-> AnyPlayer, at |-> 0, ms |-> 0]
NoEnd == [pc |-> "idle", user |-> AnyPlayer, ms |-> 0]

RunRecords == [pc : RunPcs, worker : Workers, since : Nat,
               todo : SUBSET Players, again : SUBSET Players, user : Players, at : Nat, ms : Nat]
EndRecords == [pc : EndPcs, user : Players, ms : Nat]

PlayTypeOK ==
  /\ now \in Nat
  /\ dueAt \in [Workers -> Nat]
  /\ lock \in Nat
  /\ start \in [Players -> Keys]
  /\ play \in [Players -> Keys]
  /\ run \in [Runs -> RunRecords]
  /\ end \in [Ends -> EndRecords]
  /\ crashes \in Nat
  /\ cutEnds \in [Players -> Nat]
  /\ loggedIn \in [Players -> BOOLEAN]
  /\ online \in [Players -> Nat]
  /\ mixed \in SUBSET Players

PlayInit ==
  /\ now = 1
  /\ dueAt \in [Workers -> 2..(1 + Interval)]
  /\ lock = 0
  /\ start = [u \in Players |-> None]
  /\ play = [u \in Players |-> None]
  /\ run = [r \in Runs |-> NoRun]
  /\ end = [l \in Ends |-> NoEnd]
  /\ crashes = 0
  /\ cutEnds = [u \in Players |-> 0]
  /\ loggedIn = [u \in Players |-> FALSE]
  /\ online = [u \in Players |-> 0]
  /\ mixed = {}

-----------------------------------------------------------------------------

ActiveRuns == {r \in Runs : run[r].pc # "idle"}
ActiveEnds == {l \in Ends : end[l].pc # "idle"}
Holders == {r \in Runs : run[r].pc \in Locked}

SetRun(r, record) == run' = [run EXCEPT ![r] = record]
SetEnd(l, record) == end' = [end EXCEPT ![l] = record]
Busy == Cardinality(ActiveRuns) + Cardinality(ActiveEnds) >= MaxCalls

\* The calls that have read the user's session start and will store it.
CreditingRuns(u) ==
  {r \in Runs : run[r].pc \in {"setStart", "getPlay", "setPlay"} /\ run[r].user = u}
CreditingEnds(u) ==
  {l \in Ends : end[l].pc \in {"getPlay", "setPlay", "delete"} /\ end[l].user = u}

\* A call looks at the user's session start.
LooksAt(u) ==
  mixed' = IF CreditingRuns(u) \cup CreditingEnds(u) = {} THEN mixed
           ELSE mixed \cup {u}

Tick ==
  /\ now < MaxNow
  /\ \A r \in Holders : now - run[r].since < MaxRunTime
  /\ now' = now + 1
  /\ online' = [u \in Players |-> online[u] + (IF loggedIn[u] THEN 1 ELSE 0)]
  /\ UNCHANGED <<dueAt, lock, start, play, run, end, faults, loggedIn, mixed>>

StartSession(u) ==
  /\ start' = [start EXCEPT ![u] = Put(now)]
  /\ loggedIn' = [loggedIn EXCEPT ![u] = TRUE]
  /\ UNCHANGED <<now, dueAt, lock, play, run, end, faults, online, mixed>>

-----------------------------------------------------------------------------
(* updateAllActiveSessions *)

\* setInterval fires whether or not the worker's last call has ended.
TimerFires(r, w) ==
  /\ run[r].pc = "idle"
  /\ ~Busy
  /\ now >= dueAt[w]
  /\ dueAt' = [dueAt EXCEPT ![w] = now + Interval]
  /\ SetRun(r, [NoRun EXCEPT !.pc = "acquire", !.worker = w])
  /\ UNCHANGED <<now, lock, start, play, end, faults, history>>

\* Mutant: SET without NX.
AcquireAnyway(r) ==
  /\ run[r].pc = "acquire"
  /\ lock' = now + LockTtl
  /\ SetRun(r, [run[r] EXCEPT !.pc = "scan", !.since = now])
  /\ UNCHANGED <<now, dueAt, start, play, end, faults, history>>

\* SET lock NX PX.
Acquire(r) ==
  /\ run[r].pc = "acquire"
  /\ ~Held
  /\ lock' = now + LockTtl
  /\ SetRun(r, [run[r] EXCEPT !.pc = "scan", !.since = now])
  /\ UNCHANGED <<now, dueAt, start, play, end, faults, history>>

\* Mutant: spin until the lock is free.
WaitForLock(r) == run[r].pc = "acquire" /\ Held /\ UNCHANGED playVars

NotAcquired(r) ==
  /\ run[r].pc = "acquire"
  /\ Held
  /\ SetRun(r, NoRun)
  /\ UNCHANGED <<now, dueAt, lock, start, play, end, faults, history>>

\* The loop over the scanned keys ends when none is left.
Loop(todo) == IF todo = {} THEN "release" ELSE "getStart"

\* The keys of the sessions, some of them twice: SCAN may repeat a key, and
\* the pages are put together as they come.
Scan(r) ==
  /\ run[r].pc = "scan"
  /\ LET found == {u \in Players : Live(start[u])}
     IN  \E twice \in SUBSET found :
           SetRun(r, [run[r] EXCEPT !.pc = Loop(found), !.todo = found,
                                    !.again = twice])
  /\ UNCHANGED <<now, dueAt, lock, start, play, end, faults, history>>

\* The session start of the next key; a key that is gone is skipped.
GetStart(r, u) ==
  /\ run[r].pc = "getStart"
  /\ u \in run[r].todo
  /\ LET left == IF u \in run[r].again THEN run[r].todo ELSE run[r].todo \ {u}
         rest == [run[r] EXCEPT !.todo = left, !.again = @ \ {u}]
     IN  SetRun(r, IF Live(start[u])
                   THEN [rest EXCEPT !.pc = "setStart", !.user = u,
                                     !.at = now, !.ms = Elapsed(start[u])]
                   ELSE [rest EXCEPT !.pc = Loop(left)])
  /\ IF Live(start[u]) THEN LooksAt(u) ELSE UNCHANGED mixed
  /\ UNCHANGED <<now, dueAt, lock, start, play, end, faults, loggedIn, online>>

\* The two writes of the loop: the session starts anew at the instant its
\* duration was computed, and the sum is stored.
WriteStart(r) ==
  /\ run[r].pc = "setStart"
  /\ start' = [start EXCEPT ![run[r].user] = Put(run[r].at)]
  /\ UNCHANGED play
WriteUpdate(r) ==
  /\ run[r].pc = "setPlay"
  /\ play' = [play EXCEPT ![run[r].user] = Put(run[r].ms)]
  /\ UNCHANGED start

\* Mutant: the loop credits the session and leaves its start as it was.
StartKept(r) ==
  /\ run[r].pc = "setStart"
  /\ SetRun(r, [run[r] EXCEPT !.pc = "getPlay", !.at = 0])
  /\ UNCHANGED <<now, dueAt, lock, start, play, end, faults, history>>

SetStart(r) ==
  /\ WriteStart(r)
  /\ SetRun(r, [run[r] EXCEPT !.pc = "getPlay", !.at = 0])
  /\ UNCHANGED <<now, dueAt, lock, end, faults, history>>

GetPlay(r) ==
  /\ run[r].pc = "getPlay"
  /\ SetRun(r, [run[r] EXCEPT !.pc = "setPlay", !.ms = @ + Value(play[run[r].user])])
  /\ UNCHANGED <<now, dueAt, lock, start, play, end, faults, history>>

SetPlay(r) ==
  /\ WriteUpdate(r)
  /\ SetRun(r, [run[r] EXCEPT !.pc = Loop(run[r].todo), !.ms = 0])
  /\ UNCHANGED <<now, dueAt, lock, end, faults, history>>

\* The finally block: a pause, then DEL lock, whoever holds it by then.
Release(r) ==
  /\ run[r].pc = "release"
  /\ lock' = 0
  /\ SetRun(r, NoRun)
  /\ UNCHANGED <<now, dueAt, start, play, end, faults, history>>

\* A Redis call of the try block throws, its write applied or not: the
\* finally block still runs ...
FailRun(r) ==
  /\ crashes < MaxCrashes
  /\ crashes' = crashes + 1
  /\ run[r].pc \in Aggregating
  /\ WriteStart(r) \/ WriteUpdate(r) \/ UNCHANGED <<start, play>>
  /\ SetRun(r, [NoRun EXCEPT !.pc = "releaseAndThrow", !.worker = run[r].worker,
                             !.since = run[r].since])
  /\ UNCHANGED <<now, dueAt, lock, end, cutEnds, history>>

\* Calls of endSession that stop half way; those awaiting a write count.
CutOff(calls) ==
  LET cut(u) == \E l \in calls : /\ end[l].pc \in {"setPlay", "delete"}
                                 /\ end[l].user = u
  IN  cutEnds' = [u \in Players |-> cutEnds[u] + (IF cut(u) THEN 1 ELSE 0)]

\* All calls of a process are lost, the auth service's endSessions with its
\* own, and its timer starts over.
Restart(w) ==
  /\ run' = [r \in Runs |-> IF run[r].worker = w THEN NoRun ELSE run[r]]
  /\ end' = [l \in Ends |-> IF w = Auth THEN NoEnd ELSE end[l]]
  /\ CutOff(IF w = Auth THEN Ends ELSE {})
  /\ dueAt' = [dueAt EXCEPT ![w] = now + Interval]

\* ... and then the rejection, which nothing handles, ends the process.
ReleaseAndThrow(r) ==
  /\ run[r].pc = "releaseAndThrow"
  /\ lock' = 0
  /\ Restart(run[r].worker)
  /\ UNCHANGED <<now, start, play, crashes, history>>

\* A process stops, by itself or because acquiring or deleting the lock threw:
\* the lock it may hold stays until its TTL.
Crash(w) ==
  /\ crashes < MaxCrashes
  /\ crashes' = crashes + 1
  /\ Restart(w)
  /\ UNCHANGED <<now, lock, start, play, history>>

RunStep(r) ==
  \/ Acquire(r) \/ NotAcquired(r) \/ Scan(r) \/ SetStart(r) \/ GetPlay(r)
  \/ SetPlay(r) \/ Release(r) \/ ReleaseAndThrow(r)
  \/ \E u \in Players : GetStart(r, u)

-----------------------------------------------------------------------------
(* endSession *)

BeginEnd(l, u) ==
  /\ end[l].pc = "idle"
  /\ ~Busy
  /\ SetEnd(l, [NoEnd EXCEPT !.pc = "getStart", !.user = u])
  /\ UNCHANGED <<now, dueAt, lock, start, play, run, faults, history>>

EndGetStart(l) ==
  /\ end[l].pc = "getStart"
  /\ Live(start[end[l].user])
  /\ SetEnd(l, [end[l] EXCEPT !.pc = "getPlay", !.ms = Elapsed(start[end[l].user])])
  /\ LooksAt(end[l].user)
  /\ UNCHANGED <<now, dueAt, lock, start, play, run, faults, loggedIn, online>>

\* Without a session there is nothing to do.
EndWithoutSession(l) ==
  /\ end[l].pc = "getStart"
  /\ ~Live(start[end[l].user])
  /\ SetEnd(l, NoEnd)
  /\ LooksAt(end[l].user)
  /\ loggedIn' = [loggedIn EXCEPT ![end[l].user] = FALSE]
  /\ UNCHANGED <<now, dueAt, lock, start, play, run, faults, online>>

EndGetPlay(l) ==
  /\ end[l].pc = "getPlay"
  /\ SetEnd(l, [end[l] EXCEPT !.pc = "setPlay", !.ms = @ + Value(play[end[l].user])])
  /\ UNCHANGED <<now, dueAt, lock, start, play, run, faults, history>>

\* The two writes: the sum is stored, and the session start deleted.
WriteSum(l) ==
  /\ end[l].pc = "setPlay"
  /\ play' = [play EXCEPT ![end[l].user] = Put(end[l].ms)]
  /\ UNCHANGED start
DeleteStart(l) ==
  /\ end[l].pc = "delete"
  /\ start' = [start EXCEPT ![end[l].user] = None]
  /\ UNCHANGED play

EndSetPlay(l) ==
  /\ WriteSum(l)
  /\ SetEnd(l, [end[l] EXCEPT !.pc = "delete", !.ms = 0])
  /\ UNCHANGED <<now, dueAt, lock, run, faults, history>>

EndDelete(l) ==
  /\ DeleteStart(l)
  /\ SetEnd(l, NoEnd)
  /\ loggedIn' = [loggedIn EXCEPT ![end[l].user] = FALSE]
  /\ UNCHANGED <<now, dueAt, lock, run, faults, online, mixed>>

\* A Redis call throws, its write applied or not: what was written stays.
FailEnd(l) ==
  /\ end[l].pc # "idle"
  /\ cutEnds[end[l].user] < MaxFailedEnds
  /\ CutOff({l})
  /\ WriteSum(l) \/ DeleteStart(l) \/ UNCHANGED <<start, play>>
  /\ SetEnd(l, NoEnd)
  /\ UNCHANGED <<now, dueAt, lock, run, crashes, history>>

EndStep(l) ==
  \/ EndGetStart(l) \/ EndWithoutSession(l) \/ EndGetPlay(l) \/ EndSetPlay(l)
  \/ EndDelete(l)

PlayNext ==
  \/ Tick
  \/ \E u \in Players : StartSession(u)
  \/ \E r \in Runs, w \in Workers : TimerFires(r, w)
  \/ \E r \in Runs : RunStep(r) \/ FailRun(r)
  \/ \E w \in Workers : Crash(w)
  \/ \E l \in Ends, u \in Players : BeginEnd(l, u)
  \/ \E l \in Ends : EndStep(l) \/ FailEnd(l)

PlaySpec == PlayInit /\ [][PlayNext]_playVars

\* Redis answers, and the event loop resumes the call that awaits it.
PlayFairSpec ==
  /\ PlaySpec
  /\ \A r \in Runs : WF_playVars(RunStep(r))
  /\ \A l \in Ends : WF_playVars(EndStep(l))

-----------------------------------------------------------------------------

(***************************************************************************)
(* Two calls of updateAllActiveSessions are never in their critical        *)
(* section at once.  It holds as long as no call keeps the lock longer     *)
(* than its TTL (MaxRunTime < LockTtl), across crashes and failed calls,   *)
(* although the finally block deletes the lock without asking whose it is. *)
(***************************************************************************)
OneAggregator == \A r, s \in Holders : r = s

(***************************************************************************)
(* A user is credited with no more play time than was spent logged in,     *)
(* once over for every endSession of the user that failed or died at its   *)
(* writes: it stores the sum before it deletes the session start, so the   *)
(* next one counts the session again.  A crash or a failed update may lose *)
(* time and a second login abandons the time since the last update, but    *)
(* none of them, nor a key that SCAN returns twice, counts any time twice. *)
(* What does is a call that reads the start of a session which another     *)
(* call is still crediting: two logouts at once, or a logout during an     *)
(* update (mixed), and it claims nothing of such a user                    *)
(* (play-time-tracker.service.ts:35-46, 86-98).                            *)
(***************************************************************************)
PlayTimeNotInflated ==
  \A u \in Players \ mixed : Value(play[u]) <= online[u] * (1 + cutEnds[u])

(***************************************************************************)
(* Once endSession has been answered, and until the next startSession, the *)
(* user has no session start for updateAllActiveSessions to find ("should  *)
(* end a session", play-time-tracker.service.spec.ts:28).                  *)
(***************************************************************************)
EndedSessionStaysEnded ==
  \A u \in Players : ~loggedIn[u] => ~Live(start[u])

(***************************************************************************)
(* It does hold of every user whose session start no call looked at while  *)
(* another call was crediting it (play-time-tracker.service.ts:35-46,      *)
(* 86-92).                                                                 *)
(***************************************************************************)
EndedUnlessMixed ==
  \A u \in Players \ mixed : ~loggedIn[u] => ~Live(start[u])

(***************************************************************************)
(* Every call of updateAllActiveSessions comes to its end: nobody waits    *)
(* for the lock, and a call that fails or whose process crashes gives its  *)
(* slot back too (play-time-tracker.service.ts:59-113).                    *)
(***************************************************************************)
EveryUpdateEnds == \A r \in Runs : []<>(run[r].pc = "idle")
=============================================================================
