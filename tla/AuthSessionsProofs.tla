------------------------- MODULE AuthSessionsProofs -------------------------
(***************************************************************************)
(* Proofs about PlayTime and AuthSessions, which drives it:                *)
(*   - type correctness of both;                                           *)
(*   - calls of updateAllActiveSessions that are shorter than the lock's   *)
(*     TTL exclude each other;                                             *)
(*   - a token in Redis means a running play session;                      *)
(*   - as long as no call looks at a user's session start while another    *)
(*     one is crediting it, the user's sessions end for good, play time is *)
(*     credited once, and a logout leaves nothing.                         *)
(***************************************************************************)
EXTENDS AuthSessions, FiniteSetTheorems, TLAPS

LEMMA AnyoneExists == AnyPlayer \in Players /\ Auth \in Workers
BY PlayTimeAssumption DEF AnyPlayer, PlayTimeAssumption

\* A session starts in the past, and whoever credits it has seen it do so.
StartsInThePast ==
  /\ \A u \in Players : start[u].val <= now
  /\ \A r \in Runs : run[r].at <= now

PlayTypeInv == PlayTypeOK /\ StartsInThePast

LEMMA NoCallTypes == NoRun \in RunRecords /\ NoEnd \in EndRecords
BY AnyoneExists DEF NoRun, NoEnd, RunRecords, EndRecords, RunPcs, EndPcs

LEMMA LoopType == ASSUME NEW todo PROVE Loop(todo) \in RunPcs
BY DEF Loop, RunPcs, Locked, Aggregating

LEMMA HistoryTypes ==
  ASSUME PlayTypeOK
  PROVE  /\ \A calls : CutOff(calls) => cutEnds' \in [Players -> Nat]
         /\ \A u \in Players : LooksAt(u) => mixed' \in SUBSET Players
BY DEF PlayTypeOK, CutOff, LooksAt

LEMMA PlayTypeInit == PlayInit => PlayTypeInv
<1> SUFFICES ASSUME PlayInit PROVE PlayTypeInv
  OBVIOUS
<1>1. None \in Keys /\ None.val = 0
  BY DEF None, Keys
<1>2. NoRun.at = 0
  BY DEF NoRun
<1>3. dueAt \in [Workers -> Nat]
  BY PlayTimeAssumption DEF PlayInit, PlayTimeAssumption
<1> QED BY <1>1, <1>2, <1>3, NoCallTypes
        DEF PlayInit, PlayTypeInv, PlayTypeOK, StartsInThePast

LEMMA PlayTypeStep ==
  ASSUME PlayTypeInv, [PlayNext]_playVars PROVE PlayTypeInv'
<1> USE PlayTimeAssumption DEF PlayTimeAssumption
<1> USE DEF PlayTypeInv, PlayTypeOK, StartsInThePast, faults, history
<1>0. None \in Keys /\ None.val = 0
  BY DEF None, Keys
<1>a. NoRun.at = 0 /\ NoRun.pc = "idle"
  BY DEF NoRun
<1>1. CASE Tick
  <2>1. now' = now + 1 /\ now' \in Nat
    BY <1>1 DEF Tick
  <2>2. online' \in [Players -> Nat]
    BY <1>1 DEF Tick
  <2>3. \A u \in Players : start[u].val \in Nat
    BY DEF Keys
  <2>4. \A r \in Runs : run[r].at \in Nat
    BY DEF RunRecords
  <2> QED BY <1>1, <2>1, <2>2, <2>3, <2>4 DEF Tick
<1>2. ASSUME NEW u \in Players, StartSession(u) PROVE PlayTypeInv'
  BY <1>2 DEF StartSession, Put, Keys
<1>3. ASSUME NEW r \in Runs, NEW w \in Workers, TimerFires(r, w) PROVE PlayTypeInv'
  <2>1. [NoRun EXCEPT !.pc = "acquire", !.worker = w] \in RunRecords
    BY NoCallTypes DEF RunRecords, RunPcs
  <2>2. [NoRun EXCEPT !.pc = "acquire", !.worker = w].at = 0
    BY NoCallTypes, <1>a DEF RunRecords
  <2> QED BY <1>3, <2>1, <2>2 DEF TimerFires, SetRun
<1>4. ASSUME NEW r \in Runs, RunStep(r) PROVE PlayTypeInv'
  <2>0. run[r] \in RunRecords
    OBVIOUS
  <2>1. CASE Acquire(r)
    <3>1. [run[r] EXCEPT !.pc = "scan", !.since = now] \in RunRecords
      BY <2>0 DEF RunRecords, RunPcs, Locked, Aggregating
    <3>2. [run[r] EXCEPT !.pc = "scan", !.since = now].at <= now
      BY <2>0 DEF RunRecords
    <3>3. lock' \in Nat
      BY <2>1 DEF Acquire, LockTtl
    <3> QED BY <2>1, <3>1, <3>2, <3>3 DEF Acquire, SetRun
  <2>2. CASE NotAcquired(r)
    BY <2>2, NoCallTypes, <1>a DEF NotAcquired, SetRun
  <2>3. CASE Scan(r)
    <3> DEFINE found == {u \in Players : Live(start[u])}
    <3>0. PICK twice \in SUBSET found :
            run' = [run EXCEPT ![r] = [run[r] EXCEPT !.pc = Loop(found), !.todo = found,
                                                     !.again = twice]]
      BY <2>3 DEF Scan, SetRun
    <3> DEFINE new == [run[r] EXCEPT !.pc = Loop(found), !.todo = found, !.again = twice]
    <3>1. new \in RunRecords /\ new.at = run[r].at
      BY <2>0, LoopType DEF RunRecords
    <3>2. run' = [run EXCEPT ![r] = new]
      BY <3>0
    <3> HIDE DEF new
    <3> QED BY <2>3, <3>1, <3>2 DEF Scan
  <2>4. CASE SetStart(r)
    <3> DEFINE new == [run[r] EXCEPT !.pc = "getPlay", !.at = 0]
    <3>1. new \in RunRecords /\ new.at = 0
      BY <2>0 DEF RunRecords, RunPcs, Locked, Aggregating
    <3>2. run' = [run EXCEPT ![r] = new]
      BY <2>4 DEF SetStart, SetRun
    <3>3. Put(run[r].at) \in Keys /\ Put(run[r].at).val <= now
      BY <2>0 DEF Put, Keys, RunRecords
    <3>4. /\ start' = [start EXCEPT ![run[r].user] = Put(run[r].at)]
          /\ UNCHANGED <<now, play>>
      BY <2>4 DEF SetStart, WriteStart
    <3> HIDE DEF new
    <3>5. start' \in [Players -> Keys] /\ run' \in [Runs -> RunRecords]
      BY <3>1, <3>2, <3>3, <3>4
    <3>6. (\A u \in Players : start'[u].val <= now) /\ (\A k \in Runs : run'[k].at <= now)
      BY <3>1, <3>2, <3>3, <3>4
    <3> QED BY <2>4, <3>4, <3>5, <3>6 DEF SetStart
  <2>5. CASE GetPlay(r)
    <3> DEFINE sum == run[r].ms + Value(play[run[r].user])
               new == [run[r] EXCEPT !.pc = "setPlay", !.ms = sum]
    <3>1. sum \in Nat
      BY <2>0 DEF Value, Keys, RunRecords
    <3> HIDE DEF sum
    <3>2. new \in RunRecords /\ new.at = run[r].at
      BY <2>0, <3>1 DEF RunRecords, RunPcs, Locked, Aggregating
    <3>3. run' = [run EXCEPT ![r] = new]
      BY <2>0, <2>5 DEF GetPlay, SetRun, RunRecords, sum
    <3> HIDE DEF new
    <3> QED BY <2>5, <3>2, <3>3 DEF GetPlay
  <2>6. CASE SetPlay(r)
    <3> DEFINE new == [run[r] EXCEPT !.pc = Loop(run[r].todo), !.ms = 0]
    <3>1. new \in RunRecords /\ new.at = run[r].at
      BY <2>0, LoopType DEF RunRecords
    <3>2. run' = [run EXCEPT ![r] = new]
      BY <2>6 DEF SetPlay, SetRun
    <3>3. Put(run[r].ms) \in Keys
      BY <2>0 DEF Put, Keys, RunRecords
    <3> HIDE DEF new
    <3>4. run' \in [Runs -> RunRecords] /\ \A k \in Runs : run'[k].at <= now
      BY <3>1, <3>2
    <3>5. play' \in [Players -> Keys] /\ start' = start
      BY <2>6, <3>3 DEF SetPlay, WriteUpdate
    <3> QED BY <2>6, <3>4, <3>5 DEF SetPlay
  <2>7. CASE Release(r)
    BY <2>7, NoCallTypes, <1>a DEF Release, SetRun
  <2>8. CASE ReleaseAndThrow(r)
    <3>1. run[r].worker \in Workers
      BY <2>0 DEF RunRecords
    <3>2. PICK w \in Workers : w = run[r].worker
      BY <3>1
    <3>3. /\ run' = [k \in Runs |-> IF run[k].worker = w THEN NoRun ELSE run[k]]
          /\ dueAt' = [dueAt EXCEPT ![w] = now + Interval]
      BY <2>8, <3>2 DEF ReleaseAndThrow, Restart
    <3>4. lock' \in Nat
      BY <2>8 DEF ReleaseAndThrow
    <3>5. end' \in [Ends -> EndRecords] /\ cutEnds' \in [Players -> Nat]
      BY <2>8, NoCallTypes, HistoryTypes DEF ReleaseAndThrow, Restart
    <3> QED BY <2>8, <3>3, <3>4, <3>5, NoCallTypes, <1>a DEF ReleaseAndThrow
  <2>9. ASSUME NEW u \in Players, GetStart(r, u) PROVE PlayTypeInv'
    <3> DEFINE left == IF u \in run[r].again THEN run[r].todo ELSE run[r].todo \ {u}
               rest == [run[r] EXCEPT !.todo = left, !.again = @ \ {u}]
               credit == [rest EXCEPT !.pc = "setStart", !.user = u,
                                      !.at = now, !.ms = Elapsed(start[u])]
               skip == [rest EXCEPT !.pc = Loop(left)]
    <3>1. rest \in RunRecords /\ rest.at = run[r].at
      BY <2>0 DEF RunRecords
    <3>2. Elapsed(start[u]) \in Nat
      BY DEF Elapsed, Keys
    <3>5. run' = [run EXCEPT ![r] = credit] \/ run' = [run EXCEPT ![r] = skip]
      BY <2>9 DEF GetStart, SetRun
    <3> HIDE DEF rest
    <3>3. credit \in RunRecords /\ credit.at = now
      BY <2>0, <3>1, <3>2 DEF RunRecords, RunPcs, Locked, Aggregating
    <3>4. skip \in RunRecords /\ skip.at = run[r].at
      BY <2>0, <3>1, LoopType DEF RunRecords
    <3> HIDE DEF credit, skip
    <3>6. mixed' \in SUBSET Players
      BY <2>9, HistoryTypes DEF GetStart
    <3> QED BY <2>9, <3>3, <3>4, <3>5, <3>6 DEF GetStart
  <2> QED BY <1>4, <2>1, <2>2, <2>3, <2>4, <2>5, <2>6, <2>7, <2>8, <2>9 DEF RunStep
<1>5. ASSUME NEW r \in Runs, FailRun(r) PROVE PlayTypeInv'
  <2> DEFINE new == [NoRun EXCEPT !.pc = "releaseAndThrow", !.worker = run[r].worker,
                                  !.since = run[r].since]
  <2>1. new \in RunRecords /\ new.at = 0
    BY NoCallTypes, <1>a DEF RunRecords, RunPcs, Locked
  <2>2. run' = [run EXCEPT ![r] = new]
    BY <1>5 DEF FailRun, SetRun
  <2> HIDE DEF new
  <2>3. run[r] \in RunRecords
    OBVIOUS
  <2>4. Put(run[r].at) \in Keys /\ Put(run[r].at).val <= now /\ Put(run[r].ms) \in Keys
    BY <2>3 DEF Put, Keys, RunRecords
  <2>5. /\ start' \in [Players -> Keys] /\ play' \in [Players -> Keys]
        /\ \A u \in Players : start'[u].val <= now
    BY <1>5, <2>4 DEF FailRun, WriteStart, WriteUpdate
  <2>6. /\ run' \in [Runs -> RunRecords] /\ \A k \in Runs : run'[k].at <= now
    BY <2>1, <2>2
  <2> QED BY <1>5, <2>5, <2>6 DEF FailRun
<1>6. ASSUME NEW w \in Workers, Crash(w) PROVE PlayTypeInv'
  <2>1. end' \in [Ends -> EndRecords] /\ cutEnds' \in [Players -> Nat]
    BY <1>6, NoCallTypes, HistoryTypes DEF Crash, Restart
  <2> QED BY <1>6, <2>1, NoCallTypes, <1>a DEF Crash, Restart
<1>7. ASSUME NEW l \in Ends, NEW u \in Players, BeginEnd(l, u) PROVE PlayTypeInv'
  <2>1. [NoEnd EXCEPT !.pc = "getStart", !.user = u] \in EndRecords
    BY NoCallTypes DEF EndRecords, EndPcs
  <2> QED BY <1>7, <2>1 DEF BeginEnd, SetEnd
<1>8. ASSUME NEW l \in Ends, EndStep(l) PROVE PlayTypeInv'
  <2>0. end[l] \in EndRecords /\ end[l].user \in Players /\ end[l].ms \in Nat
    BY DEF EndRecords
  <2>1. CASE EndGetStart(l)
    <3>1. Elapsed(start[end[l].user]) \in Nat
      BY <2>0 DEF Elapsed, Keys
    <3>2. [end[l] EXCEPT !.pc = "getPlay", !.ms = Elapsed(start[end[l].user])]
            \in EndRecords
      BY <2>0, <3>1 DEF EndRecords, EndPcs
    <3>3. mixed' \in SUBSET Players
      BY <2>0, <2>1, HistoryTypes DEF EndGetStart
    <3> QED BY <2>1, <3>2, <3>3 DEF EndGetStart, SetEnd
  <2>2. CASE EndWithoutSession(l)
    <3>1. mixed' \in SUBSET Players
      BY <2>0, <2>2, HistoryTypes DEF EndWithoutSession
    <3> QED BY <2>2, <2>0, <3>1, NoCallTypes DEF EndWithoutSession, SetEnd
  <2>3. CASE EndGetPlay(l)
    <3> DEFINE sum == end[l].ms + Value(play[end[l].user])
               new == [end[l] EXCEPT !.pc = "setPlay", !.ms = sum]
    <3>1. sum \in Nat
      BY <2>0 DEF Value, Keys
    <3> HIDE DEF sum
    <3>2. new \in EndRecords
      BY <2>0, <3>1 DEF EndRecords, EndPcs
    <3>3. end' = [end EXCEPT ![l] = new]
      BY <2>0, <2>3 DEF EndGetPlay, SetEnd, EndRecords, sum
    <3> HIDE DEF new
    <3> QED BY <2>3, <3>2, <3>3 DEF EndGetPlay
  <2>4. CASE EndSetPlay(l)
    <3>1. [end[l] EXCEPT !.pc = "delete", !.ms = 0] \in EndRecords
      BY <2>0 DEF EndRecords, EndPcs
    <3>2. Put(end[l].ms) \in Keys
      BY <2>0 DEF Put, Keys
    <3> QED BY <2>4, <3>1, <3>2 DEF EndSetPlay, WriteSum, SetEnd
  <2>5. CASE EndDelete(l)
    BY <2>5, <2>0, <1>0, NoCallTypes DEF EndDelete, DeleteStart, SetEnd
  <2> QED BY <1>8, <2>1, <2>2, <2>3, <2>4, <2>5 DEF EndStep
<1>9. ASSUME NEW l \in Ends, FailEnd(l) PROVE PlayTypeInv'
  <2>0. end[l].user \in Players /\ end[l].ms \in Nat
    BY DEF EndRecords
  <2>1. Put(end[l].ms) \in Keys
    BY <2>0 DEF Put, Keys
  <2>2. start' \in [Players -> Keys] /\ \A u \in Players : start'[u].val <= now
    BY <1>9, <1>0, <2>0 DEF FailEnd, WriteSum, DeleteStart
  <2>3. play' \in [Players -> Keys]
    BY <1>9, <2>1 DEF FailEnd, WriteSum, DeleteStart
  <2>4. end' \in [Ends -> EndRecords] /\ cutEnds' \in [Players -> Nat]
    BY <1>9, NoCallTypes, HistoryTypes DEF FailEnd, SetEnd
  <2> QED BY <1>9, <2>2, <2>3, <2>4 DEF FailEnd
<1>10. CASE UNCHANGED playVars
  BY <1>10 DEF playVars
<1> QED BY <1>1, <1>2, <1>3, <1>4, <1>5, <1>6, <1>7, <1>8, <1>9, <1>10 DEF PlayNext

(***************************************************************************)
(* The keys, clocks and call records of PlayTime keep their types; in      *)
(* particular no duration that updateAllActiveSessions or endSession adds  *)
(* is ever negative.                                                       *)
(***************************************************************************)
THEOREM PlayTypeCorrect == PlaySpec => []PlayTypeOK
<1>1. PlayTypeInv => PlayTypeOK
  BY DEF PlayTypeInv
<1> QED BY PlayTypeInit, PlayTypeStep, <1>1, PTL DEF PlaySpec

-----------------------------------------------------------------------------
(***************************************************************************)
(* Exclusion.  While a call holds the lock, the lock is the one it took:   *)
(* it expires LockTtl after the call took it, and by then the call is over.*)
(* So a free or expired lock means that nobody holds it, and the call that *)
(* deletes it is the only one in the critical section.                     *)
(***************************************************************************)
HoldersOwnTheLock ==
  \A r \in Holders :
    /\ run[r].since <= now
    /\ now - run[r].since <= MaxRunTime
    /\ lock = run[r].since + LockTtl

LockInv == PlayTypeInv /\ OneAggregator /\ HoldersOwnTheLock

LEMMA HeldByHolders ==
  ASSUME LockInv, MaxRunTime < LockTtl PROVE Holders # {} => Held
<1> SUFFICES ASSUME NEW r \in Holders PROVE Held
  OBVIOUS
<1>1. r \in Runs /\ run[r].since \in Nat /\ now \in Nat
  BY DEF LockInv, PlayTypeInv, PlayTypeOK, RunRecords, Holders
<1>2. MaxRunTime \in Nat /\ LockTtl \in Nat
  BY PlayTimeAssumption DEF PlayTimeAssumption, LockTtl
<1> HIDE DEF LockTtl
<1> QED BY <1>1, <1>2 DEF LockInv, HoldersOwnTheLock, Held

\* What every step but Acquire and Tick does: holders stay what they were or
\* leave, and the lock changes only when they are all gone.
LEMMA HoldersLeave ==
  ASSUME LockInv, Holders' \subseteq Holders, now' = now,
         \A r \in Holders' : run'[r].since = run[r].since,
         lock' = lock \/ Holders' = {}
  PROVE  (OneAggregator /\ HoldersOwnTheLock)'
BY DEF LockInv, OneAggregator, HoldersOwnTheLock

LEMMA LockStep ==
  ASSUME LockInv, [PlayNext]_playVars, MaxRunTime < LockTtl PROVE LockInv'
<1> USE DEF LockInv
<1>0. PlayTypeInv'
  BY PlayTypeStep
<1>a. run \in [Runs -> RunRecords] /\ NoRun.pc = "idle" /\ now \in Nat /\ NoRun \in RunRecords
  BY NoCallTypes DEF PlayTypeInv, PlayTypeOK, NoRun
<1> SUFFICES (OneAggregator /\ HoldersOwnTheLock)'
  BY <1>0
\* A slot whose new record is not in the critical section.
<1>b. ASSUME NEW r \in Runs, NEW new \in RunRecords, run' = [run EXCEPT ![r] = new],
             new.pc \notin Locked
      PROVE  /\ Holders' \subseteq Holders \ {r}
             /\ \A k \in Holders' : run'[k].since = run[k].since
  BY <1>a, <1>b DEF Holders
\* A slot that moves inside the critical section.
<1>c. ASSUME NEW r \in Runs, NEW new \in RunRecords, run' = [run EXCEPT ![r] = new],
             run[r].pc \in Locked, new.since = run[r].since
      PROVE  /\ Holders' \subseteq Holders
             /\ \A k \in Holders' : run'[k].since = run[k].since
  BY <1>a, <1>c DEF Holders
<1>1. CASE Tick
  <2>1. Holders' = Holders /\ now' = now + 1 /\ UNCHANGED <<run, lock>>
    BY <1>1 DEF Tick, Holders
  <2>2. \A r \in Holders : now - run[r].since < MaxRunTime /\ run[r].since \in Nat
    BY <1>1, <1>a DEF Tick, Holders, RunRecords
  <2>3. MaxRunTime \in Nat
    BY PlayTimeAssumption DEF PlayTimeAssumption
  <2>4. OneAggregator'
    BY <2>1 DEF OneAggregator
  <2>5. HoldersOwnTheLock'
    <3>1. ASSUME NEW r \in Holders
          PROVE  /\ run[r].since <= now + 1
                 /\ now + 1 - run[r].since <= MaxRunTime
                 /\ lock = run[r].since + LockTtl
      BY <2>2, <2>3, <1>a DEF HoldersOwnTheLock
    <3>2. run' = run /\ lock' = lock
      BY <2>1
    <3>3. ASSUME NEW r \in Holders'
          PROVE  /\ run'[r].since <= now'
                 /\ now' - run'[r].since <= MaxRunTime
                 /\ lock' = run'[r].since + LockTtl
      <4>1. r \in Holders /\ run'[r].since = run[r].since
        BY <2>1, <3>2, <3>3
      <4>2. now \in Nat /\ run[r].since \in Nat
        BY <1>a, <2>2, <4>1
      <4> HIDE DEF LockTtl
      <4> QED BY <2>1, <3>1, <3>2, <4>1, <4>2
    <3> QED BY <3>3, Zenon DEF HoldersOwnTheLock
  <2> QED BY <2>4, <2>5
<1>2. ASSUME NEW u \in Players, StartSession(u) PROVE (OneAggregator /\ HoldersOwnTheLock)'
  BY <1>2, HoldersLeave DEF StartSession, Holders
<1>3. ASSUME NEW r \in Runs, NEW w \in Workers, TimerFires(r, w)
      PROVE  (OneAggregator /\ HoldersOwnTheLock)'
  <2> DEFINE new == [NoRun EXCEPT !.pc = "acquire", !.worker = w]
  <2>1. new \in RunRecords /\ new.pc \notin Locked
    BY <1>a DEF RunRecords, RunPcs, Locked, Aggregating
  <2>2. run' = [run EXCEPT ![r] = new] /\ now' = now /\ lock' = lock
    BY <1>3 DEF TimerFires, SetRun
  <2> QED BY <1>b, <2>1, <2>2, HoldersLeave
<1>4. ASSUME NEW r \in Runs, RunStep(r) PROVE (OneAggregator /\ HoldersOwnTheLock)'
  <2>0. run[r] \in RunRecords
    BY <1>a
  <2>1. CASE Acquire(r)
    <3> DEFINE new == [run[r] EXCEPT !.pc = "scan", !.since = now]
    <3>1. Holders = {}
      BY <2>1, HeldByHolders DEF Acquire
    <3>2. new.since = now
      BY <2>0 DEF RunRecords
    <3>3. run' = [run EXCEPT ![r] = new] /\ now' = now /\ lock' = now + LockTtl
      BY <2>1 DEF Acquire, SetRun
    <3> HIDE DEF new
    <3>4. Holders' \subseteq {r}
      BY <3>1, <3>3, <1>a DEF Holders
    <3>5. MaxRunTime \in Nat
      BY PlayTimeAssumption DEF PlayTimeAssumption
    <3>6. \A k \in Holders' : run'[k].since = now
      BY <3>2, <3>3, <3>4, <1>a
    <3> QED BY <3>3, <3>4, <3>5, <3>6, <1>a DEF OneAggregator, HoldersOwnTheLock
  <2>2. CASE NotAcquired(r)
    <3>1. run' = [run EXCEPT ![r] = NoRun] /\ now' = now /\ lock' = lock
      BY <2>2 DEF NotAcquired, SetRun
    <3> QED BY <1>a, <1>b, <3>1, HoldersLeave DEF Locked, Aggregating
  <2>3. CASE \/ Scan(r) \/ SetStart(r) \/ GetPlay(r) \/ SetPlay(r)
             \/ \E u \in Players : GetStart(r, u)
    <3>1. run'[r].since = run[r].since /\ run' = [run EXCEPT ![r] = run'[r]]
      <4>1. CASE Scan(r)
        BY <2>0, <4>1, <1>a DEF Scan, SetRun, RunRecords
      <4>2. CASE SetStart(r)
        BY <2>0, <4>2, <1>a DEF SetStart, SetRun, RunRecords
      <4>3. CASE GetPlay(r)
        BY <2>0, <4>3, <1>a DEF GetPlay, SetRun, RunRecords
      <4>4. CASE SetPlay(r)
        BY <2>0, <4>4, <1>a DEF SetPlay, SetRun, RunRecords
      <4>5. ASSUME NEW u \in Players, GetStart(r, u)
            PROVE  run'[r].since = run[r].since /\ run' = [run EXCEPT ![r] = run'[r]]
        <5>1. CASE Live(start[u])
          BY <2>0, <4>5, <5>1, <1>a DEF GetStart, SetRun, RunRecords
        <5>2. CASE ~Live(start[u])
          BY <2>0, <4>5, <5>2, <1>a DEF GetStart, SetRun, RunRecords
        <5> QED BY <5>1, <5>2
      <4> QED BY <2>3, <4>1, <4>2, <4>3, <4>4, <4>5
    <3>2. run'[r] \in RunRecords
      BY <1>0 DEF PlayTypeInv, PlayTypeOK
    <3>3. run[r].pc \in Locked /\ now' = now /\ lock' = lock
      BY <2>3 DEF Scan, SetStart, WriteStart, GetPlay, SetPlay, WriteUpdate, GetStart,
         Locked, Aggregating
    <3>4. PICK new \in RunRecords : new = run'[r]
      BY <3>2
    <3> QED BY <1>c, <3>1, <3>3, <3>4, HoldersLeave
  <2>4. CASE Release(r)
    <3>1. run' = [run EXCEPT ![r] = NoRun] /\ now' = now /\ r \in Holders
      BY <2>4 DEF Release, SetRun, Holders, Locked
    <3>2. Holders' \subseteq Holders \ {r}
      BY <1>a, <1>b, <3>1 DEF Locked, Aggregating
    <3>3. Holders' = {}
      BY <3>1, <3>2 DEF OneAggregator
    <3> QED BY <3>1, <3>3, HoldersLeave
  <2>5. CASE ReleaseAndThrow(r)
    <3>1. now' = now /\ r \in Holders
      BY <2>5 DEF ReleaseAndThrow, Holders, Locked
    <3>2. run' = [k \in Runs |-> IF run[k].worker = run[r].worker THEN NoRun ELSE run[k]]
      BY <2>5 DEF ReleaseAndThrow, Restart
    <3>3. Holders' \subseteq Holders \ {r}
      BY <1>a, <3>2 DEF Holders, Locked, Aggregating
    <3>4. Holders' = {}
      BY <3>1, <3>3 DEF OneAggregator
    <3> QED BY <3>1, <3>4, HoldersLeave
  <2> QED BY <1>4, <2>1, <2>2, <2>3, <2>4, <2>5 DEF RunStep
<1>5. ASSUME NEW r \in Runs, FailRun(r) PROVE (OneAggregator /\ HoldersOwnTheLock)'
  <2> DEFINE new == [NoRun EXCEPT !.pc = "releaseAndThrow", !.worker = run[r].worker,
                                  !.since = run[r].since]
  <2>1. new \in RunRecords /\ new.since = run[r].since
    BY <1>a DEF RunRecords, RunPcs, Locked
  <2>2. run' = [run EXCEPT ![r] = new] /\ now' = now /\ lock' = lock
    BY <1>5 DEF FailRun, SetRun
  <2>3. run[r].pc \in Locked
    BY <1>5 DEF FailRun, Locked
  <2> HIDE DEF new
  <2> QED BY <1>c, <2>1, <2>2, <2>3, HoldersLeave
<1>6. ASSUME NEW w \in Workers, Crash(w) PROVE (OneAggregator /\ HoldersOwnTheLock)'
  <2>1. now' = now /\ lock' = lock
    BY <1>6 DEF Crash
  <2>2. run' = [k \in Runs |-> IF run[k].worker = w THEN NoRun ELSE run[k]]
    BY <1>6 DEF Crash, Restart
  <2>3. /\ Holders' \subseteq Holders
        /\ \A k \in Holders' : run'[k].since = run[k].since
    BY <1>a, <2>2 DEF Holders, Locked, Aggregating
  <2> QED BY <2>1, <2>3, HoldersLeave
<1>7. ASSUME NEW l \in Ends, \/ \E u \in Players : BeginEnd(l, u)
                             \/ EndStep(l) \/ FailEnd(l)
      PROVE  (OneAggregator /\ HoldersOwnTheLock)'
  <2>1. UNCHANGED <<now, lock, run>>
    BY <1>7 DEF BeginEnd, EndStep, EndGetStart, EndWithoutSession, EndGetPlay,
                EndSetPlay, EndDelete, FailEnd
  <2> QED BY <2>1, HoldersLeave DEF Holders
<1>8. CASE UNCHANGED playVars
  BY <1>8, HoldersLeave DEF playVars, Holders
<1> QED BY <1>1, <1>2, <1>3, <1>4, <1>5, <1>6, <1>7, <1>8 DEF PlayNext

(***************************************************************************)
(* If no call of updateAllActiveSessions outlasts the lock's TTL, no two   *)
(* are ever in the critical section at once: through crashes, failed calls *)
(* and the unconditional DEL of the finally block, for any number of       *)
(* processes.                                                              *)
(***************************************************************************)
THEOREM ShortRunsExclude ==
  ASSUME MaxRunTime < LockTtl PROVE PlaySpec => []OneAggregator
<1>1. PlayInit => LockInv
  <2> SUFFICES ASSUME PlayInit PROVE LockInv
    OBVIOUS
  <2>1. Holders = {}
    BY DEF PlayInit, Holders, NoRun, Locked, Aggregating
  <2> QED BY <2>1, PlayTypeInit DEF LockInv, OneAggregator, HoldersOwnTheLock
<1>2. LockInv /\ [PlayNext]_playVars => LockInv'
  BY LockStep
<1>3. LockInv => OneAggregator
  BY DEF LockInv
<1> QED BY <1>1, <1>2, <1>3, PTL DEF PlaySpec

-----------------------------------------------------------------------------
(***************************************************************************)
(* One at a time.  As long as no call looks at a user's session start      *)
(* while another one is crediting it, no two calls credit the user at once *)
(* (Lone).                                                                 *)
(***************************************************************************)
Lone(u) ==
  /\ \A r, s \in CreditingRuns(u) : r = s
  /\ \A k, l \in CreditingEnds(u) : k = l
  /\ CreditingRuns(u) = {} \/ CreditingEnds(u) = {}

Storing == {"setStart", "getPlay", "setPlay"}

\* The steps that begin no session.
NoStart ==
  \/ Tick
  \/ \E r \in Runs, w \in Workers : TimerFires(r, w)
  \/ \E r \in Runs : RunStep(r) \/ FailRun(r)
  \/ \E w \in Workers : Crash(w)
  \/ \E l \in Ends, u \in Players : BeginEnd(l, u)
  \/ \E l \in Ends : EndStep(l) \/ FailEnd(l)
  \/ UNCHANGED playVars

LEMMA PlaySteps ==
  ASSUME [PlayNext]_playVars PROVE NoStart \/ \E u \in Players : StartSession(u)
BY DEF PlayNext, NoStart

LEMMA CallTypes ==
  ASSUME PlayTypeInv
  PROVE  /\ run \in [Runs -> RunRecords] /\ end \in [Ends -> EndRecords]
         /\ \A r \in Runs : run[r] \in RunRecords
         /\ \A l \in Ends : end[l] \in EndRecords
         /\ NoRun.pc = "idle" /\ NoEnd.pc = "idle"
BY DEF PlayTypeInv, PlayTypeOK, NoRun, NoEnd

\* A step of one updateAllActiveSessions, failing or not, that leaves its
\* process alone.
RunMoves(r) ==
  \/ Acquire(r) \/ NotAcquired(r) \/ Scan(r) \/ SetStart(r) \/ GetPlay(r)
  \/ SetPlay(r) \/ Release(r) \/ FailRun(r) \/ \E u \in Players : GetStart(r, u)

LEMMA RunFrame ==
  ASSUME PlayTypeInv, NEW r \in Runs, RunMoves(r)
  PROVE  /\ \A k \in Runs : k # r => run'[k] = run[k]
         /\ UNCHANGED <<now, end, cutEnds, loggedIn, online>>
         /\ run[r].pc # "idle"
<1>1. run \in [Runs -> RunRecords]
  BY CallTypes
<1>2. \A k \in Runs : k # r => run'[k] = run[k]
  BY <1>1 DEF RunMoves, Acquire, NotAcquired, Scan, SetStart, GetPlay, SetPlay, Release,
     FailRun, GetStart, SetRun
<1>3. UNCHANGED <<now, end, cutEnds, loggedIn, online>>
  BY DEF RunMoves, Acquire, NotAcquired, Scan, SetStart, GetPlay, SetPlay, Release,
     FailRun, GetStart, faults, history
<1>4. run[r].pc # "idle"
  BY DEF RunMoves, Acquire, NotAcquired, Scan, SetStart, WriteStart, GetPlay, SetPlay,
     WriteUpdate, Release, FailRun, GetStart, Aggregating
<1> QED BY <1>2, <1>3, <1>4

\* Where the call is after its step.
LEMMA RunGoes ==
  ASSUME PlayTypeInv, NEW r \in Runs, RunMoves(r)
  PROVE  \/ run'[r].pc \notin Storing /\ ~SetStart(r) /\ ~GetPlay(r)
         \/ \E u \in Players : /\ GetStart(r, u) /\ Live(start[u])
                               /\ run'[r].pc = "setStart" /\ run'[r].user = u
                               /\ run'[r].at = now /\ run'[r].ms = now - start[u].val
         \/ /\ SetStart(r) /\ run[r].pc = "setStart" /\ run'[r].pc = "getPlay"
            /\ run'[r].user = run[r].user /\ run'[r].ms = run[r].ms
         \/ /\ GetPlay(r) /\ run[r].pc = "getPlay" /\ run'[r].pc = "setPlay"
            /\ run'[r].user = run[r].user
            /\ run'[r].ms = run[r].ms + Value(play[run[r].user])
<1>t. /\ run \in [Runs -> RunRecords] /\ run[r] \in RunRecords
      /\ NoRun.pc = "idle"
  BY CallTypes
<1> USE DEF Storing
<1>1. CASE Acquire(r)
  BY <1>t, <1>1 DEF Acquire, SetRun, RunRecords, SetStart, WriteStart, GetPlay
<1>2. CASE NotAcquired(r) \/ Release(r)
  BY <1>t, <1>2 DEF NotAcquired, Release, SetRun, SetStart, WriteStart, GetPlay
<1>3. CASE Scan(r)
  <2> DEFINE found == {u \in Players : Live(start[u])}
  <2>1. \E twice \in SUBSET found : run' = [run EXCEPT ![r] =
          [run[r] EXCEPT !.pc = Loop(found), !.todo = found, !.again = twice]]
    BY <1>3 DEF Scan, SetRun
  <2> HIDE DEF found
  <2>2. run'[r].pc = Loop(found)
    BY <1>t, <2>1 DEF RunRecords
  <2> QED BY <1>3, <2>2 DEF Loop, Scan, SetStart, WriteStart, GetPlay
<1>4. CASE SetStart(r)
  BY <1>t, <1>4 DEF SetStart, WriteStart, SetRun, RunRecords
<1>5. CASE GetPlay(r)
  BY <1>t, <1>5 DEF GetPlay, SetRun, RunRecords
<1>6. CASE SetPlay(r)
  BY <1>t, <1>6 DEF SetPlay, WriteUpdate, SetRun, RunRecords, Loop, SetStart, WriteStart, GetPlay
<1>7. CASE FailRun(r)
  <2> DEFINE new == [NoRun EXCEPT !.pc = "releaseAndThrow", !.worker = run[r].worker,
                                  !.since = run[r].since]
  <2>1. run' = [run EXCEPT ![r] = new]
    BY <1>7 DEF FailRun, SetRun
  <2>2. new.pc = "releaseAndThrow"
    BY DEF NoRun
  <2> HIDE DEF new
  <2>3. run'[r].pc = "releaseAndThrow"
    BY <1>t, <2>1, <2>2
  <2>4. ~SetStart(r)
    <3>1. SetStart(r) => run'[r].pc = "getPlay"
      BY <1>t DEF SetStart, SetRun, RunRecords
    <3> QED BY <2>3, <3>1
  <2>5. ~GetPlay(r)
    <3>1. GetPlay(r) => run'[r].pc = "setPlay"
      BY <1>t DEF GetPlay, SetRun, RunRecords
    <3> QED BY <2>3, <3>1
  <2> QED BY <2>3, <2>4, <2>5
<1>8. ASSUME NEW u \in Players, GetStart(r, u)
      PROVE  \/ run'[r].pc \notin Storing /\ ~SetStart(r) /\ ~GetPlay(r)
             \/ /\ Live(start[u])
                /\ run'[r].pc = "setStart" /\ run'[r].user = u
                /\ run'[r].at = now /\ run'[r].ms = now - start[u].val
  <2>1. CASE Live(start[u])
    BY <1>t, <1>8, <2>1 DEF GetStart, SetRun, RunRecords, Elapsed
  <2>2. CASE ~Live(start[u])
    <3>1. run'[r].pc \in {"release", "getStart"}
      BY <1>t, <1>8, <2>2 DEF GetStart, SetRun, RunRecords, Loop
    <3> QED BY <1>8, <3>1 DEF GetStart, SetStart, WriteStart, GetPlay
  <2> QED BY <2>1, <2>2
<1> QED BY <1>1, <1>2, <1>3, <1>4, <1>5, <1>6, <1>7, <1>8 DEF RunMoves

\* A process that ends takes calls with it, and no other call changes.
Stops(w) ==
  /\ run' = [r \in Runs |-> IF run[r].worker = w THEN NoRun ELSE run[r]]
  /\ end' = [l \in Ends |-> IF w = Auth THEN NoEnd ELSE end[l]]
  /\ CutOff(IF w = Auth THEN Ends ELSE {})
  /\ UNCHANGED <<now, start, play, loggedIn, online, mixed>>

LEMMA StopsSteps ==
  ASSUME PlayTypeInv
  PROVE  /\ \A r \in Runs : ReleaseAndThrow(r) => \E w \in Workers : Stops(w)
         /\ \A w \in Workers : Crash(w) => Stops(w)
<1>1. \A r \in Runs : run[r].worker \in Workers
  BY CallTypes DEF RunRecords
<1>2. \A r \in Runs : ReleaseAndThrow(r) => Stops(run[r].worker)
  BY DEF ReleaseAndThrow, Restart, Stops, history
<1> QED BY <1>1, <1>2 DEF Crash, Restart, Stops, history

\* The steps of PlayTime once more, by what they do to the calls.
LEMMA StepKinds ==
  ASSUME PlayTypeInv, NoStart
  PROVE  \/ Tick \/ UNCHANGED playVars
         \/ \E r \in Runs, w \in Workers : TimerFires(r, w)
         \/ \E r \in Runs : RunMoves(r)
         \/ \E w \in Workers : Stops(w)
         \/ \E l \in Ends, u \in Players : BeginEnd(l, u)
         \/ \E l \in Ends : EndStep(l) \/ FailEnd(l)
BY StopsSteps DEF NoStart, RunStep, RunMoves

LEMMA EndFrame ==
  ASSUME PlayTypeInv, NEW l \in Ends, EndStep(l) \/ FailEnd(l)
  PROVE  /\ \A k \in Ends : k # l => end'[k] = end[k]
         /\ UNCHANGED <<now, run, online>>
         /\ end[l].pc # "idle"
<1>1. end \in [Ends -> EndRecords]
  BY CallTypes
<1>2. \A k \in Ends : k # l => end'[k] = end[k]
  BY <1>1 DEF EndStep, EndGetStart, EndWithoutSession, EndGetPlay, EndSetPlay, EndDelete,
     FailEnd, SetEnd
<1>3. UNCHANGED <<now, run, online>> /\ end[l].pc # "idle"
  BY DEF EndStep, EndGetStart, EndWithoutSession, EndGetPlay, EndSetPlay, WriteSum,
     EndDelete, DeleteStart, FailEnd, history
<1> QED BY <1>2, <1>3

LEMMA EndGoes ==
  ASSUME PlayTypeInv, NEW l \in Ends, EndStep(l) \/ FailEnd(l)
  PROVE  \/ /\ EndWithoutSession(l) \/ EndDelete(l) \/ FailEnd(l)
            /\ end'[l].pc = "idle"
         \/ /\ EndGetStart(l) /\ end[l].pc = "getStart" /\ end'[l].pc = "getPlay"
            /\ end'[l].user = end[l].user /\ end'[l].ms = now - start[end[l].user].val
         \/ /\ EndGetPlay(l) /\ end[l].pc = "getPlay" /\ end'[l].pc = "setPlay"
            /\ end'[l].user = end[l].user
            /\ end'[l].ms = end[l].ms + Value(play[end[l].user])
         \/ /\ EndSetPlay(l) /\ end[l].pc = "setPlay" /\ end'[l].pc = "delete"
            /\ end'[l].user = end[l].user
<1>t. end \in [Ends -> EndRecords] /\ end[l] \in EndRecords /\ NoEnd.pc = "idle"
  BY CallTypes
<1>1. CASE EndWithoutSession(l) \/ EndDelete(l) \/ FailEnd(l)
  BY <1>1, <1>t DEF EndWithoutSession, EndDelete, FailEnd, SetEnd
<1>2. CASE EndGetStart(l)
  BY <1>2, <1>t DEF EndGetStart, SetEnd, EndRecords, Elapsed
<1>3. CASE EndGetPlay(l)
  BY <1>3, <1>t DEF EndGetPlay, SetEnd, EndRecords
<1>4. CASE EndSetPlay(l)
  BY <1>4, <1>t DEF EndSetPlay, WriteSum, SetEnd, EndRecords
<1> QED BY <1>1, <1>2, <1>3, <1>4 DEF EndStep

LEMMA MixedGrows ==
  ASSUME PlayTypeInv, [PlayNext]_playVars PROVE mixed \subseteq mixed'
<1>1. ASSUME NEW r \in Runs, RunMoves(r) PROVE mixed \subseteq mixed'
  BY <1>1 DEF RunMoves, Acquire, NotAcquired, Scan, SetStart, GetPlay, SetPlay, Release,
     FailRun, GetStart, LooksAt, history
<1>2. ASSUME NEW l \in Ends, EndStep(l) \/ FailEnd(l) PROVE mixed \subseteq mixed'
  BY <1>2 DEF EndStep, EndGetStart, EndWithoutSession, EndGetPlay, EndSetPlay, EndDelete,
     FailEnd, LooksAt, history
<1>3. CASE \/ Tick \/ UNCHANGED playVars \/ (\E w \in Workers : Stops(w))
           \/ (\E r \in Runs, w \in Workers : TimerFires(r, w))
           \/ (\E l \in Ends, u \in Players : BeginEnd(l, u))
           \/ (\E u \in Players : StartSession(u))
  BY <1>3 DEF Tick, playVars, Stops, TimerFires, BeginEnd, StartSession, history
<1> QED BY <1>1, <1>2, <1>3, PlaySteps, StepKinds

\* Nobody begins to credit the user, or one call does and finds nobody doing so.
LEMMA CreditingChanges ==
  ASSUME PlayTypeInv, NEW u \in Players, u \notin mixed', [PlayNext]_playVars
  PROVE  \/ /\ CreditingRuns(u)' \subseteq CreditingRuns(u)
            /\ CreditingEnds(u)' \subseteq CreditingEnds(u)
         \/ /\ CreditingRuns(u) \cup CreditingEnds(u) = {}
            /\ \/ (\E r \in Runs : CreditingRuns(u)' = {r}) /\ CreditingEnds(u)' = {}
               \/ CreditingRuns(u)' = {} /\ \E l \in Ends : CreditingEnds(u)' = {l}
<1> USE DEF CreditingRuns, CreditingEnds
<1>t. /\ run \in [Runs -> RunRecords] /\ end \in [Ends -> EndRecords]
      /\ NoRun.pc = "idle" /\ NoEnd.pc = "idle"
  BY CallTypes
<1>1. CASE Tick \/ UNCHANGED playVars \/ \E v \in Players : StartSession(v)
  BY <1>1 DEF Tick, playVars, StartSession
<1>2. ASSUME NEW r \in Runs, NEW w \in Workers, TimerFires(r, w)
      PROVE  /\ CreditingRuns(u)' \subseteq CreditingRuns(u)
             /\ CreditingEnds(u)' = CreditingEnds(u)
  <2>1. run' = [run EXCEPT ![r] = [NoRun EXCEPT !.pc = "acquire", !.worker = w]]
        /\ end' = end
    BY <1>2 DEF TimerFires, SetRun
  <2>2. [NoRun EXCEPT !.pc = "acquire", !.worker = w].pc = "acquire"
    BY DEF NoRun
  <2> QED BY <2>1, <2>2, <1>t
<1>3. ASSUME NEW r \in Runs, RunMoves(r)
      PROVE  \/ /\ CreditingRuns(u)' \subseteq CreditingRuns(u)
                /\ CreditingEnds(u)' \subseteq CreditingEnds(u)
             \/ /\ CreditingRuns(u) \cup CreditingEnds(u) = {}
                /\ CreditingRuns(u)' = {r} /\ CreditingEnds(u)' = {}
  <2>1. CASE \E v \in Players : /\ GetStart(r, v) /\ Live(start[v])
                                /\ run'[r].pc = "setStart" /\ run'[r].user = v
    <3>1. PICK v \in Players : /\ GetStart(r, v) /\ Live(start[v])
                               /\ run'[r].pc = "setStart" /\ run'[r].user = v
      BY <2>1
    <3>2. CASE v = u
      <4>1. CreditingRuns(u) \cup CreditingEnds(u) = {}
        BY <3>1, <3>2 DEF GetStart, LooksAt
      <4> QED BY <1>3, <3>1, <3>2, <4>1, RunFrame
    <3>3. CASE v # u
      BY <1>3, <3>1, <3>3, RunFrame
    <3> QED BY <3>2, <3>3
  <2>2. CASE ~\E v \in Players : /\ GetStart(r, v) /\ Live(start[v])
                                 /\ run'[r].pc = "setStart" /\ run'[r].user = v
    BY <1>3, <2>2, RunFrame, RunGoes DEF Storing
  <2> QED BY <2>1, <2>2
<1>4. ASSUME NEW w \in Workers, Stops(w)
      PROVE  /\ CreditingRuns(u)' \subseteq CreditingRuns(u)
             /\ CreditingEnds(u)' \subseteq CreditingEnds(u)
  BY <1>4, <1>t DEF Stops
<1>5. ASSUME NEW l \in Ends, NEW v \in Players, BeginEnd(l, v)
      PROVE  /\ CreditingRuns(u)' = CreditingRuns(u)
             /\ CreditingEnds(u)' \subseteq CreditingEnds(u)
  <2>1. end' = [end EXCEPT ![l] = [NoEnd EXCEPT !.pc = "getStart", !.user = v]]
        /\ run' = run
    BY <1>5 DEF BeginEnd, SetEnd
  <2>2. [NoEnd EXCEPT !.pc = "getStart", !.user = v].pc = "getStart"
    BY DEF NoEnd
  <2> QED BY <2>1, <2>2, <1>t
<1>6. ASSUME NEW l \in Ends, EndStep(l) \/ FailEnd(l)
      PROVE  \/ /\ CreditingRuns(u)' \subseteq CreditingRuns(u)
                /\ CreditingEnds(u)' \subseteq CreditingEnds(u)
             \/ /\ CreditingRuns(u) \cup CreditingEnds(u) = {}
                /\ CreditingRuns(u)' = {} /\ CreditingEnds(u)' = {l}
  <2>1. CASE EndGetStart(l) /\ end[l].user = u
    <3>1. CreditingRuns(u) \cup CreditingEnds(u) = {}
      BY <2>1 DEF EndGetStart, LooksAt
    <3>2. end'[l].pc = "getPlay" /\ end'[l].user = u
      BY <2>1, <1>t DEF EndGetStart, SetEnd, EndRecords
    <3> QED BY <1>6, <3>1, <3>2, EndFrame
  <2>2. CASE EndGetStart(l) /\ end[l].user # u
    <3>1. end'[l].user # u
      BY <2>2, <1>t DEF EndGetStart, SetEnd, EndRecords
    <3> QED BY <1>6, <3>1, EndFrame
  <2>3. CASE ~EndGetStart(l)
    BY <1>6, <2>3, EndFrame, EndGoes
  <2> QED BY <2>1, <2>2, <2>3
<1>7. CASE NoStart
  <2>1. CASE \E r \in Runs, w \in Workers : TimerFires(r, w)
    BY <2>1, <1>2
  <2>2. CASE \E r \in Runs : RunMoves(r)
    BY <2>2, <1>3
  <2>3. CASE \E w \in Workers : Stops(w)
    BY <2>3, <1>4
  <2>4. CASE \E l \in Ends, v \in Players : BeginEnd(l, v)
    BY <2>4, <1>5
  <2>5. CASE \E l \in Ends : EndStep(l) \/ FailEnd(l)
    BY <2>5, <1>6
  <2> QED BY <1>1, <1>7, <2>1, <2>2, <2>3, <2>4, <2>5, StepKinds
<1> QED BY <1>1, <1>7, PlaySteps

LEMMA LoneStep ==
  ASSUME PlayTypeInv, NEW u \in Players, u \notin mixed', Lone(u), [PlayNext]_playVars
  PROVE  Lone(u)'
BY CreditingChanges DEF Lone

-----------------------------------------------------------------------------
(***************************************************************************)
(* A session that is gone stays gone until the next startSession: its key  *)
(* has expired or was deleted, and no updateAllActiveSessions is about to  *)
(* write it again.                                                         *)
(***************************************************************************)
Gone(u) ==
  /\ ~Live(start[u])
  /\ \A r \in Runs : ~(run[r].pc = "setStart" /\ run[r].user = u)

LEMMA GoneStays ==
  ASSUME PlayTypeInv, NEW u \in Players, Gone(u), NoStart PROVE Gone(u)'
<1> USE DEF Gone, Live
<1>t. /\ run \in [Runs -> RunRecords] /\ start \in [Players -> Keys] /\ now \in Nat
      /\ NoRun.pc = "idle" /\ start[u].until \in Nat
  BY DEF PlayTypeInv, PlayTypeOK, NoRun, Keys
<1>q. ASSUME start'[u] = start[u], now' = now,
             \A r \in Runs : run'[r].pc = "setStart" => run'[r] = run[r]
      PROVE  Gone(u)'
  BY <1>q
<1>1. CASE Tick
  BY <1>1, <1>t DEF Tick
<1>2. ASSUME NEW r \in Runs, NEW w \in Workers, TimerFires(r, w) PROVE Gone(u)'
  <2>1. run' = [run EXCEPT ![r] = [NoRun EXCEPT !.pc = "acquire", !.worker = w]]
    BY <1>2 DEF TimerFires, SetRun
  <2>2. [NoRun EXCEPT !.pc = "acquire", !.worker = w].pc = "acquire"
    BY DEF NoRun
  <2> QED BY <1>2, <2>1, <2>2, <1>t, <1>q DEF TimerFires
<1>3. ASSUME NEW r \in Runs, RunMoves(r) PROVE Gone(u)'
  <2>1. start'[u] = start[u]
    <3>1. CASE WriteStart(r)
      <4>1. run[r].user # u
        BY <3>1 DEF WriteStart
      <4> QED BY <3>1, <4>1, <1>t DEF WriteStart
    <3>2. CASE ~WriteStart(r)
      BY <1>3, <3>2 DEF RunMoves, Acquire, NotAcquired, Scan, SetStart, GetPlay, SetPlay,
         WriteUpdate, Release, FailRun, GetStart
    <3> QED BY <3>1, <3>2
  <2>2. run'[r].pc = "setStart" => run'[r].user # u
    BY <1>3, RunGoes DEF Storing
  <2> QED BY <1>3, <2>1, <2>2, RunFrame
<1>4. ASSUME NEW w \in Workers, Stops(w) PROVE Gone(u)'
  BY <1>4, <1>t, <1>q DEF Stops
<1>5. CASE (\E l \in Ends, v \in Players : BeginEnd(l, v)) \/ UNCHANGED playVars
  BY <1>5, <1>q DEF BeginEnd, playVars
<1>6. ASSUME NEW l \in Ends, EndStep(l) \/ FailEnd(l) PROVE Gone(u)'
  <2>1. UNCHANGED <<run, now>>
    BY <1>6, EndFrame
  <2>2. start'[u] = start[u] \/ start'[u].until = 0
    BY <1>6, <1>t DEF EndStep, EndGetStart, EndWithoutSession, EndGetPlay, EndSetPlay,
       WriteSum, EndDelete, DeleteStart, FailEnd, None
  <2> QED BY <2>1, <2>2, <1>t
<1> QED BY <1>1, <1>2, <1>3, <1>4, <1>5, <1>6, StepKinds

\* Another user's session.
LEMMA OthersStart ==
  ASSUME PlayTypeInv, NEW u \in Players, NEW v \in Players, u # v, Gone(u), StartSession(v)
  PROVE  Gone(u)'
BY DEF PlayTypeInv, PlayTypeOK, StartSession, Gone, Live

\* An answered endSession leaves no session, unless another call was mixed in.
LEMMA EndedIsGone ==
  ASSUME PlayTypeInv, NEW u \in Players, Lone(u), u \notin mixed',
         NEW l \in Ends, end[l].user = u, EndWithoutSession(l) \/ EndDelete(l)
  PROVE  Gone(u)'
<1>1. now \in Nat /\ start \in [Players -> Keys]
  BY DEF PlayTypeInv, PlayTypeOK
<1>2. UNCHANGED <<run, now>>
  BY EndFrame DEF EndStep
<1>3. CreditingRuns(u) = {}
  <2>1. CASE EndWithoutSession(l)
    BY <2>1 DEF EndWithoutSession, LooksAt
  <2>2. CASE EndDelete(l)
    <3>1. l \in CreditingEnds(u)
      BY <2>2 DEF EndDelete, DeleteStart, CreditingEnds
    <3> QED BY <3>1 DEF Lone
  <2> QED BY <2>1, <2>2
<1>4. \A r \in Runs : ~(run[r].pc = "setStart" /\ run[r].user = u)
  BY <1>3 DEF CreditingRuns
<1>5. (start' = start /\ ~Live(start[u])) \/ start'[u].until = 0
  BY <1>1 DEF EndWithoutSession, EndDelete, DeleteStart, None
<1>6. ~Live(start[u])'
  BY <1>1, <1>2, <1>5 DEF Live
<1> QED BY <1>2, <1>4, <1>6 DEF Gone

\* Who is logged out has no session.
Out(u) == ~loggedIn[u] => Gone(u)

LEMMA OutStep ==
  ASSUME PlayTypeInv, NEW u \in Players, u \notin mixed', Lone(u), Out(u),
         [PlayNext]_playVars
  PROVE  Out(u)'
<1>t. loggedIn \in [Players -> BOOLEAN] /\ \A l \in Ends : end[l].user \in Players
  BY CallTypes DEF PlayTypeInv, PlayTypeOK, EndRecords
<1> SUFFICES ASSUME ~loggedIn'[u] PROVE Gone(u)'
  BY DEF Out
<1>1. ASSUME NEW v \in Players, StartSession(v) PROVE Gone(u)'
  <2>1. u # v /\ ~loggedIn[u]
    BY <1>1, <1>t DEF StartSession
  <2> QED BY <1>1, <2>1, OthersStart DEF Out
<1>2. CASE NoStart /\ ~loggedIn[u]
  BY <1>2, GoneStays DEF Out
<1>3. CASE NoStart /\ loggedIn[u]
  <2>1. PICK l \in Ends : end[l].user = u /\ (EndWithoutSession(l) \/ EndDelete(l))
    <3>1. ASSUME NEW r \in Runs, RunMoves(r) PROVE UNCHANGED loggedIn
      BY <3>1, RunFrame
    <3>2. CASE \/ Tick \/ (\E r \in Runs, w \in Workers : TimerFires(r, w))
               \/ (\E w \in Workers : Stops(w))
               \/ (\E l \in Ends, v \in Players : BeginEnd(l, v)) \/ UNCHANGED playVars
               \/ (\E l \in Ends : \/ EndGetStart(l) \/ EndGetPlay(l) \/ EndSetPlay(l)
                                   \/ FailEnd(l))
      BY <1>3, <3>2 DEF Tick, TimerFires, Stops, BeginEnd, EndGetStart, EndGetPlay,
         EndSetPlay, FailEnd, history, playVars
    <3>3. ASSUME NEW l \in Ends, EndWithoutSession(l) \/ EndDelete(l)
          PROVE  end[l].user = u
      BY <1>3, <3>3, <1>t DEF EndWithoutSession, EndDelete
    <3> QED BY <1>3, <3>1, <3>2, <3>3, StepKinds DEF EndStep
  <2> QED BY <2>1, EndedIsGone
<1> QED BY <1>1, <1>2, <1>3, PlaySteps

-----------------------------------------------------------------------------
(***************************************************************************)
(* Play time.  A user's session start lies no further back than the user   *)
(* has been online, and what is stored, plus what a call on its way to the *)
(* store carries, plus what the running session will add, is within the    *)
(* bound.  Between its write and its delete (Credited) endSession has      *)
(* stored a session whose start is still there: the one moment at which    *)
(* the sum counts time twice, and at which a failure leaves it so.         *)
(***************************************************************************)
Pending(u) == IF Live(start[u]) THEN now - start[u].val ELSE 0
Bound(u) == online[u] * (1 + cutEnds[u])
Credited(u) == \E l \in Ends : end[l].pc = "delete" /\ end[l].user = u
Carried(r) == run[r].ms + (now - run[r].at)

StoreBounded(u) ==
  /\ Pending(u) <= online[u]
  /\ play[u].val <= Bound(u)
  /\ ~Credited(u) => play[u].val + Pending(u) <= Bound(u)

RunsBounded(u) ==
  \A r \in Runs : run[r].user = u =>
    /\ run[r].pc = "setStart" =>
         Carried(r) <= online[u] /\ play[u].val + Carried(r) <= Bound(u)
    /\ run[r].pc = "getPlay" => play[u].val + run[r].ms + Pending(u) <= Bound(u)
    /\ run[r].pc = "setPlay" => run[r].ms + Pending(u) <= Bound(u)

EndsBounded(u) ==
  \A l \in Ends : end[l].user = u =>
    /\ end[l].pc = "getPlay" => play[u].val + end[l].ms <= Bound(u)
    /\ end[l].pc = "setPlay" => end[l].ms <= Bound(u)

Fit(u) == StoreBounded(u) /\ RunsBounded(u) /\ EndsBounded(u)

UserInv(u) == Lone(u) /\ Out(u) /\ Fit(u)
PlayTimeInv == PlayTypeInv /\ \A u \in Players \ mixed : UserInv(u)

LEMMA PlayTimeTypes ==
  ASSUME PlayTypeInv
  PROVE  /\ now \in Nat
         /\ start \in [Players -> Keys] /\ play \in [Players -> Keys]
         /\ loggedIn \in [Players -> BOOLEAN] /\ online \in [Players -> Nat]
         /\ cutEnds \in [Players -> Nat]
         /\ \A u \in Players :
              /\ online[u] \in Nat /\ cutEnds[u] \in Nat /\ Bound(u) \in Nat
              /\ Pending(u) \in Nat /\ play[u].val \in Nat
              /\ start[u].val \in Nat /\ start[u].until \in Nat /\ start[u].val <= now
         /\ \A r \in Runs : /\ run[r].user \in Players /\ run[r].ms \in Nat
                            /\ run[r].at \in Nat /\ run[r].at <= now /\ Carried(r) \in Nat
         /\ \A l \in Ends : end[l].user \in Players /\ end[l].ms \in Nat
<1>1. PlayTypeOK /\ StartsInThePast
  BY DEF PlayTypeInv
<1>2. \A u \in Players : online[u] \in Nat /\ cutEnds[u] \in Nat
  BY <1>1 DEF PlayTypeOK
<1>3. \A u \in Players : Bound(u) \in Nat
  BY <1>2 DEF Bound
<1>4. \A u \in Players : start[u] \in Keys /\ play[u] \in Keys /\ start[u].val <= now
  BY <1>1 DEF PlayTypeOK, StartsInThePast
<1>5. \A r \in Runs : run[r] \in RunRecords /\ run[r].at <= now
  BY <1>1 DEF PlayTypeOK, StartsInThePast
<1>6. now \in Nat
  BY <1>1 DEF PlayTypeOK
<1>7. \A u \in Players : Pending(u) \in Nat
  BY <1>4, <1>6 DEF Pending, Keys
<1>8. \A r \in Runs : /\ run[r].user \in Players /\ run[r].ms \in Nat
                      /\ run[r].at \in Nat /\ run[r].at <= now /\ Carried(r) \in Nat
  BY <1>5, <1>6 DEF RunRecords, Carried
<1>9. \A l \in Ends : end[l].user \in Players /\ end[l].ms \in Nat
  BY <1>1 DEF PlayTypeOK, EndRecords
<1> QED BY <1>1, <1>2, <1>3, <1>4, <1>6, <1>7, <1>8, <1>9 DEF PlayTypeOK, Keys

LEMMA BoundArithmetic ==
  ASSUME NEW o \in Nat, NEW f \in Nat
  PROVE  /\ (o + 1) * (1 + f) >= o * (1 + f) + 1
         /\ (o + 0) * (1 + f) = o * (1 + f)
         /\ o * (1 + (f + 1)) = o * (1 + f) + o
<1>1. (o + 1) * (1 + f) = o * (1 + f) + (1 + f)
  OBVIOUS
<1>2. o * (1 + (f + 1)) = o * (1 + f) + o
  OBVIOUS
<1>3. o * (1 + f) \in Nat
  OBVIOUS
<1> QED BY <1>1, <1>2, <1>3

\* Steps that touch neither the user's sums nor what is credited to the user.
LEMMA FitQuiet ==
  ASSUME PlayTypeInv, NEW u \in Players, Fit(u),
         now' = now, start'[u] = start[u], play'[u] = play[u],
         online'[u] = online[u], cutEnds'[u] = cutEnds[u],
         \A r \in Runs : run'[r].pc \in Storing /\ run'[r].user = u => run'[r] = run[r],
         \A l \in Ends : end'[l].pc \in {"getPlay", "setPlay"} /\ end'[l].user = u
                           => end'[l] = end[l],
         \A l \in Ends : end[l].pc = "delete" /\ end[l].user = u => end'[l] = end[l]
  PROVE  Fit(u)'
<1>1. Pending(u)' = Pending(u) /\ Bound(u)' = Bound(u)
  BY DEF Pending, Bound, Live
<1>2. \A r \in Runs : run'[r] = run[r] => Carried(r)' = Carried(r)
  BY DEF Carried
<1>3. Credited(u) => Credited(u)'
  BY DEF Credited
<1>4. StoreBounded(u)'
  BY <1>1, <1>3 DEF StoreBounded, Fit
<1>5. RunsBounded(u)'
  <2> SUFFICES ASSUME NEW r \in Runs, run'[r].user = u, run'[r].pc \in Storing
      PROVE  /\ run'[r].pc = "setStart" =>
                  Carried(r)' <= online'[u] /\ play'[u].val + Carried(r)' <= Bound(u)'
             /\ run'[r].pc = "getPlay" => play'[u].val + run'[r].ms + Pending(u)' <= Bound(u)'
             /\ run'[r].pc = "setPlay" => run'[r].ms + Pending(u)' <= Bound(u)'
    BY DEF RunsBounded, Storing
  <2>1. run'[r] = run[r]
    OBVIOUS
  <2> QED BY <1>1, <1>2, <2>1 DEF RunsBounded, Fit
<1>6. EndsBounded(u)'
  <2> SUFFICES ASSUME NEW l \in Ends, end'[l].user = u, end'[l].pc \in {"getPlay", "setPlay"}
      PROVE  /\ end'[l].pc = "getPlay" => play'[u].val + end'[l].ms <= Bound(u)'
             /\ end'[l].pc = "setPlay" => end'[l].ms <= Bound(u)'
    BY DEF EndsBounded
  <2>1. end'[l] = end[l]
    OBVIOUS
  <2> QED BY <1>1, <2>1 DEF EndsBounded, Fit
<1> QED BY <1>4, <1>5, <1>6 DEF Fit

\* A unit of time: it counts for who is logged in, and only there does a
\* session grow.
LEMMA FitTick == ASSUME PlayTypeInv, NEW u \in Players, Out(u), Fit(u), Tick PROVE Fit(u)'
<1> DEFINE d == IF loggedIn[u] THEN 1 ELSE 0
<1>t. /\ now \in Nat /\ now' = now + 1
      /\ UNCHANGED <<run, end, start, play, cutEnds>>
      /\ online'[u] = online[u] + d /\ d \in {0, 1}
  BY PlayTimeTypes DEF Tick, faults
<1>0. /\ online[u] \in Nat /\ cutEnds[u] \in Nat /\ Bound(u) \in Nat /\ Pending(u) \in Nat
      /\ play[u].val \in Nat
      /\ start[u].val \in Nat /\ start[u].until \in Nat /\ start[u].val <= now
  BY PlayTimeTypes
<1>1. Bound(u)' \in Nat /\ Bound(u)' >= Bound(u) + d
  <2>1. Bound(u)' = (online[u] + d) * (1 + cutEnds[u])
    BY <1>t DEF Bound
  <2>2. CASE loggedIn[u]
    <3>1. Bound(u)' = (online[u] + 1) * (1 + cutEnds[u])
      BY <2>1, <2>2
    <3> QED BY <1>0, <2>2, <3>1, BoundArithmetic DEF Bound
  <2>3. CASE ~loggedIn[u]
    <3>1. Bound(u)' = (online[u] + 0) * (1 + cutEnds[u])
      BY <2>1, <2>3
    <3> QED BY <1>0, <2>3, <3>1, BoundArithmetic DEF Bound
  <2> QED BY <2>2, <2>3
<1>2. Pending(u)' \in Nat /\ Pending(u)' <= Pending(u) + d
  <2>1. CASE loggedIn[u]
    BY <1>0, <1>t, <2>1 DEF Pending, Live
  <2>2. CASE ~loggedIn[u]
    <3>1. ~Live(start[u])
      BY <2>2 DEF Out, Gone
    <3> QED BY <1>0, <1>t, <3>1 DEF Pending, Live
  <2> QED BY <2>1, <2>2
<1>3. ASSUME NEW r \in Runs, run[r].pc = "setStart", run[r].user = u
      PROVE  Carried(r)' = Carried(r) + d
  <2>1. loggedIn[u]
    BY <1>3 DEF Out, Gone
  <2>2. run[r].ms \in Nat /\ run[r].at \in Nat
    BY PlayTimeTypes
  <2> QED BY <1>t, <2>1, <2>2 DEF Carried
<1>4. Credited(u)' <=> Credited(u)
  BY <1>t DEF Credited
<1>5. /\ \A r \in Runs : run[r].ms \in Nat /\ Carried(r) \in Nat
      /\ \A l \in Ends : end[l].ms \in Nat
  BY PlayTimeTypes
<1> HIDE DEF d
<1>6. StoreBounded(u)'
  BY <1>t, <1>0, <1>1, <1>2, <1>4 DEF StoreBounded, Fit
<1>7. RunsBounded(u)'
  <2> SUFFICES ASSUME NEW r \in Runs, run[r].user = u
               PROVE  /\ run[r].pc = "setStart" =>
                           /\ Carried(r)' <= online[u] + d
                           /\ play[u].val + Carried(r)' <= Bound(u)'
                      /\ run[r].pc = "getPlay"
                           => play[u].val + run[r].ms + Pending(u)' <= Bound(u)'
                      /\ run[r].pc = "setPlay" => run[r].ms + Pending(u)' <= Bound(u)'
    BY <1>t DEF RunsBounded
  <2>1. /\ run[r].pc = "setStart" =>
             Carried(r) <= online[u] /\ play[u].val + Carried(r) <= Bound(u)
        /\ run[r].pc = "getPlay" => play[u].val + run[r].ms + Pending(u) <= Bound(u)
        /\ run[r].pc = "setPlay" => run[r].ms + Pending(u) <= Bound(u)
    BY DEF RunsBounded, Fit
  <2> QED BY <1>t, <1>0, <1>1, <1>2, <1>3, <1>5, <2>1
<1>8. EndsBounded(u)'
  <2> SUFFICES ASSUME NEW l \in Ends, end[l].user = u
               PROVE  /\ end[l].pc = "getPlay" => play[u].val + end[l].ms <= Bound(u)'
                      /\ end[l].pc = "setPlay" => end[l].ms <= Bound(u)'
    BY <1>t DEF EndsBounded
  <2>1. /\ end[l].pc = "getPlay" => play[u].val + end[l].ms <= Bound(u)
        /\ end[l].pc = "setPlay" => end[l].ms <= Bound(u)
    BY DEF EndsBounded, Fit
  <2> QED BY <1>t, <1>0, <1>1, <1>5, <2>1
<1> QED BY <1>6, <1>7, <1>8 DEF Fit

\* A session start of the user is written or deleted beside what the calls
\* carry: it lies in the present, or is gone.
LEMMA FitStart ==
  ASSUME PlayTypeInv, NEW u \in Players, Fit(u), StartSession(u) PROVE Fit(u)'
<1>t. /\ now \in Nat /\ start \in [Players -> Keys]
      /\ UNCHANGED <<now, run, end, play, online, cutEnds>>
      /\ start' = [start EXCEPT ![u] = Put(now)]
  BY PlayTimeTypes DEF StartSession, faults
<1>1. /\ Bound(u)' = Bound(u) /\ Bound(u) \in Nat /\ play[u].val \in Nat
      /\ online[u] \in Nat /\ Pending(u) \in Nat /\ (Credited(u)' <=> Credited(u))
  BY <1>t, PlayTimeTypes DEF Bound, Credited
<1>2. Pending(u)' = 0
  BY <1>t DEF Pending, Put
<1>3. \A r \in Runs : Carried(r)' = Carried(r) /\ run[r].ms \in Nat
  BY <1>t, PlayTimeTypes DEF Carried
<1>4. StoreBounded(u)'
  BY <1>t, <1>1, <1>2 DEF StoreBounded, Fit
<1>5. RunsBounded(u)'
  <2> SUFFICES ASSUME NEW r \in Runs, run[r].user = u
               PROVE  /\ run[r].pc = "setStart" =>
                           Carried(r) <= online[u] /\ play[u].val + Carried(r) <= Bound(u)
                      /\ run[r].pc = "getPlay" => play[u].val + run[r].ms + 0 <= Bound(u)
                      /\ run[r].pc = "setPlay" => run[r].ms + 0 <= Bound(u)
    BY <1>t, <1>1, <1>2, <1>3 DEF RunsBounded
  <2>1. /\ run[r].pc = "setStart" =>
             Carried(r) <= online[u] /\ play[u].val + Carried(r) <= Bound(u)
        /\ run[r].pc = "getPlay" => play[u].val + run[r].ms + Pending(u) <= Bound(u)
        /\ run[r].pc = "setPlay" => run[r].ms + Pending(u) <= Bound(u)
    BY DEF RunsBounded, Fit
  <2> QED BY <1>1, <1>3, <2>1
<1>6. EndsBounded(u)'
  BY <1>t, <1>1 DEF EndsBounded, Fit
<1> QED BY <1>4, <1>5, <1>6 DEF Fit

\* What a step of the one updateAllActiveSessions that credits the user must
\* keep.
LEMMA FitRun ==
  ASSUME PlayTypeInv, NEW u \in Players, Fit(u), NEW r \in Runs,
         UNCHANGED <<now, end, online, cutEnds>>,
         \A k \in Runs : k # r => run'[k] = run[k],
         CreditingRuns(u) \subseteq {r}, CreditingEnds(u) = {},
         Pending(u)' \in Nat, play'[u].val \in Nat, Pending(u)' <= online[u],
         play'[u].val + Pending(u)' <= Bound(u),
         run'[r].pc = "setStart" /\ run'[r].user = u =>
           Carried(r)' <= online[u] /\ play'[u].val + Carried(r)' <= Bound(u),
         run'[r].pc = "getPlay" /\ run'[r].user = u
           => play'[u].val + run'[r].ms + Pending(u)' <= Bound(u),
         run'[r].pc = "setPlay" /\ run'[r].user = u => run'[r].ms + Pending(u)' <= Bound(u)
  PROVE  Fit(u)'
<1>1. \A k \in Runs : k # r /\ run'[k].user = u => run'[k].pc \notin Storing
  BY DEF CreditingRuns, Storing
<1>2. \A l \in Ends : end'[l].user = u => end'[l].pc \notin {"getPlay", "setPlay", "delete"}
  BY DEF CreditingEnds
<1>3. Bound(u)' = Bound(u) /\ Bound(u) \in Nat
  BY PlayTimeTypes DEF Bound
<1>4. StoreBounded(u)'
  BY <1>3 DEF StoreBounded
<1>5. RunsBounded(u)'
  BY <1>1, <1>3 DEF RunsBounded, Storing
<1>6. EndsBounded(u)'
  BY <1>2 DEF EndsBounded
<1> QED BY <1>4, <1>5, <1>6 DEF Fit

\* What a step of the one endSession that credits the user must keep.
LEMMA FitEnd ==
  ASSUME PlayTypeInv, NEW u \in Players, Fit(u), NEW l \in Ends, end'[l].user = u,
         UNCHANGED <<now, run, online>>, cutEnds'[u] = cutEnds[u],
         \A k \in Ends : k # l => end'[k] = end[k],
         CreditingEnds(u) \subseteq {l}, CreditingRuns(u) = {},
         Pending(u)' \in Nat, play'[u].val \in Nat, Pending(u)' <= online[u],
         play'[u].val <= Bound(u),
         end'[l].pc # "delete" => play'[u].val + Pending(u)' <= Bound(u),
         end'[l].pc = "getPlay" => play'[u].val + end'[l].ms <= Bound(u),
         end'[l].pc = "setPlay" => end'[l].ms <= Bound(u)
  PROVE  Fit(u)'
<1>1. \A k \in Ends : k # l /\ end'[k].user = u
                        => end'[k].pc \notin {"getPlay", "setPlay", "delete"}
  BY DEF CreditingEnds
<1>2. \A r \in Runs : run'[r].user = u => run'[r].pc \notin Storing
  BY DEF CreditingRuns, Storing
<1>3. Bound(u)' = Bound(u) /\ Bound(u) \in Nat
  BY PlayTimeTypes DEF Bound
<1>4. end'[l].pc = "delete" => Credited(u)'
  BY DEF Credited
<1>5. StoreBounded(u)'
  BY <1>3, <1>4 DEF StoreBounded
<1>6. RunsBounded(u)'
  BY <1>2 DEF RunsBounded, Storing
<1>7. EndsBounded(u)'
  BY <1>1, <1>3 DEF EndsBounded
<1> QED BY <1>5, <1>6, <1>7 DEF Fit

\* An endSession of the user ends: nobody credits the user any more.
LEMMA FitEnded ==
  ASSUME PlayTypeInv, NEW u \in Players, Fit(u),
         UNCHANGED <<now, online>>,
         CreditingEnds(u)' = {}, CreditingRuns(u)' = {},
         Bound(u)' \in Nat, Bound(u) <= Bound(u)',
         Pending(u)' \in Nat, play'[u].val \in Nat, Pending(u)' <= Pending(u),
         play'[u].val + Pending(u)' <= Bound(u)'
  PROVE  Fit(u)'
<1>1. \A l \in Ends : end'[l].user = u => end'[l].pc \notin {"getPlay", "setPlay", "delete"}
  BY DEF CreditingEnds
<1>2. \A r \in Runs : run'[r].user = u => run'[r].pc \notin Storing
  BY DEF CreditingRuns, Storing
<1>3. Pending(u)' <= online'[u]
  <2>1. Pending(u) \in Nat /\ online[u] \in Nat /\ Pending(u) <= online[u]
    BY PlayTimeTypes DEF Fit, StoreBounded
  <2> QED BY <2>1
<1>4. StoreBounded(u)'
  BY <1>3 DEF StoreBounded
<1>5. RunsBounded(u)'
  BY <1>2 DEF RunsBounded, Storing
<1>6. EndsBounded(u)'
  BY <1>1 DEF EndsBounded
<1> QED BY <1>4, <1>5, <1>6 DEF Fit

\* The bound of a user one of whose endSessions is cut off.
LEMMA CutBound ==
  ASSUME PlayTypeInv, NEW u \in Players, online'[u] = online[u],
         cutEnds'[u] = cutEnds[u] + 1
  PROVE  Bound(u)' = Bound(u) + online[u] /\ Bound(u)' \in Nat
<1>1. online[u] \in Nat /\ cutEnds[u] \in Nat /\ Bound(u) \in Nat
  BY PlayTimeTypes
<1>2. Bound(u)' = online[u] * (1 + (cutEnds[u] + 1))
  BY DEF Bound
<1>3. Bound(u)' = Bound(u) + online[u]
  BY <1>1, <1>2, BoundArithmetic DEF Bound
<1> QED BY <1>1, <1>3

\* The loop's read of a session start.
LEMMA FitGetStart ==
  ASSUME PlayTypeInv, NEW u \in Players, u \notin mixed', Fit(u),
         NEW r \in Runs, GetStart(r, u), Live(start[u])
  PROVE  Fit(u)'
<1>1. RunMoves(r)
  BY DEF RunMoves
<1>2. /\ UNCHANGED <<now, end, online, cutEnds, start, play>>
      /\ \A k \in Runs : k # r => run'[k] = run[k]
  BY <1>1, RunFrame DEF GetStart
<1>3. /\ run'[r].pc = "setStart" /\ run'[r].user = u
      /\ run'[r].ms = now - start[u].val /\ run'[r].at = now
  BY CallTypes DEF GetStart, SetRun, RunRecords, Elapsed
<1>4. CreditingRuns(u) = {} /\ CreditingEnds(u) = {}
  BY DEF GetStart, LooksAt
<1>5. Pending(u)' = Pending(u) /\ Pending(u) = now - start[u].val
  BY <1>2 DEF Pending, Live
<1>6. Carried(r)' = Pending(u)
  BY <1>2, <1>3, <1>5, PlayTimeTypes DEF Carried
<1>7. /\ Pending(u) \in Nat /\ play[u].val \in Nat /\ Pending(u) <= online[u]
  BY PlayTimeTypes DEF Fit, StoreBounded
<1>8. play[u].val + Pending(u) <= Bound(u)
  <2>1. ~Credited(u)
    BY <1>4 DEF Credited, CreditingEnds
  <2> QED BY <2>1 DEF Fit, StoreBounded
<1> QED BY <1>2, <1>3, <1>4, <1>5, <1>6, <1>7, <1>8, FitRun

\* The loop's other steps for the user it credits, failing or not.
LEMMA FitStoring ==
  ASSUME PlayTypeInv, NEW u \in Players, Lone(u), Fit(u),
         NEW r \in Runs, run[r].user = u, run[r].pc \in Storing, RunMoves(r)
  PROVE  Fit(u)'
<1>t. /\ now \in Nat /\ start \in [Players -> Keys] /\ play \in [Players -> Keys]
  BY PlayTimeTypes
<1>1. /\ UNCHANGED <<now, end, online, cutEnds>>
      /\ \A k \in Runs : k # r => run'[k] = run[k]
  BY RunFrame
<1>2. CreditingRuns(u) \subseteq {r} /\ CreditingEnds(u) = {}
  <2>1. r \in CreditingRuns(u)
    BY DEF CreditingRuns, Storing
  <2> QED BY <2>1 DEF Lone
<1>3. /\ run[r].ms \in Nat /\ run[r].at \in Nat /\ Carried(r) \in Nat /\ run[r].at <= now
      /\ Pending(u) \in Nat /\ play[u].val \in Nat /\ Bound(u) \in Nat /\ online[u] \in Nat
  BY PlayTimeTypes
<1>4. /\ run[r].pc = "setStart" =>
           Carried(r) <= online[u] /\ play[u].val + Carried(r) <= Bound(u)
      /\ run[r].pc = "getPlay" => play[u].val + run[r].ms + Pending(u) <= Bound(u)
      /\ run[r].pc = "setPlay" => run[r].ms + Pending(u) <= Bound(u)
      /\ Pending(u) <= online[u]
  BY DEF Fit, RunsBounded, StoreBounded
<1>5. play[u].val + Pending(u) <= Bound(u)
  <2>1. ~Credited(u)
    BY <1>2 DEF Credited, CreditingEnds
  <2> QED BY <2>1 DEF Fit, StoreBounded
<1>6. CASE WriteStart(r)
  <2>1. run[r].pc = "setStart" /\ play' = play /\ start'[u].val = run[r].at
    BY <1>t, <1>6 DEF WriteStart, Put
  <2>2. Pending(u)' \in Nat /\ Pending(u)' <= now - run[r].at
    BY <1>1, <1>3, <1>t, <2>1 DEF Pending, Live
  <2>3. Carried(r) = run[r].ms + (now - run[r].at)
    BY DEF Carried
  <2>4. /\ Pending(u)' <= online[u]
        /\ play[u].val + run[r].ms + Pending(u)' <= Bound(u)
        /\ play[u].val + Pending(u)' <= Bound(u)
    BY <1>3, <1>4, <1>t, <2>1, <2>2, <2>3
  <2>5. run'[r].pc \in Storing => run'[r].pc = "getPlay" /\ run'[r].ms = run[r].ms
    BY <2>1, RunGoes DEF GetStart
  <2> QED BY <1>1, <1>2, <1>3, <2>1, <2>2, <2>4, <2>5, FitRun DEF Storing
<1>7. CASE WriteUpdate(r)
  <2>1. run[r].pc = "setPlay" /\ start' = start /\ play'[u].val = run[r].ms
    BY <1>t, <1>7 DEF WriteUpdate, Put
  <2>2. Pending(u)' = Pending(u)
    BY <1>1, <2>1 DEF Pending, Live
  <2>3. run'[r].pc \notin Storing
    BY <2>1, RunGoes DEF GetStart
  <2> QED BY <1>1, <1>2, <1>3, <1>4, <2>1, <2>2, <2>3, FitRun DEF Storing
<1>8. CASE ~WriteStart(r) /\ ~WriteUpdate(r)
  <2>1. UNCHANGED <<start, play>>
    BY <1>8 DEF RunMoves, Acquire, NotAcquired, Scan, SetStart, GetPlay, SetPlay, Release,
       FailRun, GetStart
  <2>2. Pending(u)' = Pending(u)
    BY <1>1, <2>1 DEF Pending, Live
  <2>3. Value(play[u]) \in Nat /\ Value(play[u]) <= play[u].val
    BY <1>3 DEF Value
  <2>4. run'[r].pc \in Storing =>
          /\ run[r].pc = "getPlay" /\ run'[r].pc = "setPlay"
          /\ run'[r].ms = run[r].ms + Value(play[u])
    BY <1>8, RunGoes DEF GetStart, SetStart, Storing
  <2>5. run'[r].pc \in Storing => run'[r].ms + Pending(u) <= Bound(u)
    BY <1>3, <1>4, <2>3, <2>4
  <2> QED BY <1>1, <1>2, <1>3, <1>4, <1>5, <2>1, <2>2, <2>4, <2>5, FitRun DEF Storing
<1> QED BY <1>6, <1>7, <1>8

LEMMA FitRunMoves ==
  ASSUME PlayTypeInv, NEW u \in Players, u \notin mixed', Lone(u), Fit(u),
         NEW r \in Runs, RunMoves(r)
  PROVE  Fit(u)'
<1>t. /\ start \in [Players -> Keys] /\ play \in [Players -> Keys]
      /\ run[r].user \in Players
  BY PlayTimeTypes
<1>1. CASE run[r].user = u /\ run[r].pc \in Storing
  BY <1>1, FitStoring
<1>2. CASE GetStart(r, u) /\ Live(start[u])
  BY <1>2, FitGetStart
<1>3. CASE ~(run[r].user = u /\ run[r].pc \in Storing) /\ ~(GetStart(r, u) /\ Live(start[u]))
  <2>1. /\ UNCHANGED <<now, end, online, cutEnds>>
        /\ \A k \in Runs : k # r => run'[k] = run[k]
    BY RunFrame
  <2>2. start'[u] = start[u] /\ play'[u] = play[u]
    <3>1. CASE WriteStart(r) \/ WriteUpdate(r)
      <4>1. run[r].user # u
        BY <1>3, <3>1 DEF WriteStart, WriteUpdate, Storing
      <4> QED BY <3>1, <4>1, <1>t DEF WriteStart, WriteUpdate
    <3>2. CASE ~WriteStart(r) /\ ~WriteUpdate(r)
      BY <3>2 DEF RunMoves, Acquire, NotAcquired, Scan, SetStart, GetPlay, SetPlay, Release,
         FailRun, GetStart
    <3> QED BY <3>1, <3>2
  <2>3. ~(run'[r].pc \in Storing /\ run'[r].user = u)
    BY <1>3, RunGoes DEF Storing
  <2> QED BY <2>1, <2>2, <2>3, FitQuiet
<1> QED BY <1>1, <1>2, <1>3

LEMMA FitEndSteps ==
  ASSUME PlayTypeInv, NEW u \in Players, u \notin mixed', Lone(u), Fit(u),
         NEW l \in Ends, end[l].user = u, EndStep(l)
  PROVE  Fit(u)'
<1>t. /\ now \in Nat /\ start \in [Players -> Keys] /\ play \in [Players -> Keys]
      /\ \A k \in Ends : k # l => end'[k] = end[k]
      /\ UNCHANGED <<now, run, online>>
      /\ end \in [Ends -> EndRecords] /\ NoEnd.pc = "idle"
  BY PlayTimeTypes, EndFrame, CallTypes
<1>1. cutEnds' = cutEnds
  BY DEF EndStep, EndGetStart, EndWithoutSession, EndGetPlay, EndSetPlay, EndDelete, faults
<1>2. /\ end[l].ms \in Nat /\ start[u].val \in Nat
      /\ Pending(u) \in Nat /\ play[u].val \in Nat /\ Bound(u) \in Nat /\ online[u] \in Nat
  BY PlayTimeTypes
<1>3. /\ end[l].pc = "getPlay" => play[u].val + end[l].ms <= Bound(u)
      /\ end[l].pc = "setPlay" => end[l].ms <= Bound(u)
      /\ Pending(u) <= online[u] /\ play[u].val <= Bound(u)
      /\ ~Credited(u) => play[u].val + Pending(u) <= Bound(u)
  BY DEF Fit, EndsBounded, StoreBounded
<1>4. CASE EndWithoutSession(l)
  <2>1. /\ UNCHANGED <<start, play>> /\ end[l].pc = "getStart" /\ end'[l].pc = "idle"
    BY <1>4, <1>t DEF EndWithoutSession, SetEnd
  <2> QED BY <1>t, <1>1, <2>1, FitQuiet
<1>5. CASE EndGetStart(l)
  <2>1. /\ UNCHANGED <<start, play>> /\ Live(start[u])
        /\ CreditingRuns(u) = {} /\ CreditingEnds(u) = {}
    BY <1>5 DEF EndGetStart, LooksAt
  <2>2. end'[l].pc = "getPlay" /\ end'[l].user = u /\ end'[l].ms = now - start[u].val
    BY <1>5, <1>t DEF EndGetStart, SetEnd, EndRecords, Elapsed
  <2>3. Pending(u)' = Pending(u) /\ Pending(u) = end'[l].ms
    BY <1>t, <2>1, <2>2 DEF Pending, Live
  <2>4. ~Credited(u)
    BY <2>1 DEF Credited, CreditingEnds
  <2> QED BY <1>t, <1>1, <1>2, <1>3, <2>1, <2>2, <2>3, <2>4, FitEnd
<1>6. CASE EndGetPlay(l) \/ EndSetPlay(l) \/ EndDelete(l)
  <2>1. CreditingEnds(u) \subseteq {l} /\ CreditingRuns(u) = {}
    <3>1. l \in CreditingEnds(u)
      BY <1>6 DEF EndGetPlay, EndSetPlay, WriteSum, EndDelete, DeleteStart, CreditingEnds
    <3> QED BY <3>1 DEF Lone
  <2>2. end[l].pc # "delete" => ~Credited(u)
    BY <2>1 DEF Credited, CreditingEnds
  <2>3. CASE EndGetPlay(l)
    <3>1. /\ end[l].pc = "getPlay" /\ end'[l].pc = "setPlay" /\ end'[l].user = u
          /\ end'[l].ms = end[l].ms + Value(play[u])
      BY <1>t, <2>3 DEF EndGetPlay, SetEnd, EndRecords
    <3>2. UNCHANGED <<play, start>> /\ Pending(u)' = Pending(u)
      BY <2>3, <1>t DEF EndGetPlay, Pending, Live
    <3>3. Value(play[u]) \in Nat /\ Value(play[u]) <= play[u].val
      BY <1>2 DEF Value
    <3>4. end'[l].ms <= Bound(u)
      BY <1>2, <1>3, <3>1, <3>3
    <3> QED BY <1>t, <1>1, <1>2, <1>3, <2>1, <2>2, <3>1, <3>2, <3>4, FitEnd
  <2>4. CASE EndSetPlay(l)
    <3>1. end[l].pc = "setPlay" /\ end'[l].pc = "delete" /\ end'[l].user = u
      BY <1>t, <2>4 DEF EndSetPlay, WriteSum, SetEnd, EndRecords
    <3>2. play'[u].val = end[l].ms /\ UNCHANGED start /\ Pending(u)' = Pending(u)
      BY <1>t, <2>4 DEF EndSetPlay, WriteSum, Put, Pending, Live
    <3> QED BY <1>t, <1>1, <1>2, <1>3, <2>1, <3>1, <3>2, FitEnd
  <2>5. CASE EndDelete(l)
    <3>1. end'[l].pc = "idle" /\ play' = play
      BY <1>t, <2>5 DEF EndDelete, DeleteStart, SetEnd
    <3>2. start'[u].until = 0
      BY <1>t, <2>5 DEF EndDelete, DeleteStart, None
    <3>3. Pending(u)' = 0
      BY <1>t, <3>2 DEF Pending, Live
    <3>4. CreditingEnds(u)' = {} /\ CreditingRuns(u)' = {}
      BY <1>t, <2>1, <3>1 DEF CreditingEnds, CreditingRuns
    <3>5. Bound(u)' = Bound(u)
      BY <1>t, <1>1 DEF Bound
    <3> QED BY <1>t, <1>2, <1>3, <3>1, <3>3, <3>4, <3>5, FitEnded
  <2> QED BY <1>6, <2>3, <2>4, <2>5
<1> QED BY <1>4, <1>5, <1>6 DEF EndStep

\* Calls of the user's endSession that are cut off, by a failure or with their
\* process.  One that was at its writes may leave a session that it has
\* credited: the bound grows by all the time the user was online.
LEMMA FitCut ==
  ASSUME PlayTypeInv, NEW u \in Players, Lone(u), Fit(u), NEW calls \in SUBSET Ends,
         UNCHANGED <<now, online>>, CutOff(calls),
         \A l \in Ends : end'[l].pc = "idle" \/ end'[l] = end[l],
         \A l \in calls : end'[l].pc = "idle",
         \A l \in Ends \ calls : end'[l] = end[l],
         \A r \in Runs : run'[r].pc = "idle" \/ run'[r] = run[r],
         start'[u] = start[u] \/ start'[u].until = 0,
         play'[u] = play[u] \/ \E l \in calls : /\ end[l].pc = "setPlay" /\ end[l].user = u
                                                /\ play'[u].val = end[l].ms,
         start'[u] # start[u] => \E l \in calls : end[l].pc = "delete" /\ end[l].user = u
  PROVE  Fit(u)'
<1> DEFINE cut == \E l \in calls : end[l].pc \in {"setPlay", "delete"} /\ end[l].user = u
<1>1. cutEnds'[u] = cutEnds[u] + (IF cut THEN 1 ELSE 0)
  BY DEF CutOff
<1>2. /\ Pending(u) \in Nat /\ play[u].val \in Nat /\ Bound(u) \in Nat /\ online[u] \in Nat
      /\ \A l \in Ends : end[l].ms \in Nat
  BY PlayTimeTypes
<1>3. CASE ~cut
  <2>1. /\ cutEnds'[u] = cutEnds[u] /\ start'[u] = start[u] /\ play'[u] = play[u]
    BY <1>1, <1>3, PlayTimeTypes
  <2>2. \A l \in Ends : end[l].pc = "delete" /\ end[l].user = u => end'[l] = end[l]
    BY <1>3
  <2> HIDE DEF cut
  <2> QED BY <2>1, <2>2, FitQuiet DEF Storing
<1>4. CASE cut
  <2>1. PICK l \in calls : end[l].pc \in {"setPlay", "delete"} /\ end[l].user = u
    BY <1>4
  <2>2. CreditingEnds(u) \subseteq {l} /\ CreditingRuns(u) = {}
    <3>1. l \in CreditingEnds(u)
      BY <2>1 DEF CreditingEnds
    <3> QED BY <3>1 DEF Lone
  <2>3. CreditingEnds(u)' = {} /\ CreditingRuns(u)' = {}
    BY <2>1, <2>2 DEF CreditingEnds, CreditingRuns
  <2>4. Bound(u)' = Bound(u) + online[u] /\ Bound(u)' \in Nat
    BY <1>1, <1>4, CutBound
  <2>5. play'[u].val \in Nat /\ play'[u].val <= Bound(u)
    <3>1. CASE play'[u] = play[u]
      BY <3>1, <1>2 DEF Fit, StoreBounded
    <3>2. ASSUME NEW k \in calls, end[k].pc = "setPlay", end[k].user = u,
                 play'[u].val = end[k].ms
          PROVE  play'[u].val \in Nat /\ play'[u].val <= Bound(u)
      BY <1>2, <3>2 DEF Fit, EndsBounded
    <3> QED BY <3>1, <3>2
  <2>6. Pending(u)' \in Nat /\ Pending(u)' <= Pending(u) /\ Pending(u) <= online[u]
    <3>1. CASE start'[u] = start[u]
      BY <3>1, <1>2 DEF Pending, Live, Fit, StoreBounded
    <3>2. CASE start'[u].until = 0
      <4>1. Pending(u)' = 0
        BY <3>2, PlayTimeTypes DEF Pending, Live
      <4> QED BY <4>1, <1>2 DEF Fit, StoreBounded
    <3> QED BY <3>1, <3>2
  <2>7. play'[u].val + Pending(u)' <= Bound(u)' /\ Bound(u) <= Bound(u)'
    BY <1>2, <2>4, <2>5, <2>6
  <2> QED BY <2>3, <2>4, <2>5, <2>6, <2>7, FitEnded
<1> QED BY <1>3, <1>4

LEMMA FitStep ==
  ASSUME PlayTypeInv, NEW u \in Players, u \notin mixed', UserInv(u), [PlayNext]_playVars
  PROVE  Fit(u)'
<1> USE DEF UserInv
<1>t. /\ run \in [Runs -> RunRecords] /\ end \in [Ends -> EndRecords]
      /\ NoRun.pc = "idle" /\ NoEnd.pc = "idle"
      /\ start \in [Players -> Keys] /\ play \in [Players -> Keys]
  BY CallTypes, PlayTimeTypes
<1>1. CASE Tick
  BY <1>1, FitTick
<1>2. ASSUME NEW v \in Players, StartSession(v) PROVE Fit(u)'
  <2>1. CASE v = u
    BY <1>2, <2>1, FitStart
  <2>2. CASE v # u
    BY <1>2, <2>2, <1>t, FitQuiet DEF StartSession, faults
  <2> QED BY <2>1, <2>2
<1>3. ASSUME NEW r \in Runs, NEW w \in Workers, TimerFires(r, w) PROVE Fit(u)'
  <2>1. run' = [run EXCEPT ![r] = [NoRun EXCEPT !.pc = "acquire", !.worker = w]]
    BY <1>3 DEF TimerFires, SetRun
  <2>2. [NoRun EXCEPT !.pc = "acquire", !.worker = w].pc = "acquire"
    BY DEF NoRun
  <2>3. UNCHANGED <<now, start, play, online, cutEnds, end>>
    BY <1>3 DEF TimerFires, faults, history
  <2> QED BY <2>1, <2>2, <2>3, <1>t, FitQuiet DEF Storing
<1>4. ASSUME NEW r \in Runs, RunMoves(r) PROVE Fit(u)'
  BY <1>4, FitRunMoves
<1>5. ASSUME NEW w \in Workers, Stops(w) PROVE Fit(u)'
  <2> DEFINE calls == IF w = Auth THEN Ends ELSE {}
  <2>1. /\ calls \in SUBSET Ends /\ CutOff(calls)
        /\ UNCHANGED <<now, start, play, online>>
    BY <1>5 DEF Stops
  <2>2. /\ \A l \in Ends : end'[l].pc = "idle" \/ end'[l] = end[l]
        /\ \A l \in calls : end'[l].pc = "idle"
        /\ \A l \in Ends \ calls : end'[l] = end[l]
        /\ \A r \in Runs : run'[r].pc = "idle" \/ run'[r] = run[r]
    BY <1>5, <1>t DEF Stops
  <2> HIDE DEF calls
  <2> QED BY <2>1, <2>2, FitCut
<1>6. ASSUME NEW l \in Ends, NEW v \in Players, BeginEnd(l, v) PROVE Fit(u)'
  <2>1. end' = [end EXCEPT ![l] = [NoEnd EXCEPT !.pc = "getStart", !.user = v]]
        /\ end[l].pc = "idle"
    BY <1>6 DEF BeginEnd, SetEnd
  <2>2. [NoEnd EXCEPT !.pc = "getStart", !.user = v].pc = "getStart"
    BY DEF NoEnd
  <2>3. UNCHANGED <<now, start, play, online, cutEnds, run>>
    BY <1>6 DEF BeginEnd, faults, history
  <2> QED BY <2>1, <2>2, <2>3, <1>t, FitQuiet
<1>7. ASSUME NEW l \in Ends, EndStep(l) PROVE Fit(u)'
  <2>1. CASE end[l].user = u
    BY <1>7, <2>1, FitEndSteps
  <2>2. CASE end[l].user # u
    <3>1. /\ \A k \in Ends : k # l => end'[k] = end[k]
          /\ UNCHANGED <<now, run, online>>
      BY <1>7, EndFrame
    <3>2. cutEnds' = cutEnds
      BY <1>7 DEF EndStep, EndGetStart, EndWithoutSession, EndGetPlay, EndSetPlay,
         EndDelete, faults
    <3>3. start'[u] = start[u] /\ play'[u] = play[u]
      BY <1>7, <2>2, <1>t DEF EndStep, EndGetStart, EndWithoutSession, EndGetPlay,
         EndSetPlay, WriteSum, EndDelete, DeleteStart
    <3>4. end'[l].pc = "idle" \/ end'[l].user = end[l].user
      BY <1>7, EndGoes
    <3> QED BY <2>2, <3>1, <3>2, <3>3, <3>4, FitQuiet
  <2> QED BY <2>1, <2>2
<1>8. ASSUME NEW l \in Ends, FailEnd(l) PROVE Fit(u)'
  <2>1. CutOff({l}) /\ UNCHANGED <<now, online, run>> /\ end'[l].pc = "idle"
    BY <1>8, <1>t DEF FailEnd, SetEnd, history
  <2>2. \A k \in Ends : k # l => end'[k] = end[k]
    BY <1>8, EndFrame
  <2>3. end[l].user \in Players
    BY PlayTimeTypes
  <2>4. /\ play'[u] = play[u] \/ /\ end[l].pc = "setPlay" /\ end[l].user = u
                                 /\ play'[u].val = end[l].ms
        /\ start'[u] = start[u] \/ start'[u].until = 0
        /\ start'[u] # start[u] => end[l].pc = "delete" /\ end[l].user = u
    <3>1. CASE WriteSum(l)
      BY <3>1, <1>t DEF WriteSum, Put
    <3>2. CASE DeleteStart(l)
      BY <3>2, <1>t DEF DeleteStart, None
    <3>3. CASE UNCHANGED <<start, play>>
      BY <3>3
    <3> QED BY <1>8, <3>1, <3>2, <3>3 DEF FailEnd
  <2>5. PICK calls \in SUBSET Ends : calls = {l}
    OBVIOUS
  <2> QED BY <2>1, <2>2, <2>4, <2>5, FitCut
<1>9. CASE UNCHANGED playVars
  BY <1>9, FitQuiet DEF playVars
<1>10. CASE NoStart
  BY <1>1, <1>3, <1>4, <1>5, <1>6, <1>7, <1>8, <1>9, <1>10, StepKinds
<1> QED BY <1>2, <1>10, PlaySteps

LEMMA PlayTimeInit == PlayInit => PlayTimeInv
<1> SUFFICES ASSUME PlayInit PROVE PlayTimeInv
  OBVIOUS
<1>1. PlayTypeInv
  BY PlayTypeInit
<1>2. /\ \A r \in Runs : run[r].pc = "idle"
      /\ \A l \in Ends : end[l].pc = "idle"
      /\ \A u \in Players : /\ start[u].until = 0 /\ play[u].val = 0
                            /\ ~Live(start[u])
  BY <1>1 DEF PlayInit, NoRun, NoEnd, None, Live
<1>3. ASSUME NEW u \in Players PROVE Lone(u) /\ Out(u)
  BY <1>2 DEF Lone, CreditingRuns, CreditingEnds, Out, Gone
<1>4. \A u \in Players : Pending(u) = 0 /\ Bound(u) \in Nat /\ online[u] \in Nat
  BY <1>1, <1>2, PlayTimeTypes DEF Pending
<1>5. ASSUME NEW u \in Players PROVE Fit(u)
  BY <1>2, <1>4 DEF Fit, StoreBounded, RunsBounded, EndsBounded
<1> QED BY <1>1, <1>3, <1>5 DEF PlayTimeInv, UserInv

LEMMA PlayTimeStep ==
  ASSUME PlayTimeInv, [PlayNext]_playVars PROVE PlayTimeInv'
<1>1. PlayTypeInv /\ PlayTypeInv'
  BY PlayTypeStep DEF PlayTimeInv
<1>2. ASSUME NEW u \in Players, u \notin mixed' PROVE UserInv(u)'
  <2>1. UserInv(u)
    BY <1>1, <1>2, MixedGrows DEF PlayTimeInv
  <2>2. Lone(u)'
    BY <1>1, <1>2, <2>1, LoneStep DEF UserInv
  <2>3. Out(u)'
    BY <1>1, <1>2, <2>1, OutStep DEF UserInv
  <2>4. Fit(u)'
    BY <1>1, <1>2, <2>1, FitStep
  <2> QED BY <2>2, <2>3, <2>4 DEF UserInv
<1> QED BY <1>1, <1>2 DEF PlayTimeInv

(***************************************************************************)
(* No user is credited with more play time than was spent logged in, once  *)
(* over for each endSession of the user that failed or died at its writes, *)
(* unless a call looked at the user's session start while another one was  *)
(* crediting it: whatever crashes, failures, keys that SCAN repeats,       *)
(* second logins and expired keys there are, for any number of users,      *)
(* processes, calls at once and clock units                                *)
(* (play-time-tracker.service.ts:35-46, 86-98).                            *)
(***************************************************************************)
THEOREM PlayTimeIsEarned == PlaySpec => []PlayTimeNotInflated
<1>1. PlayTimeInv => PlayTimeNotInflated
  <2> SUFFICES ASSUME PlayTimeInv, NEW u \in Players \ mixed
               PROVE  Value(play[u]) <= Bound(u)
    BY DEF PlayTimeNotInflated, Bound
  <2>1. play[u].val <= Bound(u) /\ Bound(u) \in Nat /\ play[u].val \in Nat
    BY PlayTimeTypes DEF PlayTimeInv, UserInv, Fit, StoreBounded
  <2> QED BY <2>1 DEF Value
<1>2. PlayTimeInv /\ [PlayNext]_playVars => PlayTimeInv'
  BY PlayTimeStep
<1> QED BY PlayTimeInit, <1>1, <1>2, PTL DEF PlaySpec

(***************************************************************************)
(* A session that endSession has ended stays ended until the next          *)
(* startSession, for every user whose session start no call looked at      *)
(* while another one was crediting it: no updateAllActiveSessions finds    *)
(* it, or writes it back, for any number of calls at once                  *)
(* (play-time-tracker.service.ts:35-46, 86-92).                            *)
(***************************************************************************)
THEOREM SessionsEndForGood == PlaySpec => []EndedUnlessMixed
<1>1. PlayTimeInv => EndedUnlessMixed
  BY DEF PlayTimeInv, UserInv, Out, Gone, EndedUnlessMixed
<1>2. PlayTimeInv /\ [PlayNext]_playVars => PlayTimeInv'
  BY PlayTimeStep
<1> QED BY PlayTimeInit, <1>1, <1>2, PTL DEF PlaySpec

-----------------------------------------------------------------------------
(***************************************************************************)
(* Logins and logouts: every step of AuthSessions is a step of PlayTime,   *)
(* so what is proved of PlaySpec holds of AuthSpec.                        *)
(***************************************************************************)
LEMMA AuthSteps ==
  ASSUME [AuthNext]_allVars
  PROVE  NoStart \/ \E s \in Logins : WriteSession(s)
<1>1. CASE \E s \in Logins, u \in Players : BeginLogin(s, u)
  BY <1>1 DEF BeginLogin, NoStart
<1>2. ASSUME NEW s \in Logins, LoginStep(s) \/ FailLogin(s)
      PROVE  NoStart \/ WriteSession(s)
  <2>1. UNCHANGED playVars \/ WriteSession(s)
    BY <1>2 DEF LoginStep, StoreToken, RecordUserLogin, SessionStarts, FailLogin,
       WriteToken, CountLogin
  <2> QED BY <2>1 DEF NoStart
<1>3. ASSUME NEW l \in Ends, NEW u \in Players, BeginLogout(l, u) PROVE NoStart
  BY <1>3 DEF BeginLogout, NoStart
<1>4. ASSUME NEW l \in Ends, LogoutStep(l) \/ FailLogout(l) PROVE NoStart
  BY <1>4 DEF LogoutStep, SessionEnding, SessionEnded, DeleteToken, FailLogout, NoStart,
     EndStep
<1>5. CASE (\E r \in Runs : TrackerStep(r)) \/ \E w \in Workers : ProcessStops(w)
  BY <1>5 DEF TrackerStep, ProcessStops, NoStart
<1>6. CASE \/ Tick \/ (\E r \in Runs, w \in Workers : TimerFires(r, w))
           \/ (\E r \in Runs : FailRun(r))
  BY <1>6 DEF NoStart
<1>7. CASE UNCHANGED allVars
  BY <1>7 DEF allVars, NoStart
<1> QED BY <1>1, <1>2, <1>3, <1>4, <1>5, <1>6, <1>7 DEF AuthNext

LEMMA AuthPlays ==
  ASSUME AuthTypeOK, [AuthNext]_allVars PROVE [PlayNext]_playVars
<1>1. CASE NoStart
  BY <1>1 DEF NoStart, PlayNext
<1>2. ASSUME NEW s \in Logins, WriteSession(s) PROVE PlayNext
  <2>1. login[s].user \in Players /\ StartSession(login[s].user)
    BY <1>2 DEF AuthTypeOK, WriteSession
  <2> QED BY <2>1 DEF PlayNext
<1> QED BY <1>1, <1>2, AuthSteps

\* Steps that no login or logout notices.
Unnoticed ==
  /\ \/ Tick \/ UNCHANGED playVars
     \/ \E r \in Runs, w \in Workers : TimerFires(r, w)
     \/ \E r \in Runs : RunMoves(r)
  /\ UNCHANGED authVars

LEMMA AuthKinds ==
  ASSUME PlayTypeInv, [AuthNext]_allVars
  PROVE  \/ \E s \in Logins, u \in Players : BeginLogin(s, u)
         \/ \E s \in Logins : LoginStep(s) \/ FailLogin(s)
         \/ \E l \in Ends, u \in Players : BeginLogout(l, u)
         \/ \E l \in Ends : LogoutStep(l) \/ FailLogout(l)
         \/ \E w \in Workers : Stops(w) /\ LoseCalls(w)
         \/ Unnoticed
<1>1. ASSUME NEW r \in Runs, TrackerStep(r)
      PROVE  Unnoticed \/ \E w \in Workers : Stops(w) /\ LoseCalls(w)
  <2>1. CASE run[r].pc = "releaseAndThrow"
    <3>1. ReleaseAndThrow(r) /\ LoseCalls(run[r].worker)
      BY <1>1, <2>1 DEF TrackerStep, RunStep, Acquire, NotAcquired, Scan, SetStart, WriteStart,
         GetPlay, SetPlay, WriteUpdate, Release, GetStart
    <3>2. run[r].worker \in Workers /\ Stops(run[r].worker)
      BY <3>1, CallTypes DEF RunRecords, ReleaseAndThrow, Restart, Stops, history
    <3> QED BY <3>1, <3>2
  <2>2. CASE run[r].pc # "releaseAndThrow"
    <3>1. RunMoves(r) /\ UNCHANGED authVars
      BY <1>1, <2>2 DEF TrackerStep, RunStep, ReleaseAndThrow, RunMoves
    <3> QED BY <3>1 DEF Unnoticed
  <2> QED BY <2>1, <2>2
<1>2. ASSUME NEW w \in Workers, ProcessStops(w) PROVE Stops(w) /\ LoseCalls(w)
  BY <1>2, StopsSteps DEF ProcessStops
<1>3. CASE /\ \/ Tick \/ (\E r \in Runs, w \in Workers : TimerFires(r, w))
              \/ (\E r \in Runs : FailRun(r))
           /\ UNCHANGED authVars
  BY <1>3 DEF Unnoticed, RunMoves
<1>4. CASE UNCHANGED allVars
  BY <1>4 DEF allVars, Unnoticed
<1> QED BY <1>1, <1>2, <1>3, <1>4 DEF AuthNext

LEMMA UnnoticedFrame ==
  ASSUME PlayTypeInv, Unnoticed
  PROVE  /\ end' = end /\ UNCHANGED authVars
         /\ now' = now \/ now' = now + 1
         /\ \A u \in Players : start'[u] = start[u] \/ start'[u].until = now + KeyTtl
<1>t. start \in [Players -> Keys]
  BY DEF PlayTypeInv, PlayTypeOK
<1>1. CASE Tick \/ UNCHANGED playVars \/ \E r \in Runs, w \in Workers : TimerFires(r, w)
  BY <1>1 DEF Tick, playVars, TimerFires, Unnoticed
<1>2. ASSUME NEW r \in Runs, RunMoves(r)
      PROVE  /\ end' = end /\ now' = now
             /\ \A u \in Players : start'[u] = start[u] \/ start'[u].until = now + KeyTtl
  <2>1. CASE WriteStart(r)
    BY <1>2, <2>1, <1>t, RunFrame DEF WriteStart, Put
  <2>2. CASE ~WriteStart(r)
    <3>1. start' = start
      BY <1>2, <2>2 DEF RunMoves, Acquire, NotAcquired, Scan, SetStart, GetPlay, SetPlay,
         WriteUpdate, Release, FailRun, GetStart
    <3> QED BY <1>2, <3>1, RunFrame
  <2> QED BY <2>1, <2>2
<1> QED BY <1>1, <1>2 DEF Unnoticed

LEMMA NoAuthCall ==
  /\ NoLogin \in [pc : LoginPcs, user : Players] /\ NoLogin.pc = "idle"
  /\ NoLogout \in [pc : LogoutPcs, user : Players, alone : BOOLEAN] /\ NoLogout.pc = "idle"
  /\ None \in Keys /\ None.until = 0
BY AnyoneExists DEF NoLogin, NoLogout, LoginPcs, LogoutPcs, None, Keys

LEMMA AwaitType ==
  ASSUME NEW pc \in LoginPcs PROVE NextAwait(pc) \in LoginPcs
BY DEF LoginPcs, NextAwait

\* What the steps of a login make of the call's own record.
LEMMA AdvanceRecord ==
  ASSUME AuthTypeOK, NEW s \in Logins, Advance(s)
  PROVE  /\ login' \in [Logins -> [pc : LoginPcs, user : Players]]
         /\ \A k \in Logins : k # s => login'[k] = login[k]
         /\ login'[s].user = login[s].user /\ login'[s].pc = NextAwait(login[s].pc)
<1> DEFINE new == [login[s] EXCEPT !.pc = NextAwait(login[s].pc)]
<1>1. login[s] \in [pc : LoginPcs, user : Players] /\ NextAwait(login[s].pc) \in LoginPcs
  BY AwaitType DEF AuthTypeOK
<1>2. new \in [pc : LoginPcs, user : Players] /\ new.pc = NextAwait(login[s].pc)
      /\ new.user = login[s].user
  BY <1>1
<1>3. login' = [login EXCEPT ![s] = new]
  BY DEF Advance
<1> HIDE DEF new
<1> QED BY <1>2, <1>3 DEF AuthTypeOK

\* A login, failing or not: what it writes, for its own user only.
LEMMA LoginFrame ==
  ASSUME PlayTypeInv, AuthTypeOK, NEW s \in Logins, LoginStep(s) \/ FailLogin(s)
  PROVE  /\ login[s].user \in Players /\ login[s].pc # "idle"
         /\ login' \in [Logins -> [pc : LoginPcs, user : Players]]
         /\ \A k \in Logins : k # s => login'[k] = login[k]
         /\ UNCHANGED <<now, end, logout, loggedOut>>
         /\ \A u \in Players : u # login[s].user =>
              /\ token'[u] = token[u] /\ start'[u] = start[u]
              /\ loginCount'[u] = loginCount[u] /\ cutAuth'[u] = cutAuth[u]
<1>t. /\ login \in [Logins -> [pc : LoginPcs, user : Players]]
      /\ token \in [Players -> Keys] /\ start \in [Players -> Keys]
      /\ loginCount \in [Players -> Nat] /\ cutAuth \in [Players -> Nat]
  BY DEF AuthTypeOK, PlayTypeOK
<1>1. login[s].user \in Players
  BY <1>t
<1>2. login[s].pc # "idle"
  BY DEF LoginStep, StoreToken, RecordUserLogin, SessionStarts, WriteToken, CountLogin,
     WriteSession, FailLogin
<1>3. /\ login' \in [Logins -> [pc : LoginPcs, user : Players]]
      /\ \A k \in Logins : k # s => login'[k] = login[k]
  <2>1. CASE LoginStep(s)
    BY <2>1, AdvanceRecord DEF LoginStep, StoreToken, RecordUserLogin, SessionStarts
  <2>2. CASE FailLogin(s)
    BY <2>2, <1>t, NoAuthCall DEF FailLogin
  <2> QED BY <2>1, <2>2
<1>4. UNCHANGED <<now, end, logout, loggedOut>>
  BY DEF LoginStep, StoreToken, RecordUserLogin, SessionStarts, FailLogin, WriteToken,
     CountLogin, WriteSession, StartSession, playVars
<1>5. ASSUME NEW u \in Players, u # login[s].user
      PROVE  /\ token'[u] = token[u] /\ start'[u] = start[u]
             /\ loginCount'[u] = loginCount[u] /\ cutAuth'[u] = cutAuth[u]
  BY <1>5, <1>t DEF LoginStep, StoreToken, RecordUserLogin, SessionStarts, FailLogin,
     AuthFails, WriteToken, CountLogin, WriteSession, StartSession, playVars
<1> QED BY <1>1, <1>2, <1>3, <1>4, <1>5

LEMMA AuthTypeStep ==
  ASSUME PlayTypeInv, AuthTypeOK, [AuthNext]_allVars PROVE PlayTypeInv' /\ AuthTypeOK'
<1>0. PlayTypeInv' /\ PlayTypeOK'
  BY PlayTypeStep, AuthPlays DEF PlayTypeInv
<1> DEFINE AuthTypes ==
      /\ token \in [Players -> Keys]
      /\ loginCount \in [Players -> Nat]
      /\ login \in [Logins -> [pc : LoginPcs, user : Players]]
      /\ logout \in [Ends -> [pc : LogoutPcs, user : Players, alone : BOOLEAN]]
      /\ cutAuth \in [Players -> Nat]
      /\ loggedOut \in [Players -> BOOLEAN]
<1>t. AuthTypes /\ now \in Nat
  BY DEF AuthTypeOK, PlayTypeOK
<1> SUFFICES AuthTypes'
  BY <1>0 DEF AuthTypeOK
<1>k. \A v \in Nat : Put(v) \in Keys
  BY <1>t, PlayTimeAssumption DEF PlayTimeAssumption, Put, Keys
<1>f. \A u \in Players : AuthFails(u) => cutAuth' \in [Players -> Nat]
  BY <1>t DEF AuthFails
<1>1. ASSUME NEW s \in Logins, NEW u \in Players, BeginLogin(s, u) PROVE AuthTypes'
  <2>1. [pc |-> NextAwait("idle"), user |-> u] \in [pc : LoginPcs, user : Players]
    BY AwaitType DEF LoginPcs
  <2>2. login' \in [Logins -> [pc : LoginPcs, user : Players]]
    BY <1>1, <2>1, <1>t DEF BeginLogin
  <2>3. logout' \in [Ends -> [pc : LogoutPcs, user : Players, alone : BOOLEAN]]
    BY <1>1, <1>t DEF BeginLogin
  <2>4. loggedOut' \in [Players -> BOOLEAN]
    BY <1>1, <1>t DEF BeginLogin
  <2> QED BY <1>1, <1>t, <2>2, <2>3, <2>4 DEF BeginLogin
<1>2. ASSUME NEW s \in Logins, LoginStep(s) \/ FailLogin(s) PROVE AuthTypes'
  <2>1. /\ login[s].user \in Players /\ UNCHANGED <<logout, loggedOut>>
        /\ login' \in [Logins -> [pc : LoginPcs, user : Players]]
    BY <1>2, LoginFrame
  <2>2. token' \in [Players -> Keys]
    BY <1>2, <1>t, <1>k, <2>1 DEF LoginStep, StoreToken, RecordUserLogin, SessionStarts,
       FailLogin, WriteToken, CountLogin, WriteSession
  <2>3. loginCount' \in [Players -> Nat]
    BY <1>2, <1>t, <2>1 DEF LoginStep, StoreToken, RecordUserLogin, SessionStarts,
       FailLogin, WriteToken, CountLogin, WriteSession
  <2>4. cutAuth' \in [Players -> Nat]
    BY <1>2, <1>t, <1>f, <2>1 DEF LoginStep, StoreToken, RecordUserLogin, SessionStarts,
       FailLogin
  <2> QED BY <1>t, <2>1, <2>2, <2>3, <2>4
<1>4. ASSUME NEW l \in Ends, NEW u \in Players, BeginLogout(l, u) PROVE AuthTypes'
  <2>1. [pc |-> "endSession", user |-> u, alone |-> LoginsOf(u) = {}]
          \in [pc : LogoutPcs, user : Players, alone : BOOLEAN]
    BY DEF LogoutPcs
  <2> QED BY <1>4, <1>t, <2>1 DEF BeginLogout
<1>5. ASSUME NEW l \in Ends, SessionEnding(l) PROVE AuthTypes'
  BY <1>5, <1>t DEF SessionEnding, authVars
<1>6. ASSUME NEW l \in Ends, SessionEnded(l) PROVE AuthTypes'
  <2>1. [logout[l] EXCEPT !.pc = "deleteToken"]
          \in [pc : LogoutPcs, user : Players, alone : BOOLEAN]
    BY <1>t DEF LogoutPcs
  <2> QED BY <1>6, <1>t, <2>1 DEF SessionEnded
<1>7. ASSUME NEW l \in Ends, DeleteToken(l) PROVE AuthTypes'
  <2>1. loggedOut' \in [Players -> BOOLEAN] /\ token' \in [Players -> Keys]
    BY <1>7, <1>t, NoAuthCall DEF DeleteToken, DropToken, LogoutAnswered
  <2> QED BY <1>7, <1>t, <2>1, NoAuthCall DEF DeleteToken, LogoutAnswered
<1>8. ASSUME NEW l \in Ends, FailLogout(l) PROVE AuthTypes'
  <2>1. logout[l].user \in Players
    BY <1>t
  <2> QED BY <1>8, <1>t, <1>f, <2>1, NoAuthCall DEF FailLogout, DropToken
<1>9. ASSUME NEW w \in Workers, LoseCalls(w) PROVE AuthTypes'
  BY <1>9, <1>t, NoAuthCall DEF LoseCalls
<1>10. CASE Unnoticed
  BY <1>10, <1>t DEF Unnoticed, authVars
<1> QED BY <1>1, <1>2, <1>4, <1>5, <1>6, <1>7, <1>8, <1>9, <1>10, AuthKinds DEF LogoutStep

LEMMA AuthTypeInit == AuthInit => PlayTypeInv /\ AuthTypeOK
<1> SUFFICES ASSUME AuthInit PROVE PlayTypeInv /\ AuthTypeOK
  OBVIOUS
<1>1. PlayTypeInv
  BY PlayTypeInit DEF AuthInit
<1> QED BY <1>1, NoAuthCall DEF AuthInit, AuthTypeOK, PlayTypeInv

(***************************************************************************)
(* The tokens, login counts and call records of AuthSessions keep their    *)
(* types, and so do the play sessions they drive.                          *)
(***************************************************************************)
THEOREM AuthTypeCorrect == AuthSpec => []AuthTypeOK
<1>1. (PlayTypeInv /\ AuthTypeOK) /\ [AuthNext]_allVars => (PlayTypeInv /\ AuthTypeOK)'
  BY AuthTypeStep
<1> QED BY AuthTypeInit, <1>1, PTL DEF AuthSpec

(***************************************************************************)
(* Logins and logouts drive the play sessions only as PlayTime lets them:  *)
(* AuthSpec implements PlaySpec, for any number of overlapping calls       *)
(* (auth.service.ts:59-70, 111-115).                                       *)
(***************************************************************************)
THEOREM AuthImplementsPlay == AuthSpec => PlaySpec
<1>1. (PlayTypeInv /\ AuthTypeOK) /\ [AuthNext]_allVars => (PlayTypeInv /\ AuthTypeOK)'
  BY AuthTypeStep
<1>2. (PlayTypeInv /\ AuthTypeOK) /\ [AuthNext]_allVars => [PlayNext]_playVars
  BY AuthPlays
<1>3. AuthInit => PlayInit
  BY DEF AuthInit
<1> QED BY AuthTypeInit, <1>1, <1>2, <1>3, PTL DEF AuthSpec, PlaySpec

-----------------------------------------------------------------------------
(***************************************************************************)
(* A token means a session.  As long as no call of the user has failed, a  *)
(* token that outlives the user's session start is one whose login has yet *)
(* to start the session, or whose logout is about to delete it; and a      *)
(* token whose login is not counted yet is one whose login is about to     *)
(* count it.                                                               *)
(***************************************************************************)
EndsOfLogouts ==
  \A l \in Ends : end[l].pc # "idle" =>
    logout[l].pc = "endSession" /\ logout[l].user = end[l].user

Covered(u) ==
  \/ start[u].until >= token[u].until
  \/ \E s \in Logins : login[s].user = u /\ login[s].pc \in {"recordUserLogin", "startSession"}
  \/ \E l \in Ends : logout[l].user = u /\ logout[l].pc = "deleteToken"

Counted(u) ==
  \/ token[u].until = 0
  \/ loginCount[u] > 0
  \/ \E s \in Logins : login[s].user = u /\ login[s].pc = "recordUserLogin"

Backed(u) ==
  /\ token[u].until <= now + KeyTtl
  /\ cutAuth[u] = 0 => Covered(u) /\ Counted(u)

AuthInv == PlayTypeInv /\ AuthTypeOK /\ EndsOfLogouts
TokenInv == AuthInv /\ \A u \in Players : Backed(u)

LEMMA EndsOfLogoutsStep ==
  ASSUME AuthInv, [AuthNext]_allVars PROVE EndsOfLogouts'
<1> USE DEF AuthInv, EndsOfLogouts
<1>t. /\ logout \in [Ends -> [pc : LogoutPcs, user : Players, alone : BOOLEAN]]
      /\ end \in [Ends -> EndRecords] /\ NoEnd.pc = "idle"
  BY DEF AuthTypeOK, PlayTypeInv, PlayTypeOK, NoEnd
<1>q. ASSUME UNCHANGED <<end, logout>> PROVE EndsOfLogouts'
  BY <1>q
<1>1. ASSUME NEW s \in Logins, NEW u \in Players, BeginLogin(s, u) PROVE EndsOfLogouts'
  <2>1. end' = end
    BY <1>1 DEF BeginLogin, playVars
  <2>2. \A l \in Ends : logout'[l].pc = logout[l].pc /\ logout'[l].user = logout[l].user
    BY <1>1, <1>t DEF BeginLogin
  <2> QED BY <2>1, <2>2
<1>2. ASSUME NEW s \in Logins, LoginStep(s) \/ FailLogin(s) PROVE EndsOfLogouts'
  BY <1>2, <1>q, LoginFrame
<1>3. ASSUME NEW l \in Ends, NEW u \in Players, BeginLogout(l, u) PROVE EndsOfLogouts'
  <2>1. end'[l].user = u /\ \A k \in Ends : k # l => end'[k] = end[k]
    BY <1>3, <1>t DEF BeginLogout, BeginEnd, SetEnd, NoEnd
  <2>2. /\ logout'[l].pc = "endSession" /\ logout'[l].user = u
        /\ \A k \in Ends : k # l => logout'[k] = logout[k]
    BY <1>3, <1>t DEF BeginLogout
  <2> QED BY <2>1, <2>2
<1>4. ASSUME NEW l \in Ends, SessionEnding(l) PROVE EndsOfLogouts'
  <2>0. EndStep(l) /\ logout' = logout
    BY <1>4 DEF SessionEnding, EndStep, authVars
  <2>1. end[l].pc # "idle" /\ \A k \in Ends : k # l => end'[k] = end[k]
    BY <2>0, EndFrame
  <2>2. end'[l].pc = "idle" \/ end'[l].user = end[l].user
    BY <2>0, EndGoes
  <2> QED BY <2>0, <2>1, <2>2
<1>5. ASSUME NEW l \in Ends, SessionEnded(l) PROVE EndsOfLogouts'
  BY <1>5, <1>t DEF SessionEnded, EndWithoutSession, EndDelete, SetEnd
<1>6. ASSUME NEW l \in Ends, DeleteToken(l) PROVE EndsOfLogouts'
  <2>1. end' = end /\ end[l].pc = "idle"
    BY <1>6 DEF DeleteToken, DropToken, playVars
  <2>2. \A k \in Ends : k # l => logout'[k] = logout[k]
    BY <1>6, <1>t DEF DeleteToken, LogoutAnswered
  <2> QED BY <2>1, <2>2
<1>7. ASSUME NEW l \in Ends, FailLogout(l) PROVE EndsOfLogouts'
  <2>1. \A k \in Ends : k # l => logout'[k] = logout[k] /\ end'[k] = end[k]
    BY <1>7, <1>t DEF FailLogout, FailEnd, SetEnd, playVars
  <2>2. end'[l].pc = "idle"
    BY <1>7, <1>t DEF FailLogout, FailEnd, SetEnd, playVars
  <2> QED BY <2>1, <2>2
<1>8. ASSUME NEW w \in Workers, Stops(w), LoseCalls(w) PROVE EndsOfLogouts'
  BY <1>8, <1>t DEF Stops, LoseCalls
<1>9. CASE Unnoticed
  BY <1>9, <1>q, UnnoticedFrame DEF authVars
<1> QED BY <1>1, <1>2, <1>3, <1>4, <1>5, <1>6, <1>7, <1>8, <1>9, AuthKinds DEF LogoutStep

\* A step that takes nothing away from what backs the token.
LEMMA StillBacked ==
  ASSUME AuthInv, NEW u \in Players, Backed(u),
         now' \in Nat, now' >= now, cutAuth'[u] = cutAuth[u], token'[u] = token[u],
         start'[u] = start[u] \/ start'[u].until = now + KeyTtl,
         loginCount'[u] = loginCount[u],
         \A s \in Logins :
           login[s].user = u /\ login[s].pc \in {"recordUserLogin", "startSession"}
             => login'[s] = login[s],
         \A l \in Ends : logout[l].user = u /\ logout[l].pc = "deleteToken"
           => logout'[l].pc = logout[l].pc /\ logout'[l].user = logout[l].user
  PROVE  Backed(u)'
<1>1. now \in Nat /\ token[u].until \in Nat /\ start[u].until \in Nat /\ KeyTtl \in Nat
  BY PlayTimeAssumption DEF PlayTimeAssumption, AuthInv, AuthTypeOK, PlayTypeOK, Keys
<1>2. token'[u].until <= now' + KeyTtl
  BY <1>1 DEF Backed
<1>3. Covered(u) => Covered(u)'
  BY <1>1 DEF Covered, Backed
<1>4. Counted(u) => Counted(u)'
  BY DEF Counted
<1> QED BY <1>2, <1>3, <1>4 DEF Backed

\* A call of the user fails.
LEMMA NoLongerBacked ==
  ASSUME AuthInv, NEW u \in Players, Backed(u), now' = now, cutAuth'[u] = cutAuth[u] + 1,
         token'[u] = token[u] \/ token'[u].until \in {0, now + KeyTtl}
  PROVE  Backed(u)'
<1>1. now \in Nat /\ token[u].until \in Nat /\ KeyTtl \in Nat /\ cutAuth[u] \in Nat
  BY PlayTimeAssumption DEF PlayTimeAssumption, AuthInv, AuthTypeOK, PlayTypeOK, Keys
<1> QED BY <1>1 DEF Backed

LEMMA BackedLogin ==
  ASSUME AuthInv, NEW u \in Players, Backed(u), NEW s \in Logins, login[s].user = u,
         LoginStep(s) \/ FailLogin(s)
  PROVE  Backed(u)'
<1> USE DEF AuthInv
<1>t. /\ now \in Nat /\ KeyTtl \in Nat
      /\ token \in [Players -> Keys] /\ start \in [Players -> Keys]
      /\ loginCount \in [Players -> Nat] /\ cutAuth \in [Players -> Nat]
      /\ token[u].until \in Nat /\ start[u].until \in Nat
  BY PlayTimeAssumption DEF PlayTimeAssumption, AuthTypeOK, PlayTypeOK, Keys
<1>0. /\ UNCHANGED <<now, logout>>
      /\ \A k \in Logins : k # s => login'[k] = login[k]
  BY LoginFrame
<1>1. CASE FailLogin(s)
  <2>1. token'[u] = token[u] \/ token'[u].until = now + KeyTtl
    BY <1>1, <1>t DEF FailLogin, WriteToken, CountLogin, WriteSession, Put
  <2>2. cutAuth'[u] = cutAuth[u] + 1
    BY <1>1, <1>t DEF FailLogin, AuthFails
  <2> QED BY <1>0, <2>1, <2>2, NoLongerBacked
<1>2. CASE LoginStep(s)
  <2>0. cutAuth' = cutAuth
    BY <1>2 DEF LoginStep, StoreToken, RecordUserLogin, SessionStarts
  <2>1. login'[s].user = u /\ login'[s].pc = NextAwait(login[s].pc)
    BY <1>2, AdvanceRecord DEF LoginStep, StoreToken, RecordUserLogin, SessionStarts
  <2>2. CASE StoreToken(s)
    <3>1. login'[s].pc = "recordUserLogin"
      BY <2>1, <2>2 DEF StoreToken, WriteToken, NextAwait
    <3>2. token'[u].until = now + KeyTtl
      BY <2>2, <1>t DEF StoreToken, WriteToken, Put
    <3>3. Covered(u)' /\ Counted(u)'
      BY <2>1, <3>1 DEF Covered, Counted
    <3> QED BY <1>t, <1>0, <3>2, <3>3 DEF Backed
  <2>3. CASE RecordUserLogin(s)
    <3>1. /\ login[s].pc = "recordUserLogin" /\ login'[s].pc = "startSession"
          /\ UNCHANGED <<start, token>>
      BY <2>1, <2>3 DEF RecordUserLogin, CountLogin, NextAwait, playVars
    <3>2. Covered(u)'
      BY <2>1, <3>1 DEF Covered
    <3>3. loginCount'[u] > 0
      BY <2>3, <1>t DEF RecordUserLogin, CountLogin
    <3> QED BY <1>t, <1>0, <2>0, <3>1, <3>2, <3>3 DEF Backed, Counted
  <2>4. CASE SessionStarts(s)
    <3>1. login[s].pc = "startSession" /\ UNCHANGED <<token, loginCount>>
      BY <2>4 DEF SessionStarts, WriteSession
    <3>2. start'[u].until = now + KeyTtl
      BY <2>4, <1>t DEF SessionStarts, WriteSession, StartSession, Put
    <3>3. Covered(u)'
      BY <1>t, <3>1, <3>2 DEF Covered, Backed
    <3>4. Counted(u) => Counted(u)'
      BY <1>0, <3>1 DEF Counted
    <3> QED BY <1>t, <1>0, <2>0, <3>1, <3>3, <3>4 DEF Backed
  <2> QED BY <1>2, <2>2, <2>3, <2>4 DEF LoginStep
<1> QED BY <1>1, <1>2

LEMMA BackedStep ==
  ASSUME AuthInv, NEW u \in Players, Backed(u), [AuthNext]_allVars PROVE Backed(u)'
<1> USE DEF AuthInv
<1>t. /\ now \in Nat /\ KeyTtl \in Nat
      /\ token \in [Players -> Keys] /\ start \in [Players -> Keys]
      /\ loginCount \in [Players -> Nat] /\ cutAuth \in [Players -> Nat]
      /\ login \in [Logins -> [pc : LoginPcs, user : Players]]
      /\ logout \in [Ends -> [pc : LogoutPcs, user : Players, alone : BOOLEAN]]
      /\ token[u].until \in Nat /\ start[u].until \in Nat
  BY PlayTimeAssumption DEF PlayTimeAssumption, AuthTypeOK, PlayTypeOK, Keys
<1>1. ASSUME NEW s \in Logins, NEW v \in Players, BeginLogin(s, v) PROVE Backed(u)'
  <2>1. UNCHANGED <<now, start, token, loginCount, cutAuth>>
    BY <1>1 DEF BeginLogin, playVars
  <2>2. \A k \in Logins : login[k].pc \in {"recordUserLogin", "startSession"}
                             => login'[k] = login[k]
    BY <1>1, <1>t DEF BeginLogin
  <2>3. \A l \in Ends : logout'[l].pc = logout[l].pc /\ logout'[l].user = logout[l].user
    BY <1>1, <1>t DEF BeginLogin
  <2> QED BY <1>t, <2>1, <2>2, <2>3, StillBacked
<1>2. ASSUME NEW s \in Logins, LoginStep(s) \/ FailLogin(s) PROVE Backed(u)'
  <2>1. CASE login[s].user = u
    BY <1>2, <2>1, BackedLogin
  <2>2. CASE login[s].user # u
    <3>1. /\ UNCHANGED <<now, logout>>
          /\ \A k \in Logins : k # s => login'[k] = login[k]
          /\ token'[u] = token[u] /\ start'[u] = start[u]
          /\ loginCount'[u] = loginCount[u] /\ cutAuth'[u] = cutAuth[u]
      BY <1>2, <2>2, LoginFrame
    <3>2. \A k \in Logins : login[k].user = u => login'[k] = login[k]
      BY <2>2, <3>1
    <3> QED BY <1>t, <3>1, <3>2, StillBacked
  <2> QED BY <2>1, <2>2
<1>4. ASSUME NEW l \in Ends, NEW v \in Players, BeginLogout(l, v) PROVE Backed(u)'
  <2>1. UNCHANGED <<now, start, token, loginCount, login, cutAuth>>
    BY <1>4 DEF BeginLogout, BeginEnd
  <2>2. \A k \in Ends : logout[k].pc = "deleteToken"
                        => logout'[k].pc = logout[k].pc /\ logout'[k].user = logout[k].user
    BY <1>4, <1>t DEF BeginLogout
  <2> QED BY <1>t, <2>1, <2>2, StillBacked
<1>5. ASSUME NEW l \in Ends, SessionEnding(l) PROVE Backed(u)'
  <2>1. UNCHANGED <<now, start, token, loginCount, login, logout, cutAuth>>
    BY <1>5 DEF SessionEnding, EndGetStart, EndGetPlay, EndSetPlay, WriteSum, authVars
  <2> QED BY <1>t, <2>1, StillBacked
<1>6. ASSUME NEW l \in Ends, SessionEnded(l) PROVE Backed(u)'
  <2>1. /\ UNCHANGED <<now, token, loginCount, login, cutAuth>> /\ end[l].pc # "idle"
        /\ logout'[l].pc = "deleteToken" /\ logout'[l].user = logout[l].user
        /\ \A k \in Ends : k # l => logout'[k] = logout[k]
    BY <1>6, <1>t DEF SessionEnded, EndWithoutSession, EndDelete, DeleteStart
  <2>2. logout[l].user = end[l].user
    BY <2>1 DEF EndsOfLogouts
  <2>3. end[l].user # u => start'[u] = start[u]
    BY <1>6, <1>t DEF SessionEnded, EndWithoutSession, EndDelete, DeleteStart
  <2>4. Covered(u) => Covered(u)'
    BY <2>1, <2>2, <2>3 DEF Covered
  <2>5. Counted(u) => Counted(u)'
    BY <2>1 DEF Counted
  <2> QED BY <1>t, <2>1, <2>4, <2>5 DEF Backed
<1>7. ASSUME NEW l \in Ends, DeleteToken(l) PROVE Backed(u)'
  <2>1. UNCHANGED <<now, start, loginCount, login, cutAuth>>
        /\ \A k \in Ends : k # l => logout'[k] = logout[k]
    BY <1>7, <1>t DEF DeleteToken, LogoutAnswered, playVars
  <2>2. CASE logout[l].user = u
    <3>1. token'[u].until = 0
      BY <1>7, <2>2, <1>t DEF DeleteToken, DropToken, None
    <3>2. Covered(u)' /\ Counted(u)'
      BY <2>1, <3>1, <1>t DEF Covered, Counted
    <3> QED BY <1>t, <2>1, <3>1, <3>2 DEF Backed
  <2>3. CASE logout[l].user # u
    <3>1. token'[u] = token[u]
      BY <1>7, <2>3, <1>t DEF DeleteToken, DropToken
    <3>2. \A k \in Ends : logout[k].user = u => logout'[k] = logout[k]
      BY <2>1, <2>3
    <3> QED BY <1>t, <2>1, <3>1, <3>2, StillBacked
  <2> QED BY <2>2, <2>3
<1>8. ASSUME NEW l \in Ends, FailLogout(l) PROVE Backed(u)'
  <2>1. UNCHANGED <<now, loginCount, login>> /\ logout[l].pc # "idle"
        /\ \A k \in Ends : k # l => logout'[k] = logout[k]
    BY <1>8, <1>t DEF FailLogout, FailEnd, playVars
  <2>2. CASE logout[l].user = u
    <3>1. token'[u] = token[u] \/ token'[u].until = 0
      BY <1>8, <2>2, <1>t DEF FailLogout, DropToken, None
    <3>2. cutAuth'[u] = cutAuth[u] + 1
      BY <1>8, <2>2, <1>t DEF FailLogout, AuthFails
    <3> QED BY <2>1, <3>1, <3>2, NoLongerBacked
  <2>3. CASE logout[l].user # u
    <3>1. token'[u] = token[u] /\ cutAuth'[u] = cutAuth[u]
      BY <1>8, <2>3, <1>t DEF FailLogout, DropToken, AuthFails
    <3>2. start'[u] = start[u]
      <4>1. CASE FailEnd(l)
        <5>1. end[l].user = logout[l].user
          BY <4>1 DEF FailEnd, EndsOfLogouts
        <5> QED BY <4>1, <5>1, <2>3, <1>t DEF FailEnd, WriteSum, DeleteStart
      <4>2. CASE UNCHANGED playVars
        BY <4>2 DEF playVars
      <4> QED BY <1>8, <4>1, <4>2 DEF FailLogout
    <3>3. \A k \in Ends : logout[k].user = u => logout'[k] = logout[k]
      BY <2>1, <2>3
    <3> QED BY <1>t, <2>1, <3>1, <3>2, <3>3, StillBacked
  <2> QED BY <2>2, <2>3
<1>9. ASSUME NEW w \in Workers, Stops(w), LoseCalls(w) PROVE Backed(u)'
  <2>1. UNCHANGED <<now, start, token, loginCount>>
    BY <1>9 DEF Stops, LoseCalls
  <2>2. CASE w = Auth /\ LoginsOf(u) \cup LogoutsOf(u) # {}
    <3>1. cutAuth'[u] = cutAuth[u] + 1
      BY <1>9, <2>2 DEF LoseCalls
    <3> QED BY <2>1, <3>1, NoLongerBacked
  <2>3. CASE ~(w = Auth /\ LoginsOf(u) \cup LogoutsOf(u) # {})
    <3>1. cutAuth'[u] = cutAuth[u]
      BY <1>9, <2>3, <1>t DEF LoseCalls
    <3>2. \A s \in Logins : login[s].user = u /\ login[s].pc # "idle" => login'[s] = login[s]
      BY <1>9, <2>3 DEF LoseCalls, LoginsOf
    <3>3. \A l \in Ends : logout[l].user = u /\ logout[l].pc # "idle" => logout'[l] = logout[l]
      BY <1>9, <2>3 DEF LoseCalls, LogoutsOf
    <3> QED BY <1>t, <2>1, <3>1, <3>2, <3>3, StillBacked
  <2> QED BY <2>2, <2>3
<1>10. CASE Unnoticed
  BY <1>10, <1>t, UnnoticedFrame, StillBacked DEF authVars
<1> QED BY <1>1, <1>2, <1>4, <1>5, <1>6, <1>7, <1>8, <1>9, <1>10, AuthKinds DEF LogoutStep

LEMMA AuthInvInit == AuthInit => TokenInv
<1> SUFFICES ASSUME AuthInit PROVE TokenInv
  OBVIOUS
<1>1. PlayTypeInv /\ AuthTypeOK
  BY AuthTypeInit
<1>2. EndsOfLogouts
  <2>1. \A l \in Ends : end[l] = NoEnd /\ NoEnd.pc = "idle"
    BY DEF AuthInit, PlayInit, NoEnd
  <2> QED BY <2>1 DEF EndsOfLogouts
<1>3. ASSUME NEW u \in Players PROVE Backed(u)
  <2>1. token[u].until = 0 /\ start[u].until = 0 /\ now = 1 /\ KeyTtl \in Nat
    BY PlayTimeAssumption DEF AuthInit, PlayInit, None, PlayTimeAssumption
  <2> QED BY <2>1 DEF Backed, Covered, Counted
<1> QED BY <1>1, <1>2, <1>3 DEF TokenInv, AuthInv

LEMMA AuthInvStep == ASSUME AuthInv, [AuthNext]_allVars PROVE AuthInv'
BY AuthTypeStep, EndsOfLogoutsStep DEF AuthInv

(***************************************************************************)
(* While none of a user's logins and logouts is under way and none of them *)
(* has failed or died, a valid token in Redis means that the login was     *)
(* counted and that a play session is running: for any number of users and *)
(* of calls, however they overlapped, and whatever became of other users'  *)
(* calls (auth.service.ts:59-70, 111-115).                                 *)
(***************************************************************************)
THEOREM TokensAreBacked == AuthSpec => []TokenMeansSession
<1>1. TokenInv /\ [AuthNext]_allVars => TokenInv'
  BY AuthInvStep, BackedStep DEF TokenInv
<1>2. TokenInv => TokenMeansSession
  <2> SUFFICES ASSUME TokenInv, NEW u \in Players, LoginsOf(u) \cup LogoutsOf(u) = {},
                      cutAuth[u] = 0, Live(token[u])
               PROVE  loginCount[u] > 0 /\ Live(start[u])
    BY DEF TokenMeansSession
  <2>1. /\ token[u].until \in Nat /\ start[u].until \in Nat /\ now \in Nat
        /\ token[u].until > now
    BY DEF TokenInv, AuthInv, AuthTypeOK, PlayTypeOK, Keys, Live
  <2>2. \A s \in Logins : login[s].user = u => login[s].pc = "idle"
    BY DEF LoginsOf
  <2>3. \A l \in Ends : logout[l].user = u => logout[l].pc = "idle"
    BY DEF LogoutsOf
  <2> QED BY <2>1, <2>2, <2>3 DEF TokenInv, Backed, Covered, Counted, Live
<1> QED BY AuthInvInit, <1>1, <1>2, PTL DEF AuthSpec

-----------------------------------------------------------------------------
(***************************************************************************)
(* A logout that no login overlaps (alone) leaves the user with no login   *)
(* under way, then with no session, then with no token; and nothing but a  *)
(* login brings any of them back.  The session is gone unless another call *)
(* was mixed in; what is said of logins and of the token needs no such     *)
(* condition.                                                              *)
(***************************************************************************)
AloneIsAlone ==
  \A l \in Ends, u \in Players :
    logout[l].pc # "idle" /\ logout[l].alone /\ logout[l].user = u => LoginsOf(u) = {}

EndedBeforeDelete ==
  \A l \in Ends, u \in Players \ mixed :
    logout[l].pc = "deleteToken" /\ logout[l].alone /\ logout[l].user = u => Gone(u)

OutIsOut ==
  \A u \in Players : loggedOut[u] =>
    LoginsOf(u) = {} /\ ~Live(token[u]) /\ (u \notin mixed => Gone(u))

LogoutInv == AuthInv /\ PlayTimeInv /\ AloneIsAlone /\ EndedBeforeDelete /\ OutIsOut

LEMMA LoginBegins ==
  ASSUME AuthInv, NEW s \in Logins, NEW u \in Players, BeginLogin(s, u) PROVE login' # login
<1>1. login[s].pc = "idle" /\ login \in [Logins -> [pc : LoginPcs, user : Players]]
  BY DEF BeginLogin, AuthInv, AuthTypeOK
<1>2. login'[s].pc = "storeToken"
  BY <1>1 DEF BeginLogin, NextAwait
<1> QED BY <1>1, <1>2

\* Without a login of the user, nothing starts a session or stores a token.
LEMMA QuietStays ==
  ASSUME AuthInv, NEW u \in Players, LoginsOf(u) = {}, [AuthNext]_allVars,
         \A s \in Logins : ~BeginLogin(s, u)
  PROVE  /\ (LoginsOf(u) = {})'
         /\ Gone(u) => Gone(u)'
         /\ ~Live(token[u]) => ~Live(token[u])'
<1> USE DEF AuthInv
<1>t. /\ now \in Nat /\ token \in [Players -> Keys] /\ token[u].until \in Nat
      /\ login \in [Logins -> [pc : LoginPcs, user : Players]]
      /\ logout \in [Ends -> [pc : LogoutPcs, user : Players, alone : BOOLEAN]]
  BY DEF AuthTypeOK, PlayTypeOK, Keys
<1>o. \A s \in Logins : login[s].pc # "idle" => login[s].user # u
  BY DEF LoginsOf
<1>1. ASSUME NEW s \in Logins, NEW v \in Players, BeginLogin(s, v)
      PROVE  /\ \A k \in Logins : login'[k].pc # "idle" => login'[k].user # u
             /\ UNCHANGED <<now, token>>
  BY <1>o, <1>1, <1>t DEF BeginLogin, playVars
<1>2. ASSUME NEW s \in Logins, LoginStep(s) \/ FailLogin(s)
      PROVE  /\ \A k \in Logins : login'[k].pc # "idle" => login'[k].user # u
             /\ now' = now /\ token'[u] = token[u]
  <2>1. login[s].user # u
    BY <1>2, <1>o, LoginFrame
  <2>2. login'[s].pc = "idle" \/ login'[s].user = login[s].user
    <3>1. CASE FailLogin(s)
      BY <3>1, <1>t, NoAuthCall DEF FailLogin
    <3>2. CASE LoginStep(s)
      BY <3>2, AdvanceRecord DEF LoginStep, StoreToken, RecordUserLogin, SessionStarts
    <3> QED BY <1>2, <3>1, <3>2
  <2>3. \A k \in Logins : k # s => login'[k] = login[k]
    BY <1>2, LoginFrame
  <2>4. now' = now /\ token'[u] = token[u]
    BY <1>2, <2>1, LoginFrame
  <2> QED BY <1>o, <2>1, <2>2, <2>3, <2>4
<1>3. ASSUME NEW l \in Ends, NEW v \in Players, BeginLogout(l, v)
      PROVE  UNCHANGED <<now, login, token>>
  BY <1>3 DEF BeginLogout, BeginEnd
<1>4. ASSUME NEW l \in Ends, LogoutStep(l) \/ FailLogout(l)
      PROVE  UNCHANGED <<now, login>> /\ (token'[u] = token[u] \/ token'[u].until = 0)
  <2>1. CASE DeleteToken(l)
    BY <2>1, <1>t DEF DeleteToken, DropToken, None, playVars
  <2>2. CASE FailLogout(l)
    BY <2>2, <1>t DEF FailLogout, FailEnd, DropToken, None, playVars
  <2>3. CASE SessionEnding(l) \/ SessionEnded(l)
    BY <2>3 DEF SessionEnding, SessionEnded, EndGetStart, EndGetPlay, EndSetPlay,
       EndWithoutSession, EndDelete, authVars
  <2> QED BY <1>4, <2>1, <2>2, <2>3 DEF LogoutStep
<1>5. ASSUME NEW w \in Workers, Stops(w), LoseCalls(w)
      PROVE  /\ \A k \in Logins : login'[k].pc = "idle" \/ login'[k] = login[k]
             /\ UNCHANGED <<now, token>>
  BY <1>5, NoAuthCall DEF Stops, LoseCalls
<1>6. /\ \A k \in Logins : login'[k].pc # "idle" => login'[k].user # u
      /\ now' = now \/ now' = now + 1
      /\ token'[u] = token[u] \/ token'[u].until = 0
  <2>1. CASE \E s \in Logins, v \in Players : BeginLogin(s, v)
    BY <2>1, <1>1
  <2>2. CASE \E s \in Logins : LoginStep(s) \/ FailLogin(s)
    BY <2>2, <1>2
  <2>3. CASE \E l \in Ends, v \in Players : BeginLogout(l, v)
    BY <2>3, <1>3, <1>o
  <2>4. CASE \E l \in Ends : LogoutStep(l) \/ FailLogout(l)
    BY <2>4, <1>4, <1>o
  <2>5. CASE \E w \in Workers : Stops(w) /\ LoseCalls(w)
    BY <2>5, <1>5, <1>o
  <2>6. CASE Unnoticed
    BY <2>6, <1>o, UnnoticedFrame DEF authVars
  <2> QED BY <2>1, <2>2, <2>3, <2>4, <2>5, <2>6, AuthKinds
<1>7. Gone(u) => Gone(u)'
  <2>1. ASSUME NEW s \in Logins, WriteSession(s), Gone(u) PROVE Gone(u)'
    <3>1. login[s].user # u /\ login[s].user \in Players
      BY <2>1, <1>t, <1>o DEF WriteSession
    <3> QED BY <2>1, <3>1, OthersStart DEF WriteSession
  <2> QED BY <2>1, GoneStays, AuthSteps
<1>8. (LoginsOf(u) = {})'
  BY <1>6 DEF LoginsOf
<1>9. ~Live(token[u]) => ~Live(token[u])'
  BY <1>6, <1>t DEF Live
<1> QED BY <1>7, <1>8, <1>9

\* Where an alone logout, and a loggedOut user, come from.
AloneLogout(l, u) == logout[l].pc # "idle" /\ logout[l].alone /\ logout[l].user = u

LogoutKept(l, u) ==
  AloneLogout(l, u)' =>
    \/ /\ AloneLogout(l, u)
       /\ \A s \in Logins : ~BeginLogin(s, u)
       /\ logout'[l].pc = "deleteToken" => logout[l].pc = "deleteToken" \/ SessionEnded(l)
    \/ BeginLogout(l, u) /\ LoginsOf(u) = {} /\ logout'[l].pc = "endSession"

OutKept(u) ==
  loggedOut'[u] =>
    \/ loggedOut[u] /\ \A s \in Logins : ~BeginLogin(s, u)
    \/ \E l \in Ends : DeleteToken(l) /\ logout[l].alone /\ logout[l].user = u

LEMMA LogoutOrigins ==
  ASSUME AuthInv, [AuthNext]_allVars
  PROVE  /\ \A l \in Ends, u \in Players : LogoutKept(l, u)
         /\ \A u \in Players : OutKept(u)
<1> USE DEF AuthInv
<1> DEFINE Goal == /\ \A l \in Ends, u \in Players : LogoutKept(l, u)
                   /\ \A u \in Players : OutKept(u)
<1> SUFFICES Goal
  OBVIOUS
<1> USE DEF LogoutKept, OutKept, AloneLogout
<1>t. /\ logout \in [Ends -> [pc : LogoutPcs, user : Players, alone : BOOLEAN]]
      /\ loggedOut \in [Players -> BOOLEAN]
  BY DEF AuthTypeOK
<1>b. \A s \in Logins, u \in Players : BeginLogin(s, u) =>
        /\ \A l \in Ends : logout'[l].user = u /\ logout'[l].pc # "idle" => ~logout'[l].alone
        /\ ~loggedOut'[u]
  BY <1>t DEF BeginLogin
<1>q. ASSUME \A l \in Ends : logout'[l].pc = "idle" \/ logout'[l] = logout[l],
             loggedOut' = loggedOut
      PROVE  Goal
  BY <1>b, <1>q
<1>1. ASSUME NEW s \in Logins, NEW v \in Players, BeginLogin(s, v) PROVE Goal
  <2>1. \A l \in Ends : /\ logout'[l].pc = logout[l].pc /\ logout'[l].user = logout[l].user
                        /\ logout'[l].alone => logout[l].alone
    BY <1>1, <1>t DEF BeginLogin
  <2>2. \A u \in Players : loggedOut'[u] => loggedOut[u]
    BY <1>1, <1>t DEF BeginLogin
  <2> QED BY <1>b, <2>1, <2>2
<1>2. ASSUME NEW s \in Logins, LoginStep(s) \/ FailLogin(s) PROVE Goal
  BY <1>2, <1>q, LoginFrame
<1>3. ASSUME NEW l \in Ends, NEW v \in Players, BeginLogout(l, v) PROVE Goal
  <2> DEFINE new == [pc |-> "endSession", user |-> v, alone |-> LoginsOf(v) = {}]
  <2>1. UNCHANGED <<login, loggedOut>> /\ logout' = [logout EXCEPT ![l] = new]
    BY <1>3 DEF BeginLogout
  <2>2. /\ logout'[l].pc = "endSession" /\ logout'[l].user = v
        /\ logout'[l].alone => LoginsOf(v) = {}
        /\ \A k \in Ends : k # l => logout'[k] = logout[k]
    <3>1. new.pc = "endSession" /\ new.user = v /\ (new.alone => LoginsOf(v) = {})
      OBVIOUS
    <3> HIDE DEF new
    <3>2. logout'[l] = new /\ \A k \in Ends : k # l => logout'[k] = logout[k]
      BY <2>1, <1>t
    <3> QED BY <3>1, <3>2
  <2>3. \A s \in Logins, u \in Players : ~BeginLogin(s, u)
    BY <2>1, LoginBegins
  <2> QED BY <1>3, <2>1, <2>2, <2>3
<1>4. ASSUME NEW l \in Ends, SessionEnding(l) PROVE Goal
  BY <1>4, <1>q DEF SessionEnding, authVars
<1>5. ASSUME NEW l \in Ends, SessionEnded(l) PROVE Goal
  <2>1. /\ UNCHANGED <<login, loggedOut>> /\ end[l].pc # "idle"
        /\ logout' = [logout EXCEPT ![l].pc = "deleteToken"]
    BY <1>5 DEF SessionEnded, EndWithoutSession, EndDelete, DeleteStart
  <2>2. /\ logout'[l].user = logout[l].user /\ logout'[l].alone = logout[l].alone
        /\ \A k \in Ends : k # l => logout'[k] = logout[k]
    BY <2>1, <1>t
  <2>3. logout[l].pc # "idle"
    BY <2>1 DEF EndsOfLogouts
  <2>4. \A s \in Logins, u \in Players : ~BeginLogin(s, u)
    BY <2>1, LoginBegins
  <2> QED BY <1>5, <2>1, <2>2, <2>3, <2>4
<1>6. ASSUME NEW l \in Ends, DeleteToken(l) PROVE Goal
  <2>1. /\ UNCHANGED login /\ logout' = [logout EXCEPT ![l] = NoLogout]
        /\ loggedOut' = [loggedOut EXCEPT ![logout[l].user] = @ \/ logout[l].alone]
    BY <1>6 DEF DeleteToken, LogoutAnswered
  <2>2. /\ logout'[l].pc = "idle"
        /\ \A k \in Ends : k # l => logout'[k] = logout[k]
    BY <2>1, <1>t, NoAuthCall
  <2>3. \A u \in Players : loggedOut'[u] =>
          loggedOut[u] \/ (logout[l].alone /\ logout[l].user = u)
    BY <2>1, <1>t
  <2>4. \A s \in Logins, u \in Players : ~BeginLogin(s, u)
    BY <2>1, LoginBegins
  <2> QED BY <1>6, <2>2, <2>3, <2>4
<1>7. ASSUME NEW l \in Ends, FailLogout(l) PROVE Goal
  <2>1. UNCHANGED loggedOut /\ logout' = [logout EXCEPT ![l] = NoLogout]
    BY <1>7 DEF FailLogout
  <2>2. /\ logout'[l].pc = "idle"
        /\ \A k \in Ends : k # l => logout'[k] = logout[k]
    BY <2>1, <1>t, NoAuthCall
  <2> QED BY <2>1, <2>2, <1>q
<1>8. ASSUME NEW w \in Workers, LoseCalls(w) PROVE Goal
  <2>1. \A l \in Ends : logout'[l].pc = "idle" \/ logout'[l] = logout[l]
    BY <1>8, NoAuthCall DEF LoseCalls
  <2> QED BY <1>8, <2>1, <1>q DEF LoseCalls
<1>9. CASE Unnoticed
  BY <1>9, <1>q DEF Unnoticed, authVars
<1> HIDE DEF Goal
<1> QED BY <1>1, <1>2, <1>3, <1>4, <1>5, <1>6, <1>7, <1>8, <1>9, AuthKinds DEF LogoutStep

LEMMA LogoutInvStep ==
  ASSUME LogoutInv, [AuthNext]_allVars PROVE LogoutInv'
<1> USE DEF LogoutInv
<1>1. AuthInv' /\ PlayTimeInv' /\ mixed \subseteq mixed'
  <2>1. [PlayNext]_playVars
    BY AuthPlays DEF AuthInv
  <2> QED BY <2>1, AuthInvStep, PlayTimeStep, MixedGrows DEF AuthInv
<1>2. AloneIsAlone'
  <2> SUFFICES ASSUME NEW l \in Ends, NEW u \in Players, AloneLogout(l, u)'
               PROVE  (LoginsOf(u) = {})'
    BY DEF AloneIsAlone, AloneLogout
  <2>1. LoginsOf(u) = {} /\ \A s \in Logins : ~BeginLogin(s, u)
    <3>1. CASE BeginLogout(l, u) /\ LoginsOf(u) = {}
      <4>1. login' = login
        BY <3>1 DEF BeginLogout
      <4> QED BY <3>1, <4>1, LoginBegins
    <3> QED BY <3>1, LogoutOrigins DEF LogoutKept, AloneLogout, AloneIsAlone
  <2> QED BY <2>1, QuietStays
<1>3. EndedBeforeDelete'
  <2> SUFFICES ASSUME NEW l \in Ends, NEW u \in Players, u \notin mixed',
                      logout'[l].pc = "deleteToken", AloneLogout(l, u)'
               PROVE  Gone(u)'
    BY DEF EndedBeforeDelete, AloneLogout
  <2>0. u \notin mixed
    BY <1>1
  <2>1. /\ AloneLogout(l, u)
        /\ \A s \in Logins : ~BeginLogin(s, u)
        /\ logout[l].pc = "deleteToken" \/ SessionEnded(l)
    BY LogoutOrigins DEF LogoutKept
  <2>2. CASE logout[l].pc = "deleteToken"
    <3>1. LoginsOf(u) = {} /\ Gone(u)
      BY <2>0, <2>1, <2>2 DEF AloneLogout, AloneIsAlone, EndedBeforeDelete
    <3> QED BY <2>1, <3>1, QuietStays
  <2>3. CASE SessionEnded(l)
    <3>1. end[l].user = u
      BY <2>1, <2>3 DEF AloneLogout, AuthInv, EndsOfLogouts, SessionEnded, EndWithoutSession,
         EndDelete, DeleteStart
    <3>2. Lone(u)
      BY <2>0 DEF PlayTimeInv, UserInv
    <3> QED BY <2>3, <3>1, <3>2, EndedIsGone DEF SessionEnded, AuthInv
  <2> QED BY <2>1, <2>2, <2>3
<1>4. OutIsOut'
  <2> SUFFICES ASSUME NEW u \in Players, loggedOut'[u]
               PROVE  /\ (LoginsOf(u) = {})' /\ ~Live(token[u])'
                      /\ u \notin mixed' => Gone(u)'
    BY DEF OutIsOut
  <2>1. CASE loggedOut[u] /\ \A s \in Logins : ~BeginLogin(s, u)
    <3>1. /\ LoginsOf(u) = {} /\ ~Live(token[u])
          /\ u \notin mixed => Gone(u)
      BY <2>1 DEF OutIsOut
    <3> QED BY <1>1, <2>1, <3>1, QuietStays
  <2>2. ASSUME NEW l \in Ends, DeleteToken(l), logout[l].alone, logout[l].user = u
        PROVE  /\ (LoginsOf(u) = {})' /\ ~Live(token[u])'
               /\ u \notin mixed' => Gone(u)'
    <3>1. LoginsOf(u) = {} /\ (u \notin mixed => Gone(u))
      BY <2>2 DEF DeleteToken, DropToken, AloneIsAlone, EndedBeforeDelete
    <3>2. \A s \in Logins : ~BeginLogin(s, u)
      BY <2>2, LoginBegins DEF DeleteToken
    <3>3. token'[u].until = 0 /\ now' \in Nat
      BY <1>1, <2>2 DEF DeleteToken, DropToken, None, AuthInv, AuthTypeOK, PlayTypeOK
    <3>4. ~Live(token[u])'
      BY <3>3 DEF Live
    <3> QED BY <1>1, <3>1, <3>2, <3>4, QuietStays
  <2> QED BY <2>1, <2>2, LogoutOrigins DEF OutKept
<1> QED BY <1>1, <1>2, <1>3, <1>4

(***************************************************************************)
(* An answered logout that no login overlapped leaves neither a token nor  *)
(* a play session until the next login, unless a call looked at the user's *)
(* session start while another one was crediting it: for any number of     *)
(* users and of calls at once, and whatever logins, logouts and updates    *)
(* fail or crash before and after (auth.service.ts:111-115).               *)
(***************************************************************************)
THEOREM LogoutsAreFinal == AuthSpec => []LoggedOutStaysOut
<1>1. AuthInit => LogoutInv
  <2> SUFFICES ASSUME AuthInit PROVE LogoutInv
    OBVIOUS
  <2>1. AuthInv
    BY AuthInvInit DEF TokenInv
  <2>2. PlayTimeInv
    BY PlayTimeInit DEF AuthInit
  <2>3. \A l \in Ends : logout[l].pc = "idle"
    BY NoAuthCall DEF AuthInit
  <2>4. \A u \in Players : ~loggedOut[u]
    BY DEF AuthInit
  <2> QED BY <2>1, <2>2, <2>3, <2>4 DEF LogoutInv, AloneIsAlone, EndedBeforeDelete, OutIsOut
<1>2. LogoutInv /\ [AuthNext]_allVars => LogoutInv'
  BY LogoutInvStep
<1>3. LogoutInv => LoggedOutStaysOut
  BY DEF LogoutInv, OutIsOut, Gone, LoggedOutStaysOut
<1> QED BY <1>1, <1>2, <1>3, PTL DEF AuthSpec
=============================================================================
