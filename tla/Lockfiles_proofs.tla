--------------------------- MODULE Lockfiles_proofs ---------------------------
(***************************************************************************)
(* The two files of memorize whose existence excludes: the lease of a      *)
(* watcher (Watcher), exclusive until a live watcher loses it, for any     *)
(* number of watchers, session starts, failures and kills; and the         *)
(* advisory lock of withFileLock (FileLock), for every number of           *)
(* contenders, every horizon and every length of the bodies.               *)
(***************************************************************************)
EXTENDS Watcher, FileLock, TLAPS


\* Nobody runs at first.
LEMMA InitHolds == Init => WatcherInv
<1> SUFFICES ASSUME Init PROVE WatcherInv
  OBVIOUS
<1> USE WatcherAssumption
<1>1. /\ lock \in File \cup {NoLock}
      /\ pc \in [Watchers -> Points]
      /\ tries \in [Watchers -> 0 .. 2]
      /\ young \in [Watchers -> BOOLEAN]
  BY DEF Init, Points
<1>2. /\ busy \in [Watchers -> 0 .. MaxTick]
      /\ fails \in [Watchers -> 0 .. MaxFailures]
      /\ lost \in [Watchers -> Nat]
  BY DEF Init
<1>3. /\ session \in {"none", "live", "faded"}
      /\ synced \in BOOLEAN
      /\ evicted \in BOOLEAN
  BY DEF Init
<1>5. /\ hooks \in Nat
      /\ starts \in 0 .. MaxStarts /\ kills \in 0 .. MaxKills
  BY DEF Init
<1>4. Counted /\ ExclusiveUntilEvicted
  BY DEF Init, Counted, ExclusiveUntilEvicted, Holding, Acquired
<1> QED BY <1>1, <1>2, <1>3, <1>4, <1>5 DEF WatcherInv, TypeOK

\* What open and renew write is a lockfile, and so is a filled or older one.
LEMMA NewFile ==
  ASSUME NEW w \in Watchers, NEW full \in BOOLEAN
  PROVE  [by |-> w, full |-> full, age |-> 0] \in File
BY DEF File

LEMMA FilledFile ==
  ASSUME NEW f \in File PROVE [f EXCEPT !.full = TRUE] \in File
<1> DEFINE full == TRUE
<1>1. full \in BOOLEAN
  OBVIOUS
<1> HIDE DEF full
<1>2. [f EXCEPT !.full = full] \in File
  BY <1>1 DEF File
<1> QED BY <1>2 DEF full

\* A step of one process keeps the types.
LEMMA StepTypes ==
  ASSUME WatcherInv, NEW w \in Watchers, Spawn(w) \/ Step(w) \/ Kill(w)
  PROVE  TypeOK'
<1> USE WatcherAssumption DEF WatcherInv, TypeOK, Goto, Evicts, Holding,
        Acquired, locals, outside, history
<1>1. CASE Spawn(w)
  BY <1>1 DEF Spawn, Points
<1>2. CASE Create(w)
  <2>1. [by |-> w, full |-> FALSE, age |-> 0] \in File
    BY NewFile
  <2>2. lock' \in File \cup {NoLock}
    BY <1>2, <2>1 DEF Create
  <2> QED BY <1>2, <2>2 DEF Create, Points
<1>3. CASE Fill(w)
  <2>1. lock' \in File \cup {NoLock}
    BY <1>3, FilledFile DEF Fill
  <2>2. /\ pc' \in [Watchers -> Points]
        /\ fails' \in [Watchers -> 0 .. MaxFailures]
    BY <1>3 DEF Fill, Points
  <2>3. young' \in [Watchers -> BOOLEAN] /\ lost' \in [Watchers -> Nat]
    BY <1>3 DEF Fill
  <2> QED BY <1>3, <2>1, <2>2, <2>3 DEF Fill
<1>4. CASE Judge(w)
  BY <1>4 DEF Judge, Points
<1>5. CASE Unlink(w)
  BY <1>5 DEF Unlink, Points, Counted
<1>6. CASE ShouldExit(w)
  BY <1>6 DEF ShouldExit, Points
<1>7. CASE Verify(w)
  BY <1>7 DEF Verify, Points
<1>8. CASE Renew(w)
  BY <1>8 DEF Renew, Points, File
<1>9. CASE TickDone(w)
  BY <1>9 DEF TickDone, Points
<1>10. CASE Throws(w)
  BY <1>10 DEF Throws, Points, Counted
<1>11. CASE Release(w)
  BY <1>11 DEF Release, Points
<1>12. CASE Drop(w)
  BY <1>12 DEF Drop, Points
<1>13. CASE Kill(w)
  BY <1>13 DEF Kill, Points
<1> QED
  BY <1>1, <1>2, <1>3, <1>4, <1>5, <1>6, <1>7, <1>8, <1>9, <1>10, <1>11,
     <1>12, <1>13 DEF Step

\* A step of one process keeps attempts and failures below their limits.
LEMMA StepCounted ==
  ASSUME WatcherInv, NEW w \in Watchers, Spawn(w) \/ Step(w) \/ Kill(w)
  PROVE  Counted'
<1> USE WatcherAssumption DEF WatcherInv, TypeOK, Counted, Goto, locals,
        outside, history
<1>1. CASE Spawn(w)
  BY <1>1 DEF Spawn
<1>2. CASE Create(w) \/ Judge(w) \/ Unlink(w)
  BY <1>2 DEF Create, Judge, Unlink
<1>3. CASE Fill(w)
  BY <1>3 DEF Fill
<1>4. CASE ShouldExit(w) \/ Verify(w) \/ Renew(w)
  BY <1>4 DEF ShouldExit, Verify, Renew
<1>5. CASE TickDone(w) \/ Throws(w)
  BY <1>5 DEF TickDone, Throws
<1>6. CASE Release(w) \/ Drop(w) \/ Kill(w)
  BY <1>6 DEF Release, Drop, Kill
<1> QED BY <1>1, <1>2, <1>3, <1>4, <1>5, <1>6 DEF Step

\* A step of one process makes a second holder only by evicting the first.
LEMMA StepExclusive ==
  ASSUME WatcherInv, NEW w \in Watchers, Spawn(w) \/ Step(w) \/ Kill(w)
  PROVE  ExclusiveUntilEvicted'
<1> SUFFICES ASSUME ~ evicted',
                    NEW v \in Watchers, Holding(v)'
             PROVE  /\ (lock # NoLock /\ lock.by = v)'
                    /\ \A u \in Watchers : Holding(u)' => v = u
  BY DEF ExclusiveUntilEvicted
<1> USE WatcherAssumption DEF WatcherInv, TypeOK, Goto, locals, outside,
        history
<1>1. ~ evicted
  BY DEF Step, Spawn, Create, Fill, Judge, Unlink, ShouldExit, Verify, Renew,
         TickDone, Throws, Release, Drop, Kill, Evicts
<1>2. \A u \in Watchers :
        Holding(u) => /\ lock # NoLock /\ lock.by = u
                      /\ \A x \in Watchers : Holding(x) => u = x
  BY <1>1 DEF ExclusiveUntilEvicted
<1>3. CASE Spawn(w) \/ Judge(w) \/ ShouldExit(w) \/ Verify(w) \/ TickDone(w)
           \/ Throws(w) \/ Release(w) \/ Kill(w)
  <2>1. lock' = lock
    BY <1>3 DEF Spawn, Judge, ShouldExit, Verify, TickDone, Throws, Release,
                Kill
  <2>2. \A u \in Watchers : Holding(u)' => Holding(u)
    BY <1>3 DEF Spawn, Judge, ShouldExit, Verify, TickDone, Throws, Release,
                Kill, Holding, Acquired
  <2> QED BY <1>2, <2>1, <2>2
<1>4. CASE Create(w)
  <2>1. CASE lock = NoLock
    <3>1. \A u \in Watchers : ~ Holding(u)
      BY <1>2, <2>1
    <3>2. \A u \in Watchers : Holding(u)' => u = w
      BY <1>4, <2>1, <3>1 DEF Create, Holding, Acquired
    <3>3. lock' = [by |-> w, full |-> FALSE, age |-> 0]
      BY <1>4, <2>1 DEF Create
    <3>4. lock' # NoLock /\ lock'.by = w
      BY <3>3, NewFile, WatcherAssumption
    <3> QED BY <3>2, <3>4
  <2>2. CASE lock # NoLock
    BY <1>2, <1>4, <2>2 DEF Create, Holding, Acquired
  <2> QED BY <2>1, <2>2
<1>5. CASE Fill(w)
  BY <1>2, <1>5 DEF Fill, Holding, Acquired, File
<1>6. CASE Unlink(w)
  BY <1>2, <1>6 DEF Unlink, Evicts, Holding, Acquired
<1>7. CASE Renew(w)
  <2>1. Holding(w)
    BY <1>7 DEF Renew, Holding, Acquired
  <2>2. lock' = [by |-> w, full |-> TRUE, age |-> 0]
    BY <1>7 DEF Renew
  <2>3. lock' # NoLock /\ lock'.by = w
    BY <2>2, NewFile, WatcherAssumption
  <2>4. \A u \in Watchers : Holding(u)' => Holding(u)
    BY <1>7 DEF Renew, Holding, Acquired
  <2> QED BY <1>2, <2>1, <2>3, <2>4
<1>8. CASE Drop(w)
  BY <1>2, <1>8 DEF Drop, Evicts, Holding, Acquired
<1> QED BY <1>3, <1>4, <1>5, <1>6, <1>7, <1>8 DEF Step

\* Sessions and the user disturb nothing of it.
LEMMA OutsideStep ==
  ASSUME WatcherInv,
         StartSession \/ SessionFades \/ Reap \/ Unconfigure
  PROVE  WatcherInv'
<1> USE WatcherAssumption DEF WatcherInv, TypeOK, locals, history
<1>1. TypeOK'
  <2>1. CASE StartSession \/ SessionFades \/ Reap
    BY <2>1 DEF StartSession, SessionFades, Reap
  <2>2. CASE Unconfigure
    <3>1. synced' \in BOOLEAN
      BY <2>2 DEF Unconfigure
    <3> QED BY <2>2, <3>1 DEF Unconfigure
  <2> QED BY <2>1, <2>2
<1>2. (Counted /\ ExclusiveUntilEvicted)'
  BY DEF StartSession, SessionFades, Reap, Unconfigure, Counted,
         ExclusiveUntilEvicted, Holding, Acquired
<1> QED BY <1>1, <1>2

\* Time disturbs nothing of it.
LEMMA PollStep ==
  ASSUME WatcherInv, Poll
  PROVE  WatcherInv'
<1> USE WatcherAssumption DEF WatcherInv, TypeOK, Poll, outside
<1>1. /\ lock' \in File \cup {NoLock}
      /\ lock # NoLock => lock' # NoLock /\ lock'.by = lock.by
  BY DEF File
<1>2. /\ pc' \in [Watchers -> Points]
      /\ busy' \in [Watchers -> 0 .. MaxTick]
  BY DEF Points
<1>3. young' \in [Watchers -> BOOLEAN]
  OBVIOUS
<1>4. lost' \in [Watchers -> Nat]
  BY DEF Acquired, NamedBy
<1>5. TypeOK'
  BY <1>1, <1>2, <1>3, <1>4
<1>6. Counted'
  BY DEF Counted
<1>7. \A u \in Watchers : Holding(u)' => Holding(u)
  BY DEF Holding, Acquired
<1>8. ExclusiveUntilEvicted'
  BY <1>1, <1>7 DEF ExclusiveUntilEvicted
<1> QED BY <1>5, <1>6, <1>8

\* Every step preserves the invariant.
LEMMA InvPreserved == WatcherInv /\ [Next]_vars => WatcherInv'
<1> SUFFICES ASSUME WatcherInv, [Next]_vars PROVE WatcherInv'
  OBVIOUS
<1>1. CASE StartSession \/ SessionFades \/ Reap \/ Unconfigure
  BY <1>1, OutsideStep
<1>2. ASSUME NEW w \in Watchers, Spawn(w) \/ Step(w) \/ Kill(w)
      PROVE  WatcherInv'
  BY <1>2, StepTypes, StepCounted, StepExclusive DEF WatcherInv
<1>3. CASE Poll
  BY <1>3, PollStep
<1>4. CASE UNCHANGED vars
  BY <1>4 DEF vars, locals, outside, history, WatcherInv, TypeOK, Counted,
              ExclusiveUntilEvicted, Holding, Acquired
<1> QED BY <1>1, <1>2, <1>3, <1>4 DEF Next

\* As long as no live watcher has lost its lockfile to another, at most one
\* process is past acquireWatcherLock and the lockfile is its own; no process
\* makes a third attempt and no loop survives MaxFailures failures in a row.
THEOREM WatcherExclusive == Spec => []WatcherInv
<1>1. Init => WatcherInv
  BY InitHolds
<1>2. WatcherInv /\ [Next]_vars => WatcherInv'
  BY InvPreserved
<1> QED BY <1>1, <1>2, PTL DEF Spec

-----------------------------------------------------------------------------
(* A watcher that lost its lockfile *)

\* How far a watcher that no longer owns the lockfile has come: it cannot take
\* the file back, the tick it is in lasts so many intervals, and every sleep
\* after that costs it a failure.
LostFrom ==
  \A w \in Watchers :
    /\ lock # NoLock /\ lock.by = w /\ ~ lock.full => pc[w] \in {"fill", "killed"}
    /\ Acquired(w) /\ lost[w] > 0 => lock = NoLock \/ lock.by # w
    /\ pc[w] = "renew" => lost[w] = 0
    /\ pc[w] = "tick" => lost[w] <= busy[w]
    /\ pc[w] = "sleep" => lost[w] <= MaxTick + fails[w]
    /\ pc[w] \in {"loop", "verify"} => lost[w] <= MaxTick + fails[w] + 1

LostInv == LostFrom /\ LostBounded

\* A step of one process
LEMMA StepLost ==
  ASSUME WatcherInv, LostInv, NEW w \in Watchers, Spawn(w) \/ Step(w) \/ Kill(w)
  PROVE  LostInv'
<1> USE WatcherAssumption DEF WatcherInv, TypeOK, LostInv, LostFrom, LostBounded,
        Goto, locals, outside, history
<1>0. /\ \A v \in Watchers : lost[v] \in Nat /\ fails[v] \in Nat /\ busy[v] \in 0 .. MaxTick
      /\ lock # NoLock => lock \in File
  OBVIOUS
<1>1. CASE Spawn(w)
  BY <1>0, <1>1 DEF Spawn, Acquired
<1>2. CASE Create(w)
  <2>1. CASE lock = NoLock
    <3>1. lock' = [by |-> w, full |-> FALSE, age |-> 0]
      BY <1>2, <2>1 DEF Create
    <3>2. lock'.by = w /\ ~ lock'.full
      BY <3>1
    <3> QED BY <1>2, <2>1, <3>2 DEF Create, Acquired
  <2>2. CASE lock # NoLock
    BY <1>0, <1>2, <2>2 DEF Create, Acquired
  <2> QED BY <2>1, <2>2
<1>3. CASE Fill(w)
  <2>1. lock' = lock \/ (lock # NoLock /\ lock.by = w /\ lock' = [lock EXCEPT !.full = TRUE])
    BY <1>3 DEF Fill
  <2>2. /\ lock' # NoLock => lock # NoLock /\ lock'.by = lock.by
        /\ lock' # NoLock /\ ~ lock'.full => ~ lock.full
        /\ lock' # NoLock /\ lock'.by = w => lock'.full
    BY <1>3 DEF Fill, File
  <2>3. lost' = [lost EXCEPT ![w] = 0] /\ pc' = [pc EXCEPT ![w] = "loop"]
        /\ fails' = [fails EXCEPT ![w] = 0] /\ busy' = busy
    BY <1>3 DEF Fill
  <2> QED BY <1>0, <2>2, <2>3 DEF Acquired
<1>4. CASE Judge(w)
  BY <1>0, <1>4 DEF Judge, Acquired
<1>5. CASE Unlink(w)
  BY <1>0, <1>5 DEF Unlink, Acquired
<1>6. CASE ShouldExit(w)
  BY <1>0, <1>6 DEF ShouldExit, Acquired
<1>7. CASE Verify(w)
  BY <1>0, <1>7 DEF Verify, Acquired, NamedBy
<1>8. CASE Renew(w)
  <2>1. lock' = [by |-> w, full |-> TRUE, age |-> 0]
    BY <1>8 DEF Renew
  <2>2. lock'.by = w /\ lock'.full
    BY <2>1
  <2> QED BY <1>0, <1>8, <2>2 DEF Renew, Acquired
<1>9. CASE TickDone(w)
  BY <1>0, <1>9 DEF TickDone, Acquired
<1>10. CASE Throws(w)
  BY <1>0, <1>10 DEF Throws, Acquired
<1>11. CASE Release(w)
  BY <1>0, <1>11 DEF Release, Acquired
<1>12. CASE Drop(w)
  BY <1>0, <1>12 DEF Drop, Acquired
<1>13. CASE Kill(w)
  BY <1>0, <1>13 DEF Kill, Acquired
<1> QED
  BY <1>1, <1>2, <1>3, <1>4, <1>5, <1>6, <1>7, <1>8, <1>9, <1>10, <1>11,
     <1>12, <1>13 DEF Step

\* An interval passes: only a tick within its length and a sleeper run on.
LEMMA PollLost ==
  ASSUME WatcherInv, LostInv, Poll
  PROVE  LostInv'
<1> USE WatcherAssumption DEF WatcherInv, TypeOK, LostInv, LostFrom, LostBounded
<1>1. /\ lock' # NoLock => /\ lock # NoLock /\ lock'.by = lock.by
                          /\ lock'.full = lock.full
      /\ lock # NoLock => lock' # NoLock
  <2>1. CASE lock = NoLock
    BY <2>1 DEF Poll
  <2>2. CASE lock # NoLock
    <3>1. lock' = [lock EXCEPT !.age = IF lock.age = 3 THEN 3 ELSE lock.age + 1]
      BY <2>2 DEF Poll
    <3>2. lock \in File
      BY <2>2
    <3>3. lock' \in File /\ lock'.by = lock.by /\ lock'.full = lock.full
      BY <3>1, <3>2 DEF File
    <3> QED BY <2>2, <3>3
  <2> QED BY <2>1, <2>2
<1> SUFFICES ASSUME NEW w \in Watchers
             PROVE  /\ lock' # NoLock /\ lock'.by = w /\ ~ lock'.full
                         => pc'[w] \in {"fill", "killed"}
                    /\ Acquired(w)' /\ lost'[w] > 0 => lock' = NoLock \/ lock'.by # w
                    /\ pc'[w] = "renew" => lost'[w] = 0
                    /\ pc'[w] = "tick" => lost'[w] <= busy'[w]
                    /\ pc'[w] = "sleep" => lost'[w] <= MaxTick + fails'[w]
                    /\ pc'[w] \in {"loop", "verify"} => lost'[w] <= MaxTick + fails'[w] + 1
                    /\ lost'[w] <= MaxTick + MaxFailures
  OBVIOUS
<1>2. /\ pc[w] \in {"off", "killed", "sleep"} \/ (pc[w] = "tick" /\ busy[w] < MaxTick)
      /\ pc'[w] = IF pc[w] = "sleep" THEN "loop" ELSE pc[w]
      /\ busy'[w] = IF pc[w] = "tick" THEN busy[w] + 1 ELSE 0
      /\ lost'[w] = IF Acquired(w) /\ ~ NamedBy(w) THEN lost[w] + 1 ELSE 0
      /\ fails' = fails
      /\ lost[w] \in Nat /\ fails[w] \in Nat /\ busy[w] \in Nat
  BY DEF Poll
<1>3. pc[w] = "sleep" => fails[w] < MaxFailures
  BY DEF Counted
<1>4. CASE pc[w] \in {"off", "killed"}
  BY <1>1, <1>2, <1>4 DEF Acquired
<1>5. CASE pc[w] = "tick" \/ pc[w] = "sleep"
  <2>1. lock # NoLock /\ lock.by = w => lock.full
    BY <1>5
  <2>2. lost'[w] > 0 => lock = NoLock \/ lock.by # w
    BY <1>2, <2>1 DEF NamedBy
  <2> QED BY <1>1, <1>2, <1>3, <1>5, <2>1, <2>2
<1> QED BY <1>2, <1>4, <1>5

\* A watcher that lost its lockfile runs through the tick it is in, and then
\* one interval for every iteration that throws before the renewal finds out.
THEOREM LostEnds == Spec => []LostBounded
<1>1. Init => LostInv
  BY WatcherAssumption DEF Init, LostInv, LostFrom, LostBounded, Acquired
<1>2. ASSUME WatcherInv, LostInv, [Next]_vars PROVE LostInv'
  <2>1. CASE StartSession \/ SessionFades \/ Reap \/ Unconfigure
    BY <1>2, <2>1 DEF StartSession, SessionFades, Reap, Unconfigure, LostInv, LostFrom,
       LostBounded, Acquired, locals, history
  <2>2. ASSUME NEW w \in Watchers, Spawn(w) \/ Step(w) \/ Kill(w)
        PROVE  LostInv'
    BY <1>2, <2>2, StepLost
  <2>3. CASE Poll
    BY <1>2, <2>3, PollLost
  <2>4. CASE UNCHANGED vars
    BY <1>2, <2>4 DEF vars, locals, outside, history, LostInv, LostFrom, LostBounded,
       Acquired
  <2> QED BY <1>2, <2>1, <2>2, <2>3, <2>4 DEF Next
<1>3. LostInv => LostBounded
  BY DEF LostInv
<1> QED BY <1>1, <1>2, <1>3, WatcherExclusive, PTL DEF Spec

-----------------------------------------------------------------------------
(* The advisory lock. *)

LEMMA LockStarts == LockInit => LockInv
<1> SUFFICES ASSUME LockInit PROVE LockInv
  OBVIOUS
<1>1. LockTypeOK
  <2>1. 0 \in 0 .. MaxBody /\ 0 \in 0 .. MaxCalls
    BY FileLockAssumption
  <2>2. held \in [Procs -> 0 .. MaxBody] /\ calls \in [Procs -> 0 .. MaxCalls]
    BY <2>1 DEF LockInit
  <2>3. /\ file \in Procs \cup {NoProc} /\ phase \in [Procs -> Phases]
        /\ wait \in [Procs -> Nat]
    BY DEF LockInit, Phases
  <2>4. reclaims \in BOOLEAN
    BY DEF LockInit
  <2> QED
    BY <2>2, <2>3, <2>4 DEF LockTypeOK
<1>2. ExclusiveUntilReclaim /\ BoundedWait
  BY FileLockAssumption DEF LockInit, ExclusiveUntilReclaim, BoundedWait, Holds
<1> QED
  BY <1>1, <1>2 DEF LockInv

LEMMA LockTypes == LockInv /\ [LockNext]_lockVars => LockTypeOK'
<1> SUFFICES ASSUME LockInv, [LockNext]_lockVars PROVE LockTypeOK'
  OBVIOUS
<1> USE FileLockAssumption DEF LockInv, LockTypeOK, Phases
<1>1. ASSUME NEW p \in Procs, Call(p) PROVE LockTypeOK'
  BY <1>1 DEF Call, Proceed
<1>2. ASSUME NEW p \in Procs, TryCreate(p) PROVE LockTypeOK'
  BY <1>2 DEF TryCreate, Enter, Stay, Proceed
<1>3. ASSUME NEW p \in Procs, Reclaim(p) PROVE LockTypeOK'
  BY <1>3 DEF Reclaim, Proceed
<1>4. ASSUME NEW p \in Procs, Recreate(p) PROVE LockTypeOK'
  BY <1>4 DEF Recreate, Enter, Stay, Proceed
<1>5. ASSUME NEW p \in Procs, Leave(p) PROVE LockTypeOK'
  BY <1>5 DEF Leave, Proceed
<1>6. ASSUME NEW p \in Procs, LetGo(p) PROVE LockTypeOK'
  BY <1>6 DEF LetGo, Proceed
<1>7. ASSUME NEW p \in Procs, Crash(p) PROVE LockTypeOK'
  BY <1>7 DEF Crash, Proceed
<1>8. CASE Tick
  BY <1>8 DEF Tick
<1>9. CASE UNCHANGED lockVars
  BY <1>9 DEF lockVars
<1> QED
  BY <1>1, <1>2, <1>3, <1>4, <1>5, <1>6, <1>7, <1>8, <1>9 DEF LockNext, Advance

\* A file nobody holds can be created; a file somebody holds can only be
\* taken from him by a reclaim, which the invariant does not survive.
LEMMA LockExcludes == LockInv /\ [LockNext]_lockVars => ExclusiveUntilReclaim'
<1> SUFFICES ASSUME LockInv, [LockNext]_lockVars PROVE ExclusiveUntilReclaim'
  OBVIOUS
<1> USE FileLockAssumption
    DEF LockInv, LockTypeOK, ExclusiveUntilReclaim, Holds
<1>1. ASSUME NEW p \in Procs, Call(p) PROVE ExclusiveUntilReclaim'
  BY <1>1 DEF Call, Proceed
<1>2. ASSUME NEW p \in Procs, TryCreate(p) PROVE ExclusiveUntilReclaim'
  BY <1>2 DEF TryCreate, Enter, Stay, Proceed
<1>3. ASSUME NEW p \in Procs, Reclaim(p) PROVE ExclusiveUntilReclaim'
  BY <1>3 DEF Reclaim, Proceed
<1>4. ASSUME NEW p \in Procs, Recreate(p) PROVE ExclusiveUntilReclaim'
  BY <1>4 DEF Recreate, Enter, Stay, Proceed
<1>5. ASSUME NEW p \in Procs, Leave(p) PROVE ExclusiveUntilReclaim'
  BY <1>5 DEF Leave, Proceed
<1>6. ASSUME NEW p \in Procs, LetGo(p) PROVE ExclusiveUntilReclaim'
  BY <1>6 DEF LetGo, Proceed
<1>7. ASSUME NEW p \in Procs, Crash(p) PROVE ExclusiveUntilReclaim'
  BY <1>7 DEF Crash, Proceed
<1>8. CASE Tick
  BY <1>8 DEF Tick
<1>9. CASE UNCHANGED lockVars
  BY <1>9 DEF lockVars
<1> QED
  BY <1>1, <1>2, <1>3, <1>4, <1>5, <1>6, <1>7, <1>8, <1>9 DEF LockNext, Advance

\* Only a tick lengthens a wait, and only of those who slept in time.
LEMMA WaitBounded == LockInv /\ [LockNext]_lockVars => BoundedWait'
<1> SUFFICES ASSUME LockInv, [LockNext]_lockVars PROVE BoundedWait'
  OBVIOUS
<1> USE FileLockAssumption DEF LockInv, LockTypeOK, BoundedWait
<1>1. CASE Tick
  BY <1>1 DEF Tick
<1>2. ASSUME NEW p \in Procs, TryCreate(p) PROVE BoundedWait'
  BY <1>2 DEF TryCreate, Enter, Stay, Proceed
<1>3. ASSUME NEW p \in Procs, Recreate(p) PROVE BoundedWait'
  BY <1>3 DEF Recreate, Enter, Stay, Proceed
<1>4. ASSUME NEW p \in Procs,
             Call(p) \/ Reclaim(p) \/ Leave(p) \/ LetGo(p) \/ Crash(p)
      PROVE  BoundedWait'
  BY <1>4 DEF Call, Reclaim, Leave, LetGo, Crash, Proceed
<1>5. CASE UNCHANGED lockVars
  BY <1>5 DEF lockVars
<1> QED
  BY <1>1, <1>2, <1>3, <1>4, <1>5 DEF LockNext, Advance

\* Until a lockfile is taken from its owner, withFileLock is a mutual
\* exclusion and the lockfile names the process inside; and no call outlives
\* twice the horizon outside the body.
THEOREM LockExclusive == LockSpec => []LockInv
  BY LockStarts, LockTypes, LockExcludes, WaitBounded, PTL DEF LockSpec, LockInv
=============================================================================
