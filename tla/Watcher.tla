-------------------------------- MODULE Watcher --------------------------------
(***************************************************************************)
(* services/watcher-service.ts and cli/commands/watcher.ts: the detached   *)
(* process SessionStart spawns to give sync a cadence within a session.    *)
(* At most one per project is meant to run; a lockfile with a lease says   *)
(* which.                                                                  *)
(*                                                                         *)
(* Time is discrete, one unit is one poll interval.  System calls happen   *)
(* within a unit; only a tick's network calls and the sleep between two    *)
(* iterations take any time.  Creating the lockfile and writing its body   *)
(* are two system calls, and so are the read and the write of a renewal    *)
(* and the read and the unlink of a release.                               *)
(***************************************************************************)
EXTENDS Naturals

CONSTANTS
  Watchers,      \* processes that may run `memorize watcher run`
  NoLock,        \* there is no lockfile
  MaxFailures,   \* MAX_CONSECUTIVE_TICK_FAILURES
  MaxTick,       \* bound: the longest tick, in poll intervals
  MaxStarts,     \* bound: session starts
  MaxKills       \* bound: watchers killed

\* by wrote it; its body is there; age of the lease, 3 standing for more.
File == [by : Watchers, full : BOOLEAN, age : 0 .. 3]

ASSUME WatcherAssumption ==
  /\ NoLock \notin File
  /\ MaxFailures \in Nat \ {0}
  /\ MaxTick \in Nat /\ MaxStarts \in Nat /\ MaxKills \in Nat

VARIABLES
  lock,          \* watcher.lock
  pc,            \* where each process is
  tries,         \* attempts of acquireWatcherLock so far
  young,         \* the startup grace has not run out
  busy,          \* intervals spent in this tick
  fails,         \* consecutiveFailures
  session,       \* what the cwd's session pointers say
  hooks,         \* SessionStart hooks that have yet to spawn
  synced,        \* sync is configured
  starts, kills,
  evicted,       \* history: a live watcher lost its lockfile to another
  lost           \* history: intervals run, since the lockfile was taken, while
                 \* it names another

locals == <<tries, young, busy, fails>>
outside == <<session, hooks, synced, starts, kills>>
history == <<evicted, lost>>
vars == <<lock, pc, locals, outside, history>>

Points == {"off", "create", "fill", "judge", "unlink", "loop", "verify",
           "renew", "tick", "sleep", "release", "drop", "killed"}

Init ==
  /\ lock = NoLock
  /\ pc = [w \in Watchers |-> "off"]
  /\ tries = [w \in Watchers |-> 0]
  /\ young = [w \in Watchers |-> FALSE]
  /\ busy = [w \in Watchers |-> 0]
  /\ fails = [w \in Watchers |-> 0]
  /\ session = "none"
  /\ hooks = 0
  /\ synced = TRUE
  /\ starts = 0 /\ kills = 0
  /\ evicted = FALSE
  /\ lost = [w \in Watchers |-> 0]

\* acquireWatcherLock answered true, and the process has not ended.
Acquired(w) == pc[w] \in {"loop", "verify", "renew", "tick", "sleep",
                          "release", "drop"}

Holding(w) == pc[w] = "fill" \/ Acquired(w)

Alive(w) == pc[w] \notin {"off", "killed"}

NamedBy(w) == lock # NoLock /\ lock.full /\ lock.by = w

\* A reader may take the holder for gone: no file, no body yet, a lease
\* older than two intervals, or a pid that is not alive ...
MayBeStale ==
  lock # NoLock => ~ lock.full \/ lock.age >= 2 \/ ~ Alive(lock.by)

\* ... or for there: within its lease, and the pid is alive, if only because
\* another process has it now.
MayBeLive == lock # NoLock /\ lock.full /\ lock.age <= 2

Goto(w, point) == pc' = [pc EXCEPT ![w] = point]

\* w replaces or removes the lockfile of a live watcher.
Evicts(w) ==
  evicted' = (evicted \/ (lock # NoLock /\ lock.by # w /\ Holding(lock.by)))

-----------------------------------------------------------------------------
(* Sessions and the user *)

\* The SessionStart hook has written its pointer and will spawn.
StartSession ==
  /\ starts < MaxStarts
  /\ starts' = starts + 1
  /\ session' = "live"
  /\ hooks' = hooks + 1
  /\ UNCHANGED <<lock, pc, locals, synced, kills, history>>

\* No pointer anchors any more: paused, ended or without a heartbeat.
SessionFades ==
  /\ session = "live"
  /\ session' = "faded"
  /\ UNCHANGED <<lock, pc, locals, hooks, synced, starts, kills, history>>

\* reap removes the pointers.
Reap ==
  /\ session = "faded"
  /\ session' = "none"
  /\ UNCHANGED <<lock, pc, locals, hooks, synced, starts, kills, history>>

Unconfigure ==
  /\ synced
  /\ synced' = FALSE
  /\ UNCHANGED <<lock, pc, locals, session, hooks, starts, kills, history>>

\* spawnDetachedWatcher: the fast path, then a child.
Spawn(w) ==
  /\ hooks > 0
  /\ hooks' = hooks - 1
  /\ pc[w] = "off"
  /\ \/ (MayBeLive \/ ~ synced) /\ UNCHANGED <<pc, tries>>
     \/ MayBeStale /\ synced /\ Goto(w, "create")
        /\ tries' = [tries EXCEPT ![w] = 0]
  /\ UNCHANGED <<lock, young, busy, fails, session, synced, starts, kills,
                 history>>

-----------------------------------------------------------------------------
(* acquireWatcherLock *)

\* Mutation: the lockfile is created without `wx`.
Create_NotExclusive(w) ==
  /\ pc[w] = "create"
  /\ lock' = [by |-> w, full |-> FALSE, age |-> 0]
  /\ Goto(w, "fill")
  /\ UNCHANGED <<locals, outside, history>>

\* open with O_EXCL.
Create(w) ==
  /\ pc[w] = "create"
  /\ IF lock = NoLock
       THEN /\ lock' = [by |-> w, full |-> FALSE, age |-> 0]
            /\ Goto(w, "fill")
       ELSE Goto(w, "judge") /\ UNCHANGED lock
  /\ UNCHANGED <<locals, outside, history>>

\* write: the body lands in the file that was opened, which may be unlinked.
Fill(w) ==
  /\ pc[w] = "fill"
  /\ lock' = IF lock # NoLock /\ lock.by = w
               THEN [lock EXCEPT !.full = TRUE] ELSE lock
  /\ Goto(w, "loop")
  /\ young' = [young EXCEPT ![w] = TRUE]
  /\ fails' = [fails EXCEPT ![w] = 0]
  /\ lost' = [lost EXCEPT ![w] = 0]
  /\ UNCHANGED <<tries, busy, outside, evicted>>

Judge(w) ==
  /\ pc[w] = "judge"
  /\ \/ MayBeStale /\ Goto(w, "unlink")
     \/ MayBeLive /\ Goto(w, "off")
  /\ UNCHANGED <<lock, locals, outside, history>>

\* Whatever file is there now; then one more attempt.
Unlink(w) ==
  /\ pc[w] = "unlink"
  /\ lock' = NoLock
  /\ Evicts(w)
  /\ tries' = [tries EXCEPT ![w] = @ + 1]
  /\ Goto(w, IF tries[w] = 0 THEN "create" ELSE "off")
  /\ UNCHANGED <<young, busy, fails, outside, lost>>

-----------------------------------------------------------------------------
(* runWatcherLoop *)

\* Mutation: a cwd without pointers is always within the startup grace.
ShouldExit_Grace(w) ==
  /\ pc[w] = "loop"
  /\ Goto(w, IF session = "faded" THEN "release" ELSE "verify")
  /\ UNCHANGED <<lock, locals, outside, history>>

\* watcherShouldExit; the grace is for a cwd that has no pointer at all.
ShouldExit(w) ==
  /\ pc[w] = "loop"
  /\ Goto(w, IF session = "live" \/ (session = "none" /\ young[w])
               THEN "verify" ELSE "release")
  /\ UNCHANGED <<lock, locals, outside, history>>

\* Mutation: any lockfile will do, whoever it names.
Verify_AnyHolder(w) ==
  /\ pc[w] = "verify"
  /\ Goto(w, IF lock # NoLock THEN "renew" ELSE "release")
  /\ UNCHANGED <<lock, locals, outside, history>>

\* renewWatcherLock reads the lockfile ...
Verify(w) ==
  /\ pc[w] = "verify"
  /\ Goto(w, IF NamedBy(w) THEN "renew" ELSE "release")
  /\ UNCHANGED <<lock, locals, outside, history>>

\* ... and replaces it.
Renew(w) ==
  /\ pc[w] = "renew"
  /\ lock' = [by |-> w, full |-> TRUE, age |-> 0]
  /\ Evicts(w)
  /\ Goto(w, "tick")
  /\ busy' = [busy EXCEPT ![w] = 0]
  /\ UNCHANGED <<tries, young, fails, outside, lost>>

\* watcherTick returns (SyncService models what it pulls and pushes).
TickDone(w) ==
  /\ pc[w] = "tick"
  /\ fails' = [fails EXCEPT ![w] = 0]
  /\ busy' = [busy EXCEPT ![w] = 0]
  /\ Goto(w, IF synced THEN "sleep" ELSE "release")
  /\ UNCHANGED <<lock, tries, young, outside, history>>

\* Any of the three throws; only sustained failure ends the loop.
Throws(w) ==
  /\ pc[w] \in {"loop", "verify", "renew", "tick"}
  /\ fails' = [fails EXCEPT ![w] = @ + 1]
  /\ busy' = [busy EXCEPT ![w] = 0]
  /\ Goto(w, IF fails[w] + 1 >= MaxFailures THEN "release" ELSE "sleep")
  /\ UNCHANGED <<lock, tries, young, outside, history>>

-----------------------------------------------------------------------------
(* releaseWatcherLock reads the lockfile and unlinks it if it is its own *)

Release(w) ==
  /\ pc[w] = "release"
  /\ Goto(w, IF NamedBy(w) THEN "drop" ELSE "off")
  /\ UNCHANGED <<lock, locals, outside, history>>

Drop(w) ==
  /\ pc[w] = "drop"
  /\ lock' = NoLock
  /\ Evicts(w)
  /\ Goto(w, "off")
  /\ UNCHANGED <<locals, outside, lost>>

-----------------------------------------------------------------------------
Kill(w) ==
  /\ Alive(w)
  /\ kills < MaxKills
  /\ kills' = kills + 1
  /\ Goto(w, "killed")
  /\ UNCHANGED <<lock, locals, session, hooks, synced, starts, history>>

\* A poll interval passes: sleepers wake, leases and graces age.
Poll ==
  /\ hooks = 0
  /\ \A w \in Watchers :
       \/ pc[w] \in {"off", "killed", "sleep"}
       \/ pc[w] = "tick" /\ busy[w] < MaxTick
  /\ \E w \in Watchers : Acquired(w)
  /\ pc' = [w \in Watchers |-> IF pc[w] = "sleep" THEN "loop" ELSE pc[w]]
  /\ busy' = [w \in Watchers |-> IF pc[w] = "tick" THEN busy[w] + 1 ELSE 0]
  /\ young' = [w \in Watchers |-> FALSE]
  /\ lock' = IF lock = NoLock THEN NoLock
             ELSE [lock EXCEPT !.age = IF @ = 3 THEN 3 ELSE @ + 1]
  /\ lost' = [w \in Watchers |->
                IF Acquired(w) /\ ~ NamedBy(w) THEN lost[w] + 1 ELSE 0]
  /\ UNCHANGED <<tries, fails, outside, evicted>>

Step(w) ==
  \/ Create(w) \/ Fill(w) \/ Judge(w) \/ Unlink(w)
  \/ ShouldExit(w) \/ Verify(w) \/ Renew(w) \/ TickDone(w) \/ Throws(w)
  \/ Release(w) \/ Drop(w)

Next ==
  \/ StartSession \/ SessionFades \/ Reap \/ Unconfigure
  \/ \E w \in Watchers : Spawn(w) \/ Step(w) \/ Kill(w)
  \/ Poll

Spec == Init /\ [][Next]_vars

\* A running process, a hook among them, keeps running and time passes.
Fairness ==
  /\ WF_vars(Poll)
  /\ WF_vars(\E w \in Watchers : Spawn(w))
  /\ \A w \in Watchers : WF_vars(Step(w))

FairSpec == Spec /\ Fairness
-----------------------------------------------------------------------------
(* Properties *)

TypeOK ==
  /\ lock \in File \cup {NoLock}
  /\ pc \in [Watchers -> Points]
  /\ tries \in [Watchers -> 0 .. 2]
  /\ young \in [Watchers -> BOOLEAN]
  /\ busy \in [Watchers -> 0 .. MaxTick]
  /\ fails \in [Watchers -> 0 .. MaxFailures]
  /\ session \in {"none", "live", "faded"}
  /\ hooks \in Nat
  /\ synced \in BOOLEAN
  /\ starts \in 0 .. MaxStarts /\ kills \in 0 .. MaxKills
  /\ evicted \in BOOLEAN
  /\ lost \in [Watchers -> Nat]

\* As long as no live watcher has lost its lockfile to another, there is at
\* most one, and the lockfile is its own.
ExclusiveUntilEvicted ==
  ~ evicted =>
    \A v \in Watchers : Holding(v) =>
      /\ lock # NoLock /\ lock.by = v
      /\ \A w \in Watchers : Holding(w) => v = w

\* The second attempt is the last, and so is the MaxFailures-th failure.
Counted ==
  \A w \in Watchers :
    /\ pc[w] \in {"create", "judge", "unlink"} => tries[w] <= 1
    /\ pc[w] \in {"loop", "verify", "renew", "tick", "sleep"} =>
         fails[w] < MaxFailures

\* The inductive invariant.
WatcherInv == TypeOK /\ Counted /\ ExclusiveUntilEvicted

\* A watcher that no longer owns the lockfile ends at its next renewal
\* ("Self-heals a double-acquire within one tick"): after the tick it is in,
\* a sleep, and the iterations that threw before they came to the renewal.
LostBounded ==
  \A w \in Watchers : lost[w] <= MaxTick + MaxFailures

\* "The loop exits on its own": once no session is left, so is no watcher.
SessionBound ==
  session # "live" ~> session = "live" \/ \A w \in Watchers : ~ Alive(w)
=============================================================================
