------------------------------ MODULE FileLock ------------------------------
(***************************************************************************)
(* storage/file-lock.ts: withFileLock, the advisory lock behind every      *)
(* read-then-write section of the services ('consolidate',                 *)
(* 'session-start', 'session-pause-*', the cursor dedup locks).            *)
(*                                                                         *)
(* Time is discrete: one tick is one retry interval.  Everything a process *)
(* does between two sleeps happens within a tick; a tick passes only when  *)
(* every process sleeps, works in its body, or is done.                    *)
(***************************************************************************)
EXTENDS Naturals, FiniteSets

CONSTANTS
  Procs,         \* contenders, each one call of withFileLock at a time
  NoProc,        \* the lockfile does not exist
  Horizon,       \* holdTimeoutMs, in ticks
  MaxBody,       \* bound: the longest body, in ticks
  MaxCalls,      \* bound: calls per process
  MaxCrashes     \* bound: processes killed inside their body

ASSUME FileLockAssumption ==
  /\ NoProc \notin Procs
  /\ Horizon \in Nat \ {0}
  /\ MaxBody \in Nat /\ MaxCalls \in Nat /\ MaxCrashes \in Nat

VARIABLES
  file,          \* the lockfile: who wrote it, or NoProc
  phase,         \* where each process is in withFileLock
  wait,          \* ticks p has waited in this call
  held,          \* ticks p has spent in this body
  calls,         \* calls p has started
  reclaims       \* somebody's lockfile was deleted by another process

lockVars == <<file, phase, wait, held, calls, reclaims>>

Phases ==
  {"out", "try", "reclaim", "recreate", "sleep", "body", "release", "dead"}

LockInit ==
  /\ file = NoProc
  /\ phase = [p \in Procs |-> "out"]
  /\ wait = [p \in Procs |-> 0]
  /\ held = [p \in Procs |-> 0]
  /\ calls = [p \in Procs |-> 0]
  /\ reclaims = FALSE

Dead == {p \in Procs : phase[p] = "dead"}

Proceed(p, point) == phase' = [phase EXCEPT ![p] = point]

\* p created the lockfile and starts its body.
Enter(p) ==
  /\ file' = p
  /\ wait' = [wait EXCEPT ![p] = 0]
  /\ Proceed(p, "body")

\* p found a lockfile and goes on to point.
Stay(p, point) ==
  /\ Proceed(p, point)
  /\ wait' = IF point = "out" THEN [wait EXCEPT ![p] = 0] ELSE wait
  /\ UNCHANGED file

-----------------------------------------------------------------------------
Call(p) ==
  /\ phase[p] = "out"
  /\ calls[p] < MaxCalls
  /\ calls' = [calls EXCEPT ![p] = @ + 1]
  /\ Proceed(p, "try")
  /\ UNCHANGED <<file, wait, held, reclaims>>

\* Mutation: an overdue waiter retries at once instead of reclaiming.
TryCreate_NoReclaim(p) ==
  /\ phase[p] = "try"
  /\ IF file = NoProc
       THEN Enter(p)
       ELSE Stay(p, IF wait[p] >= Horizon THEN "try" ELSE "sleep")
  /\ UNCHANGED <<held, calls, reclaims>>

\* Mutation: the lockfile is written without O_EXCL.
TryCreate_NotExclusive(p) ==
  /\ phase[p] = "try"
  /\ Enter(p)
  /\ UNCHANGED <<held, calls, reclaims>>

\* writeFile with flag 'wx'; on EEXIST sleep, or reclaim once overdue.
TryCreate(p) ==
  /\ phase[p] = "try"
  /\ IF file = NoProc
       THEN Enter(p)
       ELSE Stay(p, IF wait[p] >= Horizon THEN "reclaim" ELSE "sleep")
  /\ UNCHANGED <<held, calls, reclaims>>

\* forceUnlink of whatever lockfile is there, whoever wrote it.
Reclaim(p) ==
  /\ phase[p] = "reclaim"
  /\ file' = NoProc
  /\ reclaims' = (reclaims \/ file # NoProc)
  /\ Proceed(p, "recreate")
  /\ UNCHANGED <<wait, held, calls>>

\* The second tryCreate; after twice the horizon the call throws.
Recreate(p) ==
  /\ phase[p] = "recreate"
  /\ IF file = NoProc
       THEN Enter(p)
       ELSE Stay(p, IF wait[p] >= 2 * Horizon THEN "out" ELSE "sleep")
  /\ UNCHANGED <<held, calls, reclaims>>

\* The body returns or throws.
Leave(p) ==
  /\ phase[p] = "body"
  /\ Proceed(p, "release")
  /\ held' = [held EXCEPT ![p] = 0]
  /\ UNCHANGED <<file, wait, calls, reclaims>>

\* finally: forceUnlink, again whoever wrote the file.
LetGo(p) ==
  /\ phase[p] = "release"
  /\ file' = NoProc
  /\ reclaims' = (reclaims \/ file \notin {p, NoProc})
  /\ Proceed(p, "out")
  /\ UNCHANGED <<wait, held, calls>>

\* The process is killed inside its body; the lockfile stays.
Crash(p) ==
  /\ phase[p] = "body"
  /\ Cardinality(Dead) < MaxCrashes
  /\ Proceed(p, "dead")
  /\ held' = [held EXCEPT ![p] = 0]
  /\ UNCHANGED <<file, wait, calls, reclaims>>

\* One retry interval passes.
Tick ==
  /\ \A p \in Procs : \/ phase[p] \in {"out", "sleep", "dead"}
                      \/ phase[p] = "body" /\ held[p] < MaxBody
  /\ \E p \in Procs : phase[p] \in {"sleep", "body"}
  /\ phase' = [p \in Procs |-> IF phase[p] = "sleep" THEN "try" ELSE phase[p]]
  /\ wait' = [p \in Procs |-> IF phase[p] = "sleep" THEN wait[p] + 1 ELSE wait[p]]
  /\ held' = [p \in Procs |-> IF phase[p] = "body" THEN held[p] + 1 ELSE held[p]]
  /\ UNCHANGED <<file, calls, reclaims>>

Advance(p) ==
  \/ TryCreate(p) \/ Reclaim(p) \/ Recreate(p) \/ Leave(p) \/ LetGo(p)

LockNext ==
  \/ \E p \in Procs : Call(p) \/ Advance(p) \/ Crash(p)
  \/ Tick

LockSpec == LockInit /\ [][LockNext]_lockVars

\* A running process keeps running and timers fire.
LockFairness == WF_lockVars(Tick) /\ \A p \in Procs : WF_lockVars(Advance(p))

LockFairSpec == LockSpec /\ LockFairness
-----------------------------------------------------------------------------
LockTypeOK ==
  /\ file \in Procs \cup {NoProc}
  /\ phase \in [Procs -> Phases]
  /\ wait \in [Procs -> Nat]
  /\ held \in [Procs -> 0 .. MaxBody]
  /\ calls \in [Procs -> 0 .. MaxCalls]
  /\ reclaims \in BOOLEAN

Holds(p) == phase[p] \in {"body", "release"}

\* As long as nobody's lockfile was taken from him, at most one process is
\* inside, and the lockfile names it: the wx create is the mutual exclusion.
ExclusiveUntilReclaim ==
  ~ reclaims =>
    /\ \A p, q \in Procs : Holds(p) /\ Holds(q) => p = q
    /\ \A p \in Procs : Holds(p) \/ phase[p] = "dead" => file = p

\* A call waits at most twice the horizon before it enters or throws, and
\* whoever sleeps still has time left.
BoundedWait ==
  \A p \in Procs : /\ wait[p] <= 2 * Horizon
                   /\ phase[p] = "sleep" => wait[p] < 2 * Horizon

\* The inductive invariant.
LockInv == LockTypeOK /\ ExclusiveUntilReclaim /\ BoundedWait

\* "Guaranteed forward progress": whoever waits gets in or gets an error,
\* even behind a holder that was killed.
Progress ==
  \A p \in Procs : phase[p] = "try" ~> phase[p] \in {"body", "release", "out", "dead"}
=============================================================================
