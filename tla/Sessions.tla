------------------------------- MODULE Sessions -------------------------------
(***************************************************************************)
(* services/session-service.ts, services/hook-service.ts and               *)
(* storage/cwd-session-store.ts: the sessions of one project, whose        *)
(* pointers lie in one directory.  Hooks and commands are processes of     *)
(* their own; each appends a session event, rebuilds the sessions table    *)
(* and writes or removes a pointer file, one after the other.              *)
(*                                                                         *)
(* The log is kept as the session events only, the sessions table as the   *)
(* length of the prefix it was folded from.  A session is stale when its   *)
(* last event is older than MEMORIZE_STALE_SESSION_MS; no process takes    *)
(* that long, so sessions age between processes.                           *)
(***************************************************************************)
EXTENDS Naturals, Sequences, FiniteSets

CONSTANTS
  Procs,         \* hook and command processes that may run at once
  Agents,        \* conversations, each with its agentSessionId
  Tasks,         \* the project's active tasks
  NoAgent, NoTask, NoProc,
  MaxSessions,   \* bound: sessions minted
  MaxOps,        \* bound: hooks and commands run
  MaxKills,      \* bound: of them killed
  MaxAges        \* bound: times a session ages

Sessions == 1 .. MaxSessions

ASSUME SessionsAssumption ==
  /\ MaxSessions \in Nat /\ MaxOps \in Nat /\ MaxKills \in Nat
  /\ MaxAges \in Nat
  /\ NoAgent \notin Agents /\ NoTask \notin Tasks /\ NoProc \notin Procs

VARIABLES
  log,           \* session events
  built,         \* the sessions table is the fold of log[1 .. built]
  aged,          \* events up to here are beyond the threshold, per session
  ptr,           \* pointer files: whose conversation a session is
  job,           \* what each process is doing
  lock,          \* holder of the 'session-start' lock
  ops, kills, ages,
  forced,        \* history: sessions started when every task was claimed
  lapsed,        \* history: sessions that at some time did not claim
  overwritten,   \* history: a rebuild replaced the table by an older one
  crossed        \* history: a reap met a resume or a pause of its session

store == <<log, built, aged, ptr>>
bounds == <<ops, kills, ages>>
history == <<forced, lapsed, overwritten, crossed>>
vars == <<store, job, lock, bounds, history>>

-----------------------------------------------------------------------------
(* The fold, and what is read from it *)

Kinds == {"started", "paused", "resumed", "abandoned", "heartbeat"}
Event == [kind : Kinds, s : Sessions, task : Tasks \cup {NoTask}]

Last(I) == CHOOSE i \in I : \A k \in I : k <= i

\* Events of s among the first n.
About(s, n) == {i \in 1 .. n : log[i].s = s}

Status(s, n) ==
  LET I == {i \in About(s, n) : log[i].kind # "heartbeat"}
  IN  IF I = {} THEN "none"
      ELSE CASE log[Last(I)].kind \in {"started", "resumed"} -> "active"
             [] log[Last(I)].kind = "paused" -> "paused"
             [] OTHER -> "abandoned"

TaskOf(s, n) ==
  LET I == {i \in About(s, n) : log[i].kind = "started"}
  IN  IF I = {} THEN NoTask ELSE log[Last(I)].task

\* readActiveSessions: active or paused, and seen within the threshold.
Claiming(n) ==
  {s \in Sessions : /\ Status(s, n) \in {"active", "paused"}
                    /\ Last(About(s, n)) > aged[s]}

ClaimedTasks(n) == {TaskOf(s, n) : s \in Claiming(n)}

Minted == {s \in Sessions : About(s, Len(log)) # {}}

Pointers(a) == {s \in Sessions : ptr[s] = a}
Pointed == {s \in Sessions : ptr[s] # NoAgent}

-----------------------------------------------------------------------------
(* Processes *)

Ops == {"free", "start", "resume", "pause", "reap", "beat"}
Points == {"free", "resolve", "reattach", "stamp", "resumed", "lock",
           "recheck", "pick", "start", "read", "write", "point", "match",
           "pause", "wait", "check", "paused", "sweep", "abandon",
           "unlink", "beat"}

Free == [op |-> "free", at |-> "free", who |-> NoAgent, s |-> 0,
         todo |-> {}, force |-> FALSE, seen |-> 0, task |-> NoTask,
         crowded |-> FALSE]

Init ==
  /\ log = <<>> /\ built = 0
  /\ aged = [s \in Sessions |-> 0]
  /\ ptr = [s \in Sessions |-> NoAgent]
  /\ job = [p \in Procs |-> Free]
  /\ lock = NoProc
  /\ ops = 0 /\ kills = 0 /\ ages = 0
  /\ forced = {} /\ lapsed = {}
  /\ overwritten = FALSE /\ crossed = FALSE

At(p, point) == job[p].at = point
Goto(p, point) == job' = [job EXCEPT ![p].at = point]
Done(p) == job' = [job EXCEPT ![p] = Free]

Launch(p, record) ==
  /\ At(p, "free") /\ ops < MaxOps
  /\ ops' = ops + 1
  /\ job' = [job EXCEPT ![p] = record]
  /\ UNCHANGED <<kills, ages>>

\* p has read the pointer of s and is about to write for it.
Attached(p, s) ==
  job[p].s = s /\ job[p].at \in {"stamp", "resumed", "wait", "check", "paused"}

Sweeping(s) == \E q \in Procs : s \in job[q].todo

AppendEvent(kind, s, task) ==
  /\ log' = Append(log, [kind |-> kind, s |-> s, task |-> task])
  /\ UNCHANGED <<built, aged, ptr>>

\* The rebuild reads the log ...
RebuildRead(p) ==
  /\ At(p, "read")
  /\ job' = [job EXCEPT ![p].at = "write", ![p].seen = Len(log)]
  /\ UNCHANGED <<store, lock, bounds, history>>

\* ... and replaces the tables, whatever was written in between.
RebuildWrite(p) ==
  /\ At(p, "write")
  /\ built' = job[p].seen
  /\ overwritten' = (overwritten \/ job[p].seen < built)
  /\ CASE job[p].op = "start" -> Goto(p, "point")
       [] job[p].op = "reap" -> Goto(p, "unlink")
       [] OTHER -> Done(p)
  /\ UNCHANGED <<log, aged, ptr, lock, bounds, forced, lapsed, crossed>>

-----------------------------------------------------------------------------
(* SessionStart *)

SessionStart(p, a) ==
  /\ Launch(p, [Free EXCEPT !.op = "resume", !.at = "resolve", !.who = a])
  /\ UNCHANGED <<store, lock, history>>

\* resolveByAgentSessionId.
Resolve(p) ==
  /\ At(p, "resolve")
  /\ \/ \E s \in Pointers(job[p].who) :
          job' = [job EXCEPT ![p].s = s, ![p].at = "reattach"]
     \/ Pointers(job[p].who) = {} /\ Goto(p, "lock")
  /\ UNCHANGED <<store, lock, bounds, history>>

\* resumeSession reads the pointer again; without it a session is minted.
Reattach(p) ==
  /\ At(p, "reattach")
  /\ IF ptr[job[p].s] = NoAgent
       THEN job' = [job EXCEPT ![p].s = 0, ![p].at = "lock"]
            /\ UNCHANGED crossed
       ELSE Goto(p, "stamp") /\ crossed' = (crossed \/ Sweeping(job[p].s))
  /\ UNCHANGED <<store, lock, bounds, forced, lapsed, overwritten>>

Stamp(p) ==
  /\ At(p, "stamp")
  /\ ptr' = [ptr EXCEPT ![job[p].s] = job[p].who]
  /\ Goto(p, "resumed")
  /\ UNCHANGED <<log, built, aged, lock, bounds, history>>

Resumed(p) ==
  /\ At(p, "resumed")
  /\ AppendEvent("resumed", job[p].s, NoTask)
  /\ Goto(p, "read")
  /\ UNCHANGED <<lock, bounds, history>>

\* Mutation: the critical section is entered without the lock.
Acquire_NoLock(p) ==
  /\ At(p, "lock")
  /\ job' = [job EXCEPT ![p] = [@ EXCEPT !.op = "start", !.at = "recheck"]]
  /\ UNCHANGED <<store, lock, bounds, history>>

\* withFileLock('session-start'), FileLock's promise taken for granted.
Acquire(p) ==
  /\ At(p, "lock")
  /\ lock = NoProc
  /\ lock' = p
  /\ job' = [job EXCEPT ![p] = [@ EXCEPT !.op = "start", !.at = "recheck"]]
  /\ UNCHANGED <<store, bounds, history>>

\* Mutation: the holder does not look for a pointer again.
Recheck_Never(p) ==
  /\ At(p, "recheck")
  /\ Goto(p, "pick")
  /\ UNCHANGED <<store, lock, bounds, history>>

\* Another hook of the conversation may have been faster.
Recheck(p) ==
  /\ At(p, "recheck")
  /\ IF Pointers(job[p].who) # {}
       THEN Done(p) /\ lock' = NoProc
       ELSE Goto(p, "pick") /\ UNCHANGED lock
  /\ UNCHANGED <<store, bounds, history>>

\* composeStartupContext: a task nobody claims, else any.
Pick(p) ==
  /\ At(p, "pick")
  /\ LET unclaimed == Tasks \ ClaimedTasks(built)
     IN  \E t \in (IF unclaimed # {} THEN unclaimed ELSE Tasks) :
           job' = [job EXCEPT ![p].task = t, ![p].at = "start",
                              ![p].crowded = (unclaimed = {})]
  /\ UNCHANGED <<store, lock, bounds, history>>

\* startSession appends ...
Start(p) ==
  /\ At(p, "start")
  /\ \E s \in Sessions :
       /\ Minted = 1 .. s - 1
       /\ AppendEvent("started", s, job[p].task)
       /\ job' = [job EXCEPT ![p].s = s, ![p].at = "read"]
       /\ forced' = IF job[p].crowded THEN forced \cup {s} ELSE forced
  /\ UNCHANGED <<lock, bounds, lapsed, overwritten, crossed>>

\* ... and, after the rebuild, writes the pointer; the lock is released.
Point(p) ==
  /\ At(p, "point")
  /\ ptr' = [ptr EXCEPT ![job[p].s] = job[p].who]
  /\ lock' = NoProc
  /\ Done(p)
  /\ UNCHANGED <<log, built, aged, bounds, history>>

-----------------------------------------------------------------------------
(* SessionEnd *)

SessionEnd(p, a) ==
  /\ Launch(p, [Free EXCEPT !.op = "pause", !.at = "match", !.who = a])
  /\ UNCHANGED <<store, lock, history>>

\* By the conversation; else by environment, process tree or terminal, which
\* may name any session of the directory or none.
Match(p) ==
  /\ At(p, "match")
  /\ LET mine == Pointers(job[p].who)
     IN  \/ \E s \in (IF mine # {} THEN mine ELSE Pointed) :
              job' = [job EXCEPT ![p].s = s, ![p].at = "pause"]
         \/ mine = {} /\ Done(p)
  /\ UNCHANGED <<store, lock, bounds, history>>

\* pauseSession reads the pointer ...
Pause(p) ==
  /\ At(p, "pause")
  /\ IF ptr[job[p].s] = NoAgent
       THEN Done(p) /\ UNCHANGED crossed
       ELSE Goto(p, "wait") /\ crossed' = (crossed \/ Sweeping(job[p].s))
  /\ UNCHANGED <<store, lock, bounds, forced, lapsed, overwritten>>

\* ... and then waits for the session's own pause lock.
Pausing(q, s) ==
  /\ job[q].op = "pause" /\ job[q].s = s
  /\ job[q].at \in {"check", "paused", "read", "write"}

PauseLock(p) ==
  /\ At(p, "wait")
  /\ \A q \in Procs : ~ Pausing(q, job[p].s)
  /\ Goto(p, "check")
  /\ UNCHANGED <<store, lock, bounds, history>>

PauseCheck(p) ==
  /\ At(p, "check")
  /\ IF Status(job[p].s, built) = "paused" THEN Done(p) ELSE Goto(p, "paused")
  /\ UNCHANGED <<store, lock, bounds, history>>

Paused(p) ==
  /\ At(p, "paused")
  /\ AppendEvent("paused", job[p].s, NoTask)
  /\ Goto(p, "read")
  /\ UNCHANGED <<lock, bounds, history>>

-----------------------------------------------------------------------------
(* memorize session reap [--force], and the heartbeat of every command *)

Reap(p, force) ==
  /\ Launch(p, [Free EXCEPT !.op = "reap", !.at = "sweep", !.force = force,
                            !.todo = Pointed])
  /\ crossed' = (crossed \/ \E q \in Procs, s \in Pointed : Attached(q, s))
  /\ UNCHANGED <<store, lock, forced, lapsed, overwritten>>

\* Last seen as the table has it; without a row, as old as the pointer is.
Stale(s) ==
  LET rows == IF Status(s, built) # "none" THEN About(s, built)
              ELSE {i \in About(s, Len(log)) : log[i].kind = "started"}
  IN  Last(rows) <= aged[s]

Sweep(p) ==
  /\ At(p, "sweep")
  /\ \/ job[p].todo = {} /\ Done(p)
     \/ \E s \in job[p].todo :
          \/ /\ job[p].force \/ Stale(s)
             /\ job' = [job EXCEPT ![p].s = s, ![p].at = "abandon"]
          \/ /\ ~ job[p].force /\ ~ Stale(s)
             /\ job' = [job EXCEPT ![p].todo = @ \ {s}]
  /\ UNCHANGED <<store, lock, bounds, history>>

\* Mutation: a stale pointer is removed without the event.
Abandon_Skip(p) ==
  /\ At(p, "abandon")
  /\ Goto(p, "unlink")
  /\ UNCHANGED <<store, lock, bounds, history>>

Abandon(p) ==
  /\ At(p, "abandon")
  /\ AppendEvent("abandoned", job[p].s, NoTask)
  /\ lapsed' = lapsed \cup {job[p].s}
  /\ Goto(p, "read")
  /\ UNCHANGED <<lock, bounds, forced, overwritten, crossed>>

Unlink(p) ==
  /\ At(p, "unlink")
  /\ ptr' = [ptr EXCEPT ![job[p].s] = NoAgent]
  /\ job' = [job EXCEPT ![p].todo = @ \ {job[p].s}, ![p].at = "sweep"]
  /\ UNCHANGED <<log, built, aged, lock, bounds, history>>

Heartbeat(p) ==
  /\ \E s \in Pointed :
       Launch(p, [Free EXCEPT !.op = "beat", !.at = "beat", !.s = s])
  /\ UNCHANGED <<store, lock, history>>

Beat(p) ==
  /\ At(p, "beat")
  /\ AppendEvent("heartbeat", job[p].s, NoTask)
  /\ Goto(p, "read")
  /\ UNCHANGED <<lock, bounds, history>>

-----------------------------------------------------------------------------
\* A killed holder's lockfile is reclaimed (FileLock).
Kill(p) ==
  /\ ~ At(p, "free") /\ kills < MaxKills
  /\ kills' = kills + 1
  /\ Done(p)
  /\ lock' = IF lock = p THEN NoProc ELSE lock
  /\ UNCHANGED <<store, ops, ages, history>>

\* MEMORIZE_STALE_SESSION_MS pass without an event of s.
Age(s) ==
  /\ \A p \in Procs : At(p, "free")
  /\ s \in Minted /\ ages < MaxAges
  /\ ages' = ages + 1
  /\ aged' = [aged EXCEPT ![s] = Len(log)]
  /\ lapsed' = lapsed \cup {s}
  /\ UNCHANGED <<log, built, ptr, job, lock, ops, kills>>
  /\ UNCHANGED <<forced, overwritten, crossed>>

Step(p) ==
  \/ RebuildRead(p) \/ RebuildWrite(p)
  \/ Resolve(p) \/ Reattach(p) \/ Stamp(p) \/ Resumed(p)
  \/ Acquire(p) \/ Recheck(p) \/ Pick(p) \/ Start(p) \/ Point(p)
  \/ Match(p) \/ Pause(p) \/ PauseLock(p) \/ PauseCheck(p) \/ Paused(p)
  \/ Sweep(p) \/ Abandon(p) \/ Unlink(p) \/ Beat(p)

Next ==
  \/ \E p \in Procs :
       \/ Step(p) \/ Kill(p)
       \/ \E a \in Agents : SessionStart(p, a) \/ SessionEnd(p, a)
       \/ \E force \in BOOLEAN : Reap(p, force)
       \/ Heartbeat(p)
  \/ \E s \in Sessions : Age(s)

Spec == Init /\ [][Next]_vars

-----------------------------------------------------------------------------
(* Properties *)

JobType ==
  [op : Ops, at : Points, who : Agents \cup {NoAgent}, s : 0 .. MaxSessions,
   todo : SUBSET Sessions, force : BOOLEAN, seen : Nat,
   task : Tasks \cup {NoTask}, crowded : BOOLEAN]

TypeOK ==
  /\ log \in Seq(Event)
  /\ built \in 0 .. Len(log)
  /\ aged \in [Sessions -> Nat]
  /\ ptr \in [Sessions -> Agents \cup {NoAgent}]
  /\ job \in [Procs -> JobType]
  /\ lock \in Procs \cup {NoProc}
  /\ ops \in 0 .. MaxOps /\ kills \in 0 .. MaxKills /\ ages \in 0 .. MaxAges
  /\ forced \subseteq Sessions /\ lapsed \subseteq Sessions
  /\ overwritten \in BOOLEAN /\ crossed \in BOOLEAN

\* In the critical section of SessionStart.
Claims(p) ==
  \/ At(p, "recheck") \/ At(p, "pick") \/ At(p, "start") \/ At(p, "point")
  \/ job[p].op = "start" /\ (At(p, "read") \/ At(p, "write"))

\* The lock is held by the process in the critical section and by no other,
\* so that every path out of it gives the lock back; and every pointer names
\* a session the log has started: the event comes first.
SessionsInv ==
  /\ TypeOK
  /\ \A p \in Procs : Claims(p) <=> lock = p
  /\ \A s \in Sessions : ptr[s] # NoAgent => Status(s, Len(log)) # "none"

\* "1 agent conversation = 1 memorize session": a conversation has at most
\* one pointer, unless a resume wrote back what a reap was removing.
OnePointer ==
  ~ crossed => \A a \in Agents : Cardinality(Pointers(a)) <= 1

\* The picker and the lock around it: of two sessions with a pointer that
\* never stopped claiming, no two were given one task while another was free,
\* unless a slow rebuild hid one of them from the picker.
ClaimedOnce ==
  ~ overwritten =>
    \A r, s \in Sessions \ (forced \cup lapsed) :
      /\ r # s /\ ptr[r] # NoAgent /\ ptr[s] # NoAgent
      => TaskOf(r, Len(log)) # TaskOf(s, Len(log))

\* The pointers and the log agree but for what is under way: a session that
\* claims has a pointer, and an abandoned one has none.
PointersMatch ==
  ~ crossed /\ kills = 0 =>
    \A s \in Sessions :
      /\ Status(s, Len(log)) \in {"active", "paused"} /\ ptr[s] = NoAgent
         => \E p \in Procs : job[p].op = "start" /\ job[p].s = s
      /\ Status(s, Len(log)) = "abandoned" /\ ptr[s] # NoAgent
         => \E p \in Procs : job[p].op = "reap" /\ job[p].s = s
=============================================================================
