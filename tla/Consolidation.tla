---------------------------- MODULE Consolidation ----------------------------
(***************************************************************************)
(* services/consolidate-service.ts: boundaries distil captured             *)
(* observations and the conversation transcript into memories.             *)
(*                                                                         *)
(* A boundary runs under the 'consolidate' lock in a detached process of   *)
(* its own, while other processes keep capturing.  The log, the memories   *)
(* table (projected from it), the event watermark and the transcript       *)
(* offset are written one after the other, never in one transaction.       *)
(***************************************************************************)
EXTENDS Naturals, FiniteSets, Sequences

CONSTANTS
  Observations,  \* observation ids
  Runs,          \* processes that run consolidate()
  NoProc,        \* the lockfile does not exist
  Killed,        \* the lockfile's writer was killed
  MaxTurns,      \* bound: conversational turns of the transcript
  MaxBatches,    \* bound: extractions that append memories
  MaxFaults      \* bound: killed processes and locks taken from a live holder

ASSUME ConsolidationAssumption ==
  /\ NoProc \notin Runs /\ Killed \notin Runs /\ NoProc # Killed
  /\ MaxTurns \in Nat /\ MaxBatches \in Nat /\ MaxFaults \in Nat

VARIABLES
  log,           \* rows: a captured observation, or one extraction's memories
  built,         \* the memories table reflects the first built rows
  watermark,     \* row the event watermark names, 0 = none
  turns,         \* turns in the transcript
  offset,        \* turns before the transcript watermark
  lock,          \* the 'consolidate' lockfile
  run,           \* run[p]: the locals of p's boundary
  faults,
  imported,      \* rows of the log when the store was reimported, 0 = never
  distilled,     \* history: observations whose extraction was stored
  routed,        \* routed[o]: times o was routed to the personal store
  told           \* told[t]: times turn t was stored (segments and memories)

marks == <<watermark, offset>>
outside == <<turns, faults, imported>>
history == <<distilled, routed, told>>
vars == <<log, built, marks, outside, lock, run, history>>

Points == {"idle", "read", "extract", "rebuild", "personal", "mark", "offset",
           "release"}

Row ==
  [kind : {"observation"}, id : Observations]
    \cup [kind : {"memories"}, sources : SUBSET Observations]

Local ==
  [pc : Points,
   window : SUBSET Observations,   \* fresh observations of the window
   last : Nat,                     \* row of the window's last observation
   from : Nat, to : Nat]           \* conversation slice: turns from+1 .. to

Idle == [pc |-> "idle", window |-> {}, last |-> 0, from |-> 0, to |-> 0]

Init ==
  /\ log = <<>>
  /\ built = 0
  /\ watermark = 0
  /\ turns = 0
  /\ offset = 0
  /\ lock = NoProc
  /\ run = [p \in Runs |-> Idle]
  /\ faults = 0
  /\ imported = 0
  /\ distilled = {}
  /\ routed = [o \in Observations |-> 0]
  /\ told = [t \in 1 .. MaxTurns |-> 0]

Rows == 1 .. Len(log)

IsObservation(i) == i \in Rows /\ log[i].kind = "observation"

Captured == {log[i].id : i \in {j \in Rows : IsObservation(j)}}

Batches == {i \in Rows : log[i].kind = "memories"}

\* Observations some memory of the memories table was distilled from.
Consumed == UNION {log[i].sources : i \in {j \in Batches : j <= built}}

\* Rows of the observations after the watermark.
Pending == {i \in Rows : i > watermark /\ IsObservation(i)}

IsLast(i, S) == i \in S /\ \A j \in S : j <= i

Slice(p) == run[p].from + 1 .. run[p].to

Goto(p, point) == run' = [run EXCEPT ![p] = [@ EXCEPT !.pc = point]]

-----------------------------------------------------------------------------
(* Other processes *)

\* captureToolUse appends an observation.
Capture(o) ==
  /\ o \notin Captured
  /\ log' = Append(log, [kind |-> "observation", id |-> o])
  /\ UNCHANGED <<built, marks, outside, lock, run, history>>

\* A rebuild of another process replaces the memories table by what it read
\* of the log, and it may have read long ago, though in this store.
OtherRebuild ==
  /\ built' \in imported .. Len(log)
  /\ UNCHANGED <<log, marks, outside, lock, run, history>>

Say ==
  /\ turns < MaxTurns
  /\ turns' = turns + 1
  /\ UNCHANGED <<log, built, marks, faults, imported, lock, run, history>>

\* Clone, import or migration: the events survive, the meta table does not.
Reimport ==
  /\ imported = 0 /\ log # <<>>
  /\ lock = NoProc
  /\ \A p \in Runs : run[p].pc = "idle"
  /\ imported' = Len(log)
  /\ built' = Len(log)
  /\ watermark' = 0
  /\ offset' = 0
  /\ UNCHANGED <<log, turns, faults, lock, run, history>>

-----------------------------------------------------------------------------
(* One boundary *)

\* withFileLock: a free lockfile, or the one of a process that was killed.
Acquire(p) ==
  /\ run[p].pc = "idle"
  /\ lock \in {NoProc, Killed}
  /\ lock' = p
  /\ Goto(p, "read")
  /\ UNCHANGED <<log, built, marks, outside, history>>

\* An overdue waiter takes the lock from a live holder (FileLock.Reclaim).
Steal(p) ==
  /\ run[p].pc = "idle"
  /\ lock \in Runs
  /\ faults < MaxFaults
  /\ faults' = faults + 1
  /\ lock' = p
  /\ Goto(p, "read")
  /\ UNCHANGED <<log, built, marks, turns, imported, history>>

\* Mutation: observations already distilled are not dropped.
Fresh_NoGuard == {log[i].id : i \in Pending}

\* The window, less what a memory was distilled from.
Fresh == {log[i].id : i \in Pending} \ Consumed

\* The window after the watermark and, when a transcript path is known, the
\* conversation after the offset.  With neither there is nothing to do but
\* to move the watermark past a window already consumed.
ReadWindow(p) ==
  /\ run[p].pc = "read"
  /\ \E last \in Pending \cup {0}, to \in {offset, turns} :
       /\ IF Pending = {} THEN last = 0 ELSE IsLast(last, Pending)
       /\ IF Fresh = {} /\ to = offset
            THEN /\ watermark' = IF last = 0 THEN watermark ELSE last
                 /\ Goto(p, "release")
            ELSE /\ run' = [run EXCEPT ![p] =
                      [pc |-> "extract", window |-> Fresh, last |-> last,
                       from |-> offset, to |-> to]]
                 /\ UNCHANGED watermark
  /\ UNCHANGED <<log, built, offset, outside, lock, history>>

\* Mutation: a failed extraction moves on as if it had found nothing.
ExtractFails_Advance(p) ==
  /\ run[p].pc = "extract"
  /\ Goto(p, "mark")
  /\ UNCHANGED <<log, built, marks, outside, lock, history>>

\* A timeout, an HTTP error or an unparseable reply: nothing is written.
ExtractFails(p) ==
  /\ run[p].pc = "extract"
  /\ Goto(p, "release")
  /\ UNCHANGED <<log, built, marks, outside, lock, history>>

\* The extractor answers.  Segments of the slice are inserted, then all
\* project memories, if any, in one transaction (appendEvents), each naming
\* the whole window as its sources.
Extract(p) ==
  /\ run[p].pc = "extract"
  /\ \/ /\ Cardinality(Batches) < MaxBatches
        /\ log' = Append(log,
             [kind |-> "memories", sources |-> run[p].window])
        /\ Goto(p, "rebuild")
     \/ /\ UNCHANGED log
        /\ Goto(p, IF Slice(p) = {} THEN "personal" ELSE "rebuild")
  /\ distilled' = distilled \cup run[p].window
  /\ told' = [t \in 1 .. MaxTurns |->
                IF t \in Slice(p) THEN told[t] + 1 ELSE told[t]]
  /\ UNCHANGED <<built, marks, outside, lock, routed>>

Rebuild(p) ==
  /\ run[p].pc = "rebuild"
  /\ built' = Len(log)
  /\ Goto(p, "personal")
  /\ UNCHANGED <<log, marks, outside, lock, history>>

\* consolidatePersonalMemories, best effort: no items, or a failure drops
\* them.
RoutePersonal(p) ==
  /\ run[p].pc = "personal"
  /\ \/ routed' = [o \in Observations |->
          IF o \in run[p].window THEN routed[o] + 1 ELSE routed[o]]
     \/ UNCHANGED routed
  /\ Goto(p, "mark")
  /\ UNCHANGED <<log, built, marks, outside, lock, distilled, told>>

\* Mutation: the watermark becomes the head of the log, not the last row of
\* the window that was read.
WriteMark_Head(p) ==
  /\ run[p].pc = "mark"
  /\ watermark' = Len(log)
  /\ Goto(p, "offset")
  /\ UNCHANGED <<log, built, offset, outside, lock, history>>

\* Mutation: the watermark is not advanced at the end of a boundary.
WriteMark_Never(p) ==
  /\ run[p].pc = "mark"
  /\ Goto(p, "offset")
  /\ UNCHANGED <<log, built, marks, outside, lock, history>>

WriteMark(p) ==
  /\ run[p].pc = "mark"
  /\ watermark' = IF run[p].last = 0 THEN watermark ELSE run[p].last
  /\ Goto(p, "offset")
  /\ UNCHANGED <<log, built, offset, outside, lock, history>>

\* Only when a conversation was read.
WriteOffset(p) ==
  /\ run[p].pc = "offset"
  /\ offset' = IF Slice(p) = {} THEN offset ELSE run[p].to
  /\ Goto(p, "release")
  /\ UNCHANGED <<log, built, watermark, outside, lock, history>>

\* Mutation: the lockfile survives a boundary that had nothing to do.
Release_Leak(p) ==
  /\ run[p].pc = "release"
  /\ lock' = IF run[p].window = {} THEN lock ELSE NoProc
  /\ run' = [run EXCEPT ![p] = Idle]
  /\ UNCHANGED <<log, built, marks, outside, history>>

\* finally: unlink the lockfile, whoever wrote it.
Release(p) ==
  /\ run[p].pc = "release"
  /\ lock' = NoProc
  /\ run' = [run EXCEPT ![p] = Idle]
  /\ UNCHANGED <<log, built, marks, outside, history>>

\* The detached process is killed; its lockfile stays.
Kill(p) ==
  /\ run[p].pc # "idle"
  /\ faults < MaxFaults
  /\ faults' = faults + 1
  /\ run' = [run EXCEPT ![p] = Idle]
  /\ lock' = IF lock = p THEN Killed ELSE lock
  /\ UNCHANGED <<log, built, marks, turns, imported, history>>

-----------------------------------------------------------------------------
Step(p) ==
  \/ Acquire(p) \/ ReadWindow(p) \/ ExtractFails(p) \/ Extract(p)
  \/ Rebuild(p) \/ RoutePersonal(p) \/ WriteMark(p) \/ WriteOffset(p)
  \/ Release(p)

Next ==
  \/ \E o \in Observations : Capture(o)
  \/ OtherRebuild
  \/ Say
  \/ Reimport
  \/ \E p \in Runs : Step(p) \/ Steal(p) \/ Kill(p)

Spec == Init /\ [][Next]_vars

\* Boundaries recur and a boundary keeps running; an extractor that is asked
\* again and again answers in the end.
Fairness == \A p \in Runs : WF_vars(Step(p)) /\ SF_vars(Extract(p))

FairSpec == Spec /\ Fairness
-----------------------------------------------------------------------------
(* Properties *)

TypeOK ==
  /\ log \in Seq(Row)
  /\ built \in 0 .. Len(log)
  /\ watermark \in 0 .. Len(log)
  /\ turns \in 0 .. MaxTurns
  /\ offset \in 0 .. turns
  /\ lock \in Runs \cup {NoProc, Killed}
  /\ run \in [Runs -> Local]
  /\ faults \in 0 .. MaxFaults
  /\ imported \in 0 .. Len(log)
  /\ distilled \subseteq Observations
  /\ routed \in [Observations -> Nat]
  /\ told \in [1 .. MaxTurns -> Nat]

\* Every observation up to row n, every turn up to the t-th, was distilled
\* and its result stored.
DistilledUpTo(n) ==
  \A i \in Rows : i <= n /\ IsObservation(i) => log[i].id \in distilled

ToldUpTo(t) == \A u \in 1 .. MaxTurns : u <= t => told[u] # 0

\* What is behind a watermark was distilled and stored: killed processes,
\* failed extractions, overlapping boundaries and a lost meta table never
\* make a boundary skip an observation or a turn (consolidate: "the next
\* boundary retries the same window").
NothingSkipped == DistilledUpTo(watermark) /\ ToldUpTo(offset)

\* What p has read, or is about to write, continues what was distilled.
RunSound(j) ==
  /\ j.last <= Len(log) /\ j.to <= turns
  /\ j.pc = "extract" =>
       /\ \A i \in Rows : i <= j.last /\ IsObservation(i)
            => log[i].id \in distilled \cup j.window
       /\ ToldUpTo(j.from)
  /\ j.pc \in {"rebuild", "personal", "mark"} => DistilledUpTo(j.last)
  /\ j.pc \in {"rebuild", "personal", "mark", "offset"} => ToldUpTo(j.to)

\* The inductive invariant.
DistillInv ==
  /\ TypeOK
  /\ NothingSkipped
  /\ \A i \in Batches : log[i].sources \subseteq distilled
  /\ \A p \in Runs : RunSound(run[p])

\* As long as no process is killed and no lock taken from a live holder, an
\* observation is distilled into project memories by one boundary only, even
\* after the watermark was lost (consumedObservationIds).
DistilledOnce ==
  faults = 0 =>
    \A i, j \in Batches : i # j => log[i].sources \cap log[j].sources = {}

\* Under the same proviso, and while the meta table lives, an observation is
\* routed to the personal store, and a turn stored, at most once.
RoutedOnce ==
  faults = 0 /\ imported = 0 =>
    /\ \A o \in Observations : routed[o] <= 1
    /\ \A t \in 1 .. MaxTurns : told[t] <= 1

\* Every captured observation is distilled in the end, through failed
\* extractions, killed processes and the lockfiles they leave behind.
EventuallyDistilled ==
  \A o \in Observations : o \in Captured ~> o \in distilled
=============================================================================
