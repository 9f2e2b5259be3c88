----------------------------- MODULE SyncService -----------------------------
(***************************************************************************)
(* Push and pull of one project's event log between replicas (machines)    *)
(* and a relay: services/sync-service.ts run by the boundaries of          *)
(* services/auto-sync-service.ts over the file transport                   *)
(* (adapters/sync-transport-file.ts) or an HTTP Hub.                       *)
(*                                                                         *)
(* Every replica runs several OS processes (hooks, detached children, the  *)
(* watcher) over one SQLite log and one sync.json; an action is the code   *)
(* between two awaits.  sync.state.updated rows are not kept in the log    *)
(* here: push filters them out and no step of this module reads them; each *)
(* Store step appends one.                                                 *)
(***************************************************************************)
EXTENDS Naturals, FiniteSets, Sequences

CONSTANTS
  Replicas,      \* machines holding a copy of the project
  Events,        \* event ids
  Pushers,       \* processes that run autoPush rounds
  Pullers,       \* processes that run autoPull rounds
  Home,          \* Home[p]: the replica process p runs on
  Hub,           \* TRUE: HTTP Hub (dedups by id); FALSE: shared relay file
  NoEvent,       \* an absent watermark
  NoProc,        \* nobody holds the relay file's lock
  NoState,       \* sync.json not loaded
  MaxRelay,      \* bound: lines of the relay
  MaxFaults      \* bound: crashes and failed calls

Procs == Pushers \cup Pullers

ASSUME SyncAssumption ==
  /\ IsFiniteSet(Events)
  /\ Home \in [Procs -> Replicas]
  /\ Hub \in BOOLEAN
  /\ MaxRelay \in Nat /\ MaxFaults \in Nat
  /\ NoEvent \notin Events
  /\ NoProc \notin Procs
  /\ Pushers \cap Pullers = {}

VARIABLES
  seq,       \* seq[r][e]: row number of event e in r's events table, 0 = absent
  sync,      \* sync[r]: r's sync.json
  relay,     \* the relay's lines, in arrival order
  lock,      \* holder of the relay file's lock
  job,       \* job[p]: the locals of process p
  faults     \* crashes and failed calls so far

vars == <<seq, sync, relay, lock, job, faults>>

Watermark == Events \cup {NoEvent}

SyncState ==
  [status : {"idle", "syncing"}, pushed : Watermark, pulled : Watermark]

ASSUME NoState \notin SyncState

\* Program points at which a process is inside updateSyncState.
Updates == {"flag", "mark", "done", "applied", "heal"}

Points == Updates \cup
  {"ready", "gated", "build", "slice", "send", "append", "pull", "insert"}

Job ==
  [pc : Points,
   base : SyncState \cup {NoState},     \* sync.json as updateSyncState read it
   seen : {"idle", "syncing"},          \* syncStatus when the round started
   since : Watermark,                   \* watermark the round slices from
   batch : SUBSET Events,               \* push payload not yet sent
   mark : Watermark,                    \* lastAccepted / lastRemote event id
   from : Nat, to : Nat,                \* pull response = relay lines from..to
   inserted : BOOLEAN]                  \* the pull added a row

Ready ==
  [pc |-> "ready", base |-> NoState, seen |-> "idle", since |-> NoEvent,
   batch |-> {}, mark |-> NoEvent, from |-> 1, to |-> 0, inserted |-> FALSE]

Init ==
  /\ seq = [r \in Replicas |-> [e \in Events |-> 0]]
  /\ sync = [r \in Replicas |->
               [status |-> "idle", pushed |-> NoEvent, pulled |-> NoEvent]]
  /\ relay = <<>>
  /\ lock = NoProc
  /\ job = [p \in Procs |-> Ready]
  /\ faults = 0

-----------------------------------------------------------------------------
(* The log and the relay *)

Logged(r) == {e \in Events : seq[r][e] # 0}

\* tail is the greatest row number of r's table (SQLite: next = max + 1).
IsTail(r, tail) ==
  /\ \A e \in Events : seq[r][e] <= tail
  /\ tail = 0 \/ \E e \in Events : seq[r][e] = tail

Tails(r) == {0} \cup {seq[r][e] : e \in Events}

\* The row after which readEventsSince starts: an absent or unknown
\* watermark means the whole log.
SinceRow(r, w) == IF w \in Events THEN seq[r][w] ELSE 0

EventsSince(r, w) == {e \in Logged(r) : seq[r][e] > SinceRow(r, w)}

Lines == 1 .. Len(relay)

OnRelay(e) == \E i \in Lines : relay[i] = e

\* The line a pull starts at: after the FIRST line carrying w (findIndex),
\* the first line when w is absent or unknown.
StartsAt(w, from) ==
  \/ /\ ~ OnRelay(w)
     /\ from = 1
  \/ \E i \in Lines : /\ relay[i] = w
                      /\ \A j \in 1 .. i - 1 : relay[j] # w
                      /\ from = i + 1

\* p moves on and forgets the locals it will not read again.
Goto(p, point) == job' = [job EXCEPT ![p] = [Ready EXCEPT !.pc = point]]

-----------------------------------------------------------------------------
(* Local commands *)

\* Any command of r appends an event with a fresh id at the tail.
AppendEvent(r, e) ==
  /\ \A q \in Replicas : e \notin Logged(q)
  /\ ~ OnRelay(e)
  /\ \E tail \in Tails(r) : /\ IsTail(r, tail)
                            /\ seq' = [seq EXCEPT ![r][e] = tail + 1]
  /\ UNCHANGED <<sync, relay, lock, job, faults>>

-----------------------------------------------------------------------------
(* updateSyncState: read sync.json, merge a patch, write it back.  Nothing *)
(* locks the file between the read and the write.                          *)

Load(p) ==
  /\ job[p].pc \in Updates
  /\ job[p].base = NoState
  /\ job' = [job EXCEPT ![p] = [@ EXCEPT !.base = sync[Home[p]]]]
  /\ UNCHANGED <<seq, sync, relay, lock, faults>>

Patched(j) ==
  CASE j.pc = "flag"    -> [j.base EXCEPT !.status = "syncing"]
    [] j.pc = "mark"    -> [j.base EXCEPT !.pushed = j.mark]
    [] j.pc = "applied" -> [j.base EXCEPT !.pulled = j.mark]
    [] j.pc \in {"done", "heal"} -> [j.base EXCEPT !.status = "idle"]

AfterUpdate(j) ==
  CASE j.pc = "flag" -> "send"
    [] j.pc = "mark" -> "done"
    [] j.pc = "applied" /\ j.seen # "idle" -> "heal"
    [] OTHER -> "ready"

\* writeJson (atomic rename) and the sync.state.updated row.
Store(p) ==
  /\ job[p].pc \in Updates
  /\ job[p].base # NoState
  /\ sync' = [sync EXCEPT ![Home[p]] = Patched(job[p])]
  /\ job' = [job EXCEPT ![p] =
               [Ready EXCEPT !.pc = AfterUpdate(job[p]),
                             !.batch = job[p].batch]]
  /\ UNCHANGED <<seq, relay, lock, faults>>

-----------------------------------------------------------------------------
(* autoPush / pushProject *)

\* autoPush: the reentrancy guard.  A round that finds 'syncing' returns.
PushGate(p) ==
  /\ job[p].pc = "ready"
  /\ sync[Home[p]].status # "syncing"
  /\ Goto(p, "gated")
  /\ UNCHANGED <<seq, sync, relay, lock, faults>>

PushRead(p) ==
  /\ job[p].pc = "gated"
  /\ job' = [job EXCEPT ![p] =
               [@ EXCEPT !.pc = "build", !.seen = sync[Home[p]].status]]
  /\ UNCHANGED <<seq, sync, relay, lock, faults>>

\* buildPushPayload, first half: the push watermark.
PushBuild(p) ==
  /\ job[p].pc = "build"
  /\ job' = [job EXCEPT ![p] =
               [@ EXCEPT !.pc = "slice", !.since = sync[Home[p]].pushed]]
  /\ UNCHANGED <<seq, sync, relay, lock, faults>>

\* buildPushPayload, second half: the rows after it.
PushSlice(p) ==
  LET payload == EventsSince(Home[p], job[p].since) IN
  /\ job[p].pc = "slice"
  /\ IF payload = {}
       THEN Goto(p, IF job[p].seen = "idle" THEN "ready" ELSE "done")
       ELSE job' = [job EXCEPT ![p] =
              [Ready EXCEPT
                 !.batch = payload,
                 !.pc = IF job[p].seen = "syncing" THEN "send" ELSE "flag"]]
  /\ UNCHANGED <<seq, sync, relay, lock, faults>>

\* transport.push starts; the file transport takes the relay file's lock.
SendStart(p) ==
  /\ job[p].pc = "send"
  /\ ~ Hub => lock = NoProc
  /\ lock' = IF Hub THEN lock ELSE p
  /\ job' = [job EXCEPT ![p] = [@ EXCEPT !.pc = "append"]]
  /\ UNCHANGED <<seq, sync, relay, faults>>

\* The payload travels in row order.
NextToSend(p, e) ==
  /\ e \in job[p].batch
  /\ \A f \in job[p].batch : seq[Home[p]][e] <= seq[Home[p]][f]

\* Mutation: push writes the relay file afresh instead of appending to it.
SendLine_Overwrite(p) ==
  /\ job[p].pc = "append"
  /\ \E e \in Events :
       /\ NextToSend(p, e)
       /\ relay' = <<e>>
       /\ job' = [job EXCEPT ![p] =
            [@ EXCEPT !.batch = job[p].batch \ {e}, !.mark = e]]
  /\ UNCHANGED <<seq, sync, lock, faults>>

\* One line lands.  The file transport appends and accepts every line; the
\* Hub skips an id it already holds and reports only the ids it added.
SendLine(p) ==
  /\ job[p].pc = "append"
  /\ \E e \in Events :
       /\ NextToSend(p, e)
       /\ IF Hub /\ OnRelay(e)
            THEN /\ job' = [job EXCEPT ![p] =
                      [@ EXCEPT !.batch = job[p].batch \ {e}]]
                 /\ UNCHANGED relay
            ELSE /\ Len(relay) < MaxRelay
                 /\ relay' = Append(relay, e)
                 /\ job' = [job EXCEPT ![p] =
                      [@ EXCEPT !.batch = job[p].batch \ {e}, !.mark = e]]
  /\ UNCHANGED <<seq, sync, lock, faults>>

\* Mutation: the watermark becomes the log's head, not the last accepted row.
SendDone_MarkHead(p) ==
  /\ job[p].pc = "append"
  /\ job[p].batch = {}
  /\ lock' = IF lock = p THEN NoProc ELSE lock
  /\ \E e \in Logged(Home[p]) :
       /\ IsTail(Home[p], seq[Home[p]][e])
       /\ job' = [job EXCEPT ![p] = [@ EXCEPT !.pc = "mark", !.mark = e]]
  /\ UNCHANGED <<seq, sync, relay, faults>>

\* The response: lastAcceptedEventId, when there is one, is recorded next.
SendDone(p) ==
  /\ job[p].pc = "append"
  /\ job[p].batch = {}
  /\ lock' = IF lock = p THEN NoProc ELSE lock
  /\ job' = [job EXCEPT ![p] =
       [@ EXCEPT !.pc = IF job[p].mark = NoEvent THEN "done" ELSE "mark"]]
  /\ UNCHANGED <<seq, sync, relay, faults>>

-----------------------------------------------------------------------------
(* autoPull / pullProject / applyPullResponse *)

\* Mutation: a pull round stands back while the state says 'syncing'.
PullRead_Gated(p) ==
  /\ job[p].pc = "ready"
  /\ sync[Home[p]].status # "syncing"
  /\ job' = [job EXCEPT ![p] =
       [Ready EXCEPT !.pc = "pull", !.since = sync[Home[p]].pulled]]
  /\ UNCHANGED <<seq, sync, relay, lock, faults>>

PullRead(p) ==
  /\ job[p].pc = "ready"
  /\ job' = [job EXCEPT ![p] =
       [Ready EXCEPT !.pc = "pull", !.seen = sync[Home[p]].status,
                     !.since = sync[Home[p]].pulled]]
  /\ UNCHANGED <<seq, sync, relay, lock, faults>>

\* Mutation: the pull watermark is written before the rows are inserted.
PullFetch_WatermarkFirst(p) ==
  /\ job[p].pc = "pull"
  /\ relay # <<>>
  /\ job' = [job EXCEPT ![p] =
       [Ready EXCEPT !.pc = "applied", !.seen = job[p].seen,
                     !.mark = relay[Len(relay)]]]
  /\ UNCHANGED <<seq, sync, relay, lock, faults>>

PullFetch(p) ==
  /\ job[p].pc = "pull"
  /\ \E from \in 1 .. Len(relay) + 1 :
       /\ StartsAt(job[p].since, from)
       /\ IF from <= Len(relay)
            THEN job' = [job EXCEPT ![p] =
                   [Ready EXCEPT !.pc = "insert", !.seen = job[p].seen,
                                 !.from = from, !.to = Len(relay),
                                 !.mark = relay[Len(relay)]]]
            ELSE Goto(p, IF job[p].seen = "idle" THEN "ready" ELSE "heal")
  /\ UNCHANGED <<seq, sync, relay, lock, faults>>

\* Pulled rows the table does not hold yet (INSERT OR IGNORE).
Fresh(p) ==
  {e \in Events \ Logged(Home[p]) :
     \E i \in job[p].from .. job[p].to : relay[i] = e}

\* Fresh rows that arrive no later than e.
UpTo(p, e) ==
  {f \in Fresh(p) :
     \A j \in job[p].from .. job[p].to :
       relay[j] = e => \E i \in job[p].from .. j : relay[i] = f}

\* Mutation: INSERT OR REPLACE, a known row moves to the tail.
PullInsert_Replace(p) ==
  LET r == Home[p] IN
  /\ job[p].pc = "insert"
  /\ \E tail \in Tails(r) :
       /\ IsTail(r, tail)
       /\ seq' = [seq EXCEPT ![r] = [e \in Events |->
            IF \E i \in job[p].from .. job[p].to : relay[i] = e
              THEN tail + 1 ELSE @[e]]]
  /\ job' = [job EXCEPT ![p] =
       [Ready EXCEPT !.pc = "applied", !.seen = job[p].seen,
                     !.mark = job[p].mark, !.inserted = TRUE]]
  /\ UNCHANGED <<sync, relay, lock, faults>>

\* insertExternalEvents: one transaction, rows at the tail in arrival order.
PullInsert(p) ==
  LET r == Home[p] IN
  /\ job[p].pc = "insert"
  /\ \E tail \in Tails(r) :
       /\ IsTail(r, tail)
       /\ seq' = [seq EXCEPT ![r] = [e \in Events |->
            IF e \in Fresh(p) THEN tail + Cardinality(UpTo(p, e)) ELSE @[e]]]
  /\ job' = [job EXCEPT ![p] =
       [Ready EXCEPT !.pc = "applied", !.seen = job[p].seen,
                     !.mark = job[p].mark, !.inserted = Fresh(p) # {}]]
  /\ UNCHANGED <<sync, relay, lock, faults>>

-----------------------------------------------------------------------------
(* Faults *)

\* The transport rejects, is unreachable, or its answer is lost: the call
\* throws, autoPush/autoPull swallow the error, the process is done.
CallFails(p) ==
  /\ job[p].pc \in {"send", "append", "pull"}
  /\ faults < MaxFaults
  /\ faults' = faults + 1
  /\ job' = [job EXCEPT ![p] = Ready]
  /\ lock' = IF lock = p THEN NoProc ELSE lock
  /\ UNCHANGED <<seq, sync, relay>>

\* The process dies between two steps; a lock directory it held stays.
Crash(p) ==
  /\ job[p].pc # "ready"
  /\ faults < MaxFaults
  /\ faults' = faults + 1
  /\ job' = [job EXCEPT ![p] = Ready]
  /\ UNCHANGED <<seq, sync, relay, lock>>

\* withFileLock removes a lock directory older than LOCK_STALE_MS.  A live
\* holder is assumed to finish its batch before that.
BreakStaleLock ==
  /\ lock # NoProc
  /\ job[lock].pc # "append"
  /\ lock' = NoProc
  /\ UNCHANGED <<seq, sync, relay, job, faults>>

-----------------------------------------------------------------------------
PushStep(p) ==
  \/ PushGate(p) \/ PushRead(p) \/ PushBuild(p) \/ PushSlice(p)
  \/ SendStart(p) \/ SendLine(p) \/ SendDone(p)

PullStep(p) == PullRead(p) \/ PullFetch(p) \/ PullInsert(p)

Update(p) == Load(p) \/ Store(p)

Next ==
  \/ \E r \in Replicas, e \in Events : AppendEvent(r, e)
  \/ \E p \in Pushers : PushStep(p)
  \/ \E p \in Pullers : PullStep(p)
  \/ \E p \in Procs : Update(p) \/ CallFails(p) \/ Crash(p)
  \/ BreakStaleLock

Spec == Init /\ [][Next]_vars

\* Boundaries recur (session starts, compactions, commands, the watcher's
\* poll), a started round keeps running unless it fails or crashes, and a
\* dead holder's lock is broken by the next contender.
Fairness ==
  /\ \A p \in Pushers : WF_vars(PushStep(p) \/ Update(p))
  /\ \A p \in Pullers : WF_vars(PullStep(p) \/ Update(p))
  /\ WF_vars(BreakStaleLock)

FairSpec == Spec /\ Fairness
-----------------------------------------------------------------------------
(* Properties *)

TypeOK ==
  /\ seq \in [Replicas -> [Events -> Nat]]
  /\ sync \in [Replicas -> SyncState]
  /\ relay \in Seq(Events)
  /\ lock \in Procs \cup {NoProc}
  /\ job \in [Procs -> Job]
  /\ faults \in 0 .. MaxFaults

\* Every row up to and including e's is on the relay.
PushedUpTo(r, e) ==
  /\ seq[r][e] # 0
  /\ \A f \in Logged(r) : seq[r][f] <= seq[r][e] => OnRelay(f)

\* Some line carries e, and every line up to it is in r's log.
PulledUpTo(r, e) ==
  \E i \in Lines : /\ relay[i] = e
                   /\ \A j \in 1 .. i : relay[j] \in Logged(r)

\* Nothing a push round still holds, or already reported, leaves a hole:
\* the rows before it are on the relay or travel in the same batch.
BatchSound(r, batch, mark) ==
  /\ batch \subseteq Logged(r)
  /\ mark # NoEvent => mark \in Logged(r)
  /\ \A e \in batch \cup ({mark} \ {NoEvent}), f \in Logged(r) :
       seq[r][f] <= seq[r][e] => OnRelay(f) \/ f \in batch

\* A pull response continues the log where the watermark left it.
ResponseSound(r, from, to, mark) ==
  /\ 1 <= from /\ from <= to /\ to <= Len(relay)
  /\ mark = relay[to]
  /\ \A i \in 1 .. from - 1 : relay[i] \in Logged(r)

\* sync.json, or a copy of it, with sound watermarks.
StateSound(r, state) ==
  /\ state.pushed # NoEvent => PushedUpTo(r, state.pushed)
  /\ state.pulled # NoEvent => PulledUpTo(r, state.pulled)

\* What each process has read or computed is as sound as the watermark it
\* will become.
RoundSound(r, j) ==
  /\ j.base # NoState => StateSound(r, j.base)
  /\ j.pc = "slice" /\ j.since # NoEvent => PushedUpTo(r, j.since)
  /\ j.pc \in {"flag", "send", "append"} => BatchSound(r, j.batch, j.mark)
  /\ j.pc = "mark" => j.mark # NoEvent /\ PushedUpTo(r, j.mark)
  /\ j.pc = "pull" /\ j.since # NoEvent => PulledUpTo(r, j.since)
  /\ j.pc = "insert" => ResponseSound(r, j.from, j.to, j.mark)
  /\ j.pc = "applied" => j.mark # NoEvent /\ PulledUpTo(r, j.mark)

\* The push watermark never runs ahead of the relay: no row at or before it
\* is missing there, whatever rounds overlapped, failed or crashed
\* (buildPushPayload and markPushed: a row behind the watermark is never
\* sent again).
PushWatermarkSound ==
  \A r \in Replicas :
    sync[r].pushed # NoEvent => PushedUpTo(r, sync[r].pushed)

\* The pull watermark never runs ahead of the log: every line a later pull
\* skips is already in the table (applyPullResponse advances it last).
PullWatermarkSound ==
  \A r \in Replicas :
    sync[r].pulled # NoEvent => PulledUpTo(r, sync[r].pulled)

\* The inductive invariant.
SyncInv ==
  /\ TypeOK
  /\ \A r \in Replicas : StateSound(r, sync[r])
  /\ \A p \in Procs : RoundSound(Home[p], job[p])

\* A row keeps its number forever and a line its place: neither a pull nor a
\* re-push rewrites history.
HistoryKept ==
  [][/\ \A r \in Replicas, e \in Events :
          seq[r][e] # 0 => seq'[r][e] = seq[r][e]
     /\ SubSeq(relay', 1, Len(relay)) = relay]_<<seq, relay>>

\* An event in the log of a replica that pushes reaches every replica,
\* through failed calls, crashed rounds and stale reads of sync.json.
Delivery ==
  \A p \in Pushers, q \in Replicas, e \in Events :
    e \in Logged(Home[p]) ~> e \in Logged(q)

\* The abstract specification this one implements.
Abstract == INSTANCE EventReplication WITH
  have <- [r \in Replicas |-> Logged(r)],
  shared <- {e \in Events : OnRelay(e)}

AbstractSpec == Abstract!Spec
=============================================================================
