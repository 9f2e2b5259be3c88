---------------------------- MODULE Projection ----------------------------
(***************************************************************************)
(* The commands that write through the projection: tasks (services/        *)
(* task-service.ts, cli/commands/task.ts), requests between projects       *)
(* (task-request-service.ts), decisions, retractions and reverts           *)
(* (project-service.ts), conflicts (conflict-service.ts), contradictions   *)
(* (contradiction-service.ts) and live sharing between parallel sessions   *)
(* (realtime-share-service.ts), over stores that exchange whole logs.      *)
(*                                                                         *)
(* Every command checks the tables, appends what the check allowed, reads  *)
(* the log and replaces the tables by its fold.  Other processes take      *)
(* their steps between these.  The tables are kept as the number of rows   *)
(* they were folded from.                                                  *)
(***************************************************************************)
EXTENDS Projector, SequencesExt

CONSTANTS
  Commands,               \* processes
  Stores, HomeOf,         \* local stores, and the project each holds
  Owners,                 \* stores whose account owns the workspace
  Sessions, At,           \* agent sessions, and the store each works in
  Aged,                   \* the project with a memory of before provenance
  Windows,                \* what a boundary may distil, 0 for nothing observed
  Files,
  MaxLive, MaxScan,       \* MAX_LIVE_OBSERVATIONS and the like; MAX_DELTA_SCAN
  Mixes                   \* bound: which commands one behaviour may run, at
                          \* which stores, how many, how many are killed, and
                          \* which stores start with a draft, oldest first

ASSUME ProjectionAssumption ==
  /\ HomeOf \in [Stores -> STRING] /\ IsFiniteSet(Stores)
  /\ At \in [Sessions -> Stores] /\ None \notin Sessions
  /\ Owners \subseteq Stores /\ Windows \subseteq Nat
  /\ {MaxLive, MaxScan} \subseteq Nat
  /\ \A m \in Mixes : m.stores \subseteq Stores /\ m.drafts \in Seq(Stores)

VARIABLES
  log,         \* store -> its rows, in the order of their seq
  tables,      \* store -> how many rows its tables were folded from
  hub,         \* the rows of the workspace, in the order they came
  mark,        \* session -> the position of its live-share watermark, or 0
  proc,        \* command -> what it is doing
  mix,         \* the mix of this behaviour
  minted,      \* how many ids were made
  left, kills, \* how many commands, and kills, it has left
  since,       \* history: session -> the position it was seeded with
  shown,       \* history: session -> the rows delivered to it
  passed       \* history: session -> the rows left out by a limit or a kill

past == <<since, shown, passed>>
bounds == <<mix, left, kills>>
projectionVars == <<log, tables, hub, mark, proc, minted, bounds, past>>

\* at: the step it is at; session: of a PostToolUse hook; batches: what it
\* still has to append; folded: what its rebuild has read; seen, upto, files:
\* the live update it is composing
Idle == [at |-> "idle", store |-> None, session |-> None, batches |-> <<>>,
         folded |-> 0, seen |-> {}, upto |-> 0, files |-> {}]

Row(kind, s, id, ref, to, tag, who) ==
  [kind |-> kind, id |-> id, src |-> HomeOf[s], proj |-> HomeOf[s],
   ref |-> ref, to |-> to, tag |-> tag, who |-> who]

ValidIds(s) == {log[s][i].id : i \in Valid(log[s], HomeOf[s])}

\* What the tables of a store show.
Table(s) == SubSeq(log[s], 1, tables[s])

\* The numbers of S from the least to the greatest.
Sorted(S) ==
  [k \in 1..Cardinality(S) |-> CHOOSE i \in S : Cardinality({j \in S : j <= i}) = k]

\* The rows of one log that another lacks, in their order.
Missing(from, to) ==
  LET new == Sorted({i \in DOMAIN from : from[i] \notin ToSet(to)}) IN
  [k \in DOMAIN new |-> from[new[k]]]

Projects == {HomeOf[s] : s \in Stores}
Origin(p) == CHOOSE s \in Stores : HomeOf[s] = p
Genesis(p) == [Row("genesis", Origin(p), 0, 0, 0, p, None) EXCEPT !.src = None]

\* A memory of the time before provenance was stamped.
Legacy(p) == [Row("memory", Origin(p), 1, 0, 1, None, None) EXCEPT !.src = None]

\* What the projects of P bring.  Bound: the behaviours that start with drafts
\* have no such memory.
Start(P) ==
  SetToSeq({Genesis(p) : p \in P})
    \o SetToSeq({Legacy(p) : p \in IF mix.drafts = <<>> THEN P \cap {Aged} ELSE {}})

\* A memory of a conversation, made before its store next syncs.
Drafts(s) ==
  {Row("memory", s, k + 1, 0, 0, None, None) : k \in {d \in DOMAIN mix.drafts : mix.drafts[d] = s}}

\* The workspace is joined: every store has the rows of the others, its own
\* first.
ProjectionInit ==
  /\ mix \in Mixes
  /\ log = [s \in Stores |->
       Start({HomeOf[s]}) \o Start(Projects \ {HomeOf[s]}) \o SetToSeq(Drafts(s))]
  /\ tables = [s \in Stores |-> Len(log[s])]
  /\ hub = Start(Projects)
  /\ mark = [x \in Sessions |-> 0]
  /\ proc = [c \in Commands |-> Idle]
  /\ minted = 1 + Len(mix.drafts) /\ left = mix.runs /\ kills = mix.kills
  /\ since = [x \in Sessions |-> 0]
  /\ shown = [x \in Sessions |-> {}]
  /\ passed = [x \in Sessions |-> {}]

------------------------------------------------------------------------------
(* A command starts: it has checked the tables and knows what to append. *)

\* Commands of one store overlap as they please.  Those of two stores touch
\* nothing in common, and a push only reads: their order with the steps of a
\* command is of no account, and they are taken one after the other.
Free(c, s) ==
  /\ proc[c].at = "idle"
  /\ \A d \in Commands : proc[d].at = "idle" \/ proc[d].store = s

Begin(c, s, batches, ids) ==
  /\ Free(c, s) /\ left > 0
  /\ proc' = [proc EXCEPT ![c] = [Idle EXCEPT !.at = "append", !.store = s,
                                              !.batches = batches]]
  /\ minted' = minted + ids /\ left' = left - 1
  /\ UNCHANGED <<log, tables, hub, mark, mix, kills, past>>

New == minted + 1
One(row) == <<<<row>>>>

TaskRow(s, id) == Row("task", s, id, 0, 0, None, None)
StatusRow(s, id, t, st) == Row("status", s, id, t, 0, st, None)

CreateTask(c, s) == Begin(c, s, One(TaskRow(s, New)), 1)

\* updateTask: a change of status is checked against the tables.
UpdateTask(c, s, t, to) ==
  /\ t \in Ids(Table(s), "task")
  /\ CanBecome(TaskStatus(Table(s), HomeOf[s], t), to)
  /\ Begin(c, s, One(StatusRow(s, New, t, to)), 1)

StartTask(c, s) ==
  \E t \in Ids(Table(s), "task") :
    /\ TaskStatus(Table(s), HomeOf[s], t) \notin Terminal \cup {"in_progress"}
    /\ UpdateTask(c, s, t, "in_progress")

DoneTask(c, s) == \E t \in Ids(Table(s), "task") : UpdateTask(c, s, t, "done")

CancelTask(c, s) == \E t \in Ids(Table(s), "task") : UpdateTask(c, s, t, "cancelled")

\* The handoff and the change of status are one batch.
Handoff(c, s) ==
  \E t \in Ids(Table(s), "task") :
    /\ CanBecome(TaskStatus(Table(s), HomeOf[s], t), "handoff_ready")
    /\ Begin(c, s, <<<<Row("handoff", s, New, t, 0, None, None),
                       StatusRow(s, New + 1, t, "handoff_ready")>>>>, 2)

AppendItems(c, s) ==
  \E t \in Ids(Table(s), "task") :
    Begin(c, s, One(Row("item", s, New, t, 0, None, None)), 1)

\* A checkpoint asks for no task to be there.
Checkpoint(c, s) == Begin(c, s, One(Row("checkpoint", s, New, 0, 0, None, None)), 1)

------------------------------------------------------------------------------
(* Requests between projects. *)

RequestTask(c, s) ==
  \E p \in Members(log[s]) \ {HomeOf[s]} :
    Begin(c, s, One(Row("request", s, New, 0, 0, p, None)), 1)

PendingInbound(s) ==
  {r \in Ids(Table(s), "request") :
     /\ Table(s)[Find(Table(s), "request", r)].tag = HomeOf[s]
     /\ RequestStatus(Table(s), r) = "pending"}

Minting_AnswerFirst(s, r) ==
  <<<<Row("accepted", s, New + 1, r, New, None, None)>>, <<TaskRow(s, New)>>>>

\* The task first, and the answer that names it in a batch of its own.
Minting(s, r) == <<<<TaskRow(s, New)>>, <<Row("accepted", s, New + 1, r, New, None, None)>>>>

Accept(c, s) == \E r \in PendingInbound(s) : Begin(c, s, Minting(s, r), 2)

Decline(c, s) ==
  \E r \in PendingInbound(s) :
    Begin(c, s, One(Row("declined", s, New, r, 0, None, None)), 1)

------------------------------------------------------------------------------
(* Decisions and conflicts. *)

\* decision.proposed and decision.accepted in one batch: one row here.
RecordDecision(c, s) == Begin(c, s, One(Row("decision", s, New, 0, 0, None, None)), 1)

SupersedeDecision(c, s) ==
  \E d \in Ids(Table(s), "decision") :
    /\ ~ DecisionSuperseded(Table(s), d)
    /\ Begin(c, s, <<<<Row("decision", s, New, 0, 0, None, None),
                       Row("decisionSuperseded", s, New + 1, d, New, None, None)>>>>, 2)

ResolveConflict(c, s) ==
  \E i \in OpenConflicts(Table(s)) :
    Begin(c, s, One(Row("resolved", s, New, Table(s)[i].id, 0, None, None)), 1)

------------------------------------------------------------------------------
(* Memories. *)

\* A boundary distils a window no memory of the tables names; the extractor
\* may name a valid memory of this store that the new one replaces.
Consolidate(c, s) ==
  \E w \in Windows, x \in Sessions \cup {None} :
    /\ \A i \in Rows(Table(s), "memory") : w = 0 \/ Table(s)[i].to # w
    /\ x # None => At[x] = s
    /\ \E old \in OwnValid(Table(s), HomeOf[s]) \cup {0} :
         LET memory == Row("memory", s, New, 0, w, None, x) IN
         Begin(c, s, IF old = 0 THEN One(memory) ELSE
                     <<<<memory, Row("superseded", s, New + 1, Table(s)[old].id,
                                     New, None, None)>>>>, 2)

\* The newer of two contradicting memories stands.
Newest_ByArrival(rows, i, j) == IF i < j THEN j ELSE i
Newest(rows, i, j) == IF Before(rows, i, j) THEN j ELSE i

DetectContradictions(c, s) ==
  \E i, j \in OwnValid(Table(s), HomeOf[s]) :
    LET winner == Newest(Table(s), i, j)
        loser == IF winner = i THEN j ELSE i IN
    /\ i # j
    /\ Begin(c, s, <<<<Row("superseded", s, New + 1, Table(s)[loser].id,
                           Table(s)[winner].id, None, None),
                       Row("conflict", s, New, 0, 0, "decision", None)>>>>, 2)

Retraction(s, id, i, role) ==
  Row("retracted", s, id, Table(s)[i].id, 0, role, None)

\* The memory of another project takes an owner, whose role the row carries.
RetractMemory(c, s) ==
  \E i \in Rows(Table(s), "memory") :
    \/ /\ Lane(Table(s), HomeOf[s], i) = HomeOf[s]
       /\ Begin(c, s, One(Retraction(s, New, i, None)), 1)
    \/ /\ Lane(Table(s), HomeOf[s], i) # HomeOf[s] /\ s \in Owners
       /\ Begin(c, s, One(Retraction(s, New, i, "owner")), 1)

RevertSession(c, s) ==
  \E x \in Sessions :
    LET targets == {i \in OwnValid(Table(s), HomeOf[s]) : Table(s)[i].who = x} IN
    /\ targets # {}
    /\ Begin(c, s, <<[k \in 1..Cardinality(targets) |->
                        Retraction(s, minted + k, Sorted(targets)[k], None)]>>,
             Cardinality(targets))

------------------------------------------------------------------------------
(* Append and rebuild. *)

\* The rows are appended and the log is read back for the fold: another
\* process may only make what is read newer.
AppendRows(c) ==
  LET s == proc[c].store IN
  /\ proc[c].at = "append"
  /\ log' = [log EXCEPT ![s] = @ \o Missing(Head(proc[c].batches), @)]
  /\ proc' = [proc EXCEPT ![c].batches = Tail(@), ![c].at = "write",
                          ![c].folded = Len(log'[s])]
  /\ UNCHANGED <<tables, hub, mark, minted, bounds, past>>

\* Replaces every table, by an older fold too where another process was faster.
Write(c) ==
  /\ proc[c].at = "write"
  /\ tables' = [tables EXCEPT ![proc[c].store] = proc[c].folded]
  /\ proc' = [proc EXCEPT ![c] =
       IF @.batches # <<>> THEN [@ EXCEPT !.at = "append", !.folded = 0]
       ELSE IF @.session = None THEN Idle
       ELSE [@ EXCEPT !.at = IF proc[c].upto > 0 THEN "deliver" ELSE "share",
                      !.folded = 0]]
  /\ UNCHANGED <<log, hub, mark, minted, bounds, past>>

------------------------------------------------------------------------------
(* Live sharing: a PostToolUse hook. *)

\* The tool use is captured, or is not worth an observation.
Hook(c, x) ==
  LET s == At[x] IN
  /\ Free(c, s) /\ left > 0
  /\ \/ \E f \in Files :
          proc' = [proc EXCEPT ![c] =
            [Idle EXCEPT !.at = "append", !.store = s, !.session = x,
                         !.batches = One(Row("observation", s, New, 0, 0, f, x))]]
     \/ proc' = [proc EXCEPT ![c] =
          [Idle EXCEPT !.at = "share", !.store = s, !.session = x]]
  /\ minted' = minted + 1 /\ left' = left - 1
  /\ UNCHANGED <<log, tables, hub, mark, mix, kills, past>>

Touched(rows, x) ==
  {rows[i].tag : i \in {k \in Rows(rows, "observation") : rows[k].who = x}}

\* No watermark yet: it is set to the head, and nothing is shared this time.
Seed(c) ==
  LET s == proc[c].store  x == proc[c].session IN
  /\ proc[c].at = "share" /\ mark[x] = 0
  /\ mark' = [mark EXCEPT ![x] = Len(log[s])]
  /\ since' = [since EXCEPT ![x] = Len(log[s])]
  /\ proc' = [proc EXCEPT ![c] = Idle]
  /\ UNCHANGED <<log, tables, hub, minted, bounds, shown, passed>>

\* A session is shown the memories of all, itself included, and the
\* observations of the others.
Shareable(row, x) ==
  \/ row.kind = "memory"
  \/ row.kind = "observation" /\ row.who # x

News(s, x) == {i \in mark[x]+1 .. Len(log[s]) : Shareable(log[s][i], x)}

\* Of a long window only the last rows are looked at.
Scan(s, x) == {i \in News(s, x) : i + MaxScan > Len(log[s])}

\* Of each kind as many as the limit allows.
Capped(S) ==
  {T \in SUBSET S : \/ Cardinality(T) = MaxLive
                    \/ T = S /\ Cardinality(S) < MaxLive}

Limited(s, x, kind) == Capped(Scan(s, x) \cap Rows(log[s], kind))

Delta(s, x) ==
  {A \cup B : A \in Limited(s, x, "memory"), B \in Limited(s, x, "observation")}

Compose(c) ==
  LET s == proc[c].store  x == proc[c].session IN
  /\ proc[c].at = "share" /\ mark[x] # 0
  /\ IF mark[x] = Len(log[s]) THEN proc' = [proc EXCEPT ![c] = Idle] /\ UNCHANGED passed
     ELSE \E seen \in Delta(s, x) :
       /\ proc' = [proc EXCEPT ![c].at = "advance", ![c].seen = seen,
            ![c].upto = Len(log[s]),
            ![c].files = Touched(Table(s), x) \cap
              {log[s][i].tag : i \in Scan(s, x) \cap Rows(log[s], "observation")}]
       /\ passed' = [passed EXCEPT ![x] = @ \cup (News(s, x) \ seen)]
  /\ UNCHANGED <<log, tables, hub, mark, minted, bounds, since, shown>>

Scanned_Head(c) == Len(log[proc[c].store])
Scanned(c) == proc[c].upto

\* The watermark moves before anything is delivered.
Advance(c) ==
  LET x == proc[c].session IN
  /\ proc[c].at = "advance"
  /\ mark' = [mark EXCEPT ![x] = Scanned(c)]
  /\ proc' = [proc EXCEPT ![c] = IF @.seen = {} THEN Idle
                                 ELSE [@ EXCEPT !.at = "promote"]]
  /\ UNCHANGED <<log, tables, hub, minted, bounds, past>>

Covered(s) == {Table(s)[i].tag : i \in OpenConflicts(Table(s))}

\* A collision with no open conflict on the file becomes one.
Promote(c) ==
  LET s == proc[c].store
      fresh == proc[c].files \ Covered(s) IN
  /\ proc[c].at = "promote"
  /\ IF fresh # {} THEN \E f \in fresh :
       /\ proc' = [proc EXCEPT ![c].at = "append",
            ![c].batches = One(Row("conflict", s, New, 0, 0, f, proc[c].session))]
       /\ minted' = minted + 1
     ELSE proc' = [proc EXCEPT ![c].at = "deliver"] /\ UNCHANGED minted
  /\ UNCHANGED <<log, tables, hub, mark, bounds, past>>

Deliver(c) ==
  LET x == proc[c].session IN
  /\ proc[c].at = "deliver"
  /\ shown' = [shown EXCEPT ![x] = @ \cup proc[c].seen]
  /\ proc' = [proc EXCEPT ![c] = Idle]
  /\ UNCHANGED <<log, tables, hub, mark, minted, bounds, since, passed>>

\* The session ends or is reaped: its watermark goes.
DropMark(x) ==
  /\ mark[x] # 0
  /\ mark' = [mark EXCEPT ![x] = 0]
  /\ UNCHANGED <<log, tables, hub, proc, minted, bounds, past>>

------------------------------------------------------------------------------
(* The other stores, and faults. *)

Push(s) ==
  /\ Missing(log[s], hub) # <<>>
  /\ \A c \in Commands : proc[c].at = "idle"
  /\ hub' = hub \o Missing(log[s], hub)
  /\ UNCHANGED <<log, tables, mark, proc, minted, bounds, past>>

Pull(c, s) ==
  /\ Free(c, s) /\ Missing(hub, log[s]) # <<>>
  /\ proc' = [proc EXCEPT ![c] = [Idle EXCEPT !.at = "append", !.store = s,
                                    !.batches = <<Missing(hub, log[s])>>]]
  /\ UNCHANGED <<log, tables, hub, mark, minted, bounds, past>>

Kill(c) ==
  LET x == proc[c].session IN
  /\ proc[c].at # "idle" /\ kills > 0
  /\ kills' = kills - 1
  /\ proc' = [proc EXCEPT ![c] = Idle]
  /\ passed' = IF x = None \/ proc[c].at = "advance" THEN passed
               ELSE [passed EXCEPT ![x] = @ \cup proc[c].seen]
  /\ UNCHANGED <<log, tables, hub, mark, minted, mix, left, since, shown>>

ProjectionNext ==
  \/ \E c \in Commands, s \in mix.stores : "CreateTask" \in mix.commands /\ CreateTask(c, s)
  \/ \E c \in Commands, s \in mix.stores : "StartTask" \in mix.commands /\ StartTask(c, s)
  \/ \E c \in Commands, s \in mix.stores : "DoneTask" \in mix.commands /\ DoneTask(c, s)
  \/ \E c \in Commands, s \in mix.stores : "CancelTask" \in mix.commands /\ CancelTask(c, s)
  \/ \E c \in Commands, s \in mix.stores : "Handoff" \in mix.commands /\ Handoff(c, s)
  \/ \E c \in Commands, s \in mix.stores : "AppendItems" \in mix.commands /\ AppendItems(c, s)
  \/ \E c \in Commands, s \in mix.stores : "Checkpoint" \in mix.commands /\ Checkpoint(c, s)
  \/ \E c \in Commands, s \in mix.stores : "RequestTask" \in mix.commands /\ RequestTask(c, s)
  \/ \E c \in Commands, s \in mix.stores : "Accept" \in mix.commands /\ Accept(c, s)
  \/ \E c \in Commands, s \in mix.stores : "Decline" \in mix.commands /\ Decline(c, s)
  \/ \E c \in Commands, s \in mix.stores : "RecordDecision" \in mix.commands /\ RecordDecision(c, s)
  \/ \E c \in Commands, s \in mix.stores : "SupersedeDecision" \in mix.commands /\ SupersedeDecision(c, s)
  \/ \E c \in Commands, s \in mix.stores : "ResolveConflict" \in mix.commands /\ ResolveConflict(c, s)
  \/ \E c \in Commands, s \in mix.stores : "Consolidate" \in mix.commands /\ Consolidate(c, s)
  \/ \E c \in Commands, s \in mix.stores : "DetectContradictions" \in mix.commands /\ DetectContradictions(c, s)
  \/ \E c \in Commands, s \in mix.stores : "RetractMemory" \in mix.commands /\ RetractMemory(c, s)
  \/ \E c \in Commands, s \in mix.stores : "RevertSession" \in mix.commands /\ RevertSession(c, s)
  \/ \E c \in Commands, x \in Sessions : "Hook" \in mix.commands /\ Hook(c, x)
  \/ \E c \in Commands : AppendRows(c)
  \/ \E c \in Commands : Write(c)
  \/ \E c \in Commands : Seed(c)
  \/ \E c \in Commands : Compose(c)
  \/ \E c \in Commands : Advance(c)
  \/ \E c \in Commands : Promote(c)
  \/ \E c \in Commands : Deliver(c)
  \/ \E x \in Sessions : DropMark(x)
  \/ \E s \in mix.stores : Push(s)
  \/ \E c \in Commands, s \in mix.stores : Pull(c, s)
  \/ \E c \in Commands : Kill(c)

ProjectionSpec == ProjectionInit /\ [][ProjectionNext]_projectionVars

------------------------------------------------------------------------------
(* Properties. *)

\* Replicas that hold the same rows, in whatever order these came, take the
\* same memories for valid (projector.ts:176: "identical result on every
\* replica regardless of sync order").
ValidityConverges ==
  \A s, t \in Stores :
    ToSet(log[s]) = ToSet(log[t]) => ValidIds(s) = ValidIds(t)

\* Deduplication and supersession, by whichever replicas, never close every
\* memory of a project: only a retraction leaves it with none.
TruthStands ==
  \A s \in Stores : Rows(log[s], "retracted") = {} =>
    \A i \in Rows(log[s], "memory") :
      \E j \in Valid(log[s], HomeOf[s]) :
        Lane(log[s], HomeOf[s], j) = Lane(log[s], HomeOf[s], i)

\* Wherever a request shows as accepted, the task that took it on is there
\* too, as a task of the project that was asked.
RequestBacked ==
  \A s \in Stores : \A r \in Ids(log[s], "request") :
    RequestStatus(log[s], r) = "accepted" =>
      \E i \in Rows(log[s], "task") :
        /\ log[s][i].id = ResolvedBy(log[s], r)
        /\ Lane(log[s], HomeOf[s], i) = log[s][Find(log[s], "request", r)].tag

\* What the watermark of a session has passed since it was seeded was
\* delivered to it, is about to be, or was left out by a limit or a kill.
ShareComplete ==
  \A x \in Sessions : \A i \in since[x]+1 .. mark[x] :
    Shareable(log[At[x]][i], x) =>
      i \in shown[x] \cup passed[x] \cup
           UNION {proc[c].seen : c \in {d \in Commands : proc[d].session = x}}

\* A retracted memory does not come back as a duplicate it had hidden
\* (project-service.ts:304: "it stops surfacing in list/search/injection").
RetractionSticks ==
  \A s \in Stores : \A i, j \in Rows(log[s], "memory") :
    \A k \in About(log[s], i, {"retracted"}) :
      /\ Lane(log[s], HomeOf[s], k) = Lane(log[s], HomeOf[s], i)
      /\ Twins(log[s], HomeOf[s], i, j) /\ j < k
      => j \notin Valid(log[s], HomeOf[s])
==============================================================================
