----------------------------- MODULE Projector -----------------------------
(***************************************************************************)
(* The fold of projections/projector.ts, with the transitions of           *)
(* domain/state-machines.ts: what the rows of an event log say of tasks,   *)
(* requests, decisions, memories and conflicts, for the store whose own    *)
(* project is `self`.                                                      *)
(*                                                                         *)
(* The reducer changes its state row by row.  A later row counts only      *)
(* where the row it names was there before it, which is how its result is  *)
(* described here: a row stands for the entity it creates, and what became *)
(* of the entity is told by the rows after it.                             *)
(***************************************************************************)
EXTENDS Naturals, Sequences, FiniteSets

None == "none"

\* The fields of a row.  kind: the type of the event.  id: of the entity it
\* creates, else its own.  src: sourceProjectId.  proj: projectId.  ref, to: the
\* entities it names, or 0.  tag: its status, role, path or target.  who: its
\* session.
RowFields == {"kind", "id", "src", "proj", "ref", "to", "tag", "who"}

Rows(log, kind) == {i \in DOMAIN log : log[i].kind = kind}
Ids(log, kind) == {log[i].id : i \in Rows(log, kind)}
Find(log, kind, id) == CHOOSE i \in Rows(log, kind) : log[i].id = id
Latest(S) == CHOOSE i \in S : \A j \in S : j <= i

------------------------------------------------------------------------------
(* Lanes. *)

Members(log) == {log[i].proj : i \in Rows(log, "genesis")}

\* A row written before provenance was stamped belongs to the store itself,
\* unless the log is a union of several projects.
Lane(log, self, i) ==
  IF log[i].src # None THEN log[i].src
  ELSE IF Cardinality(Members(log)) > 1 THEN log[i].proj ELSE self

\* The rows of a kind after row i that name its entity.
About(log, i, kinds) ==
  {j \in DOMAIN log : j > i /\ log[j].kind \in kinds /\ log[j].ref = log[i].id}

\* Those that are also of its lane.
Within(log, self, i, kinds) ==
  {j \in About(log, i, kinds) : Lane(log, self, j) = Lane(log, self, i)}

------------------------------------------------------------------------------
(* Tasks and task requests. *)

NextStatuses ==
  [todo          |-> {"in_progress", "blocked", "cancelled"},
   in_progress   |-> {"handoff_ready", "done", "blocked", "cancelled"},
   handoff_ready |-> {"in_progress", "done", "cancelled"},
   blocked       |-> {"in_progress", "handoff_ready", "cancelled"},
   done          |-> {},
   cancelled     |-> {}]

Terminal == {"done", "cancelled"}

CanBecome(from, to) == from = to \/ to \in NextStatuses[from]

TaskStatus(log, self, id) ==
  LET i == Find(log, "task", id)
      patches == Within(log, self, i, {"status"}) IN
  IF patches = {} THEN "todo" ELSE log[Latest(patches)].tag

\* A request is resolved by its id, from whatever lane the answer comes, and
\* the last answer stands.
Answers(log, i) == About(log, i, {"accepted", "declined"})

RequestStatus(log, id) ==
  LET answers == Answers(log, Find(log, "request", id)) IN
  IF answers = {} THEN "pending" ELSE log[Latest(answers)].kind

ResolvedBy(log, id) == log[Latest(Answers(log, Find(log, "request", id)))].to

------------------------------------------------------------------------------
(* Decisions and conflicts: keyed by id alone. *)

DecisionSuperseded(log, id) ==
  About(log, Find(log, "decision", id), {"decisionSuperseded"}) # {}

Open(log, i) == About(log, i, {"resolved"}) = {}
OpenConflicts(log) == {i \in Rows(log, "conflict") : Open(log, i)}

------------------------------------------------------------------------------
(* Memories. *)

Superseded(log, i) == About(log, i, {"superseded"}) # {}

\* A retraction counts within its own lane, or from an owner.
Retracted(log, self, i) ==
  \E j \in About(log, i, {"retracted"}) :
    \/ Lane(log, self, j) = Lane(log, self, i)
    \/ log[j].tag = "owner"

\* Not closed by a row: what the deduplication looks at.
Standing(log, self) ==
  {i \in Rows(log, "memory") : ~ Superseded(log, i) /\ ~ Retracted(log, self, i)}

\* Distilled from the same observations, with the same kind and text: one
\* number here, 0 for a memory of no observation.
Twins(log, self, i, j) ==
  /\ log[i].to # 0 /\ log[i].to = log[j].to
  /\ Lane(log, self, i) = Lane(log, self, j)

\* (createdAt, id): ids are minted in the order of the clock here.
Before(log, i, j) == log[i].id < log[j].id

Loses_ByArrival(log, self, i, j) == Twins(log, self, i, j) /\ j < i

\* i is marked as a duplicate of j.
Loses(log, self, i, j) == Twins(log, self, i, j) /\ Before(log, j, i)

Valid(log, self) ==
  LET standing == Standing(log, self) IN
  {i \in standing : \A j \in standing : ~ Loses(log, self, i, j)}

OwnValid(log, self) == {i \in Valid(log, self) : Lane(log, self, i) = self}
==============================================================================
