--------------------------------- MODULE Gc ---------------------------------
(***************************************************************************)
(* services/gc-service.ts: gcUnpushedRetracted physically deletes the rows *)
(* of retracted memories that no other machine is thought to have.         *)
(*                                                                         *)
(* One store, with what moves its two watermarks: boundaries that distil   *)
(* observations, and pushes to and pulls from a relay that other machines  *)
(* write to as well.  The sweep takes no lock: it reads the rows, awaits   *)
(* the sync file, deletes in one transaction and repairs the consolidation *)
(* watermark in another.  The memories table is taken to follow the log    *)
(* (Consolidation models how it lags).                                     *)
(*                                                                         *)
(* An order of events, of the log's rows or of what the relay accepted, is *)
(* a function that numbers them from 1 and gives 0 to those not in it.     *)
(***************************************************************************)
EXTENDS Naturals, FiniteSets, FiniteSetsExt, Functions

CONSTANTS
  Observations,   \* observation ids
  Memories,       \* memory ids
  MaxPeerEvents   \* bound: events other machines write to the relay

ASSUME GcAssumption ==
  /\ IsFiniteSet(Observations) /\ IsFiniteSet(Memories)
  /\ MaxPeerEvents \in Nat

VARIABLES
  log,       \* the events table: the seq of each event's row
  sources,   \* sources[m]: the sourceObservationIds of memory m
  mark,      \* event the consolidation watermark names
  boundary,  \* the locals of the boundary under way
  pushed,    \* event lastPushedEventId names
  pulled,    \* place on the relay of the event lastPulledEventId names
  push,      \* the locals of the push under way
  relay,     \* the place of each event the relay accepted, from anyone
  peers,     \* how many of them came from another
  sweep,     \* the locals of the sweep under way
  gone,      \* history: events a sweep deleted
  premise    \* history: what the sweeps assume was true of each of them

boundaries == <<mark, boundary>>
syncing == <<pushed, pulled, push, relay, peers>>
sweeping == <<sweep, gone, premise>>
vars == <<log, sources, boundaries, syncing, sweeping>>

Root == <<"project">>
Obs(o) == <<"observation", o>>
Mem(m) == <<"memory", m>>
Ret(m) == <<"retraction", m>>
None == <<>>

Events ==
  {Root} \cup {Obs(o) : o \in Observations}
    \cup {Mem(m) : m \in Memories} \cup {Ret(m) : m \in Memories}

Nowhere == [e \in Events |-> 0]

On(order) == {e \in Events : order[e] > 0}

Top(order) == Max(Range(order))

\* The seq of event e, 0 when there is no such row.
RowOf(e, order) == IF e \in Events THEN order[e] ELSE 0

LastOf(E, order) == CHOOSE e \in E : \A x \in E : order[x] <= order[e]

After(n, order) == [e \in Events |-> IF order[e] > n THEN order[e] ELSE 0]

\* What `more` has and `order` has not comes behind it, in the order of `more`.
Extended(order, more) ==
  LET new == On(more) \ On(order)
  IN [e \in Events |->
        IF e \in new
          THEN Top(order) + Cardinality({x \in new : more[x] <= more[e]})
          ELSE order[e]]

NoBoundary == [pc |-> "idle", window |-> {}, last |-> None]
NoPush == [pc |-> "idle", rows |-> Nowhere, last |-> None]
NoSweep == [pc |-> "idle", rows |-> Nowhere, target |-> None]

Init ==
  /\ log = [Nowhere EXCEPT ![Root] = 1]
  /\ sources = [m \in Memories |-> {}]
  /\ mark = None
  /\ boundary = NoBoundary
  /\ pushed = None
  /\ pulled = 0
  /\ push = NoPush
  /\ relay = Nowhere
  /\ peers = 0
  /\ sweep = NoSweep
  /\ gone = {}
  /\ premise = TRUE

\* readEventsSince: an id that names no row means the whole log.
Since(e) == After(RowOf(e, log), log)

MemoriesOn(rows) == {m \in Memories : Mem(m) \in On(rows)}
RetractedOn(rows) == {m \in Memories : Ret(m) \in On(rows)}

\* Ids are never given out again.
Known == On(log) \cup On(relay) \cup gone

With(order, e) == [order EXCEPT ![e] = Top(order) + 1]

-----------------------------------------------------------------------------
(* The store at work *)

Capture(o) ==
  /\ Obs(o) \notin Known
  /\ log' = With(log, Obs(o))
  /\ UNCHANGED <<sources, boundaries, syncing, sweeping>>

\* retractMemory; a memory of another writer needs the owner role, which
\* this store may have.
Retract(m) ==
  /\ Mem(m) \in On(log)
  /\ Ret(m) \notin Known
  /\ log' = With(log, Ret(m))
  /\ UNCHANGED <<sources, boundaries, syncing, sweeping>>

\* The observations behind the watermark.
Pending == {Obs(o) : o \in Observations} \cap On(Since(mark))

\* Those no memory was distilled from.
Fresh ==
  {o \in Observations : Obs(o) \in Pending}
    \ UNION {sources[m] : m \in MemoriesOn(log)}

BoundaryRead ==
  /\ boundary.pc = "idle"
  /\ Pending # {}
  /\ LET last == LastOf(Pending, log) IN
       IF Fresh = {}
         THEN mark' = last /\ UNCHANGED boundary
         ELSE /\ boundary' = [pc |-> "extract", window |-> Fresh, last |-> last]
              /\ UNCHANGED mark
  /\ UNCHANGED <<log, sources, syncing, sweeping>>

Placed(M, place) ==
  [e \in Events |-> IF \E m \in M : e = Mem(m)
                      THEN place[CHOOSE m \in M : e = Mem(m)] ELSE 0]

\* The extractor answers with some memories, each distilled from the whole
\* window and all appended at once, or fails.
BoundaryAppend ==
  /\ boundary.pc = "extract"
  /\ \/ \E M \in SUBSET {m \in Memories : Mem(m) \notin Known} :
          /\ \E place \in Bijection(M, 1 .. Cardinality(M)) :
               log' = Extended(log, Placed(M, place))
          /\ sources' = [m \in Memories |->
                           IF m \in M THEN boundary.window ELSE sources[m]]
          /\ boundary' = [boundary EXCEPT !.pc = "mark"]
     \/ boundary' = NoBoundary /\ UNCHANGED <<log, sources>>
  /\ UNCHANGED <<mark, syncing, sweeping>>

BoundaryMark ==
  /\ boundary.pc = "mark"
  /\ mark' = boundary.last
  /\ boundary' = NoBoundary
  /\ UNCHANGED <<log, sources, syncing, sweeping>>

-----------------------------------------------------------------------------
(* Replication *)

PushRead ==
  /\ push.pc = "idle"
  /\ On(Since(pushed)) # {}
  /\ push' = [NoPush EXCEPT !.pc = "send", !.rows = Since(pushed)]
  /\ UNCHANGED <<log, sources, boundaries, pushed, pulled, relay, peers,
                 sweeping>>

\* The relay accepts what it does not have yet; the answer may be lost, and
\* an answer that accepts nothing leaves the watermark where it is.
PushSend ==
  /\ push.pc = "send"
  /\ relay' = Extended(relay, push.rows)
  /\ LET new == On(push.rows) \ On(relay) IN
       \/ /\ new # {}
          /\ push' = [NoPush EXCEPT !.pc = "mark",
                                    !.last = LastOf(new, push.rows)]
       \/ push' = NoPush
  /\ UNCHANGED <<log, sources, boundaries, pushed, pulled, peers, sweeping>>

\* markPushed.
PushMark ==
  /\ push.pc = "mark"
  /\ pushed' = push.last
  /\ push' = NoPush
  /\ UNCHANGED <<log, sources, boundaries, pulled, relay, peers, sweeping>>

\* insertExternalEvents ignores the rows the log has.
Pull ==
  /\ pulled < Top(relay)
  /\ log' = Extended(log, After(pulled, relay))
  /\ pulled' = Top(relay)
  /\ UNCHANGED <<sources, boundaries, pushed, push, relay, peers, sweeping>>

\* Another machine captures, distils what the relay has, or retracts.
Peer ==
  /\ peers < MaxPeerEvents
  /\ peers' = peers + 1
  /\ \/ \E o \in Observations :
          /\ Obs(o) \notin Known
          /\ relay' = With(relay, Obs(o))
          /\ UNCHANGED sources
     \/ \E m \in Memories, S \in SUBSET Observations :
          /\ Mem(m) \notin Known
          /\ \A o \in S : Obs(o) \in On(relay)
          /\ relay' = With(relay, Mem(m))
          /\ sources' = [sources EXCEPT ![m] = S]
     \/ \E m \in Memories :
          /\ Mem(m) \in On(relay) /\ Ret(m) \notin Known
          /\ relay' = With(relay, Ret(m))
          /\ UNCHANGED sources
  /\ UNCHANGED <<log, boundaries, pushed, pulled, push, sweeping>>

-----------------------------------------------------------------------------
(* The sweep *)

GcRead ==
  /\ sweep.pc = "idle"
  /\ sweep' = [NoSweep EXCEPT !.pc = "delete", !.rows = log]
  /\ UNCHANGED <<log, sources, boundaries, syncing, gone, premise>>

\* The seq of the push high-water mark; 0 when it names no row.
Unpushed(e) == RowOf(e, sweep.rows) > RowOf(pushed, log)

\* Mutation: only the memory's own event must be un-pushed.
Eligible_MemoryOnly ==
  {m \in RetractedOn(sweep.rows) \cap MemoriesOn(sweep.rows) : Unpushed(Mem(m))}

\* Retracted, and un-pushed with every source observation the log has.
Eligible ==
  {m \in RetractedOn(sweep.rows) \cap MemoriesOn(sweep.rows) :
     /\ Unpushed(Mem(m))
     /\ \A o \in sources[m] : Obs(o) \in On(sweep.rows) => Unpushed(Obs(o))}

\* Mutation: the survivors' observations are not spared.
Needed_None == {}

\* Mutation: every memory's observations are spared, the reclaimed ones' too.
Needed_All == UNION {sources[m] : m \in MemoriesOn(sweep.rows)}

\* Observations a surviving memory still names.
Needed == UNION {sources[m] : m \in MemoriesOn(sweep.rows) \ Eligible}

Doomed ==
  On(sweep.rows) \cap
    UNION {{Mem(m), Ret(m)} \cup {Obs(o) : o \in sources[m] \ Needed}
             : m \in Eligible}

\* Mutation: the watermark is left on the deleted row.
Target_Old == mark

\* The last surviving row at or before the watermark's.
Target ==
  LastOf({e \in On(sweep.rows) \ Doomed :
            sweep.rows[e] <= RowOf(mark, sweep.rows)}, sweep.rows)

\* What gcUnpushedRetracted takes for granted: rows after the push watermark
\* are on this machine alone, and nobody is between reading and marking.
Assumed ==
  /\ \A e \in On(log) \cap On(relay) : RowOf(e, log) <= RowOf(pushed, log)
  /\ push.pc = "idle" /\ boundary.pc = "idle"

GcDelete ==
  /\ sweep.pc = "delete"
  /\ IF Doomed = {}
       THEN sweep' = NoSweep /\ UNCHANGED <<log, gone, premise>>
       ELSE /\ log' = [e \in Events |-> IF e \in Doomed THEN 0 ELSE log[e]]
            /\ sweep' = IF mark \in Doomed
                          THEN [NoSweep EXCEPT !.pc = "repair", !.target = Target]
                          ELSE NoSweep
            /\ gone' = gone \cup Doomed
            /\ premise' = (premise /\ Assumed)
  /\ UNCHANGED <<sources, boundaries, syncing>>

GcRepair ==
  /\ sweep.pc = "repair"
  /\ mark' = sweep.target
  /\ sweep' = NoSweep
  /\ UNCHANGED <<log, sources, boundary, syncing, gone, premise>>

\* The sweep is killed; after the deletion, before the repair, that leaves
\* the watermark on a row that is gone.
GcKilled ==
  /\ sweep.pc = "repair"
  /\ sweep' = NoSweep
  /\ premise' = FALSE
  /\ UNCHANGED <<log, sources, boundaries, syncing, gone>>

-----------------------------------------------------------------------------
Next ==
  \/ \E o \in Observations : Capture(o)
  \/ \E m \in Memories : Retract(m)
  \/ BoundaryRead \/ BoundaryAppend \/ BoundaryMark
  \/ PushRead \/ PushSend \/ PushMark \/ Pull \/ Peer
  \/ GcRead \/ GcDelete \/ GcRepair \/ GcKilled

Spec == Init /\ [][Next]_vars
-----------------------------------------------------------------------------
(* Properties *)

\* Two events of an order are at two places.
Orders ==
  {f \in [Events -> Nat] :
     \A e, x \in On(f) : f[e] = f[x] => e = x}

TypeOK ==
  /\ log \in Orders /\ relay \in Orders
  /\ sources \in [Memories -> SUBSET Observations]
  /\ {mark, pushed} \subseteq Events \cup {None}
  /\ pulled \in 0 .. Top(relay)
  /\ peers \in 0 .. MaxPeerEvents
  /\ boundary \in [pc : {"idle", "extract", "mark"},
                   window : SUBSET Observations, last : Events \cup {None}]
  /\ push \in [pc : {"idle", "send", "mark"},
               rows : Orders, last : Events \cup {None}]
  /\ sweep \in [pc : {"idle", "delete", "repair"},
                rows : Orders, target : Events \cup {None}]
  /\ gone \subseteq Events
  /\ premise \in BOOLEAN

\* A memory that survives every sweep still has the observations it was
\* distilled from (survivorObs: "keeps its provenance").
ProvenanceKept ==
  premise =>
    \A m \in MemoriesOn(log) : \A o \in sources[m] : Obs(o) \in On(log)

\* A reclaimed memory leaves no observation a later boundary would distil
\* again ("revival-free by construction").
NoRevival ==
  premise =>
    \A m \in {n \in Memories : Mem(n) \in gone} : \A o \in sources[m] :
      Obs(o) \in On(log) => \E n \in MemoriesOn(log) : o \in sources[n]

\* The consolidation watermark names a row, or the next boundary would read
\* the whole log.
MarkOnLog ==
  premise /\ sweep.pc # "repair" => mark \in On(log) \cup {None}

\* Replication keeps what it stands on: the push watermark names a row, and
\* every event behind the pull watermark is in the log, for neither a push nor
\* a pull would ever bring back one that is not.
SharedKept ==
  premise =>
    /\ pushed \in On(log) \cup {None}
    /\ \A e \in On(relay) : relay[e] <= pulled => e \in On(log)
=============================================================================
