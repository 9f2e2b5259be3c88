-------------------------- MODULE Replicas_proofs --------------------------
(***************************************************************************)
(* Theorems about the replicas of a project.                               *)
(*                                                                         *)
(* First SyncService: what the logs of the machines hold and what their    *)
(* watermarks vouch for, for every set of replicas, processes and events,  *)
(* every transport and every number of faults.  Then Projection: what the  *)
(* stores derive from their logs and what the prompts of their sessions    *)
(* show, for every set of projects, stores, sessions and commands.  The    *)
(* two share no state and no constant.                                     *)
(***************************************************************************)
EXTENDS SyncService, Projection, FiniteSetTheorems, SequenceTheorems, TLAPS

(***************************************************************************)
(* Type correctness.                                                       *)
(***************************************************************************)
LEMMA ReadyType == Ready \in Job
  BY DEF Ready, Job, Points, Updates, Watermark

LEMMA JobStep ==
  ASSUME TypeOK, NEW p \in Procs, NEW j \in Job, job' = [job EXCEPT ![p] = j]
  PROVE  job' \in [Procs -> Job]
  BY DEF TypeOK

LEMMA JobType ==
  ASSUME TypeOK, NEW p \in Procs
  PROVE  job[p] \in Job
  BY DEF TypeOK

LEMMA GotoType ==
  ASSUME TypeOK, NEW p \in Procs, NEW point \in Points, Goto(p, point)
  PROVE  job' \in [Procs -> Job]
<1>1. [Ready EXCEPT !.pc = point] \in Job
  BY ReadyType DEF Job
<1> QED
  BY <1>1, JobStep DEF Goto

LEMMA UpToCard ==
  ASSUME TypeOK, NEW p \in Procs, NEW e \in Events, e \in Fresh(p)
  PROVE  Cardinality(UpTo(p, e)) \in Nat
<1>1. UpTo(p, e) \subseteq Events
  BY DEF UpTo, Fresh
<1> QED
  BY <1>1, SyncAssumption, FS_Subset, FS_CardinalityType

LEMMA FetchedType ==
  ASSUME NEW from, NEW to, from \in Nat, to \in Nat,
         NEW seen \in {"idle", "syncing"}, NEW last \in Watermark
  PROVE  [Ready EXCEPT !.pc = "insert", !.seen = seen, !.from = from,
                       !.to = to, !.mark = last] \in Job
  BY DEF Ready, Job, Points, Watermark

LEMMA PatchedType ==
  ASSUME NEW j \in Job, j.base \in SyncState, j.pc \in Updates
  PROVE  Patched(j) \in SyncState
  BY DEF Patched, Updates, Job, SyncState

LEMMA HomeType == \A p \in Procs : Home[p] \in Replicas
  BY SyncAssumption

LEMMA TypeInit == Init => TypeOK
  BY ReadyType, SyncAssumption
  DEF Init, TypeOK, SyncState, Watermark

LEMMA TypeNext == TypeOK /\ [Next]_vars => TypeOK'
<1> SUFFICES ASSUME TypeOK, [Next]_vars PROVE TypeOK'
  OBVIOUS
<1> USE HomeType, ReadyType, SyncAssumption
<1>1. ASSUME NEW r \in Replicas, NEW e \in Events, AppendEvent(r, e)
      PROVE TypeOK'
  BY <1>1 DEF AppendEvent, TypeOK, Tails
<1>2. ASSUME NEW p \in Procs, PushGate(p) PROVE TypeOK'
  BY <1>2 DEF PushGate, TypeOK, Goto, Job, Ready, Points, Updates
<1>3. ASSUME NEW p \in Procs, PushRead(p) PROVE TypeOK'
  BY <1>3, ZenonT(60) DEF PushRead, TypeOK, Job, Points, Updates, SyncState
<1>4. ASSUME NEW p \in Procs, PushBuild(p) PROVE TypeOK'
  BY <1>4, ZenonT(60) DEF PushBuild, TypeOK, Job, Points, Updates, SyncState
<1>5. ASSUME NEW p \in Procs, PushSlice(p) PROVE TypeOK'
  <2>1. EventsSince(Home[p], job[p].since) \in SUBSET Events
    BY DEF EventsSince, Logged
  <2>2. job' \in [Procs -> Job]
    <3>1. PICK j \in Job : job' = [job EXCEPT ![p] = j]
      BY <1>5, <2>1 DEF PushSlice, Goto, Job, Ready, Points, Updates
    <3> QED
      BY <3>1 DEF TypeOK
  <2> QED
    BY <1>5, <2>2 DEF PushSlice, TypeOK
<1>6. ASSUME NEW p \in Procs, SendStart(p) PROVE TypeOK'
  BY <1>6, ZenonT(60) DEF SendStart, TypeOK, Job, Points, Updates
<1>7. ASSUME NEW p \in Procs, SendLine(p) PROVE TypeOK'
  <2>1. PICK e \in Events :
          \/ /\ relay' = relay
             /\ job' = [job EXCEPT ![p] =
                          [@ EXCEPT !.batch = job[p].batch \ {e}]]
          \/ /\ relay' = Append(relay, e)
             /\ job' = [job EXCEPT ![p] =
                          [@ EXCEPT !.batch = job[p].batch \ {e}, !.mark = e]]
    BY <1>7 DEF SendLine
  <2>2. relay' \in Seq(Events)
    <3>1. relay \in Seq(Events)
      BY DEF TypeOK
    <3> QED
      BY <2>1, <3>1, SMTT(40)
  <2>3. job' \in [Procs -> Job]
    <3>1. /\ [job[p] EXCEPT !.batch = job[p].batch \ {e}] \in Job
          /\ [job[p] EXCEPT !.batch = job[p].batch \ {e}, !.mark = e] \in Job
      BY JobType DEF Job, Watermark
    <3> QED
      BY <2>1, <3>1, JobStep
  <2> QED
    BY <1>7, <2>2, <2>3 DEF SendLine, TypeOK
<1>8. ASSUME NEW p \in Procs, SendDone(p) PROVE TypeOK'
  <2> DEFINE point == IF job[p].mark = NoEvent THEN "done" ELSE "mark"
  <2>1. job' = [job EXCEPT ![p] = [@ EXCEPT !.pc = point]]
    BY <1>8 DEF SendDone
  <2>2. point \in Points
    BY DEF Points, Updates
  <2> HIDE DEF point
  <2>3. job' \in [Procs -> Job]
    BY <2>1, <2>2 DEF TypeOK, Job
  <2> QED
    BY <1>8, <2>3 DEF SendDone, TypeOK
<1>9. ASSUME NEW p \in Procs, PullRead(p) PROVE TypeOK'
  BY <1>9 DEF PullRead, TypeOK, Job, Ready, Points, Updates, SyncState
<1>10. ASSUME NEW p \in Procs, PullFetch(p) PROVE TypeOK'
  <2>1. /\ Len(relay) \in Nat
        /\ job[p].seen \in {"idle", "syncing"}
        /\ \A i \in 1 .. Len(relay) : relay[i] \in Events
    BY DEF TypeOK, Job
  <2> DEFINE fetched(from) ==
        [Ready EXCEPT !.pc = "insert", !.seen = job[p].seen, !.from = from,
                      !.to = Len(relay), !.mark = relay[Len(relay)]]
  <2>2. \A from \in Nat :
          1 <= from /\ from <= Len(relay) => fetched(from) \in Job
    <3> TAKE from \in Nat
    <3> HAVE 1 <= from /\ from <= Len(relay)
    <3>1. relay[Len(relay)] \in Watermark
      BY <2>1 DEF Watermark
    <3> QED
      BY <2>1, <3>1, FetchedType
  <2>3. job' \in [Procs -> Job]
    <3>1. PICK from \in 1 .. Len(relay) + 1 :
            IF from <= Len(relay)
              THEN job' = [job EXCEPT ![p] = fetched(from)]
              ELSE Goto(p, IF job[p].seen = "idle" THEN "ready" ELSE "heal")
      BY <1>10 DEF PullFetch
    <3> HIDE DEF fetched
    <3>2. CASE from <= Len(relay)
      BY <2>1, <2>2, <3>1, <3>2, JobStep
    <3>3. CASE ~ from <= Len(relay)
      <4>1. (IF job[p].seen = "idle" THEN "ready" ELSE "heal") \in Points
        BY DEF Points, Updates
      <4> QED
        BY <3>1, <3>3, <4>1, GotoType
    <3> QED
      BY <3>2, <3>3
  <2> QED
    BY <1>10, <2>3 DEF PullFetch, TypeOK
<1>11. ASSUME NEW p \in Procs, PullInsert(p) PROVE TypeOK'
  <2>1. seq' \in [Replicas -> [Events -> Nat]]
    <3>1. PICK tail \in Tails(Home[p]) :
            seq' = [seq EXCEPT ![Home[p]] = [e \in Events |->
              IF e \in Fresh(p) THEN tail + Cardinality(UpTo(p, e)) ELSE @[e]]]
      BY <1>11 DEF PullInsert
    <3>2. tail \in Nat
      BY DEF Tails, TypeOK
    <3>3. \A e \in Events : e \in Fresh(p) => Cardinality(UpTo(p, e)) \in Nat
      BY UpToCard
    <3> QED
      BY <3>1, <3>2, <3>3 DEF TypeOK
  <2>2. job' \in [Procs -> Job]
    <3>1. [Ready EXCEPT !.pc = "applied", !.seen = job[p].seen,
                        !.mark = job[p].mark,
                        !.inserted = Fresh(p) # {}] \in Job
      BY JobType, ZenonT(60) DEF Job, Points, Updates, Ready, Watermark
    <3> QED
      BY <1>11, <3>1, JobStep DEF PullInsert
  <2> QED
    BY <1>11, <2>1, <2>2 DEF PullInsert, TypeOK
<1>12. ASSUME NEW p \in Procs, Load(p) PROVE TypeOK'
  BY <1>12, ZenonT(60) DEF Load, TypeOK, Job
<1>13. ASSUME NEW p \in Procs, Store(p) PROVE TypeOK'
  <2>1. job[p].base \in SyncState
    BY <1>13 DEF Store, TypeOK, Job
  <2>2. Patched(job[p]) \in SyncState
    BY <1>13, <2>1, JobType, PatchedType DEF Store
  <2>3. AfterUpdate(job[p]) \in Points
    BY DEF AfterUpdate, Points, Updates
  <2> QED
    BY <1>13, <2>2, <2>3 DEF Store, TypeOK, Job, Ready
<1>14. ASSUME NEW p \in Procs, CallFails(p) PROVE TypeOK'
  BY <1>14 DEF CallFails, TypeOK
<1>15. ASSUME NEW p \in Procs, Crash(p) PROVE TypeOK'
  BY <1>15 DEF Crash, TypeOK
<1>16. CASE BreakStaleLock
  BY <1>16 DEF BreakStaleLock, TypeOK
<1>17. CASE UNCHANGED vars
  BY <1>17 DEF vars, TypeOK
<1> QED
  BY <1>1, <1>2, <1>3, <1>4, <1>5, <1>6, <1>7, <1>8, <1>9, <1>10, <1>11, <1>12,
     <1>13, <1>14, <1>15, <1>16, <1>17
  DEF Next, PushStep, PullStep, Update, Procs

\* Every reachable state of the push/pull processes is well typed.
THEOREM TypeCorrect == Spec => []TypeOK
  BY TypeInit, TypeNext, PTL DEF Spec

(***************************************************************************)
(* The inductive invariant.  A row keeps its number and new rows come      *)
(* after it; a line keeps its place: whatever was sound about a watermark  *)
(* stays so (Stable lemmas), and each action establishes what the point it *)
(* moves its process to claims.                                            *)
(***************************************************************************)
LogGrows ==
  \A r \in Replicas, e, f \in Events :
    seq[r][e] # 0 =>
      /\ seq'[r][e] = seq[r][e]
      /\ seq[r][f] = 0 /\ seq'[r][f] # 0 => seq'[r][f] > seq[r][e]

RelayGrows ==
  /\ Len(relay) <= Len(relay')
  /\ \A i \in 1 .. Len(relay) : relay'[i] = relay[i]

LEMMA LineType ==
  ASSUME TypeOK, NEW i \in Lines
  PROVE  i \in Nat /\ relay[i] \in Events /\ relay[i] # NoEvent
  BY SyncAssumption DEF Lines, TypeOK

LEMMA LoggedStable ==
  ASSUME LogGrows, NEW r \in Replicas, NEW e \in Logged(r)
  PROVE  e \in Logged(r)'
  BY DEF LogGrows, Logged

LEMMA OnRelayStable ==
  ASSUME TypeOK, TypeOK', RelayGrows, NEW e, OnRelay(e)
  PROVE  OnRelay(e)'
  BY DEF RelayGrows, OnRelay, Lines, TypeOK

LEMMA PushedStable ==
  ASSUME TypeOK, TypeOK', LogGrows, RelayGrows,
         NEW r \in Replicas, NEW e \in Events, PushedUpTo(r, e)
  PROVE  PushedUpTo(r, e)'
<1>1. seq'[r][e] = seq[r][e] /\ seq'[r][e] # 0
  BY DEF PushedUpTo, LogGrows
<1>2. ASSUME NEW f \in Logged(r)', seq'[r][f] <= seq'[r][e]
      PROVE  OnRelay(f)'
  <2>1. f \in Events /\ seq'[r][f] # 0
    BY <1>2 DEF Logged
  <2>2. seq[r][f] # 0 /\ seq'[r][f] = seq[r][f]
    BY <1>1, <1>2, <2>1 DEF LogGrows, PushedUpTo, TypeOK
  <2> QED
    BY <1>1, <1>2, <2>1, <2>2, OnRelayStable DEF PushedUpTo, Logged
<1> QED
  BY <1>1, <1>2 DEF PushedUpTo

LEMMA LinesStable ==
  ASSUME TypeOK, TypeOK', RelayGrows, NEW i \in Lines
  PROVE  i \in Lines' /\ relay'[i] = relay[i]
<1>1. Len(relay) \in Nat /\ Len(relay') \in Nat
  BY DEF TypeOK
<1> QED
  BY <1>1 DEF RelayGrows, Lines

LEMMA PulledStable ==
  ASSUME TypeOK, TypeOK', LogGrows, RelayGrows,
         NEW r \in Replicas, NEW e \in Events, PulledUpTo(r, e)
  PROVE  PulledUpTo(r, e)'
<1>1. PICK i \in Lines :
        relay[i] = e /\ \A j \in 1 .. i : relay[j] \in Logged(r)
  BY DEF PulledUpTo
<1>2. i \in Lines' /\ relay'[i] = e
  BY <1>1, LinesStable
<1>3. \A j \in 1 .. i : relay'[j] \in Logged(r)'
  <2> TAKE j \in 1 .. i
  <2>1. j \in Lines
    BY <1>1 DEF Lines, TypeOK
  <2>2. relay'[j] = relay[j] /\ relay[j] \in Logged(r)
    BY <1>1, <2>1, LinesStable
  <2> QED
    BY <2>2, LoggedStable
<1> QED
  BY <1>2, <1>3 DEF PulledUpTo

LEMMA BatchStable ==
  ASSUME TypeOK, TypeOK', LogGrows, RelayGrows, NEW r \in Replicas,
         NEW batch \in SUBSET Events, NEW last \in Watermark,
         BatchSound(r, batch, last)
  PROVE  BatchSound(r, batch, last)'
<1>1. batch \subseteq Logged(r)' /\ (last # NoEvent => last \in Logged(r)')
  BY LoggedStable DEF BatchSound
<1>2. ASSUME NEW e \in batch \cup ({last} \ {NoEvent}), NEW f \in Logged(r)',
             seq'[r][f] <= seq'[r][e]
      PROVE  OnRelay(f)' \/ f \in batch
  <2>1. e \in Events /\ seq[r][e] # 0 /\ seq'[r][e] = seq[r][e]
    BY DEF BatchSound, Logged, LogGrows
  <2>2. f \in Events /\ seq'[r][f] # 0
    BY DEF Logged
  <2>3. seq[r][f] # 0 /\ seq'[r][f] = seq[r][f]
    BY <1>2, <2>1, <2>2 DEF LogGrows, TypeOK
  <2>4. OnRelay(f) \/ f \in batch
    BY <1>2, <2>1, <2>2, <2>3 DEF BatchSound, Logged
  <2> QED
    BY <2>4, OnRelayStable
<1> QED
  BY <1>1, <1>2 DEF BatchSound

LEMMA ResponseStable ==
  ASSUME TypeOK, TypeOK', LogGrows, RelayGrows, NEW r \in Replicas,
         NEW from \in Nat, NEW to \in Nat, NEW last,
         ResponseSound(r, from, to, last)
  PROVE  ResponseSound(r, from, to, last)'
<1>1. \A i \in 1 .. to : i \in Lines
  BY DEF ResponseSound, Lines, TypeOK
<1>2. last = relay'[to] /\ to <= Len(relay')
  BY <1>1, LinesStable DEF ResponseSound, Lines
<1>3. ASSUME NEW i \in 1 .. from - 1 PROVE relay'[i] \in Logged(r)'
  BY <1>1, LinesStable, LoggedStable DEF ResponseSound
<1> QED
  BY <1>2, <1>3 DEF ResponseSound

LEMMA StateStable ==
  ASSUME TypeOK, TypeOK', LogGrows, RelayGrows, NEW r \in Replicas,
         NEW state \in SyncState, StateSound(r, state)
  PROVE  StateSound(r, state)'
  BY PushedStable, PulledStable DEF StateSound, SyncState, Watermark

LEMMA RoundStable ==
  ASSUME TypeOK, TypeOK', LogGrows, RelayGrows, NEW r \in Replicas,
         NEW j \in Job, RoundSound(r, j)
  PROVE  RoundSound(r, j)'
<1>1. j.base # NoState => StateSound(r, j.base)'
  BY StateStable DEF RoundSound, Job
<1>2. /\ j.pc = "slice" /\ j.since # NoEvent => PushedUpTo(r, j.since)'
      /\ j.pc = "mark" => j.mark # NoEvent /\ PushedUpTo(r, j.mark)'
  BY PushedStable DEF RoundSound, Job, Watermark
<1>3. /\ j.pc = "pull" /\ j.since # NoEvent => PulledUpTo(r, j.since)'
      /\ j.pc = "applied" => j.mark # NoEvent /\ PulledUpTo(r, j.mark)'
  BY PulledStable DEF RoundSound, Job, Watermark
<1>4. j.pc \in {"flag", "send", "append"} => BatchSound(r, j.batch, j.mark)'
  BY BatchStable DEF RoundSound, Job
<1>5. j.pc = "insert" => ResponseSound(r, j.from, j.to, j.mark)'
  BY ResponseStable DEF RoundSound, Job
<1> QED
  BY <1>1, <1>2, <1>3, <1>4, <1>5 DEF RoundSound

\* The frame of every action: only the acting process and its replica's
\* sync.json need a reason.
LEMMA Frame ==
  ASSUME SyncInv, TypeOK', LogGrows, RelayGrows,
         NEW p \in Procs, NEW j \in Job, NEW s \in SyncState,
         job' = [job EXCEPT ![p] = j], RoundSound(Home[p], j)',
         sync' = [sync EXCEPT ![Home[p]] = s], StateSound(Home[p], s)'
  PROVE  SyncInv'
<1>1. ASSUME NEW q \in Procs PROVE RoundSound(Home[q], job[q])'
  <2>1. CASE q = p
    BY <2>1 DEF TypeOK
  <2>2. CASE q # p
    <3>1. PICK k \in Job : k = job[q] /\ k = job'[q] /\ RoundSound(Home[q], k)
      BY <2>2 DEF SyncInv, TypeOK
    <3>2. RoundSound(Home[q], k)'
      BY <3>1, RoundStable, HomeType DEF SyncInv
    <3> QED
      BY <3>1, <3>2
  <2> QED
    BY <2>1, <2>2
<1>2. ASSUME NEW r \in Replicas PROVE StateSound(r, sync[r])'
  BY StateStable DEF SyncInv, TypeOK
<1> QED
  BY <1>1, <1>2 DEF SyncInv

LEMMA Still ==
  ASSUME TypeOK, UNCHANGED <<seq, relay>>
  PROVE  LogGrows /\ RelayGrows
  BY DEF LogGrows, RelayGrows, TypeOK

LEMMA SyncInit == Init => SyncInv
  BY TypeInit, HomeType DEF Init, SyncInv, StateSound, RoundSound, Ready

\* A step of p that touches nothing but its own locals.
LEMMA LocalStep ==
  ASSUME SyncInv, TypeOK', UNCHANGED <<seq, relay, sync>>,
         NEW p \in Procs, NEW j \in Job, job' = [job EXCEPT ![p] = j],
         RoundSound(Home[p], j)
  PROVE  SyncInv'
<1>1. LogGrows /\ RelayGrows /\ TypeOK
  BY Still DEF SyncInv
<1>2. sync' = [sync EXCEPT ![Home[p]] = sync[Home[p]]]
  BY <1>1 DEF TypeOK
<1>3. sync[Home[p]] \in SyncState /\ StateSound(Home[p], sync[Home[p]])
  BY HomeType DEF SyncInv, TypeOK
<1>4. RoundSound(Home[p], j)' /\ StateSound(Home[p], sync[Home[p]])'
  BY <1>1, <1>3, RoundStable, StateStable, HomeType
<1> QED
  BY <1>1, <1>2, <1>3, <1>4, Frame

LEMMA SyncAppend ==
  ASSUME SyncInv, TypeOK', NEW r \in Replicas, NEW e \in Events,
         AppendEvent(r, e)
  PROVE  SyncInv'
<1>1. LogGrows
  <2>1. PICK tail \in Tails(r) :
          IsTail(r, tail) /\ seq' = [seq EXCEPT ![r][e] = tail + 1]
    BY DEF AppendEvent
  <2>2. tail \in Nat /\ \A f \in Events : seq[r][f] <= tail
    BY <2>1 DEF SyncInv, TypeOK, Tails, IsTail
  <2>3. seq[r][e] = 0
    BY DEF AppendEvent, Logged
  <2> QED
    BY <2>1, <2>2, <2>3 DEF LogGrows, SyncInv, TypeOK
<1>2. RelayGrows
  BY DEF AppendEvent, RelayGrows, SyncInv, TypeOK
<1>3. \A p \in Procs : RoundSound(Home[p], job[p])'
  BY <1>1, <1>2, RoundStable, HomeType DEF SyncInv, TypeOK, AppendEvent
<1>4. \A q \in Replicas : StateSound(q, sync[q])'
  BY <1>1, <1>2, StateStable DEF SyncInv, TypeOK, AppendEvent
<1> QED
  BY <1>3, <1>4 DEF SyncInv

LEMMA SyncPush ==
  ASSUME SyncInv, TypeOK', NEW p \in Procs, PushStep(p)
  PROVE  SyncInv'
<1> DEFINE r == Home[p]
<1>1. /\ r \in Replicas /\ job[p] \in Job /\ sync[r] \in SyncState
      /\ RoundSound(r, job[p]) /\ StateSound(r, sync[r]) /\ TypeOK
  BY HomeType DEF SyncInv, TypeOK
<1> HIDE DEF r
<1>2. ASSUME NEW j \in Job, job' = [job EXCEPT ![p] = j], RoundSound(r, j),
             UNCHANGED <<seq, relay, sync>>
      PROVE  SyncInv'
  BY <1>2, LocalStep DEF r
<1>3. \A point \in Points :
        [Ready EXCEPT !.pc = point] \in Job
  BY ReadyType DEF Job
<1>4. CASE PushGate(p)
  <2>1. RoundSound(r, [Ready EXCEPT !.pc = "gated"])
    BY DEF RoundSound, Ready
  <2> QED
    BY <1>2, <1>3, <1>4, <2>1 DEF PushGate, Goto, Points
<1>5. CASE PushRead(p)
  <2> DEFINE j == [job[p] EXCEPT !.pc = "build", !.seen = sync[r].status]
  <2>1. j \in Job /\ RoundSound(r, j)
    BY <1>1, <1>5 DEF PushRead, RoundSound, Job, Points, SyncState
  <2> QED
    BY <1>2, <1>5, <2>1 DEF PushRead, r
<1>6. CASE PushBuild(p)
  <2> DEFINE j == [job[p] EXCEPT !.pc = "slice", !.since = sync[r].pushed]
  <2>1. j \in Job /\ RoundSound(r, j)
    BY <1>1, <1>6, ZenonT(60) DEF PushBuild, RoundSound, StateSound, Job, Points, SyncState
  <2> QED
    BY <1>2, <1>6, <2>1 DEF PushBuild, r
<1>7. CASE PushSlice(p)
  <2> DEFINE batch == EventsSince(r, job[p].since)
             point == IF job[p].seen = "syncing" THEN "send" ELSE "flag"
             stop == IF job[p].seen = "idle" THEN "ready" ELSE "done"
  <2>1. batch \in SUBSET Events
    BY DEF EventsSince, Logged
  <2>2. BatchSound(r, batch, NoEvent)
    <3>1. ASSUME NEW e \in batch, NEW f \in Logged(r), seq[r][f] <= seq[r][e],
                 f \notin batch
          PROVE  OnRelay(f)
      <4>0. /\ SinceRow(r, job[p].since) \in Nat /\ f \in Events
            /\ seq[r][f] \in Nat /\ seq[r][f] # 0
        BY <1>1 DEF SinceRow, Logged, TypeOK
      <4>1. seq[r][f] <= SinceRow(r, job[p].since) /\ seq[r][f] # 0
        BY <3>1, <4>0 DEF EventsSince
      <4>2. job[p].since \in Events /\ seq[r][f] <= seq[r][job[p].since]
        BY <1>1, <4>1 DEF SinceRow, TypeOK, Logged
      <4>3. PushedUpTo(r, job[p].since)
        BY <1>1, <1>7, <4>2, SyncAssumption DEF PushSlice, RoundSound
      <4> QED
        BY <4>2, <4>3 DEF PushedUpTo
    <3>2. batch \subseteq Logged(r)
      BY DEF EventsSince
    <3> QED
      BY <3>1, <3>2 DEF BatchSound
  <2>3. point \in {"send", "flag"} /\ stop \in {"ready", "done"}
    OBVIOUS
  <2>4. \/ job' = [job EXCEPT ![p] = [Ready EXCEPT !.pc = stop]]
        \/ job' = [job EXCEPT ![p] =
                     [Ready EXCEPT !.batch = batch, !.pc = point]]
    BY <1>7 DEF PushSlice, Goto, r
  <2> HIDE DEF batch, point, stop
  <2>5. /\ [Ready EXCEPT !.pc = stop] \in Job
        /\ RoundSound(r, [Ready EXCEPT !.pc = stop])
    BY <1>3, <2>3 DEF RoundSound, Ready, Points, Updates
  <2>6. /\ [Ready EXCEPT !.batch = batch, !.pc = point] \in Job
        /\ RoundSound(r, [Ready EXCEPT !.batch = batch, !.pc = point])
    BY <2>1, <2>2, <2>3, ReadyType DEF RoundSound, Ready, Points, Updates, Job
  <2>7. UNCHANGED <<seq, relay, sync>>
    BY <1>7 DEF PushSlice
  <2> QED
    BY <1>2, <2>4, <2>5, <2>6, <2>7
<1>8. CASE SendStart(p)
  <2> DEFINE j == [job[p] EXCEPT !.pc = "append"]
  <2>1. j \in Job /\ RoundSound(r, j)
    BY <1>1, <1>8 DEF SendStart, RoundSound, Job, Points
  <2> QED
    BY <1>2, <1>8, <2>1 DEF SendStart
<1>9. CASE SendLine(p)
  <2>1. PICK e \in Events :
          /\ NextToSend(p, e)
          /\ \/ /\ OnRelay(e) /\ relay' = relay
                /\ job' = [job EXCEPT ![p] =
                             [@ EXCEPT !.batch = job[p].batch \ {e}]]
             \/ /\ relay' = Append(relay, e)
                /\ job' = [job EXCEPT ![p] =
                             [@ EXCEPT !.batch = job[p].batch \ {e},
                                       !.mark = e]]
    BY <1>9 DEF SendLine
  <2>2. LogGrows /\ RelayGrows /\ OnRelay(e)'
    <3>1. LogGrows
      BY <1>1, <1>9 DEF SendLine, LogGrows, TypeOK
    <3>2. CASE relay' = Append(relay, e)
      <4>1. /\ Len(relay') = Len(relay) + 1 /\ Len(relay) \in Nat
            /\ relay'[Len(relay) + 1] = e
            /\ \A i \in 1 .. Len(relay) : relay'[i] = relay[i]
        BY <1>1, <3>2 DEF TypeOK
      <4> QED
        BY <3>1, <4>1 DEF RelayGrows, OnRelay, Lines
    <3>3. CASE relay' = relay /\ OnRelay(e)
      BY <3>1, <3>3, <1>1, SMTT(40) DEF RelayGrows, OnRelay, Lines, TypeOK
    <3> QED
      BY <2>1, <3>2, <3>3
  <2>3. BatchSound(r, job[p].batch, job[p].mark)
    BY <1>1, <1>9 DEF SendLine, RoundSound
  <2>4. /\ e \in job[p].batch /\ e \in Logged(r)
        /\ \A f \in job[p].batch : seq[r][e] <= seq[r][f]
    BY <2>1, <2>3 DEF NextToSend, BatchSound, r
  <2>5. UNCHANGED <<seq, sync>>
    BY <1>9 DEF SendLine
  <2>6. PICK rest \in SUBSET Events, last \in {job[p].mark, e}, j \in Job :
          /\ rest = job[p].batch \ {e}
          /\ j = [job[p] EXCEPT !.batch = rest, !.mark = last]
          /\ job' = [job EXCEPT ![p] = j]
    <3>1. [job[p] EXCEPT !.batch = job[p].batch \ {e}] =
          [job[p] EXCEPT !.batch = job[p].batch \ {e}, !.mark = job[p].mark]
      BY <1>1 DEF Job
    <3>2. \A m \in {job[p].mark, e} :
            [job[p] EXCEPT !.batch = job[p].batch \ {e}, !.mark = m] \in Job
      BY <1>1 DEF Job, Watermark
    <3>3. job[p].batch \ {e} \in SUBSET Events
      BY <1>1 DEF Job
    <3> QED
      BY <2>1, <3>1, <3>2, <3>3
  <2>7. BatchSound(r, rest, last)'
    <3>1. ASSUME NEW g \in rest \cup ({last} \ {NoEvent}), NEW f \in Logged(r),
                 seq[r][f] <= seq[r][g]
          PROVE  OnRelay(f)' \/ f \in rest
      <4>1. g \in job[p].batch \cup ({job[p].mark} \ {NoEvent})
        BY <2>4, <2>6, <3>1
      <4>2. OnRelay(f) \/ f \in job[p].batch
        BY <2>3, <3>1, <4>1 DEF BatchSound
      <4> QED
        BY <1>1, <2>2, <2>6, <4>2, OnRelayStable
    <3>2. rest \subseteq Logged(r) /\ (last # NoEvent => last \in Logged(r))
      BY <2>3, <2>4, <2>6 DEF BatchSound
    <3>3. Logged(r)' = Logged(r) /\ seq' = seq
      BY <2>5 DEF Logged
    <3> QED
      BY <3>1, <3>2, <3>3 DEF BatchSound
  <2>8. /\ j.pc = "append" /\ j.base = job[p].base
        /\ j.batch = rest /\ j.mark = last
    BY <1>1, <1>9, <2>6 DEF SendLine, Job
  <2>9. PICK s \in SyncState :
          s = sync[r] /\ StateSound(r, s) /\ sync' = [sync EXCEPT ![r] = s]
    BY <1>1, <2>5 DEF TypeOK
  <2>10. StateSound(r, s)' /\ (j.base # NoState => StateSound(r, j.base)')
    <3>1. j.base # NoState => j.base \in SyncState /\ StateSound(r, j.base)
      BY <1>1, <2>8 DEF RoundSound, Job
    <3> QED
      BY <1>1, <2>2, <2>9, <3>1, StateStable
  <2>11. RoundSound(r, j)'
    BY <2>7, <2>8, <2>10 DEF RoundSound
  <2> QED
    BY <2>2, <2>6, <2>9, <2>10, <2>11, Frame DEF r
<1>10. CASE SendDone(p)
  <2> DEFINE point == IF job[p].mark = NoEvent THEN "done" ELSE "mark"
             j == [job[p] EXCEPT !.pc = point]
  <2>1. BatchSound(r, {}, job[p].mark)
    BY <1>1, <1>10 DEF SendDone, RoundSound
  <2>2. job[p].mark # NoEvent => PushedUpTo(r, job[p].mark)
    BY <1>1, <2>1 DEF BatchSound, PushedUpTo, Logged, Job, Watermark
  <2>3. j \in Job /\ RoundSound(r, j)
    BY <1>1, <1>10, <2>2 DEF SendDone, RoundSound, Job, Points, Updates
  <2> QED
    BY <1>2, <1>10, <2>3 DEF SendDone
<1> QED
  BY <1>4, <1>5, <1>6, <1>7, <1>8, <1>9, <1>10 DEF PushStep

\* The rows a pull inserts come after every row of the table.
LEMMA InsertGrows ==
  ASSUME TypeOK, NEW p \in Procs, PullInsert(p)
  PROVE  LogGrows /\ \A e \in Fresh(p) : seq'[Home[p]][e] # 0
<1> DEFINE r == Home[p]
<1>1. r \in Replicas
  BY HomeType
<1>2. PICK tail \in Tails(r) :
        /\ IsTail(r, tail)
        /\ seq' = [seq EXCEPT ![r] = [e \in Events |->
             IF e \in Fresh(p) THEN tail + Cardinality(UpTo(p, e)) ELSE @[e]]]
  BY DEF PullInsert
<1>3. tail \in Nat /\ \A f \in Events : seq[r][f] <= tail
  BY <1>1, <1>2 DEF TypeOK, Tails, IsTail
<1>4. \A e \in Fresh(p) : /\ Cardinality(UpTo(p, e)) \in Nat
                          /\ Cardinality(UpTo(p, e)) > 0
  <2> TAKE e \in Fresh(p)
  <2>1. e \in UpTo(p, e)
    <3>1. job[p].from \in Nat /\ job[p].to \in Nat
      BY JobType DEF Job
    <3>2. \A k \in job[p].from .. job[p].to : k \in job[p].from .. k
      BY <3>1
    <3> QED
      BY <3>2 DEF UpTo
  <2>2. IsFiniteSet(UpTo(p, e))
    BY SyncAssumption, FS_Subset DEF UpTo, Fresh
  <2>3. Cardinality(UpTo(p, e)) \in Nat /\ Cardinality(UpTo(p, e)) # 0
    BY <2>1, <2>2, FS_CardinalityType, FS_EmptySet
  <2> QED
    BY <2>3
<1>5. \A e \in Fresh(p) : seq[r][e] = 0 /\ e \in Events
  BY DEF Fresh, Logged
<1> HIDE DEF r
<1>6. \A e \in Events :
        seq'[r][e] = IF e \in Fresh(p) THEN tail + Cardinality(UpTo(p, e))
                                       ELSE seq[r][e]
  BY <1>1, <1>2 DEF TypeOK
<1>7. \A q \in Replicas : q # r => seq'[q] = seq[q]
  BY <1>1, <1>2 DEF TypeOK
<1>8. \A e \in Fresh(p) : seq'[r][e] > tail
  BY <1>3, <1>4, <1>5, <1>6
<1>9. ASSUME NEW e \in Events, NEW f \in Events, seq[r][e] # 0
      PROVE  /\ seq'[r][e] = seq[r][e]
             /\ seq[r][f] = 0 /\ seq'[r][f] # 0 => seq'[r][f] > seq[r][e]
  <2>1. seq'[r][e] = seq[r][e]
    BY <1>5, <1>6, <1>9
  <2>2. ASSUME seq[r][f] = 0, seq'[r][f] # 0 PROVE seq'[r][f] > seq[r][e]
    <3>1. f \in Fresh(p)
      BY <1>6, <2>2
    <3>2. seq'[r][f] \in Nat /\ seq[r][e] \in Nat /\ seq[r][e] <= tail
      BY <1>1, <1>3, <1>4, <1>6, <3>1 DEF TypeOK
    <3> QED
      BY <1>3, <1>8, <3>1, <3>2
  <2> QED
    BY <2>1, <2>2
<1>10. LogGrows
  BY <1>7, <1>9 DEF LogGrows
<1>11. \A e \in Fresh(p) : seq'[r][e] # 0
  BY <1>3, <1>4, <1>5, <1>6
<1> QED
  BY <1>10, <1>11 DEF r

LEMMA SyncPull ==
  ASSUME SyncInv, TypeOK', NEW p \in Procs, PullStep(p)
  PROVE  SyncInv'
<1> DEFINE r == Home[p]
<1>1. /\ r \in Replicas /\ job[p] \in Job /\ sync[r] \in SyncState
      /\ RoundSound(r, job[p]) /\ StateSound(r, sync[r]) /\ TypeOK
      /\ Len(relay) \in Nat
  BY HomeType DEF SyncInv, TypeOK
<1> HIDE DEF r
<1>2. CASE PullRead(p)
  <2> DEFINE j == [Ready EXCEPT !.pc = "pull", !.seen = sync[r].status,
                                !.since = sync[r].pulled]
  <2>1. j \in Job /\ RoundSound(r, j)
    BY <1>1, ReadyType, ZenonT(60) DEF RoundSound, StateSound, Ready, Job, Points, SyncState
  <2> QED
    BY <1>2, <2>1, LocalStep DEF PullRead, r
<1>3. CASE PullFetch(p)
  <2>1. PICK from \in 1 .. Len(relay) + 1 :
          /\ StartsAt(job[p].since, from)
          /\ IF from <= Len(relay)
               THEN job' = [job EXCEPT ![p] =
                      [Ready EXCEPT !.pc = "insert", !.seen = job[p].seen,
                                    !.from = from, !.to = Len(relay),
                                    !.mark = relay[Len(relay)]]]
               ELSE Goto(p, IF job[p].seen = "idle" THEN "ready" ELSE "heal")
    BY <1>3 DEF PullFetch
  <2>2. UNCHANGED <<seq, relay, sync>>
    BY <1>3 DEF PullFetch
  <2>3. \A i \in 1 .. from - 1 : relay[i] \in Logged(r)
    <3>1. CASE from = 1
      BY <3>1
    <3>2. CASE from # 1
      <4>1. PICK i \in Lines : /\ relay[i] = job[p].since
                               /\ \A k \in 1 .. i - 1 : relay[k] # job[p].since
                               /\ from = i + 1
        BY <2>1, <3>2 DEF StartsAt
      <4>2. job[p].since # NoEvent
        BY <1>1, <4>1, LineType
      <4>3. PICK k \in Lines : /\ relay[k] = job[p].since
                               /\ \A n \in 1 .. k : relay[n] \in Logged(r)
        BY <1>1, <1>3, <4>2 DEF PullFetch, RoundSound, PulledUpTo
      <4>4. i <= k
        BY <1>1, <4>1, <4>3 DEF Lines
      <4> QED
        BY <1>1, <4>1, <4>3, <4>4 DEF Lines
    <3> QED
      BY <3>1, <3>2
  <2>4. CASE from <= Len(relay)
    <3>1. PICK to \in Nat, last \in Watermark :
            /\ to = Len(relay) /\ last = relay[to]
      <4>1. Len(relay) \in Lines
        BY <1>1, <2>4 DEF Lines
      <4> QED
        BY <1>1, <4>1, LineType DEF Watermark
    <3>2. PICK seen \in {"idle", "syncing"} : seen = job[p].seen
      BY <1>1 DEF Job
    <3> DEFINE j == [Ready EXCEPT !.pc = "insert", !.seen = seen, !.from = from,
                                  !.to = to, !.mark = last]
    <3>3. j \in Job
      <4>1. from \in Nat /\ to \in Nat
        BY <1>1
      <4> HIDE DEF Watermark
      <4> QED
        BY <4>1, FetchedType
    <3>4. /\ j.pc = "insert" /\ j.base = NoState
          /\ j.from = from /\ j.to = to /\ j.mark = last
      BY DEF Ready
    <3>5. job' = [job EXCEPT ![p] = j]
      BY <2>1, <2>4, <3>1, <3>2
    <3> HIDE DEF j
    <3>6. RoundSound(r, j)
      BY <1>1, <2>3, <2>4, <3>1, <3>4 DEF RoundSound, ResponseSound
    <3> QED
      BY <2>2, <3>3, <3>5, <3>6, LocalStep DEF r
  <2>5. CASE ~ from <= Len(relay)
    <3> DEFINE point == IF job[p].seen = "idle" THEN "ready" ELSE "heal"
               j == [Ready EXCEPT !.pc = point]
    <3>1. point \in {"ready", "heal"}
      OBVIOUS
    <3>2. job' = [job EXCEPT ![p] = j]
      BY <2>1, <2>5 DEF Goto
    <3> HIDE DEF point
    <3>3. j \in Job /\ RoundSound(r, j)
      BY <3>1, ReadyType DEF RoundSound, Ready, Points, Updates, Job
    <3> QED
      BY <2>2, <3>2, <3>3, LocalStep DEF r
  <2> QED
    BY <2>4, <2>5
<1>4. CASE PullInsert(p)
  <2>1. LogGrows /\ \A e \in Fresh(p) : seq'[r][e] # 0
    BY <1>1, <1>4, InsertGrows DEF r
  <2>2. RelayGrows
    BY <1>1, <1>4 DEF PullInsert, RelayGrows
  <2>3. PICK j \in Job :
          /\ job' = [job EXCEPT ![p] = j]
          /\ j.pc = "applied" /\ j.base = NoState /\ j.mark = job[p].mark
    <3> DEFINE j == [Ready EXCEPT !.pc = "applied", !.seen = job[p].seen,
                                  !.mark = job[p].mark,
                                  !.inserted = Fresh(p) # {}]
    <3>1. j \in Job
      BY <1>1 DEF Job, Points, Updates, Ready, Watermark
    <3>2. j.pc = "applied" /\ j.base = NoState /\ j.mark = job[p].mark
      BY DEF Ready
    <3>3. job' = [job EXCEPT ![p] = j]
      BY <1>4 DEF PullInsert
    <3> QED
      BY <3>1, <3>2, <3>3
  <2>4. ResponseSound(r, job[p].from, job[p].to, job[p].mark)
    BY <1>1, <1>4 DEF PullInsert, RoundSound
  <2>5. j.mark # NoEvent /\ PulledUpTo(r, j.mark)'
    <3>1. PICK to \in Lines : to = job[p].to /\ relay[to] = j.mark
      BY <1>1, <2>3, <2>4 DEF ResponseSound, Lines, Job
    <3>2. relay' = relay /\ Lines' = Lines
      BY <1>4 DEF PullInsert, Lines
    <3>3. ASSUME NEW k \in 1 .. to PROVE relay[k] \in Logged(r)'
      <4>1. relay[k] \in Events /\ k \in Nat /\ job[p].from \in Nat
        BY <1>1, <3>1, LineType DEF Lines, Job
      <4>2. CASE relay[k] \in Logged(r)
        BY <1>1, <2>1, <4>2, LoggedStable
      <4>3. CASE relay[k] \notin Logged(r)
        <5>1. k \in job[p].from .. job[p].to
          BY <1>1, <2>4, <3>1, <4>1, <4>3 DEF ResponseSound, Job
        <5>2. relay[k] \in Fresh(p)
          BY <4>1, <4>3, <5>1 DEF Fresh, r
        <5> QED
          BY <2>1, <4>1, <5>2 DEF Logged
      <4> QED
        BY <4>2, <4>3
    <3>4. PulledUpTo(r, j.mark)'
      BY <3>1, <3>2, <3>3 DEF PulledUpTo
    <3>5. j.mark # NoEvent
      BY <1>1, <3>1, LineType
    <3> QED
      BY <3>4, <3>5
  <2>6. RoundSound(r, j)'
    BY <2>3, <2>5 DEF RoundSound
  <2>7. PICK s \in SyncState :
          s = sync[r] /\ StateSound(r, s) /\ sync' = [sync EXCEPT ![r] = s]
    BY <1>1, <1>4 DEF PullInsert, TypeOK
  <2>8. StateSound(r, s)'
    BY <1>1, <2>1, <2>2, <2>7, StateStable
  <2> QED
    BY <2>1, <2>2, <2>3, <2>6, <2>7, <2>8, Frame DEF r
<1> QED
  BY <1>2, <1>3, <1>4 DEF PullStep

LEMMA SyncUpdate ==
  ASSUME SyncInv, TypeOK', NEW p \in Procs, Update(p)
  PROVE  SyncInv'
<1> DEFINE r == Home[p]
<1>1. /\ r \in Replicas /\ job[p] \in Job /\ sync[r] \in SyncState
      /\ RoundSound(r, job[p]) /\ StateSound(r, sync[r]) /\ TypeOK
  BY HomeType DEF SyncInv, TypeOK
<1> HIDE DEF r
<1>2. CASE Load(p)
  <2> DEFINE j == [job[p] EXCEPT !.base = sync[r]]
  <2>1. j \in Job /\ RoundSound(r, j)
    BY <1>1 DEF RoundSound, StateSound, Job
  <2> QED
    BY <1>2, <2>1, LocalStep DEF Load, r
<1>3. CASE Store(p)
  <2>1. job[p].base \in SyncState /\ StateSound(r, job[p].base)
    BY <1>1, <1>3 DEF Store, RoundSound, Job
  <2>2. job[p].pc \in Updates
    BY <1>3 DEF Store
  <2>3. PICK s \in SyncState : s = Patched(job[p])
    BY <1>1, <2>1, <2>2, PatchedType
  <2>4. StateSound(r, s)
    BY <1>1, <2>1, <2>2, <2>3
    DEF StateSound, RoundSound, Patched, Updates, Job, SyncState
  <2>5. PICK j \in Job :
          /\ job' = [job EXCEPT ![p] = j]
          /\ j.base = NoState /\ j.batch = job[p].batch /\ j.mark = NoEvent
          /\ j.pc \in {"done", "heal", "ready", "send"}
          /\ j.pc = "send" => job[p].pc = "flag"
    <3>1. PICK point \in {"done", "heal", "ready", "send"} :
            /\ point = AfterUpdate(job[p])
            /\ point = "send" => job[p].pc = "flag"
      BY DEF AfterUpdate
    <3>2. [Ready EXCEPT !.pc = point, !.batch = job[p].batch] \in Job
      BY <1>1, <3>1, ReadyType DEF Job, Points, Updates
    <3>3. job' = [job EXCEPT ![p] =
                    [Ready EXCEPT !.pc = point, !.batch = job[p].batch]]
      BY <1>3, <3>1 DEF Store
    <3> QED
      BY <3>1, <3>2, <3>3 DEF Ready
  <2>6. RoundSound(r, j)
    <3>1. j.pc = "send" => BatchSound(r, j.batch, j.mark)
      BY <1>1, <2>5 DEF RoundSound, BatchSound
    <3> QED
      BY <2>5, <3>1 DEF RoundSound
  <2>7. LogGrows /\ RelayGrows
    BY <1>1, <1>3, Still DEF Store
  <2>8. StateSound(r, s)' /\ RoundSound(r, j)'
    BY <1>1, <2>4, <2>6, <2>7, StateStable, RoundStable
  <2>9. sync' = [sync EXCEPT ![r] = s]
    BY <1>3, <2>3 DEF Store, r
  <2> QED
    BY <2>5, <2>7, <2>8, <2>9, Frame DEF r
<1> QED
  BY <1>2, <1>3 DEF Update

LEMMA SyncFault ==
  ASSUME SyncInv, TypeOK', NEW p \in Procs, CallFails(p) \/ Crash(p)
  PROVE  SyncInv'
<1>1. RoundSound(Home[p], Ready)
  BY DEF RoundSound, Ready
<1> QED
  BY <1>1, ReadyType, LocalStep DEF CallFails, Crash

LEMMA SyncSame ==
  ASSUME SyncInv, TypeOK', UNCHANGED <<seq, sync, relay, job>>
  PROVE  SyncInv'
<1>1. LogGrows /\ RelayGrows /\ TypeOK
  BY Still DEF SyncInv
<1>2. \A q \in Procs : RoundSound(Home[q], job[q])'
  BY <1>1, RoundStable, HomeType DEF SyncInv, TypeOK
<1>3. \A r \in Replicas : StateSound(r, sync[r])'
  BY <1>1, StateStable DEF SyncInv, TypeOK
<1> QED
  BY <1>2, <1>3 DEF SyncInv

LEMMA SyncNext == SyncInv /\ [Next]_vars => SyncInv'
<1> SUFFICES ASSUME SyncInv, [Next]_vars PROVE SyncInv'
  OBVIOUS
<1>1. TypeOK'
  BY TypeNext DEF SyncInv
<1>2. ASSUME NEW r \in Replicas, NEW e \in Events, AppendEvent(r, e)
      PROVE  SyncInv'
  BY <1>1, <1>2, SyncAppend
<1>3. ASSUME NEW p \in Procs, PushStep(p) \/ PullStep(p) \/ Update(p)
      PROVE  SyncInv'
  BY <1>1, <1>3, SyncPush, SyncPull, SyncUpdate
<1>4. ASSUME NEW p \in Procs, CallFails(p) \/ Crash(p)
      PROVE  SyncInv'
  BY <1>1, <1>4, SyncFault
<1>5. CASE BreakStaleLock \/ UNCHANGED vars
  BY <1>1, <1>5, SyncSame DEF BreakStaleLock, vars
<1> QED
  BY <1>2, <1>3, <1>4, <1>5 DEF Next, Procs

\* However rounds overlap, fail or die, what sync.json claims stays true and
\* every process in flight is about to write something true.
THEOREM SyncCorrect == Spec => []SyncInv
  BY SyncInit, SyncNext, PTL DEF Spec

\* No row at or before a push watermark is missing from the relay
\* (markPushed never moves lastPushedEventId past an unsent row).
THEOREM PushedIsShared == Spec => []PushWatermarkSound
<1>1. SyncInv => PushWatermarkSound
  BY DEF SyncInv, StateSound, PushWatermarkSound
<1> QED
  BY <1>1, SyncCorrect, PTL

\* No line a later pull skips is missing from the log (applyPullResponse
\* moves lastPulledEventId only after the rows are in).
THEOREM PulledIsLogged == Spec => []PullWatermarkSound
<1>1. SyncInv => PullWatermarkSound
  BY SMTT(40) DEF SyncInv, StateSound, PullWatermarkSound
<1> QED
  BY <1>1, SyncCorrect, PTL

(***************************************************************************)
(* The log and the relay only grow, and every step is a step of            *)
(* EventReplication or changes nothing it can see.                         *)
(***************************************************************************)

\* The only actions that touch the log or the relay.
LEMMA Touches ==
  ASSUME TypeOK, [Next]_vars
  PROVE  \/ UNCHANGED <<seq, relay>>
         \/ \E r \in Replicas, e \in Events : AppendEvent(r, e)
         \/ \E p \in Pushers : SendLine(p)
         \/ \E p \in Pullers : PullInsert(p)
  BY DEF Next, vars, PushStep, PullStep, Update, PushGate, PushRead, PushBuild,
         PushSlice, SendStart, SendDone, PullRead, PullFetch, Load, Store,
         CallFails, Crash, BreakStaleLock

\* A row keeps its number and a line its place (insertExternalEvents is
\* INSERT OR IGNORE, the file transport appends).
THEOREM HistoryIsKept == Spec => HistoryKept
<1>1. ASSUME TypeOK, [Next]_vars
      PROVE  [/\ \A r \in Replicas, e \in Events :
                   seq[r][e] # 0 => seq'[r][e] = seq[r][e]
              /\ SubSeq(relay', 1, Len(relay)) = relay]_<<seq, relay>>
  <2>1. SubSeq(relay, 1, Len(relay)) = relay
    BY <1>1 DEF TypeOK
  <2>2. ASSUME NEW r \in Replicas, NEW e \in Events, AppendEvent(r, e)
        PROVE  /\ \A q \in Replicas, f \in Events :
                    seq[q][f] # 0 => seq'[q][f] = seq[q][f]
               /\ relay' = relay
    <3>1. seq[r][e] = 0
      BY <2>2, SMTT(40) DEF AppendEvent, Logged
    <3> QED
      BY <1>1, <2>2, <3>1 DEF AppendEvent, TypeOK
  <2>3. ASSUME NEW p \in Procs, PullInsert(p)
        PROVE  /\ \A q \in Replicas, f \in Events :
                    seq[q][f] # 0 => seq'[q][f] = seq[q][f]
               /\ relay' = relay
    BY <1>1, <2>3, InsertGrows DEF LogGrows, PullInsert
  <2>4. ASSUME NEW p \in Procs, SendLine(p)
        PROVE  seq' = seq /\ SubSeq(relay', 1, Len(relay)) = relay
    <3>1. /\ seq' = seq
          /\ relay' = relay \/ \E e \in Events : relay' = Append(relay, e)
      BY <2>4 DEF SendLine
    <3>2. \A e \in Events : SubSeq(Append(relay, e), 1, Len(relay)) = relay
      BY <1>1, AppendProperties, SubSeqProperties DEF TypeOK
    <3> QED
      BY <2>1, <3>1, <3>2
  <2> QED
    BY <1>1, <2>1, <2>2, <2>3, <2>4, Touches DEF Procs
<1> QED
  BY <1>1, TypeCorrect, PTL DEF Spec, HistoryKept

LEMMA AbstractInit == Init => Abstract!Init
  BY DEF Init, Abstract!Init, Logged, OnRelay, Lines

LEMMA AbstractNext == SyncInv /\ [Next]_vars => [Abstract!Next]_(Abstract!vars)
<1> SUFFICES ASSUME SyncInv, [Next]_vars
             PROVE  [Abstract!Next]_(Abstract!vars)
  OBVIOUS
<1> DEFINE have == [r \in Replicas |-> Logged(r)]
           shared == {e \in Events : OnRelay(e)}
<1>1. TypeOK
  BY DEF SyncInv
<1>2. CASE UNCHANGED <<seq, relay>>
  <2>1. have' = have /\ shared' = shared
    BY <1>2 DEF Logged, OnRelay, Lines
  <2> QED
    BY <2>1 DEF Abstract!vars
<1>3. ASSUME NEW r \in Replicas, NEW e \in Events, AppendEvent(r, e)
      PROVE  Abstract!Create(r, e)
  <2>1. shared' = shared
    BY <1>3 DEF AppendEvent, OnRelay, Lines
  <2>2. PICK tail \in Nat : seq' = [seq EXCEPT ![r][e] = tail + 1]
    <3>1. Tails(r) \subseteq Nat
      BY <1>1 DEF Tails, TypeOK
    <3> QED
      BY <1>3, <3>1 DEF AppendEvent
  <2>3. \A q \in Replicas :
          Logged(q)' = IF q = r THEN Logged(q) \cup {e} ELSE Logged(q)
    BY <1>1, <2>2 DEF Logged, TypeOK
  <2>4. have' = [have EXCEPT ![r] = have[r] \cup {e}]
    BY <2>3
  <2>5. \A q \in Replicas : e \notin have[q]
    BY <1>3 DEF AppendEvent
  <2> QED
    BY <2>1, <2>4, <2>5 DEF Abstract!Create
<1>4. ASSUME NEW p \in Pushers, SendLine(p)
      PROVE  [Abstract!Next]_(Abstract!vars)
  <2>1. PICK e \in Events :
          NextToSend(p, e) /\ (relay' = relay \/ relay' = Append(relay, e))
    BY <1>4 DEF SendLine
  <2>2. Home[p] \in Replicas /\ e \in Logged(Home[p])
    BY <1>4, <2>1, HomeType
    DEF SyncInv, RoundSound, BatchSound, SendLine, NextToSend, Procs
  <2>3. have' = have
    BY <1>4 DEF SendLine, Logged
  <2>4. CASE relay' = relay
    BY <1>2, <1>4, <2>4 DEF SendLine
  <2>5. CASE relay' = Append(relay, e)
    <3>1. /\ Len(relay') = Len(relay) + 1 /\ Len(relay) \in Nat
          /\ relay'[Len(relay) + 1] = e
          /\ \A i \in 1 .. Len(relay) : relay'[i] = relay[i]
      BY <1>1, <2>5 DEF TypeOK
    <3>2. \A f : OnRelay(f)' <=> OnRelay(f) \/ f = e
      BY <3>1 DEF OnRelay, Lines
    <3>3. shared' = shared \cup {e}
      BY <3>2
    <3>4. Abstract!Publish(Home[p], e)
      BY <2>2, <2>3, <3>3 DEF Abstract!Publish
    <3> QED
      BY <2>2, <3>4 DEF Abstract!Next
  <2> QED
    BY <2>1, <2>4, <2>5
<1>5. ASSUME NEW p \in Pullers, PullInsert(p)
      PROVE  /\ Home[p] \in Replicas /\ Fresh(p) \in SUBSET Events
             /\ Abstract!Learn(Home[p], Fresh(p))
  <2> DEFINE r == Home[p]
  <2>1. p \in Procs /\ r \in Replicas /\ Fresh(p) \subseteq Events
    BY HomeType DEF Procs, Fresh
  <2>2. shared' = shared
    BY <1>5 DEF PullInsert, OnRelay, Lines
  <2>3. Fresh(p) \subseteq shared
    <3>1. /\ 1 <= job[p].from /\ job[p].to <= Len(relay) /\ job[p] \in Job
          /\ Len(relay) \in Nat
      BY <1>1, <1>5, <2>1
      DEF SyncInv, RoundSound, ResponseSound, PullInsert, TypeOK
    <3> QED
      BY <2>1, <3>1 DEF Fresh, OnRelay, Lines, Job
  <2>4. \A q \in Replicas :
          Logged(q)' = IF q = r THEN Logged(q) \cup Fresh(p) ELSE Logged(q)
    <3>1. LogGrows /\ \A e \in Fresh(p) : seq'[r][e] # 0
      BY <1>1, <1>5, <2>1, InsertGrows
    <3>2. \A q \in Replicas, e \in Events :
            e \in Logged(q)' => e \in Logged(q) \/ (q = r /\ e \in Fresh(p))
      BY <1>1, <1>5 DEF PullInsert, Logged, TypeOK
    <3>3. \A q \in Replicas :
            Logged(q) \subseteq Logged(q)' /\ Logged(q)' \subseteq Events
      BY <3>1, LoggedStable DEF Logged
    <3>4. Fresh(p) \subseteq Logged(r)'
      BY <2>1, <3>1 DEF Logged
    <3> QED
      BY <3>2, <3>3, <3>4
  <2>5. have' = [have EXCEPT ![r] = have[r] \cup Fresh(p)]
    BY <2>4
  <2> QED
    BY <2>1, <2>2, <2>3, <2>5 DEF Abstract!Learn
<1>6. ASSUME NEW r \in Replicas, NEW e \in Events, AppendEvent(r, e)
      PROVE  Abstract!Next
  BY <1>3, <1>6 DEF Abstract!Next
<1>7. ASSUME NEW p \in Pullers, PullInsert(p)
      PROVE  Abstract!Next
  BY <1>5, <1>7 DEF Abstract!Next
<1> QED
  BY <1>1, <1>2, <1>4, <1>6, <1>7, Touches

\* Push and pull rounds implement EventReplication: an event reaches a
\* replica only through the relay and nothing is ever taken away.
THEOREM SyncImplementsReplication == Spec => AbstractSpec
  BY AbstractInit, AbstractNext, SyncCorrect, PTL
  DEF Spec, AbstractSpec, Abstract!Spec

(***************************************************************************)
(* Projection.                                                             *)
(***************************************************************************)

------------------------------------------------------------------------------
(* The inductive invariant. *)

Kinds ==
  {"genesis", "memory", "superseded", "retracted", "observation", "task", "status",
   "handoff", "item", "checkpoint", "request", "accepted", "declined", "decision",
   "decisionSuperseded", "conflict", "resolved"}

Tags ==
  Projects \cup Files \cup
    {None, "in_progress", "handoff_ready", "done", "cancelled", "decision", "owner"}

\* A row is stamped with its project, or with nothing; and has an id, unless
\* it is a genesis.
RowSpace ==
  {r \in [kind : Kinds, id : Nat, src : Projects \cup {None}, proj : Projects, ref : Nat,
          to : Nat, tag : Tags, who : Sessions \cup {None}] :
     r.src \in {None, r.proj} /\ (r.id = 0 => r.kind = "genesis")}

Stages == {"idle", "append", "write", "share", "advance", "promote", "deliver"}

ProcSpace ==
  [at : Stages, store : Stores \cup {None}, session : Sessions \cup {None},
   batches : Seq(Seq(RowSpace)), folded : Nat, seen : SUBSET Nat, upto : Nat,
   files : SUBSET Tags]

ProjectionTypes ==
  /\ log \in [Stores -> Seq(RowSpace)] /\ hub \in Seq(RowSpace)
  /\ tables \in [Stores -> Nat] /\ mark \in [Sessions -> Nat]
  /\ proc \in [Commands -> ProcSpace]
  /\ mix \in Mixes /\ minted \in Nat
  /\ since \in [Sessions -> Nat]
  /\ shown \in [Sessions -> SUBSET Nat] /\ passed \in [Sessions -> SUBSET Nat]

\* A row that closes a memory or answers a request finds what it names in R:
\* a memory is replaced by a newer one of its lane, a request accepted by a
\* task of the project it was made to.
Grounded(r, R) ==
  /\ r.kind = "superseded" =>
       \E old, new \in R :
         /\ old.kind = "memory" /\ old.id = r.ref
         /\ new.kind = "memory" /\ new.id = r.to
         /\ old.proj = new.proj /\ old.id < new.id
  /\ r.kind = "retracted" => \E q \in R : q.kind = "memory" /\ q.id = r.ref
  /\ r.kind = "accepted" =>
       \E t, q \in R :
         /\ t.kind = "task" /\ t.id = r.to
         /\ q.kind = "request" /\ q.id = r.ref /\ q.tag = t.proj

\* Each row of rows finds it in R or before itself.
Firm(rows, R) ==
  \A k \in DOMAIN rows : Grounded(rows[k], R \cup {rows[l] : l \in 1 .. k - 1})

LogsInv ==
  /\ \A s \in Stores : IsInjective(log[s]) /\ Firm(log[s], {})
  /\ IsInjective(hub) /\ Firm(hub, {})

RowsOf(batches) == UNION {ToSet(batches[b]) : b \in DOMAIN batches}

Universe ==
  (UNION {ToSet(log[s]) : s \in Stores}) \cup ToSet(hub)
    \cup UNION {RowsOf(proc[c].batches) : c \in Commands}

\* An id names one row, wherever its copies are.
IdsInv ==
  /\ \A r \in Universe : r.id <= minted
  /\ \A r, q \in Universe : r.id = q.id /\ r.id # 0 => r = q

\* The first n rows have the genesis of every project.
Whole(rows, n) ==
  \A p \in Projects : \E i \in 1 .. n : rows[i].kind = "genesis" /\ rows[i].proj = p

TablesInv == \A s \in Stores : tables[s] <= Len(log[s]) /\ Whole(log[s], tables[s])

\* What a command is about to append to rows stands on them and on what it
\* appends before it.
Sound(batches, rows) ==
  \A b \in DOMAIN batches :
    /\ IsInjective(batches[b])
    /\ Firm(batches[b], ToSet(rows) \cup UNION {ToSet(batches[a]) : a \in 1 .. b - 1})

\* A command at p, in a store that has these rows.
ProcOK(p, rows) ==
  /\ p.at = "idle" => p = Idle
  /\ p.at # "idle" => p.store \in Stores
  /\ p.at = "append" => p.batches # <<>>
  /\ p.at \notin {"append", "write"} => p.batches = <<>>
  /\ Sound(p.batches, rows)
  /\ p.at = "write" => p.folded <= Len(rows) /\ Whole(rows, p.folded)

FactsInv ==
  /\ LogsInv /\ IdsInv /\ TablesInv
  /\ \A c \in Commands : ProcOK(proc[c], log[proc[c].store])

\* What session x was shown, what was left out, and what a hook that has moved
\* its watermark is about to show it.
Settled(x) ==
  shown[x] \cup passed[x] \cup
    UNION {proc[c].seen : c \in {d \in Commands : proc[d].session = x /\ proc[d].at # "advance"}}

HookInv(c) ==
  LET p == proc[c] IN
  /\ p.session # None => p.store = At[p.session]
  /\ p.at \in {"share", "advance", "promote", "deliver"} => p.session # None
  /\ p.session = None \/ p.upto = 0 \/ p.at = "share" => p.seen = {}
  /\ p.at = "advance" =>
       /\ p.upto <= Len(log[p.store])
       /\ \A i \in since[p.session] + 1 .. p.upto :
            Shareable(log[p.store][i], p.session) => i \in Settled(p.session) \cup p.seen

SharesInv ==
  /\ \A c \in Commands : HookInv(c)
  /\ \A x \in Sessions :
       /\ mark[x] <= Len(log[At[x]])
       /\ \A i \in since[x] + 1 .. mark[x] :
            Shareable(log[At[x]][i], x) => i \in Settled(x)

ProjectionInv == ProjectionTypes /\ FactsInv /\ SharesInv

------------------------------------------------------------------------------
(* Sets of numbers and sequences of rows. *)

\* Sorted enumerates a finite set of numbers, the smaller before the greater.
LEMMA SortedIs ==
  ASSUME NEW n \in Nat, NEW S \in SUBSET (1 .. n)
  PROVE  /\ Cardinality(S) \in Nat
         /\ Sorted(S) \in [1 .. Cardinality(S) -> S]
         /\ \A k, l \in 1 .. Cardinality(S) : k < l => Sorted(S)[k] < Sorted(S)[l]
         /\ \A i \in S : \E k \in 1 .. Cardinality(S) : Sorted(S)[k] = i
<1> DEFINE Upto(i) == {j \in S : j <= i}
           rank == [i \in S |-> Cardinality(Upto(i))]
           N == Cardinality(S)
<1>1. IsFiniteSet(S) /\ N \in Nat
  <2>1. IsFiniteSet(1 .. n)
    BY FS_Interval
  <2>2. IsFiniteSet(S)
    BY <2>1, FS_Subset
  <2> QED BY <2>2, FS_CardinalityType
<1>2. \A i \in S : i \in Int
  OBVIOUS
<1>3. ASSUME NEW i \in S
      PROVE  /\ IsFiniteSet(Upto(i)) /\ Cardinality(Upto(i)) \in 1 .. N
  <2>1. IsFiniteSet(Upto(i)) /\ Cardinality(Upto(i)) <= N
    BY <1>1, FS_Subset
  <2>2. i \in Upto(i)
    BY <1>2
  <2>3. Cardinality(Upto(i)) # 0
    BY <2>1, <2>2, FS_EmptySet
  <2>4. Cardinality(Upto(i)) \in Nat
    BY <2>1, FS_CardinalityType
  <2> HIDE DEF Upto
  <2> QED BY <1>1, <2>1, <2>3, <2>4
<1>4. ASSUME NEW i \in S, NEW j \in S, i < j
      PROVE  Cardinality(Upto(i)) < Cardinality(Upto(j))
  <2>1. Upto(i) \in SUBSET Upto(j) /\ j \in Upto(j) /\ j \notin Upto(i)
    <3>1. \A k \in S : k <= i => k <= j
      BY <1>2, <1>4
    <3>2. j <= j /\ ~ (j <= i)
      BY <1>2, <1>4
    <3> QED BY <3>1, <3>2
  <2>2. /\ Cardinality(Upto(i)) <= Cardinality(Upto(j))
        /\ Cardinality(Upto(i)) # Cardinality(Upto(j))
    <3> HIDE DEF Upto
    <3> QED BY <1>3, <2>1, FS_Subset
  <2> HIDE DEF Upto
  <2> QED BY <2>2, <1>3
<1>5. rank \in Injection(S, 1 .. N)
  <2>1. rank \in [S -> 1 .. N]
    BY <1>3
  <2>2. ASSUME NEW i \in S, NEW j \in S, rank[i] = rank[j] PROVE i = j
    <3>1. Cardinality(Upto(i)) = Cardinality(Upto(j))
      BY <2>2
    <3>2. Cardinality(Upto(i)) \in Int
      BY <1>3
    <3> HIDE DEF Upto, rank
    <3>3. ~ (i < j) /\ ~ (j < i)
      BY <3>1, <3>2, <1>4
    <3> QED BY <3>3, <1>2
  <2>3. IsInjective(rank)
    <3>1. DOMAIN rank = S
      OBVIOUS
    <3> HIDE DEF rank
    <3> QED BY <3>1, <2>2 DEF IsInjective
  <2> QED BY <2>1, <2>3 DEF Injection
<1>6. \A k \in 1 .. N : \E i \in S : Cardinality(Upto(i)) = k
  <2>1. IsFiniteSet(1 .. N) /\ Cardinality(1 .. N) = N
    BY <1>1, FS_Interval
  <2>2. rank \in Surjection(S, 1 .. N)
    <3> HIDE DEF rank
    <3> QED BY <1>5, <2>1, FS_Injection
  <2>3. \A k \in 1 .. N : \E i \in S : rank[i] = k
    <3> HIDE DEF rank
    <3> QED BY <2>2 DEF Surjection
  <2>4. \A i \in S : rank[i] = Cardinality(Upto(i))
    OBVIOUS
  <2> HIDE DEF rank, Upto
  <2> QED BY <2>3, <2>4
<1>7. Sorted(S) = [k \in 1 .. N |-> CHOOSE i \in S : Cardinality(Upto(i)) = k]
  BY DEF Sorted
<1>8. \A k \in 1 .. N : Sorted(S)[k] \in S /\ Cardinality(Upto(Sorted(S)[k])) = k
  <2> HIDE DEF Upto
  <2> QED BY <1>6, <1>7
<1>9. Sorted(S) \in [1 .. N -> S]
  <2> HIDE DEF Upto
  <2> QED BY <1>7, <1>8
<1>10. ASSUME NEW k \in 1 .. N, NEW l \in 1 .. N, k < l
       PROVE  Sorted(S)[k] < Sorted(S)[l]
  <2> DEFINE a == Sorted(S)[k]
             b == Sorted(S)[l]
  <2>1. a \in S /\ b \in S /\ Cardinality(Upto(a)) = k /\ Cardinality(Upto(b)) = l
    BY <1>8
  <2> HIDE DEF Upto, a, b
  <2>2. ~ (b < a) /\ a # b
    BY <2>1, <1>4, <1>10
  <2>3. a < b
    BY <2>1, <2>2, <1>2
  <2> QED BY <2>3 DEF a, b
<1>11. ASSUME NEW i \in S PROVE \E k \in 1 .. N : Sorted(S)[k] = i
  <2> DEFINE k == Cardinality(Upto(i))
  <2>1. k \in 1 .. N
    BY <1>3
  <2>2. Sorted(S)[k] \in S /\ Cardinality(Upto(Sorted(S)[k])) = k
    BY <2>1, <1>8
  <2> DEFINE a == Sorted(S)[k]
  <2>3. ~ (a < i) /\ ~ (i < a)
    <3>1. a \in S /\ Cardinality(Upto(a)) = Cardinality(Upto(i))
      BY <2>2
    <3>2. Cardinality(Upto(i)) \in Int
      BY <1>3
    <3> HIDE DEF Upto, a
    <3>3. ~ (Cardinality(Upto(a)) < Cardinality(Upto(i)))
          /\ ~ (Cardinality(Upto(i)) < Cardinality(Upto(a)))
      BY <3>1, <3>2
    <3> QED BY <3>1, <3>3, <1>4
  <2>4. a \in S
    BY <2>2
  <2> HIDE DEF a
  <2>5. a \in Int /\ i \in Int
    BY <2>4, <1>2
  <2>6. a = i
    BY <2>3, <2>5
  <2> QED BY <2>1, <2>6 DEF a
<1> QED
  BY <1>1, <1>9, <1>10, <1>11

\* A finite set of numbers has a least and a greatest.
LEMMA Extremes ==
  ASSUME NEW n \in Nat, NEW S \in SUBSET (1 .. n), S # {}
  PROVE  /\ \E i \in S : \A j \in S : i <= j
         /\ \E i \in S : \A j \in S : j <= i
<1> DEFINE N == Cardinality(S)
           f == Sorted(S)
<1>1. /\ N \in Nat /\ f \in [1 .. N -> S]
      /\ \A k, l \in 1 .. N : k < l => f[k] < f[l]
      /\ \A i \in S : \E k \in 1 .. N : f[k] = i
  BY SortedIs
<1>2. \A i \in S : i \in Int
  OBVIOUS
<1> HIDE DEF N, f
<1>3. N >= 1
  <2>1. PICK i \in S : TRUE
    OBVIOUS
  <2>2. PICK k \in 1 .. N : f[k] = i
    BY <1>1
  <2> QED BY <2>2, <1>1
<1>4. 1 \in 1 .. N /\ N \in 1 .. N
  BY <1>1, <1>3
<1>5. ASSUME NEW j \in S PROVE f[1] <= j /\ j <= f[N]
  <2>1. PICK k \in 1 .. N : f[k] = j
    BY <1>1
  <2>2. f[1] \in Int /\ f[N] \in Int /\ j \in Int
    BY <1>1, <1>2, <1>4
  <2>3. f[1] <= j
    <3>1. CASE k = 1
      BY <3>1, <2>1, <2>2
    <3>2. CASE k # 1
      <4>1. 1 < k
        BY <1>1, <3>2
      <4> QED BY <4>1, <1>1, <1>4, <2>1, <2>2
    <3> QED BY <3>1, <3>2
  <2>4. j <= f[N]
    <3>1. CASE k = N
      BY <3>1, <2>1, <2>2
    <3>2. CASE k # N
      <4>1. k < N
        BY <1>1, <3>2
      <4> QED BY <4>1, <1>1, <1>4, <2>1, <2>2
    <3> QED BY <3>1, <3>2
  <2> QED BY <2>3, <2>4
<1>6. f[1] \in S /\ f[N] \in S
  BY <1>1, <1>4
<1> QED
  BY <1>5, <1>6

\* What SetToSeq makes of a finite set.
LEMMA SeqOfSet ==
  ASSUME NEW S, IsFiniteSet(S)
  PROVE  /\ SetToSeq(S) \in Seq(S)
         /\ IsInjective(SetToSeq(S)) /\ ToSet(SetToSeq(S)) = S
<1> DEFINE f == SetToSeq(S)
           N == Cardinality(S)
<1>1. N \in Nat /\ ExistsBijection(1 .. N, S)
  BY FS_CardinalityType
<1>2. PICK g : g \in Bijection(1 .. N, S)
  BY <1>1 DEF ExistsBijection
<1>3. g \in [1 .. N -> S] /\ IsInjective(g)
  BY <1>2 DEF Bijection, Injection
<1>4. f \in [1 .. N -> S] /\ IsInjective(f)
  BY <1>3 DEF SetToSeq
<1>5. f \in Injection(1 .. N, S)
  BY <1>4 DEF Injection
<1>6. IsFiniteSet(1 .. N) /\ Cardinality(1 .. N) = N
  BY <1>1, FS_Interval
<1>7. f \in Surjection(1 .. N, S)
  <2> HIDE DEF f
  <2> QED BY <1>5, <1>6, FS_Injection
<1>8. \A x \in S : \E k \in 1 .. N : f[k] = x
  BY <1>7 DEF Surjection
<1> HIDE DEF f, N
<1>9. f \in Seq(S)
  BY <1>1, <1>4
<1>10. ToSet(f) = S
  <2>1. DOMAIN f = 1 .. N
    BY <1>4
  <2> QED BY <1>4, <1>8, <2>1 DEF ToSet
<1> QED
  BY <1>4, <1>9, <1>10 DEF f

LEMMA SeqIs ==
  ASSUME NEW R, NEW rows \in Seq(R)
  PROVE  /\ Len(rows) \in Nat /\ DOMAIN rows = 1 .. Len(rows)
         /\ \A k \in 1 .. Len(rows) : rows[k] \in R
         /\ ToSet(rows) \subseteq R
         /\ ToSet(rows) = {rows[k] : k \in 1 .. Len(rows)}
BY DEF ToSet

\* Missing(from, to) has the rows of from that are not in to, each from a
\* place of its own, in their order.
LEMMA MissingIs ==
  ASSUME NEW R, NEW from \in Seq(R), NEW to
  PROVE  LET m == Missing(from, to) IN
         /\ m \in Seq(R) /\ ToSet(m) = ToSet(from) \ ToSet(to)
         /\ \E f \in [DOMAIN m -> DOMAIN from] :
              /\ \A k \in DOMAIN m : m[k] = from[f[k]]
              /\ \A k, l \in DOMAIN m : k < l => f[k] < f[l]
              /\ \A i \in DOMAIN from : from[i] \notin ToSet(to) =>
                   \E k \in DOMAIN m : f[k] = i
<1> DEFINE m == Missing(from, to)
           S == {i \in DOMAIN from : from[i] \notin ToSet(to)}
           N == Cardinality(S)
           f == Sorted(S)
<1>1. Len(from) \in Nat /\ DOMAIN from = 1 .. Len(from) /\ \A i \in DOMAIN from : from[i] \in R
  BY SeqIs
<1>2. S \in SUBSET (1 .. Len(from))
  BY <1>1
<1>3. /\ N \in Nat /\ f \in [1 .. N -> S]
      /\ \A k, l \in 1 .. N : k < l => f[k] < f[l]
      /\ \A i \in S : \E k \in 1 .. N : f[k] = i
  <2> HIDE DEF S
  <2> QED BY <1>1, <1>2, SortedIs
<1>4. DOMAIN f = 1 .. N
  <2> HIDE DEF f
  <2> QED BY <1>3
<1>5. m = [k \in 1 .. N |-> from[f[k]]]
  <2>1. m = [k \in DOMAIN f |-> from[f[k]]]
    BY DEF Missing
  <2> HIDE DEF m, f
  <2> QED BY <2>1, <1>4
<1>6. \A i \in S : i \in DOMAIN from /\ from[i] \notin ToSet(to)
  OBVIOUS
<1>7. \A i \in DOMAIN from : from[i] \notin ToSet(to) => i \in S
  OBVIOUS
<1> HIDE DEF m, f, N, S
<1>8. DOMAIN m = 1 .. N /\ \A k \in 1 .. N : m[k] = from[f[k]] /\ f[k] \in S
  BY <1>3, <1>5
<1>9. m \in Seq(R)
  <2>1. m \in [1 .. N -> R]
    BY <1>1, <1>5, <1>6, <1>8
  <2> QED BY <2>1, <1>3
<1>10. ToSet(m) = ToSet(from) \ ToSet(to)
  <2>1. ASSUME NEW r \in ToSet(m) PROVE r \in ToSet(from) \ ToSet(to)
    <3>1. PICK k \in 1 .. N : r = m[k]
      BY <1>8 DEF ToSet
    <3>2. r = from[f[k]] /\ f[k] \in DOMAIN from /\ from[f[k]] \notin ToSet(to)
      BY <3>1, <1>8, <1>6
    <3>3. r \in ToSet(from)
      BY <3>2 DEF ToSet
    <3> QED BY <3>2, <3>3
  <2>2. ASSUME NEW r \in ToSet(from), r \notin ToSet(to) PROVE r \in ToSet(m)
    <3>1. PICK i \in DOMAIN from : r = from[i]
      BY DEF ToSet
    <3>2. i \in S
      BY <3>1, <2>2, <1>7
    <3>3. PICK k \in 1 .. N : f[k] = i
      BY <3>2, <1>3
    <3>4. r = m[k] /\ k \in DOMAIN m
      BY <3>1, <3>3, <1>8
    <3> QED BY <3>4 DEF ToSet
  <2> QED BY <2>1, <2>2
<1>11. f \in [DOMAIN m -> DOMAIN from]
  BY <1>3, <1>6, <1>8
<1>12. \A i \in DOMAIN from : from[i] \notin ToSet(to) => \E k \in DOMAIN m : f[k] = i
  BY <1>3, <1>7, <1>8
<1>13. /\ \A k \in DOMAIN m : m[k] = from[f[k]]
       /\ \A k, l \in DOMAIN m : k < l => f[k] < f[l]
  BY <1>3, <1>8
<1>14. \E g \in [DOMAIN m -> DOMAIN from] :
         /\ \A k \in DOMAIN m : m[k] = from[g[k]]
         /\ \A k, l \in DOMAIN m : k < l => g[k] < g[l]
         /\ \A i \in DOMAIN from : from[i] \notin ToSet(to) => \E k \in DOMAIN m : g[k] = i
  BY <1>11, <1>12, <1>13
<1> QED
  BY <1>9, <1>10, <1>14 DEF m

\* A larger base grounds no less.
LEMMA GroundedMore ==
  ASSUME NEW r, NEW R, NEW T, R \subseteq T, Grounded(r, R)
  PROVE  Grounded(r, T)
BY Zenon DEF Grounded

LEMMA FirmMore ==
  ASSUME NEW rows, NEW R, NEW T, R \subseteq T, Firm(rows, R)
  PROVE  Firm(rows, T)
<1> SUFFICES ASSUME NEW k \in DOMAIN rows
             PROVE  Grounded(rows[k], T \cup {rows[l] : l \in 1 .. k - 1})
  BY DEF Firm
<1>1. Grounded(rows[k], R \cup {rows[l] : l \in 1 .. k - 1})
  BY DEF Firm
<1>2. R \cup {rows[l] : l \in 1 .. k - 1} \subseteq T \cup {rows[l] : l \in 1 .. k - 1}
  OBVIOUS
<1> QED BY <1>1, <1>2, GroundedMore

\* The rows another log lacks stand on it as they stood in their own.
LEMMA MissingFirm ==
  ASSUME NEW S, NEW from \in Seq(S), NEW to, NEW R, Firm(from, R), IsInjective(from)
  PROVE  Firm(Missing(from, to), R \cup ToSet(to)) /\ IsInjective(Missing(from, to))
<1> DEFINE m == Missing(from, to)
<1>1. m \in Seq(S)
  BY MissingIs
<1>2. PICK f \in [DOMAIN m -> DOMAIN from] :
        /\ \A k \in DOMAIN m : m[k] = from[f[k]]
        /\ \A k, l \in DOMAIN m : k < l => f[k] < f[l]
        /\ \A i \in DOMAIN from : from[i] \notin ToSet(to) =>
             \E k \in DOMAIN m : f[k] = i
  BY MissingIs
<1> HIDE DEF m
<1>3. /\ Len(m) \in Nat /\ DOMAIN m = 1 .. Len(m)
      /\ Len(from) \in Nat /\ DOMAIN from = 1 .. Len(from)
  BY <1>1, SeqIs
<1>4. \A k \in DOMAIN m : k \in Int /\ f[k] \in DOMAIN from /\ f[k] \in Int
  BY <1>2, <1>3
<1>5. ASSUME NEW k \in DOMAIN m
      PROVE  Grounded(m[k], (R \cup ToSet(to)) \cup {m[l] : l \in 1 .. k - 1})
  <2>1. Grounded(from[f[k]], R \cup {from[l] : l \in 1 .. f[k] - 1})
    BY <1>2 DEF Firm
  <2>2. ASSUME NEW l \in 1 .. f[k] - 1, from[l] \notin ToSet(to)
        PROVE  \E j \in 1 .. k - 1 : m[j] = from[l]
    <3>1. l \in DOMAIN from /\ l < f[k] /\ l \in Int
      BY <1>3, <1>4
    <3>2. PICK j \in DOMAIN m : f[j] = l
      BY <1>2, <2>2, <3>1
    <3>3. ~ (k < j) /\ k # j
      BY <1>2, <1>4, <3>1, <3>2
    <3>4. j \in 1 .. k - 1
      BY <1>3, <1>4, <3>3
    <3> QED BY <1>2, <3>2, <3>4
  <2>3. R \cup {from[l] : l \in 1 .. f[k] - 1}
          \subseteq (R \cup ToSet(to)) \cup {m[l] : l \in 1 .. k - 1}
    BY <2>2
  <2>4. m[k] = from[f[k]]
    BY <1>2
  <2> QED BY <2>1, <2>3, <2>4, GroundedMore
<1>6. IsInjective(m)
  <2> SUFFICES ASSUME NEW k \in DOMAIN m, NEW l \in DOMAIN m, m[k] = m[l]
               PROVE  k = l
    BY DEF IsInjective
  <2>1. f[k] = f[l]
    <3>1. from[f[k]] = from[f[l]]
      BY <1>2
    <3> QED BY <3>1, <1>4 DEF IsInjective
  <2>2. ~ (k < l) /\ ~ (l < k)
    BY <1>2, <1>4, <2>1
  <2> QED BY <2>2, <1>4
<1> QED
  BY <1>5, <1>6 DEF m, Firm

\* What is joined to a log.
LEMMA ConcatIs ==
  ASSUME NEW S, NEW a \in Seq(S), NEW b \in Seq(S), NEW R
  PROVE  /\ a \o b \in Seq(S) /\ Len(a \o b) = Len(a) + Len(b)
         /\ ToSet(a \o b) = ToSet(a) \cup ToSet(b)
         /\ \A i \in 1 .. Len(a) : (a \o b)[i] = a[i]
         /\ Firm(a, R) /\ Firm(b, R \cup ToSet(a)) => Firm(a \o b, R)
         /\ IsInjective(a) /\ IsInjective(b) /\ ToSet(a) \cap ToSet(b) = {}
              => IsInjective(a \o b)
<1> DEFINE c == a \o b
<1>1. /\ Len(a) \in Nat /\ DOMAIN a = 1 .. Len(a)
      /\ Len(b) \in Nat /\ DOMAIN b = 1 .. Len(b)
  BY SeqIs
<1>2. /\ c \in Seq(S) /\ Len(c) = Len(a) + Len(b)
      /\ \A i \in 1 .. Len(a) + Len(b) : c[i] = IF i <= Len(a) THEN a[i] ELSE b[i - Len(a)]
  BY ConcatProperties
<1> HIDE DEF c
<1>3. DOMAIN c = 1 .. Len(a) + Len(b)
  BY <1>2, SeqIs
<1>4. \A i \in 1 .. Len(a) : i \in DOMAIN c /\ c[i] = a[i]
  BY <1>1, <1>2, <1>3
<1>5. \A j \in 1 .. Len(b) : Len(a) + j \in DOMAIN c /\ c[Len(a) + j] = b[j]
  <2> SUFFICES ASSUME NEW j \in 1 .. Len(b)
               PROVE  Len(a) + j \in DOMAIN c /\ c[Len(a) + j] = b[j]
    OBVIOUS
  <2>1. Len(a) + j \in 1 .. Len(a) + Len(b) /\ ~ (Len(a) + j <= Len(a)) /\ Len(a) + j - Len(a) = j
    BY <1>1
  <2> QED BY <2>1, <1>2, <1>3
<1>6. \A i \in DOMAIN c : \/ i \in 1 .. Len(a)
                          \/ i - Len(a) \in 1 .. Len(b) /\ i = Len(a) + (i - Len(a))
  BY <1>1, <1>3
<1>7. ToSet(c) = ToSet(a) \cup ToSet(b)
  <2>1. ToSet(c) \subseteq ToSet(a) \cup ToSet(b)
    <3> SUFFICES ASSUME NEW i \in DOMAIN c PROVE c[i] \in ToSet(a) \cup ToSet(b)
      BY DEF ToSet
    <3>1. CASE i \in 1 .. Len(a)
      BY <3>1, <1>1, <1>4 DEF ToSet
    <3>2. CASE i - Len(a) \in 1 .. Len(b) /\ i = Len(a) + (i - Len(a))
      <4>1. c[i] = b[i - Len(a)]
        BY <3>2, <1>5
      <4> QED BY <4>1, <3>2, <1>1 DEF ToSet
    <3> QED BY <3>1, <3>2, <1>6
  <2>2. ToSet(a) \subseteq ToSet(c)
    BY <1>1, <1>4 DEF ToSet
  <2>3. ToSet(b) \subseteq ToSet(c)
    BY <1>1, <1>5 DEF ToSet
  <2> QED BY <2>1, <2>2, <2>3
<1>8. ASSUME Firm(a, R), Firm(b, R \cup ToSet(a)) PROVE Firm(c, R)
  <2> SUFFICES ASSUME NEW i \in DOMAIN c
               PROVE  Grounded(c[i], R \cup {c[l] : l \in 1 .. i - 1})
    BY DEF Firm
  <2>0. i \in Int
    BY <1>1, <1>3
  <2>1. CASE i \in 1 .. Len(a)
    <3>1. Grounded(a[i], R \cup {a[l] : l \in 1 .. i - 1})
      BY <1>8, <2>1, <1>1 DEF Firm
    <3>2. \A l \in 1 .. i - 1 : c[l] = a[l]
      BY <2>1, <1>1, <1>4
    <3>3. R \cup {a[l] : l \in 1 .. i - 1} \subseteq R \cup {c[l] : l \in 1 .. i - 1}
      BY <3>2
    <3> QED BY <3>1, <3>3, <2>1, <1>4, GroundedMore
  <2>2. CASE i - Len(a) \in 1 .. Len(b) /\ i = Len(a) + (i - Len(a))
    <3> DEFINE j == i - Len(a)
    <3>1. Grounded(b[j], (R \cup ToSet(a)) \cup {b[l] : l \in 1 .. j - 1})
      BY <1>8, <2>2, <1>1 DEF Firm
    <3>2. ASSUME NEW r \in ToSet(a) PROVE r \in {c[l] : l \in 1 .. i - 1}
      <4>1. PICK l \in 1 .. Len(a) : r = a[l]
        BY <1>1 DEF ToSet
      <4>2. l \in 1 .. i - 1
        BY <2>2, <1>1, <2>0
      <4> QED BY <4>1, <4>2, <1>4
    <3>3. ASSUME NEW l \in 1 .. j - 1 PROVE b[l] \in {c[k] : k \in 1 .. i - 1}
      <4>1. l \in 1 .. Len(b) /\ Len(a) + l \in 1 .. i - 1
        BY <2>2, <1>1, <2>0
      <4>2. c[Len(a) + l] = b[l]
        BY <4>1, <1>5
      <4> QED BY <4>1, <4>2
    <3>4. (R \cup ToSet(a)) \cup {b[l] : l \in 1 .. j - 1} \subseteq R \cup {c[l] : l \in 1 .. i - 1}
      BY <3>2, <3>3
    <3>5. c[i] = b[j]
      BY <2>2, <1>5
    <3> QED BY <3>1, <3>4, <3>5, GroundedMore
  <2> QED BY <2>1, <2>2, <1>6
<1>9. ASSUME IsInjective(a), IsInjective(b), ToSet(a) \cap ToSet(b) = {}
      PROVE  IsInjective(c)
  <2> SUFFICES ASSUME NEW i \in DOMAIN c, NEW j \in DOMAIN c, c[i] = c[j] PROVE i = j
    BY DEF IsInjective
  <2>0. i \in Int /\ j \in Int
    BY <1>1, <1>3
  <2>1. \A k \in DOMAIN c : k \in 1 .. Len(a) => c[k] \in ToSet(a) /\ c[k] = a[k]
    BY <1>1, <1>4 DEF ToSet
  <2>2. \A k \in DOMAIN c : k \notin 1 .. Len(a) =>
          c[k] \in ToSet(b) /\ c[k] = b[k - Len(a)] /\ k - Len(a) \in 1 .. Len(b)
    <3> SUFFICES ASSUME NEW k \in DOMAIN c, k \notin 1 .. Len(a)
                 PROVE  c[k] \in ToSet(b) /\ c[k] = b[k - Len(a)] /\ k - Len(a) \in 1 .. Len(b)
      OBVIOUS
    <3>1. k - Len(a) \in 1 .. Len(b) /\ k = Len(a) + (k - Len(a))
      BY <1>6
    <3>2. c[k] = b[k - Len(a)]
      BY <3>1, <1>5
    <3> QED BY <3>1, <3>2, <1>1 DEF ToSet
  <2>3. CASE i \in 1 .. Len(a) /\ j \in 1 .. Len(a)
    <3>1. a[i] = a[j]
      BY <2>1, <2>3
    <3> QED BY <3>1, <1>9, <1>1, <2>3 DEF IsInjective
  <2>4. CASE i \notin 1 .. Len(a) /\ j \notin 1 .. Len(a)
    <3>1. b[i - Len(a)] = b[j - Len(a)]
      BY <2>2, <2>4
    <3>2. i - Len(a) = j - Len(a)
      BY <3>1, <1>9, <1>1, <2>2, <2>4 DEF IsInjective
    <3> QED BY <3>2, <2>0, <1>1
  <2>5. i \in 1 .. Len(a) <=> j \in 1 .. Len(a)
    BY <2>1, <2>2, <1>9
  <2> QED BY <2>3, <2>4, <2>5
<1> QED
  BY <1>2, <1>4, <1>7, <1>8, <1>9 DEF c

\* A log that takes over what it lacks of another.
LEMMA Appended ==
  ASSUME NEW S, NEW to \in Seq(S), NEW from \in Seq(S),
         IsInjective(to), IsInjective(from), Firm(to, {}), Firm(from, ToSet(to))
  PROVE  LET new == to \o Missing(from, to) IN
         /\ new \in Seq(S) /\ Len(to) <= Len(new)
         /\ ToSet(new) = ToSet(to) \cup ToSet(from)
         /\ \A i \in 1 .. Len(to) : new[i] = to[i]
         /\ IsInjective(new) /\ Firm(new, {})
<1> DEFINE m == Missing(from, to)
<1>1. m \in Seq(S) /\ ToSet(m) = ToSet(from) \ ToSet(to)
  BY MissingIs
<1>2. Firm(m, ToSet(to) \cup ToSet(to)) /\ IsInjective(m)
  BY MissingFirm
<1> HIDE DEF m
<1>3. Firm(m, {} \cup ToSet(to))
  <2>1. ToSet(to) \cup ToSet(to) = {} \cup ToSet(to)
    OBVIOUS
  <2> QED BY <1>2, <2>1
<1>4. ToSet(to) \cap ToSet(m) = {}
  BY <1>1
<1>5. /\ to \o m \in Seq(S) /\ Len(to \o m) = Len(to) + Len(m)
      /\ ToSet(to \o m) = ToSet(to) \cup ToSet(m)
      /\ \A i \in 1 .. Len(to) : (to \o m)[i] = to[i]
      /\ Firm(to \o m, {}) /\ IsInjective(to \o m)
  BY <1>1, <1>2, <1>3, <1>4, ConcatIs
<1>6. Len(to) \in Nat /\ Len(m) \in Nat
  BY <1>1, SeqIs
<1>7. Len(to) <= Len(to \o m)
  BY <1>5, <1>6
<1> QED
  BY <1>1, <1>5, <1>7 DEF m

------------------------------------------------------------------------------
(* What the steps of a command do to the logs. *)

LEMMA RowIs ==
  ASSUME NEW kind \in Kinds, NEW s \in Stores, NEW id \in Nat, NEW ref \in Nat,
         NEW to \in Nat, NEW tag \in Tags, NEW who \in Sessions \cup {None}, id # 0
  PROVE  /\ Row(kind, s, id, ref, to, tag, who) \in RowSpace
         /\ Row(kind, s, id, ref, to, tag, who).kind = kind
         /\ Row(kind, s, id, ref, to, tag, who).id = id
         /\ Row(kind, s, id, ref, to, tag, who).proj = HomeOf[s]
         /\ Row(kind, s, id, ref, to, tag, who).ref = ref
         /\ Row(kind, s, id, ref, to, tag, who).to = to
         /\ Row(kind, s, id, ref, to, tag, who).tag = tag
BY ProjectionAssumption DEF Row, RowSpace, Projects

LEMMA FieldsOf ==
  ASSUME NEW r \in RowSpace
  PROVE  /\ r.id \in Nat /\ r.ref \in Nat /\ r.to \in Nat /\ r.proj \in Projects
         /\ r.src \in {None, r.proj}
         /\ r.id = 0 => r.kind = "genesis"
<1>1. r \in [kind : Kinds, id : Nat, src : Projects \cup {None}, proj : Projects, ref : Nat,
             to : Nat, tag : Tags, who : Sessions \cup {None}]
  BY Zenon DEF RowSpace
<1>2. r.src \in {None, r.proj} /\ (r.id = 0 => r.kind = "genesis")
  BY Zenon DEF RowSpace
<1>3. r.id \in Nat /\ r.ref \in Nat /\ r.to \in Nat /\ r.proj \in Projects
  BY <1>1
<1> QED BY <1>2, <1>3

\* The rows there are.
LEMMA UniverseIs ==
  ASSUME ProjectionTypes
  PROVE  /\ Universe \subseteq RowSpace
         /\ \A s \in Stores : ToSet(log[s]) \subseteq Universe
         /\ ToSet(hub) \subseteq Universe
         /\ \A d \in Commands : RowsOf(proc[d].batches) \subseteq Universe
<1>1. \A s \in Stores : ToSet(log[s]) \subseteq RowSpace
  BY SeqIs DEF ProjectionTypes
<1>2. ToSet(hub) \subseteq RowSpace
  BY SeqIs DEF ProjectionTypes
<1>3. ASSUME NEW d \in Commands PROVE RowsOf(proc[d].batches) \subseteq RowSpace
  <2>1. proc[d].batches \in Seq(Seq(RowSpace))
    BY DEF ProjectionTypes, ProcSpace
  <2>2. \A b \in DOMAIN proc[d].batches : proc[d].batches[b] \in Seq(RowSpace)
    BY <2>1, SeqIs
  <2> QED BY <2>2, SeqIs DEF RowsOf
<1>4. UNION {ToSet(log[s]) : s \in Stores} \subseteq RowSpace
  BY <1>1
<1>5. UNION {RowsOf(proc[c].batches) : c \in Commands} \subseteq RowSpace
  BY <1>3
<1>6. Universe \subseteq RowSpace
  BY Zenon, <1>2, <1>4, <1>5 DEF Universe
<1>7. \A s \in Stores : ToSet(log[s]) \subseteq Universe
  BY Zenon DEF Universe
<1>8. ToSet(hub) \subseteq Universe
  BY Zenon DEF Universe
<1>9. \A d \in Commands : RowsOf(proc[d].batches) \subseteq Universe
  BY Zenon DEF Universe
<1> QED BY <1>6, <1>7, <1>8, <1>9

LEMMA IdleIs ==
  /\ Idle \in ProcSpace /\ Idle.at = "idle" /\ Idle.batches = <<>>
  /\ Idle.seen = {} /\ Idle.upto = 0 /\ Idle.session = None
BY DEF Idle, ProcSpace, Stages

Extends(rows, more) ==
  /\ Len(rows) <= Len(more) /\ \A i \in 1 .. Len(rows) : more[i] = rows[i]
  /\ ToSet(rows) \subseteq ToSet(more)

\* A log that grows takes nothing from what stands on it.
LEMMA Grown ==
  ASSUME NEW rows \in Seq(RowSpace), NEW more \in Seq(RowSpace), Extends(rows, more)
  PROVE  /\ \A n \in Nat : n <= Len(rows) /\ Whole(rows, n) => n <= Len(more) /\ Whole(more, n)
         /\ \A batches : Sound(batches, rows) => Sound(batches, more)
         /\ \A p \in ProcSpace : ProcOK(p, rows) => ProcOK(p, more)
<1>1. Len(rows) \in Nat /\ Len(more) \in Nat
  BY SeqIs
<1>2. ASSUME NEW n \in Nat, n <= Len(rows), Whole(rows, n)
      PROVE  n <= Len(more) /\ Whole(more, n)
  <2>1. \A i \in 1 .. n : more[i] = rows[i]
    BY <1>1, <1>2 DEF Extends
  <2> QED BY <1>1, <1>2, <2>1 DEF Extends, Whole
<1>3. ASSUME NEW batches, Sound(batches, rows) PROVE Sound(batches, more)
  <2> SUFFICES ASSUME NEW b \in DOMAIN batches
               PROVE  Firm(batches[b], ToSet(more) \cup UNION {ToSet(batches[a]) : a \in 1 .. b - 1})
    BY <1>3 DEF Sound
  <2>1. Firm(batches[b], ToSet(rows) \cup UNION {ToSet(batches[a]) : a \in 1 .. b - 1})
    BY <1>3 DEF Sound
  <2>2. ToSet(rows) \cup UNION {ToSet(batches[a]) : a \in 1 .. b - 1}
          \subseteq ToSet(more) \cup UNION {ToSet(batches[a]) : a \in 1 .. b - 1}
    BY DEF Extends
  <2> QED BY <2>1, <2>2, FirmMore
<1>4. ASSUME NEW p \in ProcSpace, ProcOK(p, rows) PROVE ProcOK(p, more)
  <2>1. p.folded \in Nat
    BY DEF ProcSpace
  <2> QED BY <1>2, <1>3, <1>4, <2>1 DEF ProcOK
<1> QED
  BY <1>2, <1>3, <1>4

LEMMA ExtendsItself ==
  ASSUME NEW rows \in Seq(RowSpace) PROVE Extends(rows, rows)
BY SeqIs DEF Extends

\* A command goes on: what it now holds is known already, or freshly minted.
LEMMA Turn ==
  ASSUME ProjectionTypes, FactsInv, NEW c \in Commands, NEW p \in ProcSpace,
         ProcOK(p, log[p.store]),
         proc' = [proc EXCEPT ![c] = p], UNCHANGED <<log, tables, hub>>,
         minted' \in Nat, minted <= minted',
         \A r \in RowsOf(p.batches) :
           r \in Universe \/ (r.id \in Nat /\ minted < r.id /\ r.id <= minted'),
         \A r, q \in RowsOf(p.batches) : r.id = q.id /\ r.id # 0 => r = q
  PROVE  FactsInv'
<1>1. proc'[c] = p /\ \A d \in Commands \ {c} : proc'[d] = proc[d]
  BY DEF ProjectionTypes
<1>2. LogsInv' /\ TablesInv'
  BY DEF FactsInv, LogsInv, TablesInv
<1>3. \A d \in Commands : ProcOK(proc'[d], log'[proc'[d].store])
  BY <1>1 DEF FactsInv
<1>4. ASSUME NEW r \in Universe' PROVE r \in Universe \/ r \in RowsOf(p.batches)
  <2>1. \/ \E s \in Stores : r \in ToSet(log[s])
        \/ r \in ToSet(hub)
        \/ \E d \in Commands : r \in RowsOf(proc'[d].batches)
    BY Zenon DEF Universe
  <2> QED BY <1>1, <2>1, UniverseIs
<1>5. \A r \in Universe : r.id \in Nat
  BY UniverseIs, FieldsOf
<1>6. IdsInv'
  <2>1. \A r \in Universe : r.id <= minted
    BY DEF FactsInv, IdsInv
  <2>2. \A r, q \in Universe : r.id = q.id /\ r.id # 0 => r = q
    BY DEF FactsInv, IdsInv
  <2>3. minted \in Nat
    BY DEF ProjectionTypes
  <2>4. \A r \in Universe' : r.id <= minted'
    BY <1>4, <1>5, <2>1, <2>3
  <2>5. ASSUME NEW r \in Universe', NEW q \in Universe', r.id = q.id, r.id # 0 PROVE r = q
    <3>1. CASE r \in Universe /\ q \in Universe
      BY <2>2, <2>5, <3>1
    <3>2. CASE r \in Universe /\ q \notin Universe
      BY <1>4, <1>5, <2>1, <2>3, <2>5, <3>2
    <3>3. CASE r \notin Universe /\ q \in Universe
      BY <1>4, <1>5, <2>1, <2>3, <2>5, <3>3
    <3>4. CASE r \notin Universe /\ q \notin Universe
      BY <1>4, <2>5, <3>4
    <3> QED BY <3>1, <3>2, <3>3, <3>4
  <2> QED BY <2>4, <2>5 DEF IdsInv
<1> QED
  BY <1>2, <1>3, <1>6 DEF FactsInv

\* What the tables show is the beginning of the log.
LEMMA TableIs ==
  ASSUME ProjectionTypes, FactsInv, NEW s \in Stores
  PROVE  /\ log[s] \in Seq(RowSpace) /\ tables[s] \in Nat /\ tables[s] <= Len(log[s])
         /\ Table(s) \in Seq(RowSpace) /\ Len(Table(s)) = tables[s]
         /\ \A i \in 1 .. tables[s] : Table(s)[i] = log[s][i]
         /\ DOMAIN Table(s) = 1 .. tables[s]
         /\ ToSet(Table(s)) \subseteq ToSet(log[s])
<1>1. log[s] \in Seq(RowSpace) /\ tables[s] \in Nat /\ tables[s] <= Len(log[s])
  BY DEF ProjectionTypes, FactsInv, TablesInv
<1>2. Len(log[s]) \in Nat /\ \A i \in 1 .. Len(log[s]) : log[s][i] \in RowSpace
  BY <1>1, SeqIs
<1>3. \A i \in 1 .. tables[s] : log[s][i] \in RowSpace
  BY <1>1, <1>2
<1>4. /\ Table(s) \in Seq(RowSpace)
      /\ Len(Table(s)) = IF 1 <= tables[s] THEN tables[s] - 1 + 1 ELSE 0
      /\ \A i \in 1 .. tables[s] - 1 + 1 : Table(s)[i] = log[s][1 + i - 1]
  BY <1>1, <1>3, SubSeqProperties DEF Table
<1>5. /\ Len(Table(s)) = tables[s]
      /\ \A i \in 1 .. tables[s] : Table(s)[i] = log[s][i]
  BY <1>1, <1>4
<1>6. DOMAIN Table(s) = 1 .. tables[s]
  BY <1>4, <1>5, SeqIs
<1>7. ToSet(Table(s)) \subseteq ToSet(log[s])
  <2>1. \A i \in 1 .. tables[s] : i \in DOMAIN log[s]
    BY <1>1, SeqIs
  <2> QED BY <1>5, <1>6, <2>1 DEF ToSet
<1> QED BY <1>1, <1>4, <1>5, <1>6, <1>7

\* The batches that remain stand on what the first has added.
LEMMA RestReady ==
  ASSUME NEW batches \in Seq(Seq(RowSpace)), batches # <<>>,
         NEW rows \in Seq(RowSpace), NEW more \in Seq(RowSpace), Sound(batches, rows),
         ToSet(more) = ToSet(rows) \cup ToSet(Head(batches))
  PROVE  /\ Head(batches) \in Seq(RowSpace) /\ IsInjective(Head(batches))
         /\ Firm(Head(batches), ToSet(rows))
         /\ Tail(batches) \in Seq(Seq(RowSpace)) /\ Sound(Tail(batches), more)
         /\ RowsOf(Tail(batches)) \subseteq RowsOf(batches)
         /\ ToSet(Head(batches)) \subseteq RowsOf(batches)
<1> DEFINE rest == Tail(batches)
<1>1. /\ Head(batches) \in Seq(RowSpace) /\ rest \in Seq(Seq(RowSpace))
      /\ Len(rest) = Len(batches) - 1
      /\ \A b \in 1 .. Len(rest) : rest[b] = batches[b + 1]
  BY HeadTailProperties
<1>2. Head(batches) = batches[1]
  OBVIOUS
<1>3. Len(batches) \in Nat /\ Len(batches) # 0 /\ DOMAIN batches = 1 .. Len(batches)
  BY SeqIs, EmptySeq
<1>4. DOMAIN rest = 1 .. Len(rest)
  BY <1>1, SeqIs
<1> HIDE DEF rest
<1>5. 1 \in DOMAIN batches
  BY <1>3
<1>6. IsInjective(batches[1]) /\ Firm(batches[1], ToSet(rows))
  <2>1. Firm(batches[1], ToSet(rows) \cup UNION {ToSet(batches[a]) : a \in 1 .. 1 - 1})
    BY <1>5 DEF Sound
  <2>2. ToSet(rows) \cup UNION {ToSet(batches[a]) : a \in 1 .. 1 - 1} \subseteq ToSet(rows)
    OBVIOUS
  <2> QED BY <1>5, <2>1, <2>2, FirmMore DEF Sound
<1>7. Sound(rest, more)
  <2> SUFFICES ASSUME NEW b \in DOMAIN rest
               PROVE  /\ IsInjective(rest[b])
                      /\ Firm(rest[b], ToSet(more) \cup UNION {ToSet(rest[a]) : a \in 1 .. b - 1})
    BY DEF Sound
  <2>1. b \in Int /\ b >= 1 /\ b <= Len(rest) /\ b + 1 \in DOMAIN batches
    <3>1. b \in 1 .. Len(rest) /\ Len(rest) \in Int
      <4>1. Len(rest) = Len(batches) - 1
        BY <1>1
      <4> QED BY <4>1, <1>3, <1>4
    <3>2. b \in Int /\ b >= 1 /\ b <= Len(rest)
      BY <3>1
    <3>3. b + 1 \in 1 .. Len(batches)
      <4>1. Len(rest) = Len(batches) - 1
        BY <1>1
      <4> QED BY <3>2, <4>1, <1>3
    <3> QED BY <3>2, <3>3, <1>3
  <2>2. rest[b] = batches[b + 1]
    BY <1>1, <1>4
  <2>3. /\ IsInjective(batches[b + 1])
        /\ Firm(batches[b + 1], ToSet(rows) \cup UNION {ToSet(batches[a]) : a \in 1 .. (b + 1) - 1})
    BY <2>1 DEF Sound
  <2>4. ASSUME NEW a \in 1 .. (b + 1) - 1
        PROVE  ToSet(batches[a]) \subseteq
                 ToSet(more) \cup UNION {ToSet(rest[k]) : k \in 1 .. b - 1}
    <3>1. CASE a = 1
      BY <3>1, <1>2
    <3>2. CASE a # 1
      <4>1. a - 1 \in 1 .. b - 1 /\ a - 1 \in 1 .. Len(rest) /\ (a - 1) + 1 = a
        <5>1. a \in Int /\ 2 <= a /\ a <= b
          BY <2>1, <3>2
        <5>2. Len(rest) \in Int
          BY <1>1, <1>3
        <5> QED BY <2>1, <5>1, <5>2
      <4>2. rest[a - 1] = batches[a]
        BY <4>1, <1>1
      <4> QED BY <4>1, <4>2
    <3> QED BY <3>1, <3>2
  <2>5. ToSet(rows) \cup UNION {ToSet(batches[a]) : a \in 1 .. (b + 1) - 1}
          \subseteq ToSet(more) \cup UNION {ToSet(rest[a]) : a \in 1 .. b - 1}
    BY <2>4
  <2> QED BY <2>2, <2>3, <2>5, FirmMore
<1>8. RowsOf(rest) \subseteq RowsOf(batches)
  <2>1. ASSUME NEW b \in DOMAIN rest PROVE ToSet(rest[b]) \subseteq RowsOf(batches)
    <3>1. b + 1 \in DOMAIN batches /\ rest[b] = batches[b + 1]
      BY <1>1, <1>3, <1>4, SMTT(40)
    <3> QED BY <3>1 DEF RowsOf
  <2> QED BY <2>1 DEF RowsOf
<1>9. ToSet(Head(batches)) \subseteq RowsOf(batches)
  BY <1>2, <1>5 DEF RowsOf
<1> QED
  BY <1>1, <1>2, <1>6, <1>7, <1>8, <1>9 DEF rest

\* A store takes over the rows of a batch, from a command or from the Hub.
LEMMA AppendFacts ==
  ASSUME ProjectionTypes, FactsInv, NEW c \in Commands, AppendRows(c)
  PROVE  /\ FactsInv' /\ log' \in [Stores -> Seq(RowSpace)]
         /\ proc' \in [Commands -> ProcSpace]
         /\ \A s \in Stores : Extends(log[s], log'[s])
<1> DEFINE p == proc[c]
           s == p.store
           batch == Head(p.batches)
           rest == Tail(p.batches)
           new == log[s] \o Missing(batch, log[s])
           q == [p EXCEPT !.batches = rest, !.at = "write", !.folded = Len(log'[s])]
<1>1. /\ p.at = "append" /\ log' = [log EXCEPT ![s] = new]
      /\ proc' = [proc EXCEPT ![c] = q] /\ UNCHANGED <<tables, hub, minted>>
  <2>1. /\ p.at = "append" /\ log' = [log EXCEPT ![s] = new]
        /\ proc' = [proc EXCEPT ![c].batches = rest, ![c].at = "write",
                                ![c].folded = Len(log'[s])]
        /\ UNCHANGED <<tables, hub, minted>>
    BY DEF AppendRows
  <2>2. [proc EXCEPT ![c].batches = rest, ![c].at = "write", ![c].folded = Len(log'[s])]
          = [proc EXCEPT ![c] = q]
    <3> HIDE DEF rest, s
    <3> QED BY DEF ProjectionTypes
  <2> QED BY <2>1, <2>2
<1>2. p \in ProcSpace /\ ProcOK(p, log[s]) /\ s \in Stores
  BY <1>1 DEF FactsInv, ProcOK, ProjectionTypes
<1>3. /\ log[s] \in Seq(RowSpace) /\ IsInjective(log[s]) /\ Firm(log[s], {})
      /\ tables[s] \in Nat /\ tables[s] <= Len(log[s]) /\ Whole(log[s], tables[s])
  BY <1>2 DEF ProjectionTypes, FactsInv, LogsInv, TablesInv
<1>4. /\ p.batches \in Seq(Seq(RowSpace)) /\ p.batches # <<>> /\ Sound(p.batches, log[s])
  BY <1>1, <1>2 DEF ProcOK, ProcSpace
<1>5. batch \in Seq(RowSpace) /\ IsInjective(batch) /\ Firm(batch, ToSet(log[s]))
  <2>1. batch = p.batches[1]
    BY <1>4
  <2>2. 1 \in DOMAIN p.batches
    BY <1>4, SeqIs, EmptySeq
  <2>3. batch \in Seq(RowSpace)
    BY <1>4, HeadTailProperties
  <2>4. /\ IsInjective(p.batches[1])
        /\ Firm(p.batches[1], ToSet(log[s]) \cup UNION {ToSet(p.batches[a]) : a \in 1 .. 1 - 1})
    BY <1>4, <2>2 DEF Sound
  <2>5. ToSet(log[s]) \cup UNION {ToSet(p.batches[a]) : a \in 1 .. 1 - 1} \subseteq ToSet(log[s])
    OBVIOUS
  <2>6. Firm(p.batches[1], ToSet(log[s]))
    <3> HIDE DEF p, s
    <3> QED BY <2>4, <2>5, FirmMore
  <2> HIDE DEF batch, p
  <2> QED BY <2>1, <2>3, <2>4, <2>6
<1> HIDE DEF batch, rest, p, q
<1>6. /\ new \in Seq(RowSpace) /\ Len(log[s]) <= Len(new)
      /\ ToSet(new) = ToSet(log[s]) \cup ToSet(batch)
      /\ \A i \in 1 .. Len(log[s]) : new[i] = log[s][i]
      /\ IsInjective(new) /\ Firm(new, {})
  <2> HIDE DEF s
  <2> QED BY <1>3, <1>5, Appended
<1>7. Extends(log[s], new)
  BY <1>6 DEF Extends
<1> HIDE DEF new
<1>8. /\ rest \in Seq(Seq(RowSpace)) /\ Sound(rest, new)
      /\ RowsOf(rest) \subseteq RowsOf(p.batches) /\ ToSet(batch) \subseteq RowsOf(p.batches)
  <2> HIDE DEF s
  <2> QED BY <1>3, <1>4, <1>6, RestReady DEF batch, rest
<1>9. log'[s] = new /\ \A t \in Stores \ {s} : log'[t] = log[t]
  BY <1>1, <1>2 DEF ProjectionTypes
<1>10. /\ q \in ProcSpace /\ q.at = "write" /\ q.store = s /\ q.batches = rest
       /\ q.folded = Len(new)
  <2>1. Len(new) \in Nat
    BY <1>6, SeqIs
  <2>2. log'[s] = new
    BY <1>9
  <2> HIDE DEF new
  <2> QED BY <1>2, <1>8, <2>1, <2>2 DEF q, s, ProcSpace, Stages
<1>11. \A t \in Stores : Extends(log[t], log'[t]) /\ log'[t] \in Seq(RowSpace)
  <2>1. \A t \in Stores : log[t] \in Seq(RowSpace)
    BY DEF ProjectionTypes
  <2> QED BY <2>1, <1>6, <1>7, <1>9, ExtendsItself
<1>12. log' \in [Stores -> Seq(RowSpace)]
  BY <1>1, <1>6, <1>2 DEF ProjectionTypes
<1>13. proc'[c] = q /\ \A d \in Commands \ {c} : proc'[d] = proc[d]
  BY <1>1 DEF ProjectionTypes
<1>14. proc' \in [Commands -> ProcSpace]
  BY <1>1, <1>10 DEF ProjectionTypes
<1>15. LogsInv'
  BY <1>1, <1>6, <1>9 DEF FactsInv, LogsInv
<1>16. TablesInv'
  <2> SUFFICES ASSUME NEW t \in Stores
               PROVE  tables'[t] <= Len(log'[t]) /\ Whole(log'[t], tables'[t])
    BY DEF TablesInv
  <2>1. log[t] \in Seq(RowSpace) /\ tables[t] \in Nat /\ tables[t] <= Len(log[t]) /\ Whole(log[t], tables[t])
    BY DEF ProjectionTypes, FactsInv, TablesInv
  <2> QED BY <1>1, <1>11, <2>1, Grown
<1>17. ASSUME NEW d \in Commands PROVE ProcOK(proc'[d], log'[proc'[d].store])
  <2>1. CASE d = c
    <3>1. Whole(new, Len(new))
      <4>1. \A n \in Nat : n <= Len(new) /\ Whole(new, n) => Whole(new, Len(new))
        <5>1. Len(new) \in Nat
          BY <1>6, SeqIs
        <5> QED BY <5>1 DEF Whole
      <4>2. tables[s] <= Len(new) /\ Whole(new, tables[s])
        BY <1>3, <1>6, <1>7, Grown
      <4> QED BY <1>3, <4>1, <4>2
    <3>2. Len(new) <= Len(new)
      BY <1>6, SeqIs
    <3>3. ProcOK(q, new)
      <4> HIDE DEF s
      <4> QED BY <1>2, <1>8, <1>10, <3>1, <3>2 DEF ProcOK, s
    <3> QED BY <2>1, <3>3, <1>9, <1>10, <1>13
  <2>2. CASE d # c
    <3>1. proc'[d] = proc[d] /\ proc[d] \in ProcSpace /\ ProcOK(proc[d], log[proc[d].store])
      BY <2>2, <1>13 DEF ProjectionTypes, FactsInv
    <3>2. CASE proc[d].at = "idle"
      <4>1. \A rows : Sound(<<>>, rows)
        BY DEF Sound
      <4>2. proc[d] = Idle /\ proc[d].batches = <<>>
        BY <3>1, <3>2, IdleIs DEF ProcOK
      <4> QED BY <3>1, <3>2, <4>1, <4>2 DEF ProcOK
    <3>3. CASE proc[d].at # "idle"
      <4>1. proc[d].store \in Stores
        BY <3>1, <3>3 DEF ProcOK
      <4>2. log[proc[d].store] \in Seq(RowSpace)
        BY <4>1 DEF ProjectionTypes
      <4> QED BY <3>1, <4>1, <4>2, <1>11, Grown
    <3> QED BY <3>2, <3>3
  <2> QED BY <2>1, <2>2
<1>18. IdsInv'
  <2>1. ASSUME NEW r \in Universe' PROVE r \in Universe
    <3>1. \/ \E t \in Stores : r \in ToSet(log'[t])
          \/ r \in ToSet(hub)
          \/ \E d \in Commands : r \in RowsOf(proc'[d].batches)
      BY Zenon, <1>1 DEF Universe
    <3>2. \A t \in Stores : ToSet(log'[t]) \subseteq Universe
      BY <1>2, <1>6, <1>8, <1>9, UniverseIs DEF p
    <3>3. \A d \in Commands : RowsOf(proc'[d].batches) \subseteq Universe
      BY <1>8, <1>10, <1>13, UniverseIs DEF p
    <3> QED BY <3>1, <3>2, <3>3, UniverseIs
  <2> QED BY <1>1, <2>1 DEF FactsInv, IdsInv
<1> QED
  BY <1>11, <1>12, <1>14, <1>15, <1>16, <1>17, <1>18 DEF FactsInv

LEMMA NothingHeld ==
  /\ RowsOf(<<>>) = {}
  /\ \A rows : Sound(<<>>, rows)
BY DEF RowsOf, Sound

\* A command that holds nothing, or no more than it did, breaks nothing.
LEMMA Lighter ==
  ASSUME ProjectionTypes, FactsInv, NEW c \in Commands, NEW p \in ProcSpace,
         \/ p = Idle
         \/ p.at \notin {"idle", "append", "write"} /\ p.batches = <<>> /\ p.store \in Stores,
         proc' = [proc EXCEPT ![c] = p], UNCHANGED <<log, tables, hub>>,
         minted' \in Nat, minted <= minted'
  PROVE  FactsInv'
<1>1. p.batches = <<>>
  BY IdleIs
<1>2. ProcOK(p, log[p.store])
  <2>1. CASE p = Idle
    BY <2>1, IdleIs, NothingHeld DEF ProcOK
  <2>2. CASE p.at \notin {"idle", "append", "write"} /\ p.batches = <<>> /\ p.store \in Stores
    BY <2>2, NothingHeld DEF ProcOK
  <2> QED BY <2>1, <2>2
<1>3. RowsOf(p.batches) = {}
  BY <1>1, NothingHeld
<1> QED
  BY <1>2, <1>3, Turn

LEMMA WriteFacts ==
  ASSUME ProjectionTypes, FactsInv, NEW c \in Commands, Write(c)
  PROVE  /\ FactsInv' /\ tables' \in [Stores -> Nat]
         /\ proc' \in [Commands -> ProcSpace]
<1> DEFINE p == proc[c]
           s == p.store
           q == IF p.batches # <<>> THEN [p EXCEPT !.at = "append", !.folded = 0]
                ELSE IF p.session = None THEN Idle
                ELSE [p EXCEPT !.at = IF p.upto > 0 THEN "deliver" ELSE "share", !.folded = 0]
<1>1. /\ p.at = "write" /\ tables' = [tables EXCEPT ![s] = p.folded]
      /\ UNCHANGED <<log, hub, minted>>
  BY DEF Write
<1>2. proc' = [proc EXCEPT ![c] = q]
  BY DEF Write, ProjectionTypes
<1>3. p \in ProcSpace /\ ProcOK(p, log[s]) /\ s \in Stores
  BY <1>1 DEF FactsInv, ProcOK, ProjectionTypes
<1>4. p.folded \in Nat /\ p.folded <= Len(log[s]) /\ Whole(log[s], p.folded)
  BY <1>1, <1>3 DEF ProcOK, ProcSpace
<1>5. tables' \in [Stores -> Nat]
  BY <1>1, <1>3, <1>4 DEF ProjectionTypes
<1>6. q \in ProcSpace
  <2>1. CASE p.batches # <<>>
    BY <1>3, <2>1 DEF ProcSpace, Stages
  <2>2. CASE p.batches = <<>> /\ p.session = None
    BY <2>2, IdleIs
  <2>3. CASE p.batches = <<>> /\ p.session # None
    <3>1. CASE p.upto > 0
      BY <1>3, <2>3, <3>1 DEF ProcSpace, Stages
    <3>2. CASE ~ (p.upto > 0)
      BY <1>3, <2>3, <3>2 DEF ProcSpace, Stages
    <3> QED BY <3>1, <3>2
  <2> QED BY <2>1, <2>2, <2>3
<1>7. /\ q = Idle \/ q.at \in {"append", "deliver", "share"}
      /\ q = Idle \/ (q.batches = p.batches /\ q.store = s)
      /\ q.at = "append" => p.batches # <<>>
      /\ q # Idle /\ q.at # "append" => q.batches = <<>>
      /\ RowsOf(q.batches) \subseteq RowsOf(p.batches)
  <2>1. CASE p.batches # <<>>
    BY <1>3, <2>1 DEF ProcSpace, Stages
  <2>2. CASE p.batches = <<>> /\ p.session = None
    BY <2>2, IdleIs, NothingHeld
  <2>3. CASE p.batches = <<>> /\ p.session # None
    <3>1. CASE p.upto > 0
      BY <1>3, <2>3, <3>1 DEF ProcSpace, Stages
    <3>2. CASE ~ (p.upto > 0)
      BY <1>3, <2>3, <3>2 DEF ProcSpace, Stages
    <3> QED BY <3>1, <3>2
  <2> QED BY <2>1, <2>2, <2>3
<1> HIDE DEF q
<1>8. proc'[c] = q /\ \A d \in Commands \ {c} : proc'[d] = proc[d]
  BY <1>2 DEF ProjectionTypes
<1>9. proc' \in [Commands -> ProcSpace]
  BY <1>2, <1>6 DEF ProjectionTypes
<1>10. LogsInv'
  BY <1>1 DEF FactsInv, LogsInv
<1>11. TablesInv'
  <2>1. tables'[s] = p.folded /\ \A t \in Stores \ {s} : tables'[t] = tables[t]
    BY <1>1, <1>3 DEF ProjectionTypes
  <2> HIDE DEF p, s
  <2> QED BY <1>1, <1>4, <2>1 DEF FactsInv, TablesInv
<1>12. ProcOK(q, log[q.store])
  <2>1. CASE q = Idle
    BY <2>1, IdleIs, NothingHeld DEF ProcOK
  <2>2. CASE q # Idle
    BY <1>3, <1>7, <2>2 DEF ProcOK
  <2> QED BY <2>1, <2>2
<1>13. \A d \in Commands : ProcOK(proc'[d], log'[proc'[d].store])
  BY <1>1, <1>8, <1>12 DEF FactsInv
<1>14. IdsInv'
  <2>1. ASSUME NEW r \in Universe' PROVE r \in Universe
    <3>1. \/ \E t \in Stores : r \in ToSet(log[t])
          \/ r \in ToSet(hub)
          \/ \E d \in Commands : r \in RowsOf(proc'[d].batches)
      BY Zenon, <1>1 DEF Universe
    <3>2. \A d \in Commands : RowsOf(proc'[d].batches) \subseteq Universe
      BY <1>7, <1>8, UniverseIs DEF p
    <3> QED BY <3>1, <3>2, UniverseIs
  <2> QED BY <1>1, <2>1 DEF FactsInv, IdsInv
<1> QED
  BY <1>5, <1>9, <1>10, <1>11, <1>13, <1>14 DEF FactsInv

LEMMA PushFacts ==
  ASSUME ProjectionTypes, FactsInv, NEW s \in Stores, Push(s)
  PROVE  FactsInv' /\ hub' \in Seq(RowSpace)
<1>1. hub' = hub \o Missing(log[s], hub) /\ UNCHANGED <<log, tables, proc, minted>>
  BY DEF Push
<1>2. /\ log[s] \in Seq(RowSpace) /\ IsInjective(log[s]) /\ Firm(log[s], {})
      /\ hub \in Seq(RowSpace) /\ IsInjective(hub) /\ Firm(hub, {})
  BY DEF ProjectionTypes, FactsInv, LogsInv
<1>3. Firm(log[s], ToSet(hub))
  BY <1>2, FirmMore
<1>4. /\ hub' \in Seq(RowSpace) /\ ToSet(hub') = ToSet(hub) \cup ToSet(log[s])
      /\ IsInjective(hub') /\ Firm(hub', {})
  BY <1>1, <1>2, <1>3, Appended
<1>5. IdsInv'
  <2>1. ASSUME NEW r \in Universe' PROVE r \in Universe
    <3>1. \/ \E t \in Stores : r \in ToSet(log[t])
          \/ r \in ToSet(hub')
          \/ \E d \in Commands : r \in RowsOf(proc[d].batches)
      BY Zenon, <1>1 DEF Universe
    <3> QED BY <1>4, <3>1, UniverseIs
  <2> QED BY <1>1, <2>1 DEF FactsInv, IdsInv
<1> QED
  BY <1>1, <1>4, <1>5 DEF FactsInv, LogsInv, TablesInv

LEMMA PullFacts ==
  ASSUME ProjectionTypes, FactsInv, NEW c \in Commands, NEW s \in Stores, Pull(c, s)
  PROVE  FactsInv' /\ proc' \in [Commands -> ProcSpace]
<1> DEFINE m == Missing(hub, log[s])
           p == [Idle EXCEPT !.at = "append", !.store = s, !.batches = <<m>>]
<1>1. proc' = [proc EXCEPT ![c] = p] /\ UNCHANGED <<log, tables, hub, minted>>
  BY DEF Pull
<1>2. hub \in Seq(RowSpace) /\ IsInjective(hub) /\ Firm(hub, {})
  BY DEF ProjectionTypes, FactsInv, LogsInv
<1>3. /\ m \in Seq(RowSpace) /\ ToSet(m) \subseteq ToSet(hub)
      /\ IsInjective(m) /\ Firm(m, {} \cup ToSet(log[s]))
  BY <1>2, MissingIs, MissingFirm
<1> HIDE DEF m
<1>4. p \in ProcSpace /\ p.at = "append" /\ p.batches = <<m>> /\ p.store = s
  <2>1. <<m>> \in Seq(Seq(RowSpace))
    BY <1>3
  <2> QED BY <2>1 DEF Idle, ProcSpace, Stages
<1>5. Sound(<<m>>, log[s])
  <2>1. {} \cup ToSet(log[s]) \subseteq ToSet(log[s]) \cup UNION {ToSet(<<m>>[a]) : a \in 1 .. 1 - 1}
    OBVIOUS
  <2>2. Firm(m, ToSet(log[s]) \cup UNION {ToSet(<<m>>[a]) : a \in 1 .. 1 - 1})
    BY <1>3, <2>1, FirmMore
  <2>3. DOMAIN <<m>> = {1} /\ <<m>>[1] = m
    OBVIOUS
  <2>4. \A b \in DOMAIN <<m>> : b = 1
    BY <2>3
  <2> QED BY <1>3, <2>2, <2>3, <2>4 DEF Sound
<1>6. RowsOf(<<m>>) = ToSet(m)
  BY DEF RowsOf
<1> HIDE DEF p
<1>7. ProcOK(p, log[p.store])
  BY <1>4, <1>5 DEF ProcOK
<1>8. \A r \in RowsOf(p.batches) : r \in Universe
  BY <1>3, <1>4, <1>6, UniverseIs
<1>9. \A r, q \in RowsOf(p.batches) : r.id = q.id /\ r.id # 0 => r = q
  BY <1>8 DEF FactsInv, IdsInv
<1>10. minted' \in Nat /\ minted <= minted'
  BY <1>1 DEF ProjectionTypes
<1> QED
  BY <1>1, <1>4, <1>7, <1>8, <1>9, <1>10, Turn DEF ProjectionTypes

\* Fresh rows, in batches: each has an id of its own among those minted now.
Minted(batches, n) ==
  /\ \A r \in RowsOf(batches) : r.id \in minted + 1 .. minted + n
  /\ \A r, q \in RowsOf(batches) : r.id = q.id => r = q

LEMMA BeginFacts ==
  ASSUME ProjectionTypes, FactsInv, NEW c \in Commands, NEW p \in ProcSpace,
         p.at = "append", p.store \in Stores, p.batches # <<>>,
         Sound(p.batches, log[p.store]), NEW n \in Nat, Minted(p.batches, n),
         proc' = [proc EXCEPT ![c] = p], UNCHANGED <<log, tables, hub>>,
         minted' = minted + n
  PROVE  FactsInv'
<1>1. ProcOK(p, log[p.store])
  BY DEF ProcOK
<1>2. minted \in Nat /\ minted' \in Nat /\ minted <= minted'
  BY DEF ProjectionTypes
<1>3. \A r \in RowsOf(p.batches) : r.id \in Nat /\ minted < r.id /\ r.id <= minted'
  BY <1>2 DEF Minted
<1>4. \A r, q \in RowsOf(p.batches) : r.id = q.id /\ r.id # 0 => r = q
  BY DEF Minted
<1> QED
  BY <1>1, <1>2, <1>3, <1>4, Turn

\* One batch of one row, which asks for nothing.
LEMMA OneBatch ==
  ASSUME NEW row \in RowSpace, NEW rows, NEW n \in Nat, n >= 1, minted \in Nat,
         row.id = minted + 1, row.kind # "superseded", row.kind # "accepted",
         row.kind = "retracted" => \E q \in ToSet(rows) : q.kind = "memory" /\ q.id = row.ref
  PROVE  /\ One(row) \in Seq(Seq(RowSpace)) /\ One(row) # <<>>
         /\ Sound(One(row), rows) /\ Minted(One(row), n)
<1> DEFINE b == <<row>>
<1>1. b \in Seq(RowSpace) /\ DOMAIN b = {1} /\ b[1] = row
  OBVIOUS
<1>2. IsInjective(b)
  BY <1>1 DEF IsInjective
<1>3. \A R : ToSet(rows) \subseteq R => Grounded(row, R)
  BY DEF Grounded
<1>4. ASSUME NEW R, ToSet(rows) \subseteq R PROVE Firm(b, R)
  BY <1>1, <1>3, <1>4 DEF Firm
<1>5. ToSet(b) = {row}
  BY <1>1 DEF ToSet
<1> HIDE DEF b
<1>6. DOMAIN <<b>> = {1} /\ <<b>>[1] = b /\ <<b>> # <<>> /\ <<b>> \in Seq(Seq(RowSpace))
  BY <1>1
<1>7. Sound(<<b>>, rows)
  BY <1>2, <1>4, <1>6 DEF Sound
<1>8. RowsOf(<<b>>) = {row}
  BY <1>5, <1>6 DEF RowsOf
<1>9. Minted(<<b>>, n)
  BY <1>8 DEF Minted
<1> QED
  BY <1>6, <1>7, <1>9 DEF b, One

\* One batch of two rows: the first asks for nothing, the second for no more
\* than the store has and the first.
LEMMA TwoRows ==
  ASSUME NEW row \in RowSpace, NEW next \in RowSpace, NEW rows, minted \in Nat,
         {row.id, next.id} = {minted + 1, minted + 2},
         Grounded(row, ToSet(rows)), Grounded(next, ToSet(rows) \cup {row})
  PROVE  /\ <<<<row, next>>>> \in Seq(Seq(RowSpace)) /\ <<<<row, next>>>> # <<>>
         /\ Sound(<<<<row, next>>>>, rows) /\ Minted(<<<<row, next>>>>, 2)
<1> DEFINE b == <<row, next>>
<1>1. b \in Seq(RowSpace) /\ DOMAIN b = {1, 2} /\ b[1] = row /\ b[2] = next
  OBVIOUS
<1>2. row.id # next.id /\ row.id \in minted + 1 .. minted + 2 /\ next.id \in minted + 1 .. minted + 2
  <2>1. minted + 1 # minted + 2 /\ {minted + 1, minted + 2} \subseteq minted + 1 .. minted + 2
    OBVIOUS
  <2> QED BY <2>1
<1>3. IsInjective(b)
  BY <1>1, <1>2 DEF IsInjective
<1>4. ASSUME NEW R, ToSet(rows) \subseteq R PROVE Firm(b, R)
  <2> SUFFICES ASSUME NEW k \in DOMAIN b PROVE Grounded(b[k], R \cup {b[l] : l \in 1 .. k - 1})
    BY DEF Firm
  <2>1. CASE k = 1
    <3>1. ToSet(rows) \subseteq R \cup {b[l] : l \in 1 .. k - 1}
      BY <1>4
    <3> QED BY <2>1, <3>1, <1>1, GroundedMore
  <2>2. CASE k = 2
    <3>1. ToSet(rows) \cup {row} \subseteq R \cup {b[l] : l \in 1 .. k - 1}
      BY <1>1, <1>4, <2>2
    <3> QED BY <2>2, <3>1, <1>1, GroundedMore
  <2> QED BY <2>1, <2>2, <1>1
<1>5. ToSet(b) = {row, next}
  BY <1>1 DEF ToSet
<1> HIDE DEF b
<1>6. DOMAIN <<b>> = {1} /\ <<b>>[1] = b /\ <<b>> # <<>> /\ <<b>> \in Seq(Seq(RowSpace))
  BY <1>1
<1>7. Sound(<<b>>, rows)
  BY <1>3, <1>4, <1>6 DEF Sound
<1>8. RowsOf(<<b>>) = {row, next}
  BY <1>5, <1>6 DEF RowsOf
<1>9. Minted(<<b>>, 2)
  BY <1>2, <1>8 DEF Minted
<1> QED
  BY <1>6, <1>7, <1>9 DEF b

\* Two batches of a row each.
LEMMA TwoBatches ==
  ASSUME NEW row \in RowSpace, NEW next \in RowSpace, NEW rows, minted \in Nat,
         {row.id, next.id} = {minted + 1, minted + 2},
         Grounded(row, ToSet(rows)), Grounded(next, ToSet(rows) \cup {row})
  PROVE  /\ <<<<row>>, <<next>>>> \in Seq(Seq(RowSpace)) /\ <<<<row>>, <<next>>>> # <<>>
         /\ Sound(<<<<row>>, <<next>>>>, rows) /\ Minted(<<<<row>>, <<next>>>>, 2)
<1> DEFINE a == <<row>>
           b == <<next>>
<1>1. /\ a \in Seq(RowSpace) /\ DOMAIN a = {1} /\ a[1] = row
      /\ b \in Seq(RowSpace) /\ DOMAIN b = {1} /\ b[1] = next
  OBVIOUS
<1>2. row.id # next.id /\ row.id \in minted + 1 .. minted + 2 /\ next.id \in minted + 1 .. minted + 2
  <2>1. minted + 1 # minted + 2 /\ {minted + 1, minted + 2} \subseteq minted + 1 .. minted + 2
    OBVIOUS
  <2> QED BY <2>1
<1>3. IsInjective(a) /\ IsInjective(b)
  BY <1>1 DEF IsInjective
<1>4. ASSUME NEW R, ToSet(rows) \subseteq R PROVE Firm(a, R)
  <2>1. \A k \in DOMAIN a : ToSet(rows) \subseteq R \cup {a[l] : l \in 1 .. k - 1}
    BY <1>4
  <2> QED BY <2>1, <1>1, GroundedMore DEF Firm
<1>5. ASSUME NEW R, ToSet(rows) \cup {row} \subseteq R PROVE Firm(b, R)
  <2>1. \A k \in DOMAIN b : ToSet(rows) \cup {row} \subseteq R \cup {b[l] : l \in 1 .. k - 1}
    BY <1>5
  <2> QED BY <2>1, <1>1, GroundedMore DEF Firm
<1>6. ToSet(a) = {row} /\ ToSet(b) = {next}
  BY <1>1 DEF ToSet
<1> HIDE DEF a, b
<1>7. /\ DOMAIN <<a, b>> = {1, 2} /\ <<a, b>>[1] = a /\ <<a, b>>[2] = b
      /\ <<a, b>> # <<>> /\ <<a, b>> \in Seq(Seq(RowSpace))
  BY <1>1
<1>8. Sound(<<a, b>>, rows)
  <2>1. /\ ToSet(rows) \subseteq ToSet(rows) \cup UNION {ToSet(<<a, b>>[i]) : i \in 1 .. 1 - 1}
        /\ ToSet(rows) \cup {row} \subseteq ToSet(rows) \cup UNION {ToSet(<<a, b>>[i]) : i \in 1 .. 2 - 1}
    BY <1>6, <1>7
  <2>2. /\ Firm(a, ToSet(rows) \cup UNION {ToSet(<<a, b>>[i]) : i \in 1 .. 1 - 1})
        /\ Firm(b, ToSet(rows) \cup UNION {ToSet(<<a, b>>[i]) : i \in 1 .. 2 - 1})
    BY <1>4, <1>5, <2>1
  <2>3. \A i \in DOMAIN <<a, b>> : i = 1 \/ i = 2
    BY <1>7
  <2> QED BY <1>3, <1>7, <2>2, <2>3 DEF Sound
<1>9. RowsOf(<<a, b>>) = {row, next}
  BY <1>6, <1>7 DEF RowsOf
<1>10. Minted(<<a, b>>, 2)
  BY <1>2, <1>9 DEF Minted
<1> QED
  BY <1>7, <1>8, <1>10 DEF a, b

------------------------------------------------------------------------------
(* What the commands append. *)

LEMMA ProjectsAre ==
  /\ IsFiniteSet(Projects)
  /\ \A s \in Stores : HomeOf[s] \in Projects
<1>1. HomeOf \in Surjection(Stores, Projects)
  BY ProjectionAssumption DEF Surjection, Projects
<1>2. IsFiniteSet(Projects)
  BY <1>1, ProjectionAssumption, FS_Surjection
<1> QED
  BY <1>2, ProjectionAssumption DEF Projects

\* Where every project has a genesis, a row is of the lane of its project.
LEMMA LaneIs ==
  ASSUME NEW s \in Stores, NEW rows \in Seq(RowSpace), NEW n \in Nat, n <= Len(rows),
         Whole(rows, n), NEW i \in DOMAIN rows
  PROVE  Lane(rows, HomeOf[s], i) = rows[i].proj
<1>1. DOMAIN rows = 1 .. Len(rows) /\ Len(rows) \in Nat /\ \A k \in DOMAIN rows : rows[k] \in RowSpace
  BY SeqIs
<1>2. Members(rows) = Projects
  <2>1. Members(rows) \subseteq Projects
    BY <1>1, FieldsOf DEF Members, Rows
  <2>2. \A k \in 1 .. n : k \in DOMAIN rows
    BY <1>1
  <2>3. Projects \subseteq Members(rows)
    BY <2>2 DEF Members, Rows, Whole
  <2> QED BY <2>1, <2>3
<1>3. rows[i].src \in {None, rows[i].proj} /\ rows[i].proj \in Projects
  BY <1>1, FieldsOf
<1>4. CASE rows[i].src # None
  BY <1>3, <1>4 DEF Lane
<1>5. CASE rows[i].src = None /\ Cardinality(Projects) > 1
  BY <1>2, <1>5 DEF Lane
<1>6. CASE rows[i].src = None /\ ~ (Cardinality(Projects) > 1)
  <2>1. Cardinality(Projects) \in Nat /\ Cardinality(Projects) # 0
    BY <1>3, ProjectsAre, FS_CardinalityType, FS_EmptySet
  <2>2. Cardinality(Projects) = 1
    BY <1>6, <2>1
  <2>3. PICK x : Projects = {x}
    BY <2>2, ProjectsAre, FS_Singleton
  <2>4. HomeOf[s] = rows[i].proj
    BY <2>3, <1>3, ProjectsAre
  <2> QED BY <1>2, <1>6, <2>4 DEF Lane
<1> QED BY <1>4, <1>5, <1>6

LEMMA TableLane ==
  ASSUME ProjectionTypes, FactsInv, NEW s \in Stores, NEW i \in DOMAIN Table(s)
  PROVE  Lane(Table(s), HomeOf[s], i) = Table(s)[i].proj
<1>1. /\ Table(s) \in Seq(RowSpace) /\ Len(Table(s)) = tables[s] /\ tables[s] \in Nat
      /\ \A k \in 1 .. tables[s] : Table(s)[k] = log[s][k]
  BY TableIs
<1>2. Whole(log[s], tables[s])
  BY DEF FactsInv, TablesInv
<1>3. Whole(Table(s), tables[s])
  BY <1>1, <1>2 DEF Whole
<1>4. tables[s] <= Len(Table(s))
  BY <1>1
<1> QED BY <1>1, <1>3, <1>4, LaneIs

LEMMA FindIs ==
  ASSUME NEW rows, NEW kind, NEW id \in Ids(rows, kind)
  PROVE  /\ Find(rows, kind, id) \in DOMAIN rows
         /\ rows[Find(rows, kind, id)].kind = kind /\ rows[Find(rows, kind, id)].id = id
<1>1. \E i \in Rows(rows, kind) : rows[i].id = id
  BY DEF Ids
<1>2. Find(rows, kind, id) \in Rows(rows, kind) /\ rows[Find(rows, kind, id)].id = id
  BY <1>1 DEF Find
<1> QED BY <1>2 DEF Rows

LEMMA IdsAre ==
  ASSUME NEW rows \in Seq(RowSpace), NEW kind PROVE Ids(rows, kind) \subseteq Nat
<1>1. \A i \in DOMAIN rows : rows[i] \in RowSpace
  BY SeqIs
<1> QED BY <1>1, FieldsOf DEF Ids, Rows

\* What a command may set out to append.
Sets(s, batches, n) ==
  /\ n \in Nat /\ batches \in Seq(Seq(RowSpace)) /\ batches # <<>>
  /\ Sound(batches, log[s]) /\ Minted(batches, n)

\* A command that starts: the record it works on, and what it leaves alone.
Starts(c) ==
  \E p \in ProcSpace :
    /\ proc[c] = Idle /\ proc' = [proc EXCEPT ![c] = p]
    /\ p.at \in {"append", "share"} /\ p.seen = {} /\ p.store \in Stores
    /\ p.session # None => p.store = At[p.session]
    /\ p.at = "share" => p.session # None
    /\ UNCHANGED <<log, tables, hub, mark, mix, past>>

LEMMA BeginIs ==
  ASSUME ProjectionTypes, FactsInv, NEW c \in Commands, NEW s \in Stores,
         NEW batches, NEW n, Sets(s, batches, n), Begin(c, s, batches, n)
  PROVE  FactsInv' /\ Starts(c) /\ minted' \in Nat
<1> DEFINE p == [Idle EXCEPT !.at = "append", !.store = s, !.batches = batches]
<1>1. /\ proc[c].at = "idle" /\ proc' = [proc EXCEPT ![c] = p] /\ minted' = minted + n
      /\ UNCHANGED <<log, tables, hub, mark, mix, past>>
  BY DEF Begin, Free
<1>2. n \in Nat /\ batches \in Seq(Seq(RowSpace)) /\ batches # <<>>
      /\ Sound(batches, log[s]) /\ Minted(batches, n)
  BY DEF Sets
<1>3. /\ p \in ProcSpace /\ p.at = "append" /\ p.store = s /\ p.batches = batches
      /\ p.seen = {} /\ p.session = None
  BY <1>2 DEF Idle, ProcSpace, Stages
<1> HIDE DEF p
<1>4. FactsInv'
  BY <1>1, <1>2, <1>3, BeginFacts
<1>5. proc[c] = Idle
  BY <1>1 DEF FactsInv, ProcOK
<1>6. minted' \in Nat
  BY <1>1, <1>2 DEF ProjectionTypes
<1> QED
  BY <1>1, <1>3, <1>4, <1>5, <1>6 DEF Starts

\* A row that asks for nothing, in a batch of its own.
Plain(row) == row.kind \notin {"superseded", "retracted", "accepted"}

LEMMA PlainGrounded ==
  ASSUME NEW r, Plain(r), NEW R PROVE Grounded(r, R)
BY DEF Plain, Grounded

LEMMA SetsOne ==
  ASSUME ProjectionTypes, NEW row \in RowSpace, row.id = New, Plain(row), NEW s,
         NEW n \in Nat, n >= 1
  PROVE  Sets(s, One(row), n)
<1>1. minted \in Nat
  BY DEF ProjectionTypes
<1> QED BY <1>1, OneBatch DEF Sets, Plain, New

LEMMA TagsAre ==
  /\ {None, "in_progress", "handoff_ready", "done", "cancelled", "decision", "owner"} \subseteq Tags
  /\ Projects \subseteq Tags /\ Files \subseteq Tags /\ None \in Sessions \cup {None}
BY DEF Tags

LEMMA NewIs ==
  ASSUME ProjectionTypes
  PROVE  minted \in Nat /\ New \in Nat /\ New # 0 /\ New + 1 \in Nat /\ New + 1 # 0
         /\ {New, New + 1} = {minted + 1, minted + 2} /\ New = minted + 1 /\ New + 1 = minted + 2
BY DEF ProjectionTypes, New

LEMMA OneSets ==
  ASSUME ProjectionTypes, NEW s \in Stores, NEW n \in Nat, n >= 1,
         NEW kind \in Kinds \ {"superseded", "retracted", "accepted"}, NEW ref \in Nat,
         NEW to \in Nat, NEW tag \in Tags, NEW who \in Sessions \cup {None}
  PROVE  Sets(s, One(Row(kind, s, New, ref, to, tag, who)), n)
<1> DEFINE row == Row(kind, s, New, ref, to, tag, who)
<1>1. row \in RowSpace /\ row.id = New /\ row.kind = kind
  BY NewIs, RowIs, SMTT(40)
<1> HIDE DEF row
<1>2. Sets(s, One(row), n)
  BY <1>1, SetsOne DEF Plain
<1> QED BY <1>2 DEF row

LEMMA TaskRowIs ==
  ASSUME ProjectionTypes, NEW s \in Stores, NEW id \in Nat, id # 0
  PROVE  /\ TaskRow(s, id) \in RowSpace /\ TaskRow(s, id).kind = "task"
         /\ TaskRow(s, id).id = id /\ TaskRow(s, id).proj = HomeOf[s]
<1>1. "task" \in Kinds /\ 0 \in Nat /\ None \in Tags /\ None \in Sessions \cup {None}
  BY TagsAre DEF Kinds
<1> QED BY <1>1, RowIs DEF TaskRow

LEMMA StatusRowIs ==
  ASSUME ProjectionTypes, NEW s \in Stores, NEW id \in Nat, id # 0, NEW t \in Nat, NEW st \in Tags
  PROVE  /\ StatusRow(s, id, t, st) \in RowSpace /\ StatusRow(s, id, t, st).kind = "status"
         /\ StatusRow(s, id, t, st).id = id
<1>1. "status" \in Kinds /\ 0 \in Nat /\ st \in Tags /\ None \in Sessions \cup {None}
  BY TagsAre DEF Kinds
<1> QED BY <1>1, RowIs DEF StatusRow

LEMMA TaskCommands ==
  ASSUME ProjectionTypes, FactsInv, NEW c \in Commands, NEW s \in Stores,
         \/ CreateTask(c, s) \/ StartTask(c, s) \/ DoneTask(c, s) \/ CancelTask(c, s)
         \/ Handoff(c, s) \/ AppendItems(c, s) \/ Checkpoint(c, s)
  PROVE  FactsInv' /\ Starts(c) /\ minted' \in Nat
<1> USE NewIs, TagsAre
<1>0. Ids(Table(s), "task") \subseteq Nat
  BY TableIs, IdsAre
<1>1. CASE CreateTask(c, s)
  <2>1. Sets(s, One(TaskRow(s, New)), 1)
    BY TaskRowIs, SetsOne DEF Plain
  <2> QED BY <1>1, <2>1, BeginIs DEF CreateTask
<1>2. ASSUME NEW t \in Ids(Table(s), "task"), NEW to \in Tags, UpdateTask(c, s, t, to)
      PROVE  FactsInv' /\ Starts(c) /\ minted' \in Nat
  <2>1. Sets(s, One(StatusRow(s, New, t, to)), 1)
    BY <1>0, StatusRowIs, SetsOne, SMTT(40) DEF Plain
  <2> QED BY <1>2, <2>1, BeginIs DEF UpdateTask
<1>3. CASE StartTask(c, s)
  BY <1>2, <1>3 DEF StartTask
<1>4. CASE DoneTask(c, s)
  BY <1>2, <1>4 DEF DoneTask
<1>5. CASE CancelTask(c, s)
  BY <1>2, <1>5 DEF CancelTask
<1>6. CASE Handoff(c, s)
  <2>1. PICK t \in Ids(Table(s), "task") :
          Begin(c, s, <<<<Row("handoff", s, New, t, 0, None, None),
                          StatusRow(s, New + 1, t, "handoff_ready")>>>>, 2)
    BY <1>6 DEF Handoff
  <2> DEFINE row == Row("handoff", s, New, t, 0, None, None)
             next == StatusRow(s, New + 1, t, "handoff_ready")
  <2>2. t \in Nat
    BY <1>0
  <2>3. row \in RowSpace /\ row.id = New /\ Plain(row)
    <3>1. "handoff" \in Kinds /\ 0 \in Nat
      BY DEF Kinds
    <3>2. row \in RowSpace /\ row.id = New /\ row.kind = "handoff"
      BY <2>2, <3>1, RowIs
    <3> QED BY <3>2 DEF Plain
  <2>4. next \in RowSpace /\ next.id = New + 1 /\ Plain(next)
    BY <2>2, StatusRowIs DEF Plain
  <2> HIDE DEF row, next
  <2>5. Sets(s, <<<<row, next>>>>, 2)
    BY <2>3, <2>4, PlainGrounded, TwoRows DEF Sets
  <2> QED BY <2>1, <2>5, BeginIs DEF row, next
<1>7. CASE AppendItems(c, s)
  <2>1. PICK t \in Ids(Table(s), "task") :
          Begin(c, s, One(Row("item", s, New, t, 0, None, None)), 1)
    BY <1>7 DEF AppendItems
  <2>2. "item" \in Kinds \ {"superseded", "retracted", "accepted"} /\ t \in Nat /\ 0 \in Nat
    BY <1>0 DEF Kinds
  <2>3. Sets(s, One(Row("item", s, New, t, 0, None, None)), 1)
    BY <2>2, OneSets
  <2> QED BY <2>1, <2>3, BeginIs
<1>8. CASE Checkpoint(c, s)
  <2>1. Sets(s, One(Row("checkpoint", s, New, 0, 0, None, None)), 1)
    <3>1. "checkpoint" \in Kinds \ {"superseded", "retracted", "accepted"} /\ 0 \in Nat
      BY DEF Kinds
    <3> QED BY <3>1, OneSets
  <2> QED BY <1>8, <2>1, BeginIs DEF Checkpoint
<1> QED
  BY <1>1, <1>3, <1>4, <1>5, <1>6, <1>7, <1>8

\* A row that the tables show.
LEMMA ShownRow ==
  ASSUME ProjectionTypes, FactsInv, NEW s \in Stores, NEW i \in DOMAIN Table(s)
  PROVE  /\ Table(s)[i] \in RowSpace /\ Table(s)[i] \in ToSet(log[s])
         /\ Table(s)[i].id \in Nat /\ Table(s)[i].id <= minted
         /\ i \in DOMAIN log[s] /\ Table(s)[i] = log[s][i]
<1>1. /\ Table(s) \in Seq(RowSpace) /\ ToSet(Table(s)) \subseteq ToSet(log[s])
      /\ DOMAIN Table(s) = 1 .. tables[s] /\ tables[s] <= Len(log[s]) /\ tables[s] \in Nat
      /\ \A k \in 1 .. tables[s] : Table(s)[k] = log[s][k]
      /\ log[s] \in Seq(RowSpace)
  BY TableIs
<1>2. Table(s)[i] \in RowSpace /\ Table(s)[i] \in ToSet(log[s])
  BY <1>1, SeqIs DEF ToSet
<1>3. Table(s)[i].id \in Nat
  BY <1>2, FieldsOf
<1>4. Table(s)[i].id <= minted
  BY <1>2, UniverseIs DEF FactsInv, IdsInv
<1>5. DOMAIN log[s] = 1 .. Len(log[s]) /\ Len(log[s]) \in Nat
  BY <1>1, SeqIs
<1>6. i \in DOMAIN log[s] /\ Table(s)[i] = log[s][i]
  BY <1>1, <1>5
<1> QED BY <1>2, <1>3, <1>4, <1>6

LEMMA MembersAre ==
  ASSUME NEW rows \in Seq(RowSpace) PROVE Members(rows) \subseteq Projects
<1>1. \A k \in DOMAIN rows : rows[k] \in RowSpace
  BY SeqIs
<1> QED BY <1>1, FieldsOf DEF Members, Rows

LEMMA RequestCommands ==
  ASSUME ProjectionTypes, FactsInv, NEW c \in Commands, NEW s \in Stores,
         RequestTask(c, s) \/ Accept(c, s) \/ Decline(c, s)
  PROVE  FactsInv' /\ Starts(c) /\ minted' \in Nat
<1> USE NewIs
<1>0. Ids(Table(s), "request") \subseteq Nat
  BY TableIs, IdsAre
<1>1. CASE RequestTask(c, s)
  <2>1. PICK p \in Members(log[s]) \ {HomeOf[s]} :
          Begin(c, s, One(Row("request", s, New, 0, 0, p, None)), 1)
    BY <1>1 DEF RequestTask
  <2>2. log[s] \in Seq(RowSpace)
    BY DEF ProjectionTypes
  <2>3. p \in Tags
    BY <2>2, MembersAre, TagsAre
  <2>4. "request" \in Kinds \ {"superseded", "retracted", "accepted"} /\ 0 \in Nat
    BY DEF Kinds
  <2>5. Sets(s, One(Row("request", s, New, 0, 0, p, None)), 1)
    BY <2>3, <2>4, TagsAre, OneSets
  <2> QED BY <2>1, <2>5, BeginIs
<1>2. CASE Accept(c, s)
  <2>1. PICK r \in PendingInbound(s) : Begin(c, s, Minting(s, r), 2)
    BY <1>2 DEF Accept
  <2> DEFINE row == TaskRow(s, New)
             next == Row("accepted", s, New + 1, r, New, None, None)
             f == Find(Table(s), "request", r)
             q == Table(s)[f]
  <2>2. r \in Ids(Table(s), "request") /\ q.tag = HomeOf[s] /\ r \in Nat
    BY <1>0, <2>1 DEF PendingInbound
  <2>3. f \in DOMAIN Table(s) /\ q.kind = "request" /\ q.id = r
    BY <2>2, FindIs
  <2>4. q \in ToSet(log[s])
    BY <2>3, ShownRow
  <2>5. row \in RowSpace /\ row.id = New /\ row.kind = "task" /\ row.proj = HomeOf[s]
    BY TaskRowIs
  <2>6. /\ next \in RowSpace /\ next.id = New + 1 /\ next.kind = "accepted"
        /\ next.ref = r /\ next.to = New
    <3>1. "accepted" \in Kinds /\ None \in Tags /\ None \in Sessions \cup {None}
      BY TagsAre DEF Kinds
    <3> QED BY <2>2, <3>1, RowIs
  <2> HIDE DEF row, next, f, q
  <2>7. Grounded(row, ToSet(log[s]))
    BY <2>5, PlainGrounded DEF Plain
  <2>8. Grounded(next, ToSet(log[s]) \cup {row})
    <3>1. row \in ToSet(log[s]) \cup {row} /\ q \in ToSet(log[s]) \cup {row}
      BY <2>4
    <3>2. /\ row.kind = "task" /\ row.id = next.to
          /\ q.kind = "request" /\ q.id = next.ref /\ q.tag = row.proj
      BY <2>2, <2>3, <2>5, <2>6 DEF q
    <3>3. \E t, k \in ToSet(log[s]) \cup {row} :
            /\ t.kind = "task" /\ t.id = next.to
            /\ k.kind = "request" /\ k.id = next.ref /\ k.tag = t.proj
      BY Zenon, <3>1, <3>2
    <3> QED BY <2>6, <3>3 DEF Grounded
  <2>9. Sets(s, <<<<row>>, <<next>>>>, 2)
    BY <2>5, <2>6, <2>7, <2>8, TwoBatches DEF Sets
  <2>10. Minting(s, r) = <<<<row>>, <<next>>>>
    BY DEF Minting, row, next
  <2> QED BY <2>1, <2>9, <2>10, BeginIs
<1>3. CASE Decline(c, s)
  <2>1. PICK r \in PendingInbound(s) :
          Begin(c, s, One(Row("declined", s, New, r, 0, None, None)), 1)
    BY <1>3 DEF Decline
  <2>2. r \in Nat
    BY <1>0, <2>1 DEF PendingInbound
  <2>3. "declined" \in Kinds \ {"superseded", "retracted", "accepted"} /\ 0 \in Nat
    BY DEF Kinds
  <2>4. Sets(s, One(Row("declined", s, New, r, 0, None, None)), 1)
    BY <2>2, <2>3, TagsAre, OneSets
  <2> QED BY <2>1, <2>4, BeginIs
<1> QED
  BY <1>1, <1>2, <1>3

LEMMA DecisionCommands ==
  ASSUME ProjectionTypes, FactsInv, NEW c \in Commands, NEW s \in Stores,
         RecordDecision(c, s) \/ SupersedeDecision(c, s) \/ ResolveConflict(c, s)
  PROVE  FactsInv' /\ Starts(c) /\ minted' \in Nat
<1> USE NewIs
<1>1. CASE RecordDecision(c, s)
  <2>1. "decision" \in Kinds \ {"superseded", "retracted", "accepted"} /\ 0 \in Nat
    BY DEF Kinds
  <2>2. Sets(s, One(Row("decision", s, New, 0, 0, None, None)), 1)
    BY <2>1, TagsAre, OneSets
  <2> QED BY <1>1, <2>2, BeginIs DEF RecordDecision
<1>2. CASE SupersedeDecision(c, s)
  <2>1. PICK d \in Ids(Table(s), "decision") :
          Begin(c, s, <<<<Row("decision", s, New, 0, 0, None, None),
                          Row("decisionSuperseded", s, New + 1, d, New, None, None)>>>>, 2)
    BY <1>2 DEF SupersedeDecision
  <2> DEFINE row == Row("decision", s, New, 0, 0, None, None)
             next == Row("decisionSuperseded", s, New + 1, d, New, None, None)
  <2>2. d \in Nat
    BY TableIs, IdsAre
  <2>3. "decision" \in Kinds /\ "decisionSuperseded" \in Kinds /\ 0 \in Nat
    BY DEF Kinds
  <2>4. row \in RowSpace /\ row.id = New /\ row.kind = "decision"
    BY <2>3, TagsAre, RowIs
  <2>5. next \in RowSpace /\ next.id = New + 1 /\ next.kind = "decisionSuperseded"
    BY <2>2, <2>3, TagsAre, RowIs
  <2> HIDE DEF row, next
  <2>6. Plain(row) /\ Plain(next)
    BY <2>4, <2>5 DEF Plain
  <2>7. Sets(s, <<<<row, next>>>>, 2)
    BY <2>4, <2>5, <2>6, PlainGrounded, TwoRows DEF Sets
  <2> QED BY <2>1, <2>7, BeginIs DEF row, next
<1>3. CASE ResolveConflict(c, s)
  <2>1. PICK i \in OpenConflicts(Table(s)) :
          Begin(c, s, One(Row("resolved", s, New, Table(s)[i].id, 0, None, None)), 1)
    BY <1>3 DEF ResolveConflict
  <2>2. i \in DOMAIN Table(s)
    BY DEF OpenConflicts, Rows
  <2>3. Table(s)[i].id \in Nat
    BY <2>2, ShownRow
  <2>4. "resolved" \in Kinds \ {"superseded", "retracted", "accepted"} /\ 0 \in Nat
    BY DEF Kinds
  <2> DEFINE ref == Table(s)[i].id
  <2> HIDE DEF ref
  <2>5. Sets(s, One(Row("resolved", s, New, ref, 0, None, None)), 1)
    <3>1. ref \in Nat
      BY <2>3 DEF ref
    <3> QED BY <3>1, <2>4, TagsAre, OneSets
  <2> QED BY <2>1, <2>5, BeginIs DEF ref
<1> QED
  BY <1>1, <1>2, <1>3

\* One batch of as many rows as one likes.
LEMMA ManyRows ==
  ASSUME NEW n \in Nat, NEW b \in [1 .. n -> RowSpace], NEW rows, minted \in Nat,
         \A k \in 1 .. n : b[k].id = minted + k /\ Grounded(b[k], ToSet(rows))
  PROVE  /\ <<b>> \in Seq(Seq(RowSpace)) /\ <<b>> # <<>>
         /\ Sound(<<b>>, rows) /\ Minted(<<b>>, n)
<1>1. DOMAIN b = 1 .. n /\ b \in Seq(RowSpace)
  BY IsASeq
<1>2. IsInjective(b)
  BY <1>1 DEF IsInjective
<1>3. ASSUME NEW R, ToSet(rows) \subseteq R PROVE Firm(b, R)
  <2>1. \A k \in DOMAIN b : ToSet(rows) \subseteq R \cup {b[l] : l \in 1 .. k - 1}
    BY <1>3
  <2> QED BY <1>1, <2>1, GroundedMore DEF Firm
<1>4. DOMAIN <<b>> = {1} /\ <<b>>[1] = b /\ <<b>> # <<>> /\ <<b>> \in Seq(Seq(RowSpace))
  BY <1>1
<1>5. Sound(<<b>>, rows)
  BY <1>2, <1>3, <1>4 DEF Sound
<1>6. RowsOf(<<b>>) = {b[k] : k \in 1 .. n}
  BY <1>1, <1>4 DEF RowsOf, ToSet
<1>7. Minted(<<b>>, n)
  <2>1. \A k \in 1 .. n : b[k].id \in minted + 1 .. minted + n
    OBVIOUS
  <2>2. \A k, l \in 1 .. n : b[k].id = b[l].id => k = l
    OBVIOUS
  <2>3. \A r \in RowsOf(<<b>>) : \E k \in 1 .. n : r = b[k]
    BY <1>6
  <2>4. \A r \in RowsOf(<<b>>) : r.id \in minted + 1 .. minted + n
    BY <2>1, <2>3
  <2>5. \A r, q \in RowsOf(<<b>>) : r.id = q.id => r = q
    BY <2>2, <2>3
  <2> QED BY <2>4, <2>5 DEF Minted
<1> QED
  BY <1>4, <1>5, <1>7

\* A valid memory of the store's own lane.
LEMMA OwnMemory ==
  ASSUME ProjectionTypes, FactsInv, NEW s \in Stores,
         NEW i \in OwnValid(Table(s), HomeOf[s])
  PROVE  /\ i \in DOMAIN Table(s) /\ Table(s)[i].kind = "memory"
         /\ Table(s)[i].proj = HomeOf[s]
         /\ i \in Int /\ i # 0
<1>1. i \in DOMAIN Table(s) /\ Table(s)[i].kind = "memory" /\ Lane(Table(s), HomeOf[s], i) = HomeOf[s]
  BY DEF OwnValid, Valid, Standing, Rows
<1>2. i \in Int /\ i # 0
  BY <1>1, TableIs
<1> QED BY <1>1, <1>2, TableLane

\* One row of a log has the id of another only if it is the same.
LEMMA DistinctIds ==
  ASSUME ProjectionTypes, FactsInv, NEW s \in Stores,
         NEW i \in DOMAIN log[s], NEW j \in DOMAIN log[s],
         log[s][i].id = log[s][j].id, log[s][i].kind # "genesis"
  PROVE  i = j
<1>1. log[s] \in Seq(RowSpace) /\ IsInjective(log[s])
  BY DEF ProjectionTypes, FactsInv, LogsInv
<1>2. log[s][i] \in RowSpace /\ log[s][i] \in ToSet(log[s]) /\ log[s][j] \in ToSet(log[s])
  BY <1>1, SeqIs DEF ToSet
<1>3. log[s][i].id # 0
  BY <1>2, FieldsOf
<1>4. log[s][i] \in Universe /\ log[s][j] \in Universe
  BY <1>2, UniverseIs
<1>5. \A r, q \in Universe : r.id = q.id /\ r.id # 0 => r = q
  BY DEF FactsInv, IdsInv
<1>6. log[s][i] = log[s][j]
  BY <1>3, <1>4, <1>5
<1> QED BY <1>1, <1>6 DEF IsInjective

\* A memory supersedes an older one of its lane.
LEMMA SupersededGrounded ==
  ASSUME NEW r, NEW R, NEW old \in R, NEW new \in R, r.kind = "superseded",
         old.kind = "memory", old.id = r.ref, new.kind = "memory", new.id = r.to,
         old.proj = new.proj, old.id < new.id
  PROVE  Grounded(r, R)
<1>1. \E a, b \in R : /\ a.kind = "memory" /\ a.id = r.ref
                      /\ b.kind = "memory" /\ b.id = r.to
                      /\ a.proj = b.proj /\ a.id < b.id
  BY Zenon
<1> QED BY <1>1 DEF Grounded

LEMMA RetractedGrounded ==
  ASSUME NEW r, NEW R, NEW q \in R, r.kind = "retracted", q.kind = "memory", q.id = r.ref
  PROVE  Grounded(r, R)
BY DEF Grounded

LEMMA MemoryRowIs ==
  ASSUME NEW s \in Stores, NEW id \in Nat, id # 0, NEW w \in Nat, NEW x \in Sessions \cup {None}
  PROVE  LET r == Row("memory", s, id, 0, w, None, x) IN
         r \in RowSpace /\ r.id = id /\ r.kind = "memory" /\ r.proj = HomeOf[s]
<1>1. "memory" \in Kinds /\ 0 \in Nat /\ None \in Tags
  BY TagsAre DEF Kinds
<1> QED BY <1>1, RowIs

LEMMA SupersededRowIs ==
  ASSUME NEW s \in Stores, NEW id \in Nat, id # 0, NEW old \in Nat, NEW new \in Nat
  PROVE  LET r == Row("superseded", s, id, old, new, None, None) IN
         r \in RowSpace /\ r.id = id /\ r.kind = "superseded" /\ r.ref = old /\ r.to = new
<1>1. "superseded" \in Kinds /\ None \in Tags /\ None \in Sessions \cup {None}
  BY TagsAre DEF Kinds
<1> QED BY <1>1, RowIs

LEMMA NewSuperseded ==
  ASSUME ProjectionTypes, NEW s \in Stores, NEW a \in Nat, NEW b \in Nat
  PROVE  LET r == Row("superseded", s, New + 1, a, b, None, None) IN
         /\ r \in RowSpace /\ r.id = New + 1 /\ r.kind = "superseded"
         /\ r.ref = a /\ r.to = b
<1>1. PICK m \in Nat : m = New + 1 /\ m # 0
  BY NewIs
<1>2. LET r == Row("superseded", s, m, a, b, None, None) IN
      r \in RowSpace /\ r.id = m /\ r.kind = "superseded" /\ r.ref = a /\ r.to = b
  BY <1>1, SupersededRowIs
<1> QED BY <1>1, <1>2

LEMMA MemoryCommands ==
  ASSUME ProjectionTypes, FactsInv, NEW c \in Commands, NEW s \in Stores,
         Consolidate(c, s) \/ DetectContradictions(c, s)
  PROVE  FactsInv' /\ Starts(c) /\ minted' \in Nat
<1> USE NewIs
<1>0. /\ "memory" \in Kinds \ {"superseded", "retracted", "accepted"}
      /\ "memory" \in Kinds /\ "superseded" \in Kinds /\ "conflict" \in Kinds
      /\ 0 \in Nat /\ None \in Tags /\ None \in Sessions \cup {None}
  BY TagsAre DEF Kinds
<1>1. CASE Consolidate(c, s)
  <2>1. PICK w \in Windows, x \in Sessions \cup {None},
             old \in OwnValid(Table(s), HomeOf[s]) \cup {0} :
          LET memory == Row("memory", s, New, 0, w, None, x) IN
          Begin(c, s, IF old = 0 THEN One(memory) ELSE
                      <<<<memory, Row("superseded", s, New + 1, Table(s)[old].id,
                                      New, None, None)>>>>, 2)
    BY <1>1 DEF Consolidate
  <2>2. w \in Nat
    BY ProjectionAssumption
  <2> DEFINE row == Row("memory", s, New, 0, w, None, x)
             q == Table(s)[old]
             next == Row("superseded", s, New + 1, q.id, New, None, None)
  <2>3. CASE old = 0
    <3>1. Sets(s, One(row), 2)
      BY <1>0, <2>2, TagsAre, OneSets
    <3>2. Begin(c, s, One(row), 2)
      BY <2>1, <2>3
    <3> HIDE DEF row
    <3> QED BY <3>1, <3>2, BeginIs
  <2>4. CASE old # 0
    <3>1. old \in DOMAIN Table(s) /\ q.kind = "memory" /\ q.proj = HomeOf[s]
      BY <2>4, OwnMemory
    <3>2. q \in ToSet(log[s]) /\ q.id \in Nat /\ q.id <= minted
      BY <3>1, ShownRow
    <3>3. Begin(c, s, <<<<row, next>>>>, 2)
      BY <2>1, <2>4
    <3> HIDE DEF q
    <3>4. /\ row \in RowSpace /\ row.id = New /\ row.kind = "memory" /\ row.proj = HomeOf[s]
      BY <2>2, MemoryRowIs
    <3>5. /\ next \in RowSpace /\ next.id = New + 1 /\ next.kind = "superseded"
          /\ next.ref = q.id /\ next.to = New
      BY <3>2, SupersededRowIs
    <3> HIDE DEF row, next
    <3>6. Grounded(row, ToSet(log[s]))
      BY <3>4, PlainGrounded DEF Plain
    <3>7. q.id < row.id
      BY <3>2, <3>4
    <3>8. Grounded(next, ToSet(log[s]) \cup {row})
      <4>1. q \in ToSet(log[s]) \cup {row} /\ row \in ToSet(log[s]) \cup {row}
        BY <3>2
      <4> QED BY <4>1, <3>1, <3>4, <3>5, <3>7, SupersededGrounded DEF q
    <3>9. Sets(s, <<<<row, next>>>>, 2)
      BY <3>4, <3>5, <3>6, <3>8, TwoRows DEF Sets
    <3> QED BY <3>3, <3>9, BeginIs
  <2> QED BY <2>3, <2>4
<1>2. CASE DetectContradictions(c, s)
  <2>1. PICK i \in OwnValid(Table(s), HomeOf[s]), j \in OwnValid(Table(s), HomeOf[s]) :
          LET winner == Newest(Table(s), i, j)
              loser == IF winner = i THEN j ELSE i IN
          /\ i # j
          /\ Begin(c, s, <<<<Row("superseded", s, New + 1, Table(s)[loser].id,
                                 Table(s)[winner].id, None, None),
                             Row("conflict", s, New, 0, 0, "decision", None)>>>>, 2)
    BY <1>2 DEF DetectContradictions
  <2> DEFINE winner == Newest(Table(s), i, j)
             loser == IF winner = i THEN j ELSE i
             old == Table(s)[loser]
             new == Table(s)[winner]
             row == Row("superseded", s, New + 1, old.id, new.id, None, None)
             next == Row("conflict", s, New, 0, 0, "decision", None)
  <2>2. i # j /\ Begin(c, s, <<<<row, next>>>>, 2)
    BY <2>1
  <2>3. /\ i \in DOMAIN Table(s) /\ Table(s)[i].kind = "memory" /\ Table(s)[i].proj = HomeOf[s]
        /\ j \in DOMAIN Table(s) /\ Table(s)[j].kind = "memory" /\ Table(s)[j].proj = HomeOf[s]
    BY OwnMemory
  <2>4. /\ Table(s)[i] \in ToSet(log[s]) /\ Table(s)[i].id \in Nat
        /\ Table(s)[j] \in ToSet(log[s]) /\ Table(s)[j].id \in Nat
        /\ i \in DOMAIN log[s] /\ j \in DOMAIN log[s]
        /\ Table(s)[i] = log[s][i] /\ Table(s)[j] = log[s][j]
    BY <2>3, ShownRow
  <2>5. Table(s)[i].id # Table(s)[j].id
    BY <2>2, <2>3, <2>4, DistinctIds
  <2>6. \/ winner = j /\ loser = i /\ Table(s)[i].id < Table(s)[j].id
        \/ winner = i /\ loser = j /\ Table(s)[j].id < Table(s)[i].id
    <3>1. CASE Table(s)[i].id < Table(s)[j].id
      BY <2>2, <3>1 DEF Newest, Before
    <3>2. CASE ~ (Table(s)[i].id < Table(s)[j].id)
      <4>1. Table(s)[j].id < Table(s)[i].id
        BY <2>4, <2>5, <3>2
      <4> QED BY <2>2, <3>2, <4>1 DEF Newest, Before
    <3> QED BY <3>1, <3>2
  <2> HIDE DEF winner, loser
  <2>7. /\ old \in ToSet(log[s]) /\ old.kind = "memory" /\ old.proj = HomeOf[s]
        /\ new \in ToSet(log[s]) /\ new.kind = "memory" /\ new.proj = HomeOf[s]
        /\ old.id \in Nat /\ new.id \in Nat /\ old.id < new.id
    BY <2>3, <2>4, <2>6
  <2> HIDE DEF old, new
  <2>8. /\ row \in RowSpace /\ row.id = New + 1 /\ row.kind = "superseded"
        /\ row.ref = old.id /\ row.to = new.id
    <3>1. PICK o \in Nat, n \in Nat : o = old.id /\ n = new.id
      BY <2>7
    <3>2. /\ Row("superseded", s, New + 1, o, n, None, None) \in RowSpace
          /\ Row("superseded", s, New + 1, o, n, None, None).id = New + 1
          /\ Row("superseded", s, New + 1, o, n, None, None).kind = "superseded"
          /\ Row("superseded", s, New + 1, o, n, None, None).ref = o
          /\ Row("superseded", s, New + 1, o, n, None, None).to = n
      BY NewSuperseded
    <3> QED BY <3>1, <3>2
  <2>9. next \in RowSpace /\ next.id = New /\ next.kind = "conflict"
    <3>1. "decision" \in Tags
      BY TagsAre
    <3> QED BY <1>0, <3>1, TagsAre, RowIs, SMTT(40)
  <2> HIDE DEF row, next
  <2>10. Grounded(row, ToSet(log[s]))
    BY <2>7, <2>8, SupersededGrounded
  <2>11. Grounded(next, ToSet(log[s]) \cup {row})
    BY <2>9, PlainGrounded DEF Plain
  <2>12. Sets(s, <<<<row, next>>>>, 2)
    <3>1. {row.id, next.id} = {minted + 1, minted + 2}
      BY <2>8, <2>9
    <3> QED BY <3>1, <2>8, <2>9, <2>10, <2>11, TwoRows DEF Sets
  <2> QED BY <2>2, <2>12, BeginIs
<1> QED
  BY <1>1, <1>2

LEMMA RetractionIs ==
  ASSUME ProjectionTypes, FactsInv, NEW s \in Stores, NEW id \in Nat, id # 0,
         NEW i \in Rows(Table(s), "memory"), NEW role \in {None, "owner"}
  PROVE  LET r == Retraction(s, id, i, role) IN
         /\ r \in RowSpace /\ r.id = id /\ r.kind = "retracted"
         /\ Grounded(r, ToSet(log[s]))
         /\ \E q \in ToSet(log[s]) : q.kind = "memory" /\ q.id = r.ref
<1> DEFINE q == Table(s)[i]
           r == Retraction(s, id, i, role)
<1>1. i \in DOMAIN Table(s) /\ q.kind = "memory"
  BY DEF Rows
<1>2. q \in ToSet(log[s]) /\ q.id \in Nat
  BY <1>1, ShownRow
<1> HIDE DEF q
<1>3. r = Row("retracted", s, id, q.id, 0, role, None)
  BY DEF Retraction, q
<1>4. "retracted" \in Kinds /\ 0 \in Nat /\ role \in Tags /\ None \in Sessions \cup {None}
  BY TagsAre DEF Kinds
<1>5. r \in RowSpace /\ r.id = id /\ r.kind = "retracted" /\ r.ref = q.id
  BY <1>2, <1>3, <1>4, RowIs
<1> HIDE DEF r
<1>6. Grounded(r, ToSet(log[s]))
  BY <1>1, <1>2, <1>5, RetractedGrounded
<1>7. \E k \in ToSet(log[s]) : k.kind = "memory" /\ k.id = r.ref
  BY Zenon, <1>1, <1>2, <1>5
<1> QED
  BY <1>5, <1>6, <1>7 DEF r

LEMMA RetractCommands ==
  ASSUME ProjectionTypes, FactsInv, NEW c \in Commands, NEW s \in Stores,
         RetractMemory(c, s) \/ RevertSession(c, s)
  PROVE  FactsInv' /\ Starts(c) /\ minted' \in Nat
<1> USE NewIs
<1>1. CASE RetractMemory(c, s)
  <2>1. PICK i \in Rows(Table(s), "memory"), role \in {None, "owner"} :
          Begin(c, s, One(Retraction(s, New, i, role)), 1)
    <3>1. PICK i \in Rows(Table(s), "memory") :
            \/ Begin(c, s, One(Retraction(s, New, i, None)), 1)
            \/ Begin(c, s, One(Retraction(s, New, i, "owner")), 1)
      BY <1>1 DEF RetractMemory
    <3> QED BY <3>1
  <2> DEFINE row == Retraction(s, New, i, role)
  <2>2. /\ row \in RowSpace /\ row.id = New /\ row.kind = "retracted"
        /\ \E q \in ToSet(log[s]) : q.kind = "memory" /\ q.id = row.ref
    BY RetractionIs
  <2> HIDE DEF row
  <2>3. Sets(s, One(row), 1)
    BY <2>2, OneBatch DEF Sets
  <2> QED BY <2>1, <2>3, BeginIs DEF row
<1>2. CASE RevertSession(c, s)
  <2>1. PICK x \in Sessions :
          LET targets == {i \in OwnValid(Table(s), HomeOf[s]) : Table(s)[i].who = x} IN
          Begin(c, s, <<[k \in 1..Cardinality(targets) |->
                           Retraction(s, minted + k, Sorted(targets)[k], None)]>>,
                Cardinality(targets))
    BY <1>2 DEF RevertSession
  <2> DEFINE targets == {i \in OwnValid(Table(s), HomeOf[s]) : Table(s)[i].who = x}
             n == Cardinality(targets)
             b == [k \in 1 .. n |-> Retraction(s, minted + k, Sorted(targets)[k], None)]
  <2>2. \A i \in targets : i \in Rows(Table(s), "memory") /\ i \in 1 .. tables[s]
    BY OwnMemory, TableIs DEF Rows
  <2>3. tables[s] \in Nat
    BY TableIs
  <2>4. n \in Nat /\ Sorted(targets) \in [1 .. n -> targets]
    <3> HIDE DEF targets
    <3> QED BY <2>2, <2>3, SortedIs
  <2>5. Begin(c, s, <<b>>, n)
    BY <2>1
  <2> HIDE DEF n, targets
  <2>6. ASSUME NEW k \in 1 .. n
        PROVE  b[k] \in RowSpace /\ b[k].id = minted + k /\ Grounded(b[k], ToSet(log[s]))
    <3>1. Sorted(targets)[k] \in Rows(Table(s), "memory")
      BY <2>2, <2>4
    <3>2. minted + k \in Nat /\ minted + k # 0 /\ None \in {None, "owner"}
      BY <2>4
    <3>3. b[k] = Retraction(s, minted + k, Sorted(targets)[k], None)
      OBVIOUS
    <3> HIDE DEF b
    <3> QED BY <3>1, <3>2, <3>3, RetractionIs
  <2>7. b \in [1 .. n -> RowSpace]
    BY <2>6
  <2> HIDE DEF b
  <2>8. Sets(s, <<b>>, n)
    BY <2>4, <2>6, <2>7, ManyRows DEF Sets
  <2> QED BY <2>5, <2>8, BeginIs
<1> QED
  BY <1>1, <1>2

------------------------------------------------------------------------------
(* The steps of a hook, and faults. *)

LEMMA HookFacts ==
  ASSUME ProjectionTypes, FactsInv, NEW c \in Commands, NEW x \in Sessions, Hook(c, x)
  PROVE  FactsInv' /\ Starts(c) /\ minted' \in Nat
<1> DEFINE s == At[x]
<1>1. s \in Stores /\ x # None
  BY ProjectionAssumption
<1>2. proc[c] = Idle /\ minted' = minted + 1 /\ minted' \in Nat /\ minted \in Nat /\ minted <= minted'
      /\ UNCHANGED <<log, tables, hub, mark, mix, past>>
  <2>1. /\ proc[c].at = "idle" /\ minted' = minted + 1
        /\ UNCHANGED <<log, tables, hub, mark, mix, past>>
    BY DEF Hook, Free
  <2>2. proc[c] = Idle
    BY <2>1 DEF FactsInv, ProcOK
  <2>3. minted \in Nat
    BY DEF ProjectionTypes
  <2> QED BY <2>1, <2>2, <2>3
<1>3. ASSUME NEW f \in Files,
             proc' = [proc EXCEPT ![c] =
               [Idle EXCEPT !.at = "append", !.store = s, !.session = x,
                            !.batches = One(Row("observation", s, New, 0, 0, f, x))]]
      PROVE  FactsInv' /\ Starts(c)
  <2> DEFINE b == One(Row("observation", s, New, 0, 0, f, x))
             p == [Idle EXCEPT !.at = "append", !.store = s, !.session = x, !.batches = b]
  <2>1. "observation" \in Kinds \ {"superseded", "retracted", "accepted"} /\ 0 \in Nat
        /\ f \in Tags /\ x \in Sessions \cup {None} /\ 1 \in Nat /\ 1 >= 1
    BY TagsAre DEF Kinds
  <2>2. Sets(s, b, 1)
    BY <1>1, <2>1, OneSets
  <2>3. b \in Seq(Seq(RowSpace)) /\ b # <<>> /\ Sound(b, log[s]) /\ Minted(b, 1)
    BY <2>2 DEF Sets
  <2> HIDE DEF b
  <2>4. /\ p \in ProcSpace /\ p.at = "append" /\ p.store = s /\ p.batches = b
        /\ p.seen = {} /\ p.session = x
    BY <1>1, <2>3 DEF Idle, ProcSpace, Stages
  <2>5. proc' = [proc EXCEPT ![c] = p]
    BY <1>3 DEF b
  <2> HIDE DEF p
  <2>6. FactsInv'
    <3>1. UNCHANGED <<log, tables, hub>> /\ 1 \in Nat
      BY <1>2
    <3> HIDE DEF s
    <3> QED BY <1>1, <1>2, <2>3, <2>4, <2>5, <3>1, BeginFacts
  <2> QED BY <1>1, <1>2, <2>4, <2>5, <2>6 DEF Starts
<1>4. ASSUME proc' = [proc EXCEPT ![c] =
               [Idle EXCEPT !.at = "share", !.store = s, !.session = x]]
      PROVE  FactsInv' /\ Starts(c)
  <2> DEFINE p == [Idle EXCEPT !.at = "share", !.store = s, !.session = x]
  <2>1. /\ p \in ProcSpace /\ p.at = "share" /\ p.store = s /\ p.batches = <<>>
        /\ p.seen = {} /\ p.session = x
    BY <1>1, IdleIs DEF ProcSpace, Stages
  <2>2. proc' = [proc EXCEPT ![c] = p]
    BY <1>4
  <2> HIDE DEF p
  <2>3. FactsInv'
    BY <1>1, <1>2, <2>1, <2>2, Lighter
  <2> QED BY <1>1, <1>2, <2>1, <2>2, <2>3 DEF Starts
<1> QED
  BY <1>2, <1>3, <1>4 DEF Hook

\* A command stops where it is, or at its end.
LEMMA StopFacts ==
  ASSUME ProjectionTypes, FactsInv, NEW c \in Commands,
         proc' = [proc EXCEPT ![c] = Idle], UNCHANGED <<log, tables, hub, minted>>
  PROVE  FactsInv' /\ proc' \in [Commands -> ProcSpace]
<1>1. minted' \in Nat /\ minted <= minted'
  BY DEF ProjectionTypes
<1>2. FactsInv'
  BY <1>1, IdleIs, Lighter
<1> QED BY <1>2, IdleIs DEF ProjectionTypes

\* A hook that shares has a store and holds no rows.
LEMMA Sharing ==
  ASSUME ProjectionTypes, FactsInv, NEW c \in Commands,
         proc[c].at \in {"share", "advance", "promote", "deliver"}
  PROVE  /\ proc[c] \in ProcSpace /\ proc[c].store \in Stores /\ proc[c].batches = <<>>
         /\ log[proc[c].store] \in Seq(RowSpace)
BY DEF ProjectionTypes, FactsInv, ProcOK

\* What is composed is of the news.
LEMMA DeltaIs ==
  ASSUME NEW s, NEW x, NEW seen \in Delta(s, x) PROVE seen \subseteq News(s, x)
<1>1. \A S : \A T \in Capped(S) : T \subseteq S
  BY DEF Capped
<1>2. PICK A \in Limited(s, x, "memory"), B \in Limited(s, x, "observation") : seen = A \cup B
  BY DEF Delta
<1>3. A \subseteq Scan(s, x) /\ B \subseteq Scan(s, x)
  BY <1>1, <1>2 DEF Limited
<1>4. Scan(s, x) \subseteq News(s, x)
  BY DEF Scan
<1> QED BY <1>2, <1>3, <1>4

LEMMA NewsIs ==
  ASSUME ProjectionTypes, NEW s \in Stores, NEW x \in Sessions PROVE News(s, x) \subseteq Nat
<1>1. mark[x] \in Nat /\ Len(log[s]) \in Nat
  BY SeqIs DEF ProjectionTypes
<1> QED BY <1>1 DEF News

LEMMA TouchedIs ==
  ASSUME ProjectionTypes, FactsInv, NEW s \in Stores, NEW x
  PROVE  Touched(Table(s), x) \subseteq Tags
<1>1. \A i \in DOMAIN Table(s) : Table(s)[i] \in RowSpace
  BY ShownRow
<1>2. \A r \in RowSpace : r.tag \in Tags
  BY SMTT(40) DEF RowSpace
<1> QED BY <1>1, <1>2 DEF Touched, Rows

\* A hook composes: what it is about to show, and what it leaves out.
Composes(c) ==
  LET x == proc[c].session  s == proc[c].store IN
  \E seen \in SUBSET Nat, files \in SUBSET Tags :
    /\ seen \subseteq News(s, x)
    /\ proc' = [proc EXCEPT ![c] = [proc[c] EXCEPT !.at = "advance", !.seen = seen,
                                      !.upto = Len(log[s]), !.files = files]]
    /\ passed' = [passed EXCEPT ![x] = @ \cup (News(s, x) \ seen)]

LEMMA ComposeFacts ==
  ASSUME ProjectionTypes, FactsInv, NEW c \in Commands, Compose(c), proc[c].session \in Sessions
  PROVE  /\ FactsInv' /\ ProjectionTypes'
         /\ \/ proc' = [proc EXCEPT ![c] = Idle] /\ UNCHANGED passed
            \/ Composes(c)
<1> DEFINE s == proc[c].store
           x == proc[c].session
<1>1. /\ proc[c].at = "share" /\ UNCHANGED <<log, tables, hub, mark, minted, mix, since, shown>>
  BY DEF Compose, bounds
<1>2. proc[c] \in ProcSpace /\ s \in Stores /\ proc[c].batches = <<>> /\ log[s] \in Seq(RowSpace)
  BY <1>1, Sharing
<1>3. CASE proc' = [proc EXCEPT ![c] = Idle] /\ UNCHANGED passed
  <2>1. FactsInv' /\ proc' \in [Commands -> ProcSpace]
    BY <1>1, <1>3, StopFacts
  <2>2. ProjectionTypes'
    BY <1>1, <1>3, <2>1 DEF ProjectionTypes
  <2> QED BY <1>3, <2>1, <2>2
<1>4. ASSUME NEW seen \in Delta(s, x),
             proc' = [proc EXCEPT ![c].at = "advance", ![c].seen = seen,
               ![c].upto = Len(log[s]),
               ![c].files = Touched(Table(s), x) \cap
                 {log[s][i].tag : i \in Scan(s, x) \cap Rows(log[s], "observation")}],
             passed' = [passed EXCEPT ![x] = @ \cup (News(s, x) \ seen)]
      PROVE  FactsInv' /\ ProjectionTypes' /\ Composes(c)
  <2> DEFINE files == Touched(Table(s), x) \cap
                        {log[s][i].tag : i \in Scan(s, x) \cap Rows(log[s], "observation")}
             p == [proc[c] EXCEPT !.at = "advance", !.seen = seen, !.upto = Len(log[s]),
                                  !.files = files]
  <2>1. seen \subseteq News(s, x) /\ News(s, x) \subseteq Nat /\ seen \in SUBSET Nat
    BY <1>2, DeltaIs, NewsIs
  <2>2. files \in SUBSET Tags
    BY <1>2, TouchedIs
  <2>3. Len(log[s]) \in Nat
    BY <1>2, SeqIs
  <2> HIDE DEF files
  <2>4. proc' = [proc EXCEPT ![c] = p]
    BY <1>4 DEF files, ProjectionTypes
  <2>5. p \in ProcSpace /\ p.at = "advance" /\ p.store = s /\ p.batches = <<>>
    BY <1>2, <2>1, <2>2, <2>3 DEF ProcSpace, Stages
  <2>6. FactsInv'
    <3>1. minted' \in Nat /\ minted <= minted'
      BY <1>1 DEF ProjectionTypes
    <3> HIDE DEF p, s
    <3> QED BY <1>1, <1>2, <2>4, <2>5, <3>1, Lighter
  <2>7. Composes(c)
    BY <1>4, <2>1, <2>2, <2>4 DEF Composes
  <2>8. proc' \in [Commands -> ProcSpace]
    <3> HIDE DEF p
    <3> QED BY <2>4, <2>5 DEF ProjectionTypes
  <2>9. passed' \in [Sessions -> SUBSET Nat]
    <3> HIDE DEF x, s
    <3> QED BY <1>4, <2>1 DEF ProjectionTypes
  <2> QED BY <1>1, <2>6, <2>7, <2>8, <2>9 DEF ProjectionTypes
<1> QED
  BY <1>3, <1>4 DEF Compose

\* A hook moves the watermark as far as it looked.
Advances(c) ==
  /\ mark' = [mark EXCEPT ![proc[c].session] = proc[c].upto]
  /\ \/ proc[c].seen = {} /\ proc' = [proc EXCEPT ![c] = Idle]
     \/ proc' = [proc EXCEPT ![c] = [proc[c] EXCEPT !.at = "promote"]]

LEMMA AdvanceFacts ==
  ASSUME ProjectionTypes, FactsInv, NEW c \in Commands, Advance(c)
  PROVE  FactsInv' /\ ProjectionTypes' /\ Advances(c)
<1> DEFINE p == [proc[c] EXCEPT !.at = "promote"]
<1>1. /\ proc[c].at = "advance" /\ UNCHANGED <<log, tables, hub, minted, mix, past>>
      /\ mark' = [mark EXCEPT ![proc[c].session] = proc[c].upto]
      /\ proc' = [proc EXCEPT ![c] = IF @.seen = {} THEN Idle ELSE [@ EXCEPT !.at = "promote"]]
  BY DEF Advance, Scanned, bounds
<1>2. proc[c] \in ProcSpace /\ proc[c].store \in Stores /\ proc[c].batches = <<>>
  BY <1>1, Sharing
<1>3. mark' \in [Sessions -> Nat]
  <2>1. proc[c].upto \in Nat
    BY <1>2 DEF ProcSpace
  <2> QED BY <1>1, <2>1 DEF ProjectionTypes
<1>4. CASE proc[c].seen = {}
  <2>1. proc' = [proc EXCEPT ![c] = Idle]
    BY <1>1, <1>4 DEF ProjectionTypes
  <2>2. FactsInv' /\ proc' \in [Commands -> ProcSpace]
    BY <1>1, <2>1, StopFacts
  <2> QED BY <1>1, <1>3, <1>4, <2>1, <2>2 DEF ProjectionTypes, Advances, past
<1>5. CASE proc[c].seen # {}
  <2>1. proc' = [proc EXCEPT ![c] = p]
    BY <1>1, <1>5 DEF ProjectionTypes
  <2>2. p \in ProcSpace /\ p.at = "promote" /\ p.batches = <<>> /\ p.store = proc[c].store
    BY <1>2 DEF ProcSpace, Stages
  <2>3. FactsInv'
    <3>1. minted' \in Nat /\ minted <= minted'
      BY <1>1 DEF ProjectionTypes
    <3> HIDE DEF p
    <3> QED BY <1>1, <1>2, <2>1, <2>2, <3>1, Lighter
  <2>4. proc' \in [Commands -> ProcSpace]
    <3> HIDE DEF p
    <3> QED BY <2>1, <2>2 DEF ProjectionTypes
  <2> QED BY <1>1, <1>3, <2>1, <2>3, <2>4 DEF ProjectionTypes, Advances, past
<1> QED BY <1>4, <1>5

\* A hook reports a collision, or goes on to deliver.
Promotes(c) ==
  \E p \in ProcSpace :
    /\ proc' = [proc EXCEPT ![c] = p]
    /\ p.at \in {"append", "deliver"} /\ p.store = proc[c].store
    /\ p.session = proc[c].session /\ p.seen = proc[c].seen /\ p.upto = proc[c].upto

LEMMA PromoteFacts ==
  ASSUME ProjectionTypes, FactsInv, NEW c \in Commands, Promote(c)
  PROVE  FactsInv' /\ ProjectionTypes' /\ Promotes(c)
<1> DEFINE s == proc[c].store
<1>1. proc[c].at = "promote" /\ UNCHANGED <<log, tables, hub, mark, mix, past>>
  BY DEF Promote, bounds
<1>2. proc[c] \in ProcSpace /\ s \in Stores /\ proc[c].batches = <<>>
  BY <1>1, Sharing
<1>3. ASSUME NEW f \in proc[c].files,
             proc' = [proc EXCEPT ![c].at = "append",
               ![c].batches = One(Row("conflict", s, New, 0, 0, f, proc[c].session))],
             minted' = minted + 1
      PROVE  FactsInv' /\ ProjectionTypes' /\ Promotes(c)
  <2> DEFINE b == One(Row("conflict", s, New, 0, 0, f, proc[c].session))
             p == [proc[c] EXCEPT !.at = "append", !.batches = b]
  <2>1. /\ "conflict" \in Kinds \ {"superseded", "retracted", "accepted"} /\ 0 \in Nat
        /\ 1 \in Nat /\ 1 >= 1
    BY DEF Kinds
  <2>2. f \in Tags /\ proc[c].session \in Sessions \cup {None}
    BY <1>2 DEF ProcSpace
  <2>3. Sets(s, b, 1)
    <3> DEFINE who == proc[c].session
    <3> HIDE DEF who, s
    <3>1. who \in Sessions \cup {None} /\ s \in Stores
      BY <1>2, <2>2 DEF who
    <3>2. Sets(s, One(Row("conflict", s, New, 0, 0, f, who)), 1)
      BY <2>1, <2>2, <3>1, OneSets
    <3> QED BY <3>2 DEF who
  <2>4. b \in Seq(Seq(RowSpace)) /\ b # <<>> /\ Sound(b, log[s]) /\ Minted(b, 1)
    BY <2>3 DEF Sets
  <2> HIDE DEF b
  <2>5. /\ p \in ProcSpace /\ p.at = "append" /\ p.store = s /\ p.batches = b
        /\ p.session = proc[c].session /\ p.seen = proc[c].seen /\ p.upto = proc[c].upto
    BY <1>2, <2>4 DEF ProcSpace, Stages
  <2>6. proc' = [proc EXCEPT ![c] = p]
    BY <1>3 DEF b, ProjectionTypes
  <2> HIDE DEF p
  <2>7. FactsInv'
    <3> HIDE DEF s
    <3> QED BY <1>1, <1>2, <1>3, <2>1, <2>4, <2>5, <2>6, BeginFacts
  <2>8. proc' \in [Commands -> ProcSpace] /\ minted' \in Nat
    <3>1. proc' \in [Commands -> ProcSpace]
      BY <2>5, <2>6 DEF ProjectionTypes
    <3>2. minted' \in Nat
      BY <1>3 DEF ProjectionTypes
    <3> QED BY <3>1, <3>2
  <2>9. Promotes(c)
    BY <2>5, <2>6 DEF Promotes
  <2> QED BY <1>1, <2>7, <2>8, <2>9 DEF ProjectionTypes, past
<1>4. ASSUME proc' = [proc EXCEPT ![c].at = "deliver"], UNCHANGED minted
      PROVE  FactsInv' /\ ProjectionTypes' /\ Promotes(c)
  <2> DEFINE p == [proc[c] EXCEPT !.at = "deliver"]
  <2>1. /\ p \in ProcSpace /\ p.at = "deliver" /\ p.store = s /\ p.batches = <<>>
        /\ p.session = proc[c].session /\ p.seen = proc[c].seen /\ p.upto = proc[c].upto
    BY <1>2 DEF ProcSpace, Stages
  <2>2. proc' = [proc EXCEPT ![c] = p]
    BY <1>4 DEF ProjectionTypes
  <2> HIDE DEF p
  <2>3. minted' \in Nat /\ minted <= minted'
    BY <1>4 DEF ProjectionTypes
  <2>4. FactsInv'
    <3> HIDE DEF s
    <3> QED BY <1>1, <1>2, <2>1, <2>2, <2>3, Lighter
  <2>5. proc' \in [Commands -> ProcSpace]
    BY <2>1, <2>2 DEF ProjectionTypes
  <2>6. Promotes(c)
    BY <2>1, <2>2 DEF Promotes
  <2> QED BY <1>1, <2>3, <2>4, <2>5, <2>6 DEF ProjectionTypes, past
<1> QED
  BY <1>3, <1>4 DEF Promote

LEMMA StopTypes ==
  ASSUME ProjectionTypes, FactsInv, NEW c \in Commands,
         Seed(c) \/ Deliver(c) \/ Kill(c)
  PROVE  FactsInv' /\ ProjectionTypes'
<1>1. proc' = [proc EXCEPT ![c] = Idle] /\ UNCHANGED <<log, tables, hub, minted, mix>>
  BY DEF Seed, Deliver, Kill, bounds
<1>2. FactsInv' /\ proc' \in [Commands -> ProcSpace]
  BY <1>1, StopFacts
<1>3. proc[c].seen \in SUBSET Nat
  BY DEF ProjectionTypes, ProcSpace
<1>4. CASE Seed(c)
  <2>1. Len(log[proc[c].store]) \in Nat
    BY <1>4, Sharing, SeqIs DEF Seed
  <2>2. mark' \in [Sessions -> Nat] /\ since' \in [Sessions -> Nat]
    BY <1>4, <2>1 DEF Seed, ProjectionTypes
  <2> QED BY <1>1, <1>2, <1>4, <2>2 DEF ProjectionTypes, Seed
<1>5. CASE Deliver(c)
  <2>1. shown' \in [Sessions -> SUBSET Nat]
    BY <1>3, <1>5 DEF Deliver, ProjectionTypes
  <2> QED BY <1>1, <1>2, <1>5, <2>1 DEF ProjectionTypes, Deliver
<1>6. CASE Kill(c)
  <2>1. passed' \in [Sessions -> SUBSET Nat]
    BY <1>3, <1>6 DEF Kill, ProjectionTypes
  <2> QED BY <1>1, <1>2, <1>6, <2>1 DEF ProjectionTypes, Kill
<1> QED BY <1>4, <1>5, <1>6

LEMMA DropTypes ==
  ASSUME ProjectionTypes, FactsInv, NEW x \in Sessions, DropMark(x)
  PROVE  FactsInv' /\ ProjectionTypes'
<1>1. mark' = [mark EXCEPT ![x] = 0] /\ UNCHANGED <<log, tables, hub, proc, minted, mix, past>>
  BY DEF DropMark, bounds
<1>2. LogsInv' /\ TablesInv'
  BY <1>1 DEF FactsInv, LogsInv, TablesInv
<1>3. Universe' = Universe
  BY Zenon, <1>1 DEF Universe
<1>4. IdsInv'
  BY <1>1, <1>3 DEF FactsInv, IdsInv
<1>5. \A c \in Commands : ProcOK(proc'[c], log'[proc'[c].store])
  BY <1>1 DEF FactsInv
<1>6. FactsInv'
  BY <1>2, <1>4, <1>5 DEF FactsInv
<1> QED BY <1>1, <1>6 DEF ProjectionTypes, past

\* The types, where a command starts, or takes or gives rows.
LEMMA StartTypes ==
  ASSUME ProjectionTypes, NEW c \in Commands, Starts(c), minted' \in Nat
  PROVE  ProjectionTypes'
<1>1. PICK p \in ProcSpace : proc' = [proc EXCEPT ![c] = p]
        /\ UNCHANGED <<log, tables, hub, mark, mix, past>>
  BY DEF Starts
<1> QED BY <1>1 DEF ProjectionTypes, past

LEMMA RowTypes ==
  ASSUME ProjectionTypes, FactsInv, NEW c \in Commands, NEW s \in Stores,
         AppendRows(c) \/ Write(c) \/ Push(s) \/ Pull(c, s)
  PROVE  FactsInv' /\ ProjectionTypes'
<1>1. CASE AppendRows(c)
  BY <1>1, AppendFacts DEF AppendRows, ProjectionTypes, bounds, past
<1>2. CASE Write(c)
  BY <1>2, WriteFacts DEF Write, ProjectionTypes, bounds, past
<1>3. CASE Push(s)
  BY <1>3, PushFacts DEF Push, ProjectionTypes, bounds, past
<1>4. CASE Pull(c, s)
  BY <1>4, PullFacts DEF Pull, ProjectionTypes, bounds, past
<1> QED BY <1>1, <1>2, <1>3, <1>4

------------------------------------------------------------------------------
(* What the watermarks have passed. *)

\* What is settled for a session stays settled, where the command that moves
\* keeps what it was about to show.
LEMMA SettledKept ==
  ASSUME ProjectionTypes, NEW c \in Commands, NEW p \in ProcSpace,
         proc' = [proc EXCEPT ![c] = p], NEW x \in Sessions,
         shown[x] \subseteq shown'[x], passed[x] \subseteq passed'[x],
         proc[c].session = x /\ proc[c].at # "advance" =>
           proc[c].seen \subseteq shown'[x] \cup passed'[x] \cup
             (IF p.session = x /\ p.at # "advance" THEN p.seen ELSE {})
  PROVE  Settled(x) \subseteq Settled(x)'
<1>1. proc'[c] = p /\ \A d \in Commands \ {c} : proc'[d] = proc[d]
  BY DEF ProjectionTypes
<1>2. /\ shown'[x] \subseteq Settled(x)' /\ passed'[x] \subseteq Settled(x)'
      /\ \A d \in Commands : proc'[d].session = x /\ proc'[d].at # "advance" =>
           proc'[d].seen \subseteq Settled(x)'
  BY DEF Settled
<1> SUFFICES ASSUME NEW i \in Settled(x) PROVE i \in Settled(x)'
  OBVIOUS
<1>3. CASE i \in shown[x] \cup passed[x]
  BY <1>2, <1>3
<1>4. ASSUME NEW d \in Commands, proc[d].session = x, proc[d].at # "advance", i \in proc[d].seen
      PROVE  i \in Settled(x)'
  <2>1. CASE d # c
    BY <1>1, <1>2, <1>4, <2>1
  <2>2. CASE d = c
    <3>1. \/ i \in shown'[x] \cup passed'[x]
          \/ p.session = x /\ p.at # "advance" /\ i \in p.seen
      BY <1>4, <2>2
    <3> QED BY <1>1, <1>2, <3>1
  <2> QED BY <2>1, <2>2
<1> QED
  BY <1>3, <1>4 DEF Settled

\* A hook that does not move keeps its promise, and so does a watermark.
LEMMA HookKept ==
  ASSUME ProjectionTypes, NEW c \in Commands, HookInv(c), proc[c].at = "idle" => proc[c] = Idle,
         proc[c].at # "idle" => proc[c].store \in Stores, proc'[c] = proc[c],
         log' \in [Stores -> Seq(RowSpace)], \A s \in Stores : Extends(log[s], log'[s]),
         \A x \in Sessions : Settled(x) \subseteq Settled(x)' /\ since'[x] \in Nat
           /\ (since'[x] = since[x] \/ since'[x] = Len(log[At[x]]))
  PROVE  HookInv(c)'
<1> DEFINE p == proc[c]
<1>1. /\ p.session # None => p.store = At[p.session]
      /\ p.at \in {"share", "advance", "promote", "deliver"} => p.session # None
      /\ p.session = None \/ p.upto = 0 \/ p.at = "share" => p.seen = {}
      /\ p.at = "advance" =>
           /\ p.upto <= Len(log[p.store])
           /\ \A i \in since[p.session] + 1 .. p.upto :
                Shareable(log[p.store][i], p.session) => i \in Settled(p.session) \cup p.seen
  BY DEF HookInv
<1>2. CASE p.at = "advance"
  <2>0. p.session \in Sessions /\ p.upto \in Nat /\ p.seen \in SUBSET Nat
    BY <1>1, <1>2 DEF ProjectionTypes, ProcSpace
  <2>1. PICK x \in Sessions, s \in Stores, n \in Nat, seen \in SUBSET Nat :
          x = p.session /\ s = p.store /\ n = p.upto /\ seen = p.seen
    BY <1>1, <1>2, <2>0
  <2> HIDE DEF p
  <2>2. /\ Len(log[s]) \in Nat /\ Len(log'[s]) \in Nat /\ Len(log[s]) <= Len(log'[s])
        /\ \A i \in 1 .. Len(log[s]) : log'[s][i] = log[s][i]
    BY SeqIs DEF ProjectionTypes, Extends
  <2>3. s = At[x] /\ n <= Len(log[s])
    BY <1>1, <1>2, <2>1
  <2>4. ASSUME NEW i \in since'[x] + 1 .. n, Shareable(log'[s][i], x)
        PROVE  i \in Settled(x)' \cup seen
    <3>1. since[x] \in Nat /\ since'[x] \in Nat
      BY DEF ProjectionTypes
    <3>2. since'[x] = since[x]
      BY <2>2, <2>3, <3>1
    <3>3. i \in 1 .. Len(log[s]) /\ i \in since[x] + 1 .. n
      BY <2>2, <2>3, <3>1, <3>2
    <3>4. log'[s][i] = log[s][i]
      BY <2>2, <3>3
    <3>5. Shareable(log[s][i], x)
      BY <2>4, <3>4
    <3>6. i \in Settled(x) \cup seen
      BY <1>1, <1>2, <2>1, <3>3, <3>5
    <3> QED BY <3>6
  <2>5. n <= Len(log'[s])
    BY <2>2, <2>3
  <2>6. proc'[c].session = x /\ proc'[c].store = s /\ proc'[c].upto = n /\ proc'[c].seen = seen
    BY <2>1 DEF p
  <2>7. \A i \in since'[proc'[c].session] + 1 .. proc'[c].upto :
          Shareable(log'[proc'[c].store][i], proc'[c].session) =>
            i \in Settled(proc[c].session)' \cup proc'[c].seen
    BY <2>4, <2>6
  <2>8. HookInv(c)' <=>
          /\ proc'[c].session # None => proc'[c].store = At[proc'[c].session]
          /\ proc'[c].at \in {"share", "advance", "promote", "deliver"} => proc'[c].session # None
          /\ proc'[c].session = None \/ proc'[c].upto = 0 \/ proc'[c].at = "share" => proc'[c].seen = {}
          /\ proc'[c].at = "advance" =>
               /\ proc'[c].upto <= Len(log'[proc'[c].store])
               /\ \A i \in since'[proc'[c].session] + 1 .. proc'[c].upto :
                    Shareable(log'[proc'[c].store][i], proc'[c].session) =>
                      i \in Settled(proc[c].session)' \cup proc'[c].seen
    BY Zenon DEF HookInv
  <2> QED BY <1>1, <2>5, <2>6, <2>7, <2>8 DEF p
<1>3. CASE p.at # "advance"
  BY <1>1, <1>3 DEF HookInv
<1> QED
  BY <1>2, <1>3

MarkOK(x) ==
  /\ mark[x] <= Len(log[At[x]])
  /\ \A i \in since[x] + 1 .. mark[x] :
       Shareable(log[At[x]][i], x) => i \in Settled(x)

LEMMA MarkKept ==
  ASSUME ProjectionTypes, NEW x \in Sessions, MarkOK(x),
         log' \in [Stores -> Seq(RowSpace)], \A s \in Stores : Extends(log[s], log'[s]),
         Settled(x) \subseteq Settled(x)', since'[x] = since[x], mark'[x] = mark[x]
  PROVE  MarkOK(x)'
<1>1. At[x] \in Stores
  BY ProjectionAssumption
<1>2. /\ Len(log[At[x]]) \in Nat /\ Len(log'[At[x]]) \in Nat
      /\ Len(log[At[x]]) <= Len(log'[At[x]])
      /\ \A i \in 1 .. Len(log[At[x]]) : log'[At[x]][i] = log[At[x]][i]
      /\ mark[x] \in Nat /\ since[x] \in Nat
  BY <1>1, SeqIs DEF ProjectionTypes, Extends
<1>3. mark'[x] <= Len(log'[At[x]])
  BY <1>2 DEF MarkOK
<1>4. ASSUME NEW i \in since'[x] + 1 .. mark'[x], Shareable(log'[At[x]][i], x)
      PROVE  i \in Settled(x)'
  <2>1. i \in since[x] + 1 .. mark[x] /\ i \in 1 .. Len(log[At[x]])
    BY <1>2 DEF MarkOK
  <2>2. log'[At[x]][i] = log[At[x]][i]
    BY <1>2, <2>1
  <2> QED BY <1>4, <2>1, <2>2 DEF MarkOK
<1> QED BY <1>3, <1>4 DEF MarkOK

LEMMA SharesAre ==
  SharesInv <=> (\A c \in Commands : HookInv(c)) /\ (\A x \in Sessions : MarkOK(x))
BY DEF SharesInv, MarkOK

\* A step that leaves the marks alone, of a command that does not compose.
LEMMA QuietStep ==
  ASSUME ProjectionTypes, FactsInv, SharesInv, NEW c \in Commands, NEW p \in ProcSpace,
         proc' = [proc EXCEPT ![c] = p], UNCHANGED <<mark, past>>,
         log' \in [Stores -> Seq(RowSpace)], \A s \in Stores : Extends(log[s], log'[s]),
         proc[c].at # "advance", p.at # "advance",
         proc[c].seen = {} \/ (p.session = proc[c].session /\ p.seen = proc[c].seen),
         p.session # None => p.store = At[p.session],
         p.at \in {"share", "promote", "deliver"} => p.session # None,
         p.session = None \/ p.upto = 0 \/ p.at = "share" => p.seen = {}
  PROVE  SharesInv'
<1>1. proc'[c] = p /\ \A d \in Commands \ {c} : proc'[d] = proc[d]
  BY DEF ProjectionTypes
<1>2. UNCHANGED <<mark, since, shown, passed>>
  BY DEF past
<1>3. \A x \in Sessions : Settled(x) \subseteq Settled(x)'
  BY <1>2, SettledKept
<1>4. HookInv(c)'
  BY <1>1 DEF HookInv
<1>5. ASSUME NEW d \in Commands, d # c PROVE HookInv(d)'
  <2>1. HookInv(d) /\ proc'[d] = proc[d]
    BY <1>1, <1>5 DEF SharesInv
  <2>2. ProcOK(proc[d], log[proc[d].store])
    BY DEF FactsInv
  <2>3. \A x \in Sessions : since'[x] \in Nat /\ since'[x] = since[x]
    BY <1>2 DEF ProjectionTypes
  <2> QED BY <1>3, <2>1, <2>2, <2>3, HookKept DEF ProcOK
<1>6. \A x \in Sessions : MarkOK(x)'
  BY <1>2, <1>3, MarkKept, SharesAre
<1>7. \A d \in Commands : HookInv(d)'
  BY <1>4, <1>5
<1> QED
  BY <1>6, <1>7 DEF SharesInv, MarkOK

\* A step of a hook in one store, which keeps what is settled.
LEMMA HookStep ==
  ASSUME ProjectionTypes, FactsInv, SharesInv, NEW c \in Commands, NEW p \in ProcSpace,
         proc' = [proc EXCEPT ![c] = p], log' = log, HookInv(c)',
         \A x \in Sessions : Settled(x) \subseteq Settled(x)' /\ since'[x] \in Nat
           /\ (since'[x] = since[x] \/ since'[x] = Len(log[At[x]])),
         \A x \in Sessions : MarkOK(x)' \/ (since'[x] = since[x] /\ mark'[x] = mark[x])
  PROVE  SharesInv'
<1>1. proc'[c] = p /\ \A d \in Commands \ {c} : proc'[d] = proc[d]
  BY DEF ProjectionTypes
<1>2. log' \in [Stores -> Seq(RowSpace)] /\ \A s \in Stores : Extends(log[s], log'[s])
  BY ExtendsItself DEF ProjectionTypes
<1>3. ASSUME NEW d \in Commands, d # c PROVE HookInv(d)'
  <2>1. HookInv(d) /\ proc'[d] = proc[d]
    BY <1>1, <1>3 DEF SharesInv
  <2>2. ProcOK(proc[d], log[proc[d].store])
    BY DEF FactsInv
  <2> QED BY <1>2, <2>1, <2>2, HookKept DEF ProcOK
<1>4. \A x \in Sessions : MarkOK(x)'
  BY <1>2, MarkKept, SharesAre
<1>5. \A d \in Commands : HookInv(d)'
  BY <1>3
<1> QED
  BY <1>4, <1>5 DEF SharesInv, MarkOK

LEMMA StartShares ==
  ASSUME ProjectionTypes, FactsInv, SharesInv, NEW c \in Commands, Starts(c)
  PROVE  SharesInv'
<1>1. PICK p \in ProcSpace :
        /\ proc[c] = Idle /\ proc' = [proc EXCEPT ![c] = p]
        /\ p.at \in {"append", "share"} /\ p.seen = {} /\ p.store \in Stores
        /\ p.session # None => p.store = At[p.session]
        /\ p.at = "share" => p.session # None
        /\ UNCHANGED <<log, tables, hub, mark, mix, past>>
  BY DEF Starts
<1>2. proc[c].seen = {} /\ proc[c].at = "idle"
  BY <1>1, IdleIs
<1>3. log' \in [Stores -> Seq(RowSpace)] /\ \A s \in Stores : Extends(log[s], log'[s])
  BY <1>1, ExtendsItself DEF ProjectionTypes
<1> QED BY <1>1, <1>2, <1>3, QuietStep

LEMMA RowShares ==
  ASSUME ProjectionTypes, FactsInv, SharesInv, NEW c \in Commands, NEW s \in Stores,
         AppendRows(c) \/ Write(c) \/ Pull(c, s)
  PROVE  SharesInv'
<1> DEFINE p == proc'[c]
<1>0. proc[c] \in ProcSpace /\ HookInv(c)
  BY DEF ProjectionTypes, SharesInv
<1>1. ASSUME UNCHANGED log
      PROVE  log' \in [Stores -> Seq(RowSpace)] /\ \A t \in Stores : Extends(log[t], log'[t])
  BY <1>1, ExtendsItself DEF ProjectionTypes
<1>2. CASE AppendRows(c)
  <2>1. /\ proc[c].at = "append" /\ UNCHANGED <<mark, past>>
        /\ proc' = [proc EXCEPT ![c].batches = Tail(@), ![c].at = "write",
                                ![c].folded = Len(log'[proc[c].store])]
    BY <1>2 DEF AppendRows
  <2>2. log' \in [Stores -> Seq(RowSpace)] /\ \A t \in Stores : Extends(log[t], log'[t])
        /\ proc' \in [Commands -> ProcSpace]
    BY <1>2, AppendFacts
  <2>3. /\ p.at = "write" /\ p.session = proc[c].session /\ p.seen = proc[c].seen
        /\ p.store = proc[c].store /\ p.upto = proc[c].upto
        /\ proc' = [proc EXCEPT ![c] = p]
    BY <2>1 DEF ProjectionTypes, ProcSpace
  <2>4. p \in ProcSpace
    BY <2>2
  <2>5. /\ p.session # None => p.store = At[p.session]
        /\ p.session = None \/ p.upto = 0 => p.seen = {}
    BY <1>0, <2>3 DEF HookInv
  <2> HIDE DEF p
  <2> QED BY <2>1, <2>2, <2>3, <2>4, <2>5, QuietStep
<1>3. CASE Write(c)
  <2>1. /\ proc[c].at = "write" /\ UNCHANGED <<log, mark, past>>
        /\ proc' = [proc EXCEPT ![c] =
             IF @.batches # <<>> THEN [@ EXCEPT !.at = "append", !.folded = 0]
             ELSE IF @.session = None THEN Idle
             ELSE [@ EXCEPT !.at = IF proc[c].upto > 0 THEN "deliver" ELSE "share",
                            !.folded = 0]]
    BY <1>3 DEF Write
  <2>2. proc' \in [Commands -> ProcSpace]
    BY <1>3, WriteFacts
  <2>3. p \in ProcSpace /\ proc' = [proc EXCEPT ![c] = p]
    BY <2>1, <2>2 DEF ProjectionTypes
  <2>4. /\ proc[c].session # None => proc[c].store = At[proc[c].session]
        /\ proc[c].session = None \/ proc[c].upto = 0 => proc[c].seen = {}
        /\ proc[c].upto \in Nat
    BY <1>0 DEF HookInv, ProcSpace
  <2>5. /\ p.at # "advance"
        /\ proc[c].seen = {} \/ (p.session = proc[c].session /\ p.seen = proc[c].seen)
        /\ p.session # None => p.store = At[p.session]
        /\ p.at \in {"share", "promote", "deliver"} => p.session # None
        /\ p.session = None \/ p.upto = 0 \/ p.at = "share" => p.seen = {}
    <3>1. CASE proc[c].batches # <<>>
      <4>1. /\ p.at = "append" /\ p.session = proc[c].session /\ p.store = proc[c].store
            /\ p.seen = proc[c].seen /\ p.upto = proc[c].upto
        BY <1>0, <2>1, <3>1 DEF ProjectionTypes, ProcSpace
      <4> HIDE DEF p
      <4> QED BY <2>4, <4>1
    <3>2. CASE proc[c].batches = <<>> /\ proc[c].session = None
      <4>1. p = Idle
        BY <2>1, <3>2 DEF ProjectionTypes
      <4> HIDE DEF p
      <4> QED BY <2>4, <3>2, <4>1, IdleIs
    <3>3. CASE proc[c].batches = <<>> /\ proc[c].session # None
      <4>1. /\ p.at = IF proc[c].upto > 0 THEN "deliver" ELSE "share"
            /\ p.session = proc[c].session /\ p.store = proc[c].store
            /\ p.seen = proc[c].seen /\ p.upto = proc[c].upto
        BY <1>0, <2>1, <3>3 DEF ProjectionTypes, ProcSpace
      <4> HIDE DEF p
      <4> QED BY <2>4, <3>3, <4>1
    <3> QED BY <3>1, <3>2, <3>3
  <2> HIDE DEF p
  <2> QED BY <1>1, <2>1, <2>3, <2>5, QuietStep
<1>4. CASE Pull(c, s)
  <2>1. /\ proc[c].at = "idle" /\ UNCHANGED <<log, mark, past>>
        /\ proc' = [proc EXCEPT ![c] = [Idle EXCEPT !.at = "append", !.store = s,
                                          !.batches = <<Missing(hub, log[s])>>]]
    BY <1>4 DEF Pull, Free
  <2>2. proc' \in [Commands -> ProcSpace]
    BY <1>4, PullFacts
  <2>3. p \in ProcSpace /\ proc' = [proc EXCEPT ![c] = p]
    BY <2>1, <2>2 DEF ProjectionTypes
  <2>4. p.at = "append" /\ p.seen = {} /\ p.session = None
    BY <2>1 DEF ProjectionTypes, Idle
  <2>5. proc[c].seen = {}
    BY <2>1, IdleIs DEF FactsInv, ProcOK
  <2> HIDE DEF p
  <2> QED BY <1>1, <2>1, <2>3, <2>4, <2>5, QuietStep
<1> QED BY <1>2, <1>3, <1>4

LEMMA PromoteShares ==
  ASSUME ProjectionTypes, FactsInv, SharesInv, NEW c \in Commands, Promote(c)
  PROVE  SharesInv'
<1>1. PICK p \in ProcSpace :
        /\ proc' = [proc EXCEPT ![c] = p]
        /\ p.at \in {"append", "deliver"} /\ p.store = proc[c].store
        /\ p.session = proc[c].session /\ p.seen = proc[c].seen /\ p.upto = proc[c].upto
  BY PromoteFacts DEF Promotes
<1>2. proc[c].at = "promote" /\ UNCHANGED <<log, mark, past>>
  BY DEF Promote
<1>3. log' \in [Stores -> Seq(RowSpace)] /\ \A s \in Stores : Extends(log[s], log'[s])
  BY <1>2, ExtendsItself DEF ProjectionTypes
<1>4. /\ p.session # None => p.store = At[p.session]
      /\ p.session # None
      /\ p.session = None \/ p.upto = 0 => p.seen = {}
  BY <1>1, <1>2 DEF SharesInv, HookInv
<1> QED BY <1>1, <1>2, <1>3, <1>4, QuietStep

\* Where rows go to the Hub nothing of the hooks moves.
LEMMA StillShares ==
  ASSUME ProjectionTypes, FactsInv, SharesInv, UNCHANGED <<log, mark, proc, past>>
  PROVE  SharesInv'
<1>1. \A x : Settled(x)' = Settled(x)
  BY DEF Settled, past
<1> QED BY <1>1 DEF SharesInv, HookInv, past

LEMMA DropShares ==
  ASSUME ProjectionTypes, FactsInv, SharesInv, NEW x \in Sessions, DropMark(x)
  PROVE  SharesInv'
<1>1. mark' = [mark EXCEPT ![x] = 0] /\ UNCHANGED <<log, proc, past>>
  BY DEF DropMark
<1>2. \A y : Settled(y)' = Settled(y)
  BY <1>1 DEF Settled, past
<1>3. \A c \in Commands : HookInv(c)'
  BY <1>1, <1>2 DEF SharesInv, HookInv, past
<1>4. ASSUME NEW y \in Sessions PROVE MarkOK(y)'
  <2>1. CASE y = x
    <3>1. mark'[x] = 0 /\ since'[x] \in Nat
      BY <1>1 DEF ProjectionTypes, past
    <3>2. Len(log[At[x]]) \in Nat
      BY ProjectionAssumption, SeqIs DEF ProjectionTypes
    <3> QED BY <1>1, <2>1, <3>1, <3>2 DEF MarkOK
  <2>2. CASE y # x
    <3>1. mark'[y] = mark[y] /\ since'[y] = since[y]
      BY <1>1, <2>2 DEF ProjectionTypes, past
    <3> QED BY <1>1, <1>2, <3>1 DEF SharesInv, MarkOK
  <2> QED BY <2>1, <2>2
<1> QED
  BY <1>3, <1>4 DEF SharesInv, MarkOK

\* The session of a hook that shares, and what is kept of it.
LEMMA SharingHook ==
  ASSUME ProjectionTypes, SharesInv, NEW c \in Commands,
         proc[c].at \in {"share", "advance", "promote", "deliver"}
  PROVE  /\ proc[c].session \in Sessions /\ proc[c].session # None
         /\ proc[c].store = At[proc[c].session]
         /\ proc[c].store \in Stores
         /\ Len(log[proc[c].store]) \in Nat
         /\ proc[c].seen \in SUBSET Nat /\ proc[c].upto \in Nat
         /\ mark[proc[c].session] \in Nat /\ since[proc[c].session] \in Nat
<1>1. proc[c] \in ProcSpace /\ HookInv(c)
  BY DEF ProjectionTypes, SharesInv
<1>2. /\ proc[c].session \in Sessions /\ proc[c].session # None
      /\ proc[c].store = At[proc[c].session]
      /\ proc[c].seen \in SUBSET Nat /\ proc[c].upto \in Nat
  BY <1>1 DEF HookInv, ProcSpace
<1>3. proc[c].store \in Stores
  BY <1>2, ProjectionAssumption
<1>4. Len(log[proc[c].store]) \in Nat
  BY <1>3, SeqIs DEF ProjectionTypes
<1> QED BY <1>2, <1>3, <1>4 DEF ProjectionTypes

LEMMA SeedShares ==
  ASSUME ProjectionTypes, FactsInv, SharesInv, NEW c \in Commands, Seed(c)
  PROVE  SharesInv'
<1> DEFINE x == proc[c].session
           n == Len(log[proc[c].store])
<1>1. /\ proc[c].at = "share" /\ mark' = [mark EXCEPT ![x] = n]
      /\ since' = [since EXCEPT ![x] = n] /\ proc' = [proc EXCEPT ![c] = Idle]
      /\ UNCHANGED <<log, shown, passed>>
  BY DEF Seed
<1>2. x \in Sessions /\ proc[c].store = At[x] /\ n \in Nat /\ n = Len(log[At[x]])
  BY <1>1, SharingHook
<1>3. proc[c].seen = {}
  BY <1>1 DEF SharesInv, HookInv
<1>4. \A y \in Sessions : Settled(y) \subseteq Settled(y)'
  BY <1>1, <1>3, IdleIs, SettledKept
<1> HIDE DEF x, n
<1>5. \A y \in Sessions : since'[y] \in Nat /\ (since'[y] = since[y] \/ since'[y] = Len(log[At[y]]))
  BY <1>1, <1>2 DEF ProjectionTypes
<1>6. ASSUME NEW y \in Sessions PROVE MarkOK(y)' \/ (since'[y] = since[y] /\ mark'[y] = mark[y])
  <2>1. CASE y = x
    <3>1. since'[x] = n /\ mark'[x] = n
      BY <1>1, <1>2 DEF ProjectionTypes
    <3>2. mark'[x] <= Len(log'[At[x]])
      BY <1>1, <1>2, <3>1
    <3>3. \A i \in since'[x] + 1 .. mark'[x] : FALSE
      BY <1>2, <3>1
    <3> QED BY <2>1, <3>2, <3>3 DEF MarkOK
  <2>2. CASE y # x
    BY <1>1, <2>2 DEF ProjectionTypes
  <2> QED BY <2>1, <2>2
<1>7. HookInv(c)'
  <2>1. proc'[c] = Idle
    BY <1>1 DEF ProjectionTypes
  <2> QED BY <2>1, IdleIs DEF HookInv
<1> QED
  BY <1>1, <1>4, <1>5, <1>6, <1>7, IdleIs, HookStep

LEMMA StopShares ==
  ASSUME ProjectionTypes, FactsInv, SharesInv, NEW c \in Commands,
         Deliver(c) \/ Kill(c)
  PROVE  SharesInv'
<1> DEFINE x == proc[c].session
<1>1. /\ proc' = [proc EXCEPT ![c] = Idle] /\ UNCHANGED <<log, mark, since>>
  BY DEF Deliver, Kill
<1>2. ASSUME NEW y \in Sessions
      PROVE  /\ shown[y] \subseteq shown'[y] /\ passed[y] \subseteq passed'[y]
             /\ x = y /\ proc[c].at # "advance" =>
                  proc[c].seen \subseteq shown'[y] \cup passed'[y]
  <2>1. CASE Deliver(c)
    <3>1. shown' = [shown EXCEPT ![x] = @ \cup proc[c].seen] /\ passed' = passed
      BY <2>1 DEF Deliver
    <3> HIDE DEF x
    <3> QED BY <3>1 DEF ProjectionTypes
  <2>2. CASE Kill(c)
    <3>1. /\ shown' = shown
          /\ passed' = IF x = None \/ proc[c].at = "advance" THEN passed
                       ELSE [passed EXCEPT ![x] = @ \cup proc[c].seen]
      BY <2>2 DEF Kill
    <3>2. y # None
      BY ProjectionAssumption
    <3> HIDE DEF x
    <3> QED BY <3>1, <3>2 DEF ProjectionTypes
  <2> QED BY <2>1, <2>2
<1>3. \A y \in Sessions : Settled(y) \subseteq Settled(y)'
  BY <1>1, <1>2, IdleIs, SettledKept
<1>4. \A y \in Sessions : since'[y] \in Nat /\ since'[y] = since[y] /\ mark'[y] = mark[y]
  BY <1>1 DEF ProjectionTypes
<1>5. HookInv(c)'
  <2>1. proc'[c] = Idle
    BY <1>1 DEF ProjectionTypes
  <2> QED BY <2>1, IdleIs DEF HookInv
<1> QED
  BY <1>1, <1>3, <1>4, <1>5, IdleIs, HookStep

LEMMA ComposeShares ==
  ASSUME ProjectionTypes, FactsInv, SharesInv, NEW c \in Commands, Compose(c)
  PROVE  SharesInv'
<1>1. proc[c].at = "share" /\ UNCHANGED <<log, mark, since, shown>>
  BY DEF Compose
<1>0. PICK x \in Sessions, s \in Stores : x = proc[c].session /\ s = proc[c].store
  BY <1>1, SharingHook
<1>2. x \in Sessions /\ x # None /\ s = At[x] /\ s \in Stores /\ Len(log[s]) \in Nat
      /\ mark[x] \in Nat /\ since[x] \in Nat
  BY <1>0, <1>1, SharingHook
<1>3. proc[c].seen = {}
  BY <1>1 DEF SharesInv, HookInv
<1>4. \A y \in Sessions : since'[y] \in Nat /\ since'[y] = since[y] /\ mark'[y] = mark[y]
  BY <1>1 DEF ProjectionTypes
<1>5. CASE proc' = [proc EXCEPT ![c] = Idle] /\ UNCHANGED passed
  <2>1. \A y \in Sessions : Settled(y) \subseteq Settled(y)'
    BY <1>1, <1>3, <1>5, IdleIs, SettledKept
  <2>2. HookInv(c)'
    <3>1. proc'[c] = Idle
      BY <1>5 DEF ProjectionTypes
    <3> QED BY <3>1, IdleIs DEF HookInv
  <2> QED BY <1>1, <1>4, <1>5, <2>1, <2>2, IdleIs, HookStep
<1>6. CASE Composes(c)
  <2>1. PICK seen \in SUBSET Nat, files \in SUBSET Tags :
          /\ seen \subseteq News(s, x)
          /\ proc' = [proc EXCEPT ![c] = [proc[c] EXCEPT !.at = "advance", !.seen = seen,
                                            !.upto = Len(log[s]), !.files = files]]
          /\ passed' = [passed EXCEPT ![x] = @ \cup (News(s, x) \ seen)]
    BY <1>0, <1>6 DEF Composes
  <2> DEFINE p == [proc[c] EXCEPT !.at = "advance", !.seen = seen,
                                  !.upto = Len(log[s]), !.files = files]
  <2>2. proc[c] \in ProcSpace
    BY DEF ProjectionTypes
  <2>3. /\ p \in ProcSpace /\ p.at = "advance" /\ p.seen = seen /\ p.upto = Len(log[s])
        /\ p.session = x /\ p.store = s
    BY <1>0, <1>2, <2>2 DEF ProcSpace, Stages
  <2>4. proc' = [proc EXCEPT ![c] = p]
    BY <2>1
  <2> HIDE DEF p
  <2>5. /\ passed'[x] = passed[x] \cup (News(s, x) \ seen)
        /\ \A y \in Sessions : passed[y] \subseteq passed'[y]
    BY <1>2, <2>1 DEF ProjectionTypes
  <2>6. \A y \in Sessions : Settled(y) \subseteq Settled(y)'
    BY <1>1, <1>3, <2>3, <2>4, <2>5, SettledKept
  <2>7. proc'[c] = p
    BY <2>4 DEF ProjectionTypes
  <2>8. ASSUME NEW i \in since[x] + 1 .. Len(log[s]), Shareable(log[s][i], x)
        PROVE  i \in Settled(x)' \cup seen
    <3>1. CASE i \in since[x] + 1 .. mark[x]
      <4>1. i \in Settled(x)
        BY <1>2, <2>8, <3>1 DEF SharesInv
      <4> QED BY <1>2, <2>6, <4>1
    <3>2. CASE i \notin since[x] + 1 .. mark[x]
      <4>1. i \in mark[x] + 1 .. Len(log[s])
        BY <1>2, <3>2
      <4>2. i \in News(s, x)
        BY <2>8, <4>1 DEF News
      <4>3. i \in seen \/ i \in passed'[x]
        BY <2>5, <4>2
      <4> QED BY <4>3 DEF Settled
    <3> QED BY <3>1, <3>2
  <2>9. HookInv(c)'
    <3>1. p.session # None /\ p.store = At[p.session] /\ p.upto <= Len(log'[p.store])
      BY <1>1, <1>2, <2>3
    <3>2. ~ (p.session = None \/ p.upto = 0 \/ p.at = "share") \/ p.seen = {}
      <4>1. CASE Len(log[s]) = 0
        <5>1. \A i \in mark[x] + 1 .. Len(log[s]) : FALSE
          BY <1>2, <4>1
        <5>2. News(s, x) = {}
          BY <5>1 DEF News
        <5> QED BY <2>1, <2>3, <5>2
      <4>2. CASE Len(log[s]) # 0
        BY <1>2, <2>3, <4>2
      <4> QED BY <4>1, <4>2
    <3>3. \A i \in since'[proc'[c].session] + 1 .. proc'[c].upto :
            Shareable(log'[proc'[c].store][i], proc'[c].session) =>
              i \in Settled(proc[c].session)' \cup proc'[c].seen
      BY <1>1, <2>3, <2>7, <2>8
    <3>4. HookInv(c)' <=>
            /\ proc'[c].session # None => proc'[c].store = At[proc'[c].session]
            /\ proc'[c].at \in {"share", "advance", "promote", "deliver"} => proc'[c].session # None
            /\ proc'[c].session = None \/ proc'[c].upto = 0 \/ proc'[c].at = "share" => proc'[c].seen = {}
            /\ proc'[c].at = "advance" =>
                 /\ proc'[c].upto <= Len(log'[proc'[c].store])
                 /\ \A i \in since'[proc'[c].session] + 1 .. proc'[c].upto :
                      Shareable(log'[proc'[c].store][i], proc'[c].session) =>
                        i \in Settled(proc[c].session)' \cup proc'[c].seen
      BY Zenon DEF HookInv
    <3> QED BY <2>3, <2>7, <3>1, <3>2, <3>3, <3>4
  <2> QED BY <1>1, <1>4, <2>3, <2>4, <2>6, <2>9, HookStep
<1> QED
  BY <1>0, <1>5, <1>6, ComposeFacts

LEMMA AdvanceShares ==
  ASSUME ProjectionTypes, FactsInv, SharesInv, NEW c \in Commands, Advance(c)
  PROVE  SharesInv'
<1> DEFINE p == proc'[c]
<1>1. proc[c].at = "advance" /\ UNCHANGED <<log, since, shown, passed>>
  BY DEF Advance, past
<1>0. PICK x \in Sessions, s \in Stores, n \in Nat :
        x = proc[c].session /\ s = proc[c].store /\ n = proc[c].upto
  BY <1>1, SharingHook
<1>2. x \in Sessions /\ x # None /\ s = At[x] /\ s \in Stores /\ n \in Nat
  BY <1>0, <1>1, SharingHook
<1>3. /\ mark' = [mark EXCEPT ![x] = n]
      /\ \/ proc[c].seen = {} /\ proc' = [proc EXCEPT ![c] = Idle]
         \/ proc' = [proc EXCEPT ![c] = [proc[c] EXCEPT !.at = "promote"]]
  BY <1>0, AdvanceFacts DEF Advances
<1>4. HookInv(c)
  BY DEF SharesInv
<1>5. /\ n <= Len(log[s])
      /\ n = 0 => proc[c].seen = {}
      /\ \A i \in since[x] + 1 .. n :
           Shareable(log[s][i], x) => i \in Settled(x) \cup proc[c].seen
  BY <1>0, <1>1, <1>2, <1>4 DEF HookInv
<1>6. /\ p \in ProcSpace /\ proc' = [proc EXCEPT ![c] = p]
      /\ \/ p = Idle /\ proc[c].seen = {}
         \/ /\ p.at = "promote" /\ p.session = x /\ p.seen = proc[c].seen
            /\ p.store = s /\ p.upto = n
  <2>1. proc[c] \in ProcSpace
    BY DEF ProjectionTypes
  <2>2. CASE proc[c].seen = {} /\ proc' = [proc EXCEPT ![c] = Idle]
    BY <2>2, IdleIs DEF ProjectionTypes
  <2>3. CASE proc' = [proc EXCEPT ![c] = [proc[c] EXCEPT !.at = "promote"]]
    BY <1>0, <2>1, <2>3 DEF ProjectionTypes, ProcSpace, Stages
  <2> QED BY <1>3, <2>2, <2>3
<1> HIDE DEF p
<1>7. \A y \in Sessions : Settled(y) \subseteq Settled(y)'
  BY <1>0, <1>1, <1>6, SettledKept
<1>8. proc[c].seen \subseteq Settled(x)'
  <2>1. CASE p = Idle /\ proc[c].seen = {}
    BY <2>1
  <2>2. CASE p.at = "promote" /\ p.session = x /\ p.seen = proc[c].seen
    BY <2>2 DEF Settled, p
  <2> QED BY <1>6, <2>1, <2>2
<1>9. HookInv(c)'
  <2>1. CASE p = Idle
    BY <2>1, IdleIs DEF HookInv, p
  <2>2. CASE p # Idle
    <3>1. p.at = "promote" /\ p.session = x /\ p.seen = proc[c].seen /\ p.store = s /\ p.upto = n
      BY <1>6, <2>2
    <3> QED BY <1>2, <1>5, <3>1 DEF HookInv, p
  <2> QED BY <2>1, <2>2
<1>10. ASSUME NEW y \in Sessions PROVE MarkOK(y)' \/ (since'[y] = since[y] /\ mark'[y] = mark[y])
  <2>1. CASE y = x
    <3>1. mark'[x] = n
      BY <1>2, <1>3 DEF ProjectionTypes
    <3>2. ASSUME NEW i \in since'[x] + 1 .. mark'[x], Shareable(log'[At[x]][i], x)
          PROVE  i \in Settled(x)'
      <4>1. i \in since[x] + 1 .. n /\ Shareable(log[s][i], x)
        BY <1>1, <1>2, <3>1, <3>2
      <4>2. i \in Settled(x) \cup proc[c].seen
        BY <1>5, <4>1
      <4> QED BY <1>2, <1>7, <1>8, <4>2
    <3>3. mark'[x] <= Len(log'[At[x]])
      BY <1>1, <1>2, <1>5, <3>1
    <3> QED BY <2>1, <3>2, <3>3 DEF MarkOK
  <2>2. CASE y # x
    BY <1>1, <1>3, <2>2 DEF ProjectionTypes
  <2> QED BY <2>1, <2>2
<1>11. \A y \in Sessions : since'[y] \in Nat /\ since'[y] = since[y]
  BY <1>1 DEF ProjectionTypes
<1> QED
  BY <1>1, <1>6, <1>7, <1>9, <1>10, <1>11, HookStep

------------------------------------------------------------------------------
(* Every step keeps the invariant. *)

LEMMA CommandStep ==
  ASSUME ProjectionInv, NEW c \in Commands, FactsInv', Starts(c), minted' \in Nat
  PROVE  ProjectionInv'
BY StartTypes, StartShares DEF ProjectionInv

LEMMA ProjectionStep ==
  ASSUME ProjectionInv, [ProjectionNext]_projectionVars
  PROVE  ProjectionInv'
<1>0. ProjectionTypes /\ FactsInv /\ SharesInv
  BY DEF ProjectionInv
<1>s. mix.stores \subseteq Stores
  BY <1>0, ProjectionAssumption DEF ProjectionTypes
<1>1. ASSUME NEW c \in Commands, NEW s \in mix.stores,
             \/ CreateTask(c, s) \/ StartTask(c, s) \/ DoneTask(c, s) \/ CancelTask(c, s)
             \/ Handoff(c, s) \/ AppendItems(c, s) \/ Checkpoint(c, s)
      PROVE  ProjectionInv'
  BY <1>0, <1>s, <1>1, TaskCommands, CommandStep
<1>2. ASSUME NEW c \in Commands, NEW s \in mix.stores,
             RequestTask(c, s) \/ Accept(c, s) \/ Decline(c, s)
      PROVE  ProjectionInv'
  BY <1>0, <1>s, <1>2, RequestCommands, CommandStep
<1>3. ASSUME NEW c \in Commands, NEW s \in mix.stores,
             RecordDecision(c, s) \/ SupersedeDecision(c, s) \/ ResolveConflict(c, s)
      PROVE  ProjectionInv'
  BY <1>0, <1>s, <1>3, DecisionCommands, CommandStep
<1>4. ASSUME NEW c \in Commands, NEW s \in mix.stores,
             Consolidate(c, s) \/ DetectContradictions(c, s)
      PROVE  ProjectionInv'
  BY <1>0, <1>s, <1>4, MemoryCommands, CommandStep
<1>5. ASSUME NEW c \in Commands, NEW s \in mix.stores,
             RetractMemory(c, s) \/ RevertSession(c, s)
      PROVE  ProjectionInv'
  BY <1>0, <1>s, <1>5, RetractCommands, CommandStep
<1>6. ASSUME NEW c \in Commands, NEW x \in Sessions, Hook(c, x) PROVE ProjectionInv'
  BY <1>0, <1>6, HookFacts, CommandStep
<1>7. ASSUME NEW c \in Commands, AppendRows(c) PROVE ProjectionInv'
  <2>1. proc[c].store \in Stores
    BY <1>0, <1>7 DEF AppendRows, FactsInv, ProcOK
  <2> QED BY <1>0, <1>7, <2>1, RowTypes, RowShares DEF ProjectionInv
<1>8. ASSUME NEW c \in Commands, Write(c) PROVE ProjectionInv'
  <2>1. proc[c].store \in Stores
    BY <1>0, <1>8 DEF Write, FactsInv, ProcOK
  <2> QED BY <1>0, <1>8, <2>1, RowTypes, RowShares DEF ProjectionInv
<1>9. ASSUME NEW c \in Commands, Seed(c) PROVE ProjectionInv'
  BY <1>0, <1>9, StopTypes, SeedShares DEF ProjectionInv
<1>10. ASSUME NEW c \in Commands, Compose(c) PROVE ProjectionInv'
  <2>1. proc[c].session \in Sessions
    BY <1>0, <1>10, SharingHook DEF Compose
  <2> QED BY <1>0, <1>10, <2>1, ComposeFacts, ComposeShares DEF ProjectionInv
<1>11. ASSUME NEW c \in Commands, Advance(c) PROVE ProjectionInv'
  BY <1>0, <1>11, AdvanceFacts, AdvanceShares DEF ProjectionInv
<1>12. ASSUME NEW c \in Commands, Promote(c) PROVE ProjectionInv'
  BY <1>0, <1>12, PromoteFacts, PromoteShares DEF ProjectionInv
<1>13. ASSUME NEW c \in Commands, Deliver(c) PROVE ProjectionInv'
  BY <1>0, <1>13, StopTypes, StopShares DEF ProjectionInv
<1>14. ASSUME NEW x \in Sessions, DropMark(x) PROVE ProjectionInv'
  BY <1>0, <1>14, DropTypes, DropShares DEF ProjectionInv
<1>15. ASSUME NEW s \in mix.stores, Push(s) PROVE ProjectionInv'
  <2>1. FactsInv' /\ hub' \in Seq(RowSpace)
    BY <1>0, <1>s, <1>15, PushFacts
  <2>2. UNCHANGED <<log, tables, mark, proc, minted, bounds, past>>
    BY <1>15 DEF Push
  <2>3. ProjectionTypes'
    BY <1>0, <2>1, <2>2 DEF ProjectionTypes, bounds, past
  <2>4. SharesInv'
    BY <1>0, <2>2, StillShares
  <2> QED BY <2>1, <2>3, <2>4 DEF ProjectionInv
<1>16. ASSUME NEW c \in Commands, NEW s \in mix.stores, Pull(c, s) PROVE ProjectionInv'
  BY <1>0, <1>s, <1>16, RowTypes, RowShares DEF ProjectionInv
<1>17. ASSUME NEW c \in Commands, Kill(c) PROVE ProjectionInv'
  BY <1>0, <1>17, StopTypes, StopShares DEF ProjectionInv
<1>18. CASE UNCHANGED projectionVars
  <2>1. UNCHANGED <<log, tables, hub, mark, proc, minted, mix, past>>
    BY <1>18 DEF projectionVars, bounds
  <2>2. SharesInv'
    BY <1>0, <2>1, StillShares
  <2>3. ProjectionTypes'
    BY <1>0, <2>1 DEF ProjectionTypes, past
  <2>4. Universe' = Universe
    BY Zenon, <2>1 DEF Universe
  <2>5. FactsInv'
    BY <1>0, <2>1, <2>4 DEF FactsInv, LogsInv, IdsInv, TablesInv
  <2> QED BY <2>2, <2>3, <2>5 DEF ProjectionInv
<1> QED
  BY <1>1, <1>2, <1>3, <1>4, <1>5, <1>6, <1>7, <1>8, <1>9, <1>10, <1>11, <1>12, <1>13,
     <1>14, <1>15, <1>16, <1>17, <1>18 DEF ProjectionNext

------------------------------------------------------------------------------
(* The first state. *)

LEMMA PlainFirm ==
  ASSUME NEW rows, \A k \in DOMAIN rows : Plain(rows[k]), NEW R
  PROVE  Firm(rows, R)
BY PlainGrounded DEF Firm

LEMMA PlainSeq ==
  ASSUME NEW rows, \A r \in ToSet(rows) : Plain(r), NEW R
  PROVE  Firm(rows, R)
BY PlainFirm DEF ToSet

LEMMA JoinIs ==
  ASSUME NEW S, NEW a \in Seq(S), NEW b \in Seq(S)
  PROVE  /\ a \o b \in Seq(S) /\ ToSet(a \o b) = ToSet(a) \cup ToSet(b)
         /\ IsInjective(a) /\ IsInjective(b) /\ ToSet(a) \cap ToSet(b) = {}
              => IsInjective(a \o b)
<1>1. /\ a \o b \in Seq(S) /\ ToSet(a \o b) = ToSet(a) \cup ToSet(b)
      /\ Firm(a, {}) /\ Firm(b, {} \cup ToSet(a)) => Firm(a \o b, {})
      /\ IsInjective(a) /\ IsInjective(b) /\ ToSet(a) \cap ToSet(b) = {}
           => IsInjective(a \o b)
  BY ConcatIs, ZenonT(60)
<1> QED BY <1>1

LEMMA GenesisIs ==
  ASSUME NEW p \in Projects
  PROVE  /\ Genesis(p) \in RowSpace /\ Genesis(p).kind = "genesis" /\ Genesis(p).proj = p
         /\ Genesis(p).id = 0
         /\ Legacy(p) \in RowSpace /\ Legacy(p).kind = "memory" /\ Legacy(p).proj = p
         /\ Legacy(p).id = 1
<1>1. Origin(p) \in Stores /\ HomeOf[Origin(p)] = p
  BY DEF Projects, Origin
<1>2. p \in Tags /\ None \in Tags /\ None \in Sessions \cup {None}
  BY TagsAre
<1>3. "genesis" \in Kinds /\ "memory" \in Kinds
  BY DEF Kinds
<1>4. /\ Genesis(p) \in RowSpace /\ Genesis(p).kind = "genesis" /\ Genesis(p).proj = p
      /\ Genesis(p).id = 0
  BY <1>1, <1>2, <1>3 DEF Genesis, Row, RowSpace
<1>5. /\ Legacy(p) \in RowSpace /\ Legacy(p).kind = "memory" /\ Legacy(p).proj = p
      /\ Legacy(p).id = 1
  BY <1>1, <1>2, <1>3 DEF Legacy, Row, RowSpace
<1> QED BY <1>4, <1>5

Old(P) == IF mix.drafts = <<>> THEN P \cap {Aged} ELSE {}

LEMMA StartIs ==
  ASSUME NEW P \in SUBSET Projects
  PROVE  /\ Start(P) \in Seq(RowSpace) /\ IsInjective(Start(P))
         /\ ToSet(Start(P)) = {Genesis(p) : p \in P} \cup {Legacy(p) : p \in Old(P)}
<1> DEFINE G == {Genesis(p) : p \in P}
           L == {Legacy(p) : p \in Old(P)}
<1>1. IsFiniteSet(P) /\ Old(P) \subseteq P
  BY ProjectsAre, FS_Subset DEF Old
<1>2. IsFiniteSet(Old(P))
  BY <1>1, FS_Subset
<1>3. IsFiniteSet(G)
  <2> DEFINE f == [p \in P |-> Genesis(p)]
  <2>1. f \in Surjection(P, G)
    BY DEF Surjection
  <2> QED BY <1>1, <2>1, FS_Surjection
<1>4. IsFiniteSet(L)
  <2> DEFINE f == [p \in Old(P) |-> Legacy(p)]
  <2>1. f \in Surjection(Old(P), L)
    BY DEF Surjection
  <2> QED BY <1>2, <2>1, FS_Surjection
<1>5. /\ \A r \in G : r \in RowSpace /\ r.kind = "genesis"
      /\ \A r \in L : r \in RowSpace /\ r.kind = "memory"
  BY <1>1, GenesisIs
<1> HIDE DEF G, L
<1>6. /\ SetToSeq(G) \in Seq(G) /\ IsInjective(SetToSeq(G)) /\ ToSet(SetToSeq(G)) = G
      /\ SetToSeq(L) \in Seq(L) /\ IsInjective(SetToSeq(L)) /\ ToSet(SetToSeq(L)) = L
  BY <1>3, <1>4, SeqOfSet
<1>7. SetToSeq(G) \in Seq(RowSpace) /\ SetToSeq(L) \in Seq(RowSpace)
  <2>1. G \subseteq RowSpace /\ L \subseteq RowSpace
    BY <1>5
  <2>2. \A T \in SUBSET RowSpace : \A q \in Seq(T) : q \in Seq(RowSpace)
    OBVIOUS
  <2> QED BY <1>6, <2>1, <2>2
<1>8. G \cap L = {}
  BY <1>5
<1>9. Start(P) = SetToSeq(G) \o SetToSeq(L)
  BY DEF Start, G, L, Old
<1>10. /\ Start(P) \in Seq(RowSpace) /\ IsInjective(Start(P)) /\ ToSet(Start(P)) = G \cup L
  BY <1>6, <1>7, <1>8, <1>9, JoinIs
<1> QED BY <1>10 DEF G, L

LEMMA DraftsAre ==
  ASSUME mix \in Mixes, NEW s \in Stores
  PROVE  /\ SetToSeq(Drafts(s)) \in Seq(RowSpace) /\ IsInjective(SetToSeq(Drafts(s)))
         /\ ToSet(SetToSeq(Drafts(s))) = Drafts(s)
         /\ \A r \in Drafts(s) :
              /\ r \in RowSpace /\ r.kind = "memory" /\ mix.drafts # <<>>
              /\ \E k \in DOMAIN mix.drafts :
                   /\ r.id = k + 1 /\ mix.drafts[k] = s
                   /\ r = Row("memory", s, k + 1, 0, 0, None, None)
<1> DEFINE K == {d \in DOMAIN mix.drafts : mix.drafts[d] = s}
           D == Drafts(s)
<1>1. mix.drafts \in Seq(Stores)
  BY ProjectionAssumption
<1>2. Len(mix.drafts) \in Nat /\ DOMAIN mix.drafts = 1 .. Len(mix.drafts)
  BY <1>1, SeqIs
<1>3. IsFiniteSet(K)
  <2>1. IsFiniteSet(1 .. Len(mix.drafts))
    BY <1>2, FS_Interval
  <2>2. K \subseteq 1 .. Len(mix.drafts)
    BY <1>2
  <2> QED BY <2>1, <2>2, FS_Subset
<1>4. D = {Row("memory", s, k + 1, 0, 0, None, None) : k \in K}
  BY DEF Drafts
<1>5. IsFiniteSet(D)
  <2> DEFINE f == [k \in K |-> Row("memory", s, k + 1, 0, 0, None, None)]
  <2> HIDE DEF K, D
  <2>1. f \in Surjection(K, D)
    BY <1>4 DEF Surjection
  <2> QED BY <1>3, <2>1, FS_Surjection
<1>6. ASSUME NEW k \in K
      PROVE  LET r == Row("memory", s, k + 1, 0, 0, None, None) IN
             r \in RowSpace /\ r.kind = "memory" /\ r.id = k + 1
  <2>1. k + 1 \in Nat /\ k + 1 # 0
    BY <1>2
  <2>2. "memory" \in Kinds /\ 0 \in Nat /\ None \in Tags /\ None \in Sessions \cup {None}
    BY TagsAre DEF Kinds
  <2> QED BY <2>1, <2>2, RowIs
<1>7. \A k \in K : k \in DOMAIN mix.drafts /\ mix.drafts[k] = s
  OBVIOUS
<1>8. \A k \in K : mix.drafts # <<>>
  BY <1>2
<1> HIDE DEF K, D
<1>9. ASSUME NEW r \in D
      PROVE  /\ r \in RowSpace /\ r.kind = "memory" /\ mix.drafts # <<>>
             /\ \E k \in DOMAIN mix.drafts :
                  /\ r.id = k + 1 /\ mix.drafts[k] = s
                  /\ r = Row("memory", s, k + 1, 0, 0, None, None)
  <2>1. PICK k \in K : r = Row("memory", s, k + 1, 0, 0, None, None)
    BY <1>4
  <2> QED BY <1>6, <1>7, <1>8, <2>1
<1>10. SetToSeq(D) \in Seq(D) /\ IsInjective(SetToSeq(D)) /\ ToSet(SetToSeq(D)) = D
  BY <1>5, SeqOfSet
<1>11. SetToSeq(D) \in Seq(RowSpace)
  <2>1. D \subseteq RowSpace
    BY <1>9
  <2>2. \A T \in SUBSET RowSpace : \A q \in Seq(T) : q \in Seq(RowSpace)
    OBVIOUS
  <2> QED BY <1>10, <2>1, <2>2
<1> QED BY <1>9, <1>10, <1>11 DEF D

\* A row of the first state: a genesis, a memory of before provenance, or a
\* draft.
First(r) ==
  \/ \E p \in Projects : r = Genesis(p)
  \/ \E p \in Old(Projects) : r = Legacy(p)
  \/ \E s \in Stores : r \in Drafts(s)

\* Two of them that have the same id, not 0, are one.
LEMMA FirstIs ==
  ASSUME mix \in Mixes, NEW r, First(r)
  PROVE  /\ r \in RowSpace /\ Plain(r)
         /\ r.id <= 1 + Len(mix.drafts) /\ Len(mix.drafts) \in Nat
         /\ \A q : First(q) /\ r.id = q.id /\ r.id # 0 => r = q
<1>0. Len(mix.drafts) \in Nat /\ DOMAIN mix.drafts = 1 .. Len(mix.drafts)
  <2>1. mix.drafts \in Seq(Stores)
    BY ProjectionAssumption
  <2> QED BY <2>1, SeqIs
<1>1. ASSUME NEW q, First(q)
      PROVE  \/ q.id = 0 /\ q \in RowSpace /\ q.kind = "genesis"
             \/ /\ q.id = 1 /\ q = Legacy(Aged) /\ q \in RowSpace /\ q.kind = "memory"
                /\ mix.drafts = <<>>
             \/ /\ q \in RowSpace /\ q.kind = "memory"
                /\ \E k \in DOMAIN mix.drafts :
                     q.id = k + 1 /\ q = Row("memory", mix.drafts[k], k + 1, 0, 0, None, None)
  <2>1. CASE \E p \in Projects : q = Genesis(p)
    BY <2>1, GenesisIs
  <2>2. CASE \E p \in Old(Projects) : q = Legacy(p)
    <3>1. PICK p \in Old(Projects) : q = Legacy(p)
      BY <2>2
    <3>2. p \in Projects /\ p = Aged /\ mix.drafts = <<>>
      BY DEF Old
    <3> QED BY <3>1, <3>2, GenesisIs
  <2>3. CASE \E s \in Stores : q \in Drafts(s)
    BY <2>3, DraftsAre
  <2> QED BY <1>1, <2>1, <2>2, <2>3 DEF First
<1>2. r \in RowSpace /\ Plain(r)
  BY <1>1 DEF Plain
<1>3. r.id <= 1 + Len(mix.drafts)
  <2>1. \A k \in DOMAIN mix.drafts : k + 1 <= 1 + Len(mix.drafts)
    BY <1>0
  <2> QED BY <1>0, <1>1, <2>1
<1>4. ASSUME NEW q, First(q), r.id = q.id, r.id # 0 PROVE r = q
  <2>1. CASE mix.drafts = <<>>
    <3>1. DOMAIN mix.drafts = {}
      BY <2>1
    <3> QED BY <1>1, <1>4, <3>1
  <2>2. CASE mix.drafts # <<>>
    <3>1. PICK k \in DOMAIN mix.drafts :
            r.id = k + 1 /\ r = Row("memory", mix.drafts[k], k + 1, 0, 0, None, None)
      BY <1>1, <1>4, <2>2
    <3>2. PICK l \in DOMAIN mix.drafts :
            q.id = l + 1 /\ q = Row("memory", mix.drafts[l], l + 1, 0, 0, None, None)
      BY <1>1, <1>4, <2>2
    <3>3. k = l
      <4>1. k \in Int /\ l \in Int
        BY <1>0
      <4>2. k + 1 = l + 1
        BY <1>4, <3>1, <3>2
      <4> QED BY <4>1, <4>2
    <3> QED BY <3>1, <3>2, <3>3
  <2> QED BY <2>1, <2>2
<1> QED BY <1>0, <1>2, <1>3, <1>4

LEMMA FirstLog ==
  ASSUME ProjectionInit, NEW s \in Stores
  PROVE  /\ log[s] \in Seq(RowSpace) /\ IsInjective(log[s]) /\ Firm(log[s], {})
         /\ \A r \in ToSet(log[s]) : First(r)
         /\ \A p \in Projects : Genesis(p) \in ToSet(log[s])
<1> DEFINE h == HomeOf[s]
           a == Start({h})
           b == Start(Projects \ {h})
           d == SetToSeq(Drafts(s))
<1>1. mix \in Mixes /\ log[s] = a \o b \o d
  BY DEF ProjectionInit
<1>2. {h} \in SUBSET Projects /\ Projects \ {h} \in SUBSET Projects
  BY ProjectsAre
<1>3. /\ a \in Seq(RowSpace) /\ IsInjective(a)
      /\ ToSet(a) = {Genesis(p) : p \in {h}} \cup {Legacy(p) : p \in Old({h})}
      /\ b \in Seq(RowSpace) /\ IsInjective(b)
      /\ ToSet(b) = {Genesis(p) : p \in Projects \ {h}} \cup {Legacy(p) : p \in Old(Projects \ {h})}
  BY <1>2, StartIs
<1>4. /\ d \in Seq(RowSpace) /\ IsInjective(d) /\ ToSet(d) = Drafts(s)
  BY <1>1, DraftsAre
<1>5. \A P \in SUBSET Projects : Old(P) \subseteq P /\ Old(P) \subseteq Old(Projects)
  BY DEF Old
<1>6. \A r \in ToSet(a) : First(r) /\ r.proj = h /\ r.id \in {0, 1} /\ (r.id = 1 => mix.drafts = <<>>)
  <2>1. \A p \in Old({h}) : p \in Old(Projects) /\ p = h /\ mix.drafts = <<>>
    BY <1>2, <1>5 DEF Old
  <2>2. \A p \in {h} : /\ First(Genesis(p)) /\ Genesis(p).proj = h /\ Genesis(p).id \in {0, 1}
                          /\ (Genesis(p).id = 1 => mix.drafts = <<>>)
    BY <1>2, GenesisIs DEF First
  <2>3. \A p \in Old({h}) :
          /\ First(Legacy(p)) /\ Legacy(p).proj = h /\ Legacy(p).id \in {0, 1}
          /\ (Legacy(p).id = 1 => mix.drafts = <<>>)
    BY <1>2, <2>1, GenesisIs DEF First
  <2> SUFFICES ASSUME NEW r \in ToSet(a)
               PROVE  First(r) /\ r.proj = h /\ r.id \in {0, 1} /\ (r.id = 1 => mix.drafts = <<>>)
    OBVIOUS
  <2>4. \/ \E p \in {h} : r = Genesis(p)
        \/ \E p \in Old({h}) : r = Legacy(p)
    <3>1. r \in {Genesis(p) : p \in {h}} \cup {Legacy(p) : p \in Old({h})}
      BY <1>3
    <3> QED BY <3>1
  <2>5. CASE \E p \in {h} : r = Genesis(p)
    BY Zenon, <2>2, <2>5
  <2>6. CASE \E p \in Old({h}) : r = Legacy(p)
    <3>1. PICK p \in Old({h}) : r = Legacy(p)
      BY <2>6
    <3>2. /\ First(Legacy(p)) /\ Legacy(p).proj = h /\ Legacy(p).id \in {0, 1}
          /\ (Legacy(p).id = 1 => mix.drafts = <<>>)
      BY <2>3
    <3> QED BY Zenon, <3>1, <3>2
  <2> QED BY <2>4, <2>5, <2>6
<1>7. \A r \in ToSet(b) : First(r) /\ r.proj # h /\ r.id \in {0, 1} /\ (r.id = 1 => mix.drafts = <<>>)
  <2>1. \A p \in Old(Projects \ {h}) : p \in Old(Projects) /\ p \in Projects \ {h} /\ mix.drafts = <<>>
    BY <1>2, <1>5 DEF Old
  <2>2. \A p \in Projects \ {h} :
          /\ First(Genesis(p)) /\ Genesis(p).proj # h /\ Genesis(p).id \in {0, 1}
          /\ (Genesis(p).id = 1 => mix.drafts = <<>>)
    BY <1>2, GenesisIs DEF First
  <2>3. \A p \in Old(Projects \ {h}) :
          /\ First(Legacy(p)) /\ Legacy(p).proj # h /\ Legacy(p).id \in {0, 1}
          /\ (Legacy(p).id = 1 => mix.drafts = <<>>)
    BY <1>2, <2>1, GenesisIs DEF First
  <2> SUFFICES ASSUME NEW r \in ToSet(b)
               PROVE  First(r) /\ r.proj # h /\ r.id \in {0, 1} /\ (r.id = 1 => mix.drafts = <<>>)
    OBVIOUS
  <2>4. \/ \E p \in Projects \ {h} : r = Genesis(p)
        \/ \E p \in Old(Projects \ {h}) : r = Legacy(p)
    <3>1. r \in {Genesis(p) : p \in Projects \ {h}} \cup {Legacy(p) : p \in Old(Projects \ {h})}
      BY <1>3
    <3> QED BY <3>1
  <2>5. CASE \E p \in Projects \ {h} : r = Genesis(p)
    BY Zenon, <2>2, <2>5
  <2>6. CASE \E p \in Old(Projects \ {h}) : r = Legacy(p)
    BY Zenon, <2>3, <2>6
  <2> QED BY <2>4, <2>5, <2>6
<1>8. \A r \in ToSet(d) : First(r) /\ r.id \notin {0, 1}
  <2>1. \A r \in Drafts(s) : First(r)
    BY DEF First
  <2>2. mix.drafts \in Seq(Stores)
    BY <1>1, ProjectionAssumption
  <2>3. \A k \in DOMAIN mix.drafts : k + 1 \notin {0, 1}
    BY <2>2, SeqIs
  <2> QED BY <1>1, <1>4, <2>1, <2>3, DraftsAre
<1> HIDE DEF a, b, d
<1>9. ToSet(a) \cap ToSet(b) = {}
  BY <1>6, <1>7
<1>10. a \o b \in Seq(RowSpace) /\ IsInjective(a \o b) /\ ToSet(a \o b) = ToSet(a) \cup ToSet(b)
  BY <1>3, <1>9, JoinIs, ZenonT(60)
<1>11. ToSet(a \o b) \cap ToSet(d) = {}
  BY <1>6, <1>7, <1>8, <1>10
<1> DEFINE e == a \o b
<1> HIDE DEF e
<1>e. e \in Seq(RowSpace) /\ IsInjective(e) /\ ToSet(e) = ToSet(a) \cup ToSet(b) /\ ToSet(e) \cap ToSet(d) = {}
  BY <1>10, <1>11 DEF e
<1>f. e \o d \in Seq(RowSpace) /\ IsInjective(e \o d) /\ ToSet(e \o d) = ToSet(e) \cup ToSet(d)
  BY <1>4, <1>e, JoinIs
<1>12. /\ (a \o b) \o d \in Seq(RowSpace) /\ IsInjective((a \o b) \o d)
       /\ ToSet((a \o b) \o d) = ToSet(a) \cup ToSet(b) \cup ToSet(d)
  BY <1>e, <1>f DEF e
<1>13. \A r \in ToSet(log[s]) : First(r)
  BY <1>1, <1>6, <1>7, <1>8, <1>12
<1>14. Firm(log[s], {})
  BY <1>1, <1>13, FirstIs, PlainSeq
<1>15. \A p \in Projects : Genesis(p) \in ToSet(log[s])
  BY <1>1, <1>3, <1>12
<1> QED BY <1>1, <1>12, <1>13, <1>14, <1>15

LEMMA ProjectionFirst ==
  ASSUME ProjectionInit
  PROVE  ProjectionInv
<1>1. /\ mix \in Mixes /\ hub = Start(Projects) /\ minted = 1 + Len(mix.drafts)
      /\ tables = [s \in Stores |-> Len(log[s])]
      /\ mark = [x \in Sessions |-> 0] /\ proc = [c \in Commands |-> Idle]
      /\ since = [x \in Sessions |-> 0] /\ shown = [x \in Sessions |-> {}]
      /\ passed = [x \in Sessions |-> {}]
  BY DEF ProjectionInit
<1>2. /\ \A s \in Stores : log[s] \in Seq(RowSpace) /\ IsInjective(log[s]) /\ Firm(log[s], {})
      /\ \A s \in Stores : \A r \in ToSet(log[s]) : First(r)
      /\ \A s \in Stores : \A p \in Projects : Genesis(p) \in ToSet(log[s])
  BY FirstLog
<1>3. hub \in Seq(RowSpace) /\ IsInjective(hub) /\ \A r \in ToSet(hub) : First(r)
  <2>1. Projects \in SUBSET Projects
    OBVIOUS
  <2> QED BY <1>1, <2>1, StartIs DEF First
<1>4. Firm(hub, {})
  BY <1>1, <1>3, FirstIs, PlainSeq
<1>5. minted \in Nat
  <2>1. mix.drafts \in Seq(Stores)
    BY <1>1, ProjectionAssumption
  <2> QED BY <1>1, <2>1
<1>6. ProjectionTypes
  <2>1. log \in [Stores -> Seq(RowSpace)]
    <3>1. log = [s \in Stores |-> log[s]]
      BY DEF ProjectionInit
    <3> QED BY <1>2, <3>1
  <2>2. tables \in [Stores -> Nat]
    BY <1>1, <1>2, SeqIs
  <2>3. proc \in [Commands -> ProcSpace]
    BY <1>1, IdleIs
  <2>4. /\ mark \in [Sessions -> Nat] /\ since \in [Sessions -> Nat]
        /\ shown \in [Sessions -> SUBSET Nat] /\ passed \in [Sessions -> SUBSET Nat]
    BY <1>1
  <2> QED BY <1>1, <1>3, <1>5, <2>1, <2>2, <2>3, <2>4 DEF ProjectionTypes
<1>7. LogsInv
  BY <1>2, <1>3, <1>4 DEF LogsInv
<1>8. \A c \in Commands : proc[c] = Idle /\ RowsOf(proc[c].batches) = {}
  BY <1>1, IdleIs, NothingHeld
<1>9. \A r \in Universe : First(r)
  <2>1. ASSUME NEW r \in Universe
        PROVE  \/ \E s \in Stores : r \in ToSet(log[s])
               \/ r \in ToSet(hub)
               \/ \E c \in Commands : r \in RowsOf(proc[c].batches)
    BY Zenon DEF Universe
  <2> QED BY <1>2, <1>3, <1>8, <2>1
<1>10. IdsInv
  BY <1>1, <1>9, FirstIs DEF IdsInv
<1>11. TablesInv
  <2> SUFFICES ASSUME NEW s \in Stores
               PROVE  tables[s] <= Len(log[s]) /\ Whole(log[s], tables[s])
    BY DEF TablesInv
  <2>1. tables[s] = Len(log[s]) /\ Len(log[s]) \in Nat /\ DOMAIN log[s] = 1 .. Len(log[s])
    BY <1>1, <1>2, SeqIs
  <2>2. ASSUME NEW p \in Projects
        PROVE  \E i \in 1 .. tables[s] : log[s][i].kind = "genesis" /\ log[s][i].proj = p
    <3>1. PICK i \in DOMAIN log[s] : log[s][i] = Genesis(p)
      BY <1>2 DEF ToSet
    <3> QED BY <2>1, <3>1, GenesisIs
  <2> QED BY <2>1, <2>2 DEF Whole
<1>12. \A c \in Commands : ProcOK(proc[c], log[proc[c].store])
  BY <1>8, IdleIs, NothingHeld DEF ProcOK
<1>13. FactsInv
  BY <1>7, <1>10, <1>11, <1>12 DEF FactsInv
<1>14. SharesInv
  <2>1. \A c \in Commands : HookInv(c)
    BY <1>8, IdleIs DEF HookInv
  <2>2. ASSUME NEW x \in Sessions
        PROVE  mark[x] <= Len(log[At[x]]) /\ mark[x] = 0 /\ since[x] = 0
    <3>1. At[x] \in Stores
      BY ProjectionAssumption
    <3>2. Len(log[At[x]]) \in Nat
      BY <1>2, <3>1, SeqIs
    <3> QED BY <1>1, <3>2
  <2> QED BY <2>1, <2>2 DEF SharesInv
<1> QED
  BY <1>6, <1>13, <1>14 DEF ProjectionInv

------------------------------------------------------------------------------
(* What the logs say, as sets of rows. *)

LEMMA LogIs ==
  ASSUME ProjectionInv, NEW s \in Stores
  PROVE  /\ log[s] \in Seq(RowSpace) /\ Len(log[s]) \in Nat
         /\ DOMAIN log[s] = 1 .. Len(log[s])
         /\ ToSet(log[s]) = {log[s][k] : k \in DOMAIN log[s]}
         /\ \A k \in DOMAIN log[s] :
              /\ log[s][k] \in RowSpace /\ log[s][k].id \in Nat
              /\ log[s][k].id <= minted /\ minted \in Nat
              /\ Lane(log[s], HomeOf[s], k) = log[s][k].proj
              /\ Grounded(log[s][k], {log[s][l] : l \in 1 .. k - 1})
         /\ \A i, j \in DOMAIN log[s] :
              log[s][i].id = log[s][j].id /\ log[s][i].kind # "genesis" => i = j
<1>0. ProjectionTypes /\ FactsInv
  BY DEF ProjectionInv
<1>1. /\ log[s] \in Seq(RowSpace) /\ minted \in Nat /\ tables[s] \in Nat
      /\ tables[s] <= Len(log[s]) /\ Whole(log[s], tables[s]) /\ Firm(log[s], {})
  BY <1>0 DEF ProjectionTypes, FactsInv, TablesInv, LogsInv
<1>2. Len(log[s]) \in Nat /\ DOMAIN log[s] = 1 .. Len(log[s])
      /\ \A k \in DOMAIN log[s] : log[s][k] \in RowSpace
  BY <1>1, SeqIs
<1>3. ToSet(log[s]) = {log[s][k] : k \in DOMAIN log[s]}
  BY DEF ToSet
<1>4. ASSUME NEW k \in DOMAIN log[s]
      PROVE  /\ log[s][k].id \in Nat /\ log[s][k].id <= minted
             /\ Lane(log[s], HomeOf[s], k) = log[s][k].proj
             /\ Grounded(log[s][k], {log[s][l] : l \in 1 .. k - 1})
  <2>1. log[s][k].id \in Nat
    BY <1>2, FieldsOf
  <2>2. log[s][k].id <= minted
    BY <1>0, <1>3, UniverseIs DEF FactsInv, IdsInv
  <2>3. Lane(log[s], HomeOf[s], k) = log[s][k].proj
    BY <1>1, LaneIs
  <2>4. Grounded(log[s][k], {} \cup {log[s][l] : l \in 1 .. k - 1})
    BY <1>1 DEF Firm
  <2>5. {} \cup {log[s][l] : l \in 1 .. k - 1} = {log[s][l] : l \in 1 .. k - 1}
    OBVIOUS
  <2> QED BY <2>1, <2>2, <2>3, <2>4, <2>5
<1>5. \A i, j \in DOMAIN log[s] :
        log[s][i].id = log[s][j].id /\ log[s][i].kind # "genesis" => i = j
  BY <1>0, DistinctIds
<1> QED BY <1>1, <1>2, <1>3, <1>4, <1>5

Closing(q, r) ==
  /\ q.ref = r.id
  /\ \/ q.kind = "superseded"
     \/ q.kind = "retracted" /\ (q.proj = r.proj \/ q.tag = "owner")

Stands(r, R) == r.kind = "memory" /\ \A q \in R : ~ Closing(q, r)

Prevails(r, R) ==
  /\ Stands(r, R)
  /\ \A q \in R : Stands(q, R) =>
       ~ (r.to # 0 /\ r.to = q.to /\ r.proj = q.proj /\ q.id < r.id)

\* A row that closes a memory comes after it, in every log.
LEMMA StandingIs ==
  ASSUME ProjectionInv, NEW s \in Stores, NEW i \in DOMAIN log[s]
  PROVE  i \in Standing(log[s], HomeOf[s]) <=> Stands(log[s][i], ToSet(log[s]))
<1> DEFINE L == log[s]
<1>1. /\ DOMAIN L = 1 .. Len(L) /\ Len(L) \in Nat
      /\ ToSet(L) = {L[k] : k \in DOMAIN L}
      /\ \A k \in DOMAIN L : /\ Lane(L, HomeOf[s], k) = L[k].proj
                             /\ Grounded(L[k], {L[l] : l \in 1 .. k - 1})
      /\ \A k, l \in DOMAIN L : L[k].id = L[l].id /\ L[k].kind # "genesis" => k = l
  BY LogIs
<1> HIDE DEF L
<1>2. ASSUME L[i].kind = "memory", NEW k \in DOMAIN L, L[k].ref = L[i].id,
             L[k].kind \in {"superseded", "retracted"}
      PROVE  k > i
  <2>1. \E q \in {L[l] : l \in 1 .. k - 1} : q.kind = "memory" /\ q.id = L[k].ref
    BY <1>1, <1>2 DEF Grounded
  <2>2. PICK l \in 1 .. k - 1 : L[l].kind = "memory" /\ L[l].id = L[k].ref
    BY <2>1
  <2>3. l \in DOMAIN L /\ l < k
    BY <1>1, <2>2
  <2>4. l = i
    BY <1>1, <1>2, <2>2, <2>3 DEF L
  <2> QED BY <1>1, <2>3, <2>4 DEF L
<1>3. i \in Standing(L, HomeOf[s]) <=>
        L[i].kind = "memory" /\ ~ Superseded(L, i) /\ ~ Retracted(L, HomeOf[s], i)
  BY DEF Standing, Rows, L
<1>4. ASSUME L[i].kind = "memory", Superseded(L, i) \/ Retracted(L, HomeOf[s], i)
      PROVE  \E q \in ToSet(L) : Closing(q, L[i])
  <2>1. CASE Superseded(L, i)
    <3>1. PICK k \in DOMAIN L : L[k].kind \in {"superseded"} /\ L[k].ref = L[i].id
      BY <2>1 DEF Superseded, About
    <3> QED BY <1>1, <3>1 DEF Closing
  <2>2. CASE Retracted(L, HomeOf[s], i)
    <3>1. PICK k \in DOMAIN L :
            /\ L[k].kind \in {"retracted"} /\ L[k].ref = L[i].id
            /\ Lane(L, HomeOf[s], k) = Lane(L, HomeOf[s], i) \/ L[k].tag = "owner"
      BY <2>2 DEF Retracted, About
    <3>2. Lane(L, HomeOf[s], k) = L[k].proj /\ Lane(L, HomeOf[s], i) = L[i].proj
      BY <1>1 DEF L
    <3> QED BY <1>1, <3>1, <3>2 DEF Closing
  <2> QED BY <1>4, <2>1, <2>2
<1>5. ASSUME L[i].kind = "memory", NEW q \in ToSet(L), Closing(q, L[i])
      PROVE  Superseded(L, i) \/ Retracted(L, HomeOf[s], i)
  <2>1. PICK k \in DOMAIN L : q = L[k]
    BY <1>1
  <2>2. L[k].ref = L[i].id /\ k > i
    BY <1>2, <1>5, <2>1 DEF Closing
  <2>3. CASE L[k].kind = "superseded"
    <3>1. k \in About(L, i, {"superseded"})
      BY <2>2, <2>3 DEF About
    <3> QED BY <3>1 DEF Superseded
  <2>4. CASE L[k].kind = "retracted" /\ (L[k].proj = L[i].proj \/ L[k].tag = "owner")
    <3>1. k \in About(L, i, {"retracted"})
      BY <2>2, <2>4 DEF About
    <3>2. Lane(L, HomeOf[s], k) = L[k].proj /\ Lane(L, HomeOf[s], i) = L[i].proj
      BY <1>1 DEF L
    <3> QED BY <2>4, <3>1, <3>2 DEF Retracted
  <2> QED BY <1>5, <2>1, <2>3, <2>4 DEF Closing
<1>6. i \in Standing(L, HomeOf[s]) <=> Stands(L[i], ToSet(L))
  BY <1>3, <1>4, <1>5 DEF Stands
<1> QED BY <1>6 DEF L

LEMMA ValidIs ==
  ASSUME ProjectionInv, NEW s \in Stores, NEW i \in DOMAIN log[s]
  PROVE  i \in Valid(log[s], HomeOf[s]) <=> Prevails(log[s][i], ToSet(log[s]))
<1> DEFINE L == log[s]
           h == HomeOf[s]
<1>1. /\ ToSet(L) = {L[k] : k \in DOMAIN L}
      /\ \A k \in DOMAIN L : Lane(L, h, k) = L[k].proj
      /\ \A k \in DOMAIN L : k \in Standing(L, h) <=> Stands(L[k], ToSet(L))
  BY LogIs, StandingIs
<1>2. Standing(L, h) \subseteq DOMAIN L
  BY DEF Standing, Rows
<1>3. \A j \in DOMAIN L : Loses(L, h, i, j) <=>
        (L[i].to # 0 /\ L[i].to = L[j].to /\ L[i].proj = L[j].proj /\ L[j].id < L[i].id)
  BY <1>1 DEF Loses, Twins, Before
<1>4. i \in Valid(L, h) <=> i \in Standing(L, h) /\ \A j \in Standing(L, h) : ~ Loses(L, h, i, j)
  BY DEF Valid
<1>5. i \in DOMAIN L
  OBVIOUS
<1> HIDE DEF L, h
<1>6. ASSUME i \in Valid(L, h) PROVE Prevails(L[i], ToSet(L))
  <2>1. Stands(L[i], ToSet(L))
    BY <1>1, <1>4, <1>5, <1>6
  <2>2. ASSUME NEW q \in ToSet(L), Stands(q, ToSet(L))
        PROVE  ~ (L[i].to # 0 /\ L[i].to = q.to /\ L[i].proj = q.proj /\ q.id < L[i].id)
    <3>1. PICK j \in DOMAIN L : q = L[j]
      BY <1>1
    <3>2. j \in Standing(L, h)
      BY <1>1, <2>2, <3>1
    <3> QED BY <1>3, <1>4, <1>6, <3>1, <3>2
  <2> QED BY <2>1, <2>2 DEF Prevails
<1>7. ASSUME Prevails(L[i], ToSet(L)) PROVE i \in Valid(L, h)
  <2>1. i \in Standing(L, h)
    BY <1>1, <1>5, <1>7 DEF Prevails
  <2>2. ASSUME NEW j \in Standing(L, h) PROVE ~ Loses(L, h, i, j)
    <3>1. j \in DOMAIN L /\ L[j] \in ToSet(L) /\ Stands(L[j], ToSet(L))
      BY <1>1, <1>2
    <3> QED BY <1>3, <1>7, <3>1 DEF Prevails
  <2> QED BY <1>4, <2>1, <2>2
<1> QED BY <1>6, <1>7 DEF L, h

LEMMA Converging ==
  ASSUME ProjectionInv PROVE ValidityConverges
<1>1. ASSUME NEW s \in Stores, NEW t \in Stores, ToSet(log[s]) = ToSet(log[t])
      PROVE  ValidIds(s) \subseteq ValidIds(t)
  <2> SUFFICES ASSUME NEW i \in Valid(log[s], HomeOf[s])
               PROVE  \E j \in Valid(log[t], HomeOf[t]) : log[t][j].id = log[s][i].id
    BY DEF ValidIds
  <2>1. i \in DOMAIN log[s]
    BY DEF Valid, Standing, Rows
  <2>2. Prevails(log[s][i], ToSet(log[s])) /\ log[s][i] \in ToSet(log[s])
    BY <2>1, ValidIs DEF ToSet
  <2>3. PICK j \in DOMAIN log[t] : log[t][j] = log[s][i]
    BY <1>1, <2>2 DEF ToSet
  <2>4. Prevails(log[t][j], ToSet(log[t]))
    BY <1>1, <2>2, <2>3
  <2>5. j \in Valid(log[t], HomeOf[t])
    BY <2>4, ValidIs
  <2> QED BY <2>3, <2>5
<1> QED
  BY <1>1 DEF ValidityConverges

\* A finite set of places of a log has one of the least id, and one of the
\* greatest.
LEMMA ExtremeIds ==
  ASSUME ProjectionInv, NEW s \in Stores, NEW S \in SUBSET DOMAIN log[s], S # {},
         \A k \in S : log[s][k].kind # "genesis"
  PROVE  /\ \E i \in S : \A j \in S : ~ (log[s][j].id < log[s][i].id)
         /\ \E i \in S : \A j \in S : ~ (log[s][i].id < log[s][j].id)
<1> DEFINE I == {log[s][k].id : k \in S}
<1>1. \A k \in S : log[s][k].id \in Nat /\ log[s][k].id <= minted /\ minted \in Nat
                     /\ log[s][k] \in RowSpace
  BY LogIs
<1>2. \A k \in S : log[s][k].id # 0
  BY <1>1, FieldsOf
<1>3. minted \in Nat
  BY <1>1
<1>4. I \in SUBSET (1 .. minted) /\ I # {}
  BY <1>1, <1>2, <1>3
<1>5. /\ \E a \in I : \A b \in I : a <= b
      /\ \E a \in I : \A b \in I : b <= a
  <2> HIDE DEF I
  <2> QED BY <1>3, <1>4, Extremes
<1>6. \E i \in S : \A j \in S : ~ (log[s][j].id < log[s][i].id)
  <2>1. PICK a \in I : \A b \in I : a <= b
    BY <1>5
  <2>2. PICK i \in S : a = log[s][i].id
    OBVIOUS
  <2>3. \A j \in S : log[s][i].id <= log[s][j].id
    BY <2>1, <2>2
  <2> QED BY <1>1, <2>3
<1>7. \E i \in S : \A j \in S : ~ (log[s][i].id < log[s][j].id)
  <2>1. PICK a \in I : \A b \in I : b <= a
    BY <1>5
  <2>2. PICK i \in S : a = log[s][i].id
    OBVIOUS
  <2>3. \A j \in S : log[s][j].id <= log[s][i].id
    BY <2>1, <2>2
  <2> QED BY <1>1, <2>3
<1> QED BY <1>6, <1>7

LEMMA TruthHolds ==
  ASSUME ProjectionInv PROVE TruthStands
<1> SUFFICES ASSUME NEW s \in Stores, Rows(log[s], "retracted") = {},
                    NEW i \in Rows(log[s], "memory")
             PROVE  \E j \in Valid(log[s], HomeOf[s]) :
                      Lane(log[s], HomeOf[s], j) = Lane(log[s], HomeOf[s], i)
  BY DEF TruthStands
<1> DEFINE L == log[s]
           M == {k \in DOMAIN L : L[k].kind = "memory" /\ L[k].proj = L[i].proj}
           N == {k \in M : Stands(L[k], ToSet(L))}
<1>1. /\ DOMAIN L = 1 .. Len(L) /\ Len(L) \in Nat
      /\ ToSet(L) = {L[k] : k \in DOMAIN L}
      /\ \A k \in DOMAIN L : /\ Lane(L, HomeOf[s], k) = L[k].proj
                             /\ Grounded(L[k], {L[l] : l \in 1 .. k - 1})
      /\ \A k, l \in DOMAIN L : L[k].id = L[l].id /\ L[k].kind # "genesis" => k = l
  BY LogIs
<1>2. i \in M /\ M \subseteq DOMAIN L /\ \A k \in M : L[k].kind = "memory"
  BY DEF Rows
<1>3. PICK m \in M : \A j \in M : ~ (L[m].id < L[j].id)
  <2>1. M \in SUBSET DOMAIN log[s] /\ M # {} /\ \A k \in M : log[s][k].kind # "genesis"
    BY <1>2
  <2> QED BY <2>1, ExtremeIds
<1>4. m \in N
  <2> SUFFICES ASSUME NEW q \in ToSet(L), Closing(q, L[m]) PROVE FALSE
    BY DEF Stands
  <2>1. PICK k \in DOMAIN L : q = L[k]
    BY <1>1
  <2>2. L[k].kind # "retracted"
    BY DEF Rows
  <2>3. L[k].kind = "superseded" /\ L[k].ref = L[m].id
    BY <2>1, <2>2 DEF Closing
  <2>4. PICK old \in {L[l] : l \in 1 .. k - 1}, new \in {L[l] : l \in 1 .. k - 1} :
          /\ old.kind = "memory" /\ old.id = L[k].ref /\ new.kind = "memory"
          /\ old.proj = new.proj /\ old.id < new.id
    <3>1. Grounded(L[k], {L[l] : l \in 1 .. k - 1})
      BY <1>1
    <3> HIDE DEF L
    <3> QED BY <2>3, <3>1 DEF Grounded
  <2>5. PICK a \in 1 .. k - 1, b \in 1 .. k - 1 : old = L[a] /\ new = L[b]
    BY <2>4
  <2>6. a \in DOMAIN L /\ b \in DOMAIN L
    BY <1>1, SMTT(40)
  <2>7. a = m
    BY <1>1, <1>2, <2>3, <2>4, <2>5, <2>6, ZenonT(60)
  <2>8. b \in M
    BY <2>4, <2>5, <2>6, <2>7
  <2> QED BY <1>3, <2>4, <2>5, <2>7, <2>8
<1>5. PICK n \in N : \A j \in N : ~ (L[j].id < L[n].id)
  <2>1. N \in SUBSET DOMAIN log[s] /\ N # {} /\ \A k \in N : log[s][k].kind # "genesis"
    BY <1>2, <1>4
  <2> QED BY <2>1, ExtremeIds
<1>6. n \in DOMAIN L /\ L[n].proj = L[i].proj /\ Stands(L[n], ToSet(L))
  OBVIOUS
<1>7. Prevails(L[n], ToSet(L))
  <2> SUFFICES ASSUME NEW q \in ToSet(L), Stands(q, ToSet(L)), L[n].proj = q.proj, q.id < L[n].id
               PROVE  FALSE
    BY <1>6 DEF Prevails
  <2>1. PICK k \in DOMAIN L : q = L[k]
    BY <1>1
  <2>2. k \in N
    BY <1>6, <2>1 DEF Stands
  <2> QED BY <1>5, <2>1, <2>2
<1>8. n \in Valid(L, HomeOf[s])
  BY <1>6, <1>7, ValidIs
<1> QED BY <1>1, <1>2, <1>6, <1>8

LEMMA Backing ==
  ASSUME ProjectionInv PROVE RequestBacked
<1> SUFFICES ASSUME NEW s \in Stores, NEW r \in Ids(log[s], "request"),
                    RequestStatus(log[s], r) = "accepted"
             PROVE  \E i \in Rows(log[s], "task") :
                      /\ log[s][i].id = ResolvedBy(log[s], r)
                      /\ Lane(log[s], HomeOf[s], i) = log[s][Find(log[s], "request", r)].tag
  BY DEF RequestBacked
<1> DEFINE L == log[s]
           f == Find(L, "request", r)
           A == Answers(L, f)
           last == Latest(A)
<1>1. /\ DOMAIN L = 1 .. Len(L) /\ Len(L) \in Nat
      /\ \A k \in DOMAIN L : /\ Lane(L, HomeOf[s], k) = L[k].proj
                             /\ Grounded(L[k], {L[l] : l \in 1 .. k - 1})
      /\ \A k, l \in DOMAIN L : L[k].id = L[l].id /\ L[k].kind # "genesis" => k = l
  BY LogIs
<1>2. f \in DOMAIN L /\ L[f].kind = "request" /\ L[f].id = r
  BY FindIs
<1>3. A # {} /\ L[last].kind = "accepted" /\ ResolvedBy(L, r) = L[last].to
  BY DEF RequestStatus, ResolvedBy
<1>4. A \in SUBSET (1 .. Len(L))
  BY <1>1 DEF Answers, About
<1>5. last \in A
  <2>1. \E i \in A : \A j \in A : j <= i
    <3> HIDE DEF A, L
    <3> QED BY <1>1, <1>3, <1>4, Extremes
  <2> HIDE DEF A
  <2> QED BY <2>1 DEF Latest
<1>6. last \in DOMAIN L /\ L[last].ref = L[f].id
  BY <1>5 DEF Answers, About
<1> HIDE DEF L, f, A, last
<1>7. PICK t \in {L[l] : l \in 1 .. last - 1}, q \in {L[l] : l \in 1 .. last - 1} :
        /\ t.kind = "task" /\ t.id = L[last].to
        /\ q.kind = "request" /\ q.id = L[last].ref /\ q.tag = t.proj
  <2>1. Grounded(L[last], {L[l] : l \in 1 .. last - 1})
    BY <1>1, <1>6
  <2> QED BY <1>3, <2>1 DEF Grounded
<1>8. PICK i \in 1 .. last - 1, j \in 1 .. last - 1 : t = L[i] /\ q = L[j]
  BY <1>7
<1>9. i \in DOMAIN L /\ j \in DOMAIN L
  BY <1>1, <1>6
<1>10. j = f
  BY <1>1, <1>2, <1>6, <1>7, <1>8, <1>9
<1>11. i \in Rows(L, "task") /\ L[i].id = ResolvedBy(L, r)
  BY <1>3, <1>7, <1>8, <1>9 DEF Rows
<1>12. Lane(L, HomeOf[s], i) = L[f].tag
  BY <1>1, <1>7, <1>8, <1>9, <1>10
<1> QED BY <1>11, <1>12 DEF L, f

LEMMA Sharings ==
  ASSUME ProjectionInv PROVE ShareComplete
<1> SUFFICES ASSUME NEW x \in Sessions, NEW i \in since[x] + 1 .. mark[x],
                    Shareable(log[At[x]][i], x)
             PROVE  i \in shown[x] \cup passed[x] \cup
                           UNION {proc[c].seen : c \in {d \in Commands : proc[d].session = x}}
  BY DEF ShareComplete
<1>1. i \in Settled(x)
  BY DEF ProjectionInv, SharesInv
<1> QED BY <1>1 DEF Settled

------------------------------------------------------------------------------
(* The theorems. *)

\* The inductive invariant of the commands.
THEOREM ProjectionCorrect == ProjectionSpec => []ProjectionInv
<1>1. ProjectionInit => ProjectionInv
  BY ProjectionFirst
<1>2. ProjectionInv /\ [ProjectionNext]_projectionVars => ProjectionInv'
  BY ProjectionStep
<1> QED BY <1>1, <1>2, PTL DEF ProjectionSpec

\* Replicas that hold the same rows, in whatever order these came, agree on the
\* valid memories (reduceProjectState, laneOf).
THEOREM ReplicasAgree == ProjectionSpec => []ValidityConverges
<1>1. ProjectionInv => ValidityConverges
  BY Converging
<1> QED BY <1>1, ProjectionCorrect, PTL

\* Deduplication and supersession leave each project with a valid memory,
\* whoever runs them and in whatever order their rows come together
\* (dedupMemories, consolidate, detectContradictions).
THEOREM SomeMemoryStands == ProjectionSpec => []TruthStands
<1>1. ProjectionInv => TruthStands
  BY TruthHolds
<1> QED BY <1>1, ProjectionCorrect, PTL

\* Wherever an accepted request shows, its task shows too (acceptTaskRequest).
THEOREM AcceptanceBacked == ProjectionSpec => []RequestBacked
<1>1. ProjectionInv => RequestBacked
  BY Backing
<1> QED BY <1>1, ProjectionCorrect, PTL

\* No memory or observation is passed by the watermark of a session unseen,
\* other than by a limit or a kill (composeLiveUpdate).
THEOREM NothingUnseen == ProjectionSpec => []ShareComplete
<1>1. ProjectionInv => ShareComplete
  BY Sharings
<1> QED BY <1>1, ProjectionCorrect, PTL

=============================================================================
