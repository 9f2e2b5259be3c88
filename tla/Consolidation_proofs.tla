------------------------ MODULE Consolidation_proofs ------------------------
(***************************************************************************)
(* Proofs about Consolidation: for any number of observations, processes,  *)
(* turns and faults, no boundary ever skips an observation or a turn.      *)
(*                                                                         *)
(* NothingSkipped alone is not inductive: a boundary writes marks it read  *)
(* long before, while others captured, distilled and were killed.          *)
(* DistillInv adds what the locals of a boundary know (RunSound), and that *)
(* the sources of stored memories were distilled, which the dedup guard    *)
(* relies on.  Every step keeps the log, what was distilled and what was   *)
(* told (Kept), so a fact about rows behind a mark survives it.            *)
(*                                                                         *)
(* OnceInv, the second inductive invariant, is about the opposite mistake: *)
(* no boundary repeats what an earlier one stored, unless one was killed   *)
(* or its lock stolen.                                                     *)
(***************************************************************************)
EXTENDS Consolidation, TLAPS

USE ConsolidationAssumption

\* What no step undoes.
Kept ==
  /\ Len(log) <= Len(log')
  /\ \A i \in 1 .. Len(log) : log'[i] = log[i]
  /\ distilled \subseteq distilled'
  /\ \A t \in 1 .. MaxTurns : told[t] # 0 => told'[t] # 0

-----------------------------------------------------------------------------
(* Typing *)

\* Setting the program point of a boundary keeps its other locals.
LEMMA GotoType ==
  ASSUME TypeOK, NEW p \in Runs, NEW point \in Points, Goto(p, point)
  PROVE  run' \in [Runs -> Local]
BY DEF TypeOK, Goto, Local

LEMMA IdleType == Idle \in Local
BY DEF Idle, Local, Points

\* The initial state is well typed.
LEMMA InitType == Init => TypeOK
<1> SUFFICES ASSUME Init PROVE TypeOK
    OBVIOUS
<1>1. log \in Seq(Row) /\ built \in 0 .. Len(log) /\ watermark \in 0 .. Len(log)
      /\ imported \in 0 .. Len(log)
    BY DEF Init
<1>2. run \in [Runs -> Local]
    BY IdleType DEF Init
<1> QED
    BY <1>1, <1>2 DEF Init, TypeOK

LEMMA LogLength == TypeOK => Len(log) \in Nat
<1> SUFFICES ASSUME TypeOK PROVE Len(log) \in Nat
    OBVIOUS
<1>1. log \in Seq(Row)
    BY DEF TypeOK
<1> QED
    BY <1>1

\* A row more at the end of the log.
LEMMA AppendRow ==
  ASSUME TypeOK, NEW row \in Row, log' = Append(log, row)
  PROVE  /\ log' \in Seq(Row)
         /\ Len(log') = Len(log) + 1
         /\ \A i \in 1 .. Len(log) : log'[i] = log[i]
         /\ log'[Len(log) + 1] = row
BY DEF TypeOK

\* Every step keeps the types.
LEMMA StepType == DistillInv /\ [Next]_vars => TypeOK'
<1> SUFFICES ASSUME DistillInv, [Next]_vars PROVE TypeOK'
    OBVIOUS
<1> USE DEF outside, marks, history
<1>0. TypeOK /\ \A p \in Runs : RunSound(run[p])
    BY DEF DistillInv
<1> USE <1>0
<1>1. ASSUME NEW o \in Observations, Capture(o) PROVE TypeOK'
  <2>1. [kind |-> "observation", id |-> o] \in Row
      BY DEF Row
  <2> HIDE DEF Row
  <2>2. log' \in Seq(Row) /\ Len(log') = Len(log) + 1
      BY <1>1, <2>1, AppendRow DEF Capture
  <2> QED
      BY <1>1, <2>2 DEF Capture, TypeOK
<1>2. ASSUME OtherRebuild PROVE TypeOK'
    BY <1>2 DEF OtherRebuild, TypeOK
<1>3. ASSUME Say PROVE TypeOK'
    BY <1>3 DEF Say, TypeOK
<1>4. ASSUME Reimport PROVE TypeOK'
    BY <1>4 DEF Reimport, TypeOK
<1>5. ASSUME NEW p \in Runs, Acquire(p) PROVE TypeOK'
  <2>1. run' \in [Runs -> Local]
      BY <1>5, GotoType DEF Acquire, Points
  <2> QED
      BY <1>5, <2>1 DEF Acquire, TypeOK
<1>6. ASSUME NEW p \in Runs, Steal(p) PROVE TypeOK'
  <2>1. run' \in [Runs -> Local]
      BY <1>6, GotoType DEF Steal, Points
  <2> QED
      BY <1>6, <2>1 DEF Steal, TypeOK
<1>7. ASSUME NEW p \in Runs, ReadWindow(p) PROVE TypeOK'
  <2>1. PICK last \in Pending \cup {0}, to \in {offset, turns} :
          IF Fresh = {} /\ to = offset
            THEN /\ watermark' = IF last = 0 THEN watermark ELSE last
                 /\ Goto(p, "release")
            ELSE /\ run' = [run EXCEPT ![p] =
                      [pc |-> "extract", window |-> Fresh, last |-> last,
                       from |-> offset, to |-> to]]
                 /\ UNCHANGED watermark
      BY <1>7 DEF ReadWindow
  <2>2. last \in 0 .. Len(log) /\ to \in Nat /\ offset \in Nat
      BY DEF Pending, Rows, TypeOK
  <2>3. Fresh \subseteq Observations
    <3>1. \A i \in Pending : log[i] \in Row /\ log[i].kind = "observation"
        BY DEF Pending, IsObservation, Rows, TypeOK
    <3>2. \A i \in Pending : log[i].id \in Observations
        BY <3>1 DEF Row
    <3> QED
        BY <3>2 DEF Fresh
  <2>4. CASE Fresh = {} /\ to = offset
    <3>1. run' \in [Runs -> Local]
        BY <2>1, <2>4, GotoType DEF Points
    <3> QED
        BY <1>7, <2>1, <2>2, <2>4, <3>1 DEF ReadWindow, TypeOK
  <2>5. CASE ~ (Fresh = {} /\ to = offset)
    <3>1. [pc |-> "extract", window |-> Fresh, last |-> last,
           from |-> offset, to |-> to] \in Local
        BY <2>2, <2>3 DEF Local, Points
    <3>2. run' \in [Runs -> Local]
        BY <2>1, <2>5, <3>1 DEF TypeOK
    <3> QED
        BY <1>7, <2>1, <2>2, <2>5, <3>2 DEF ReadWindow, TypeOK
  <2> QED
      BY <2>4, <2>5
<1>8. ASSUME NEW p \in Runs, ExtractFails(p) PROVE TypeOK'
  <2>1. run' \in [Runs -> Local]
      BY <1>8, GotoType DEF ExtractFails, Points
  <2> QED
      BY <1>8, <2>1 DEF ExtractFails, TypeOK
<1>9. ASSUME NEW p \in Runs, Extract(p) PROVE TypeOK'
  <2>1. run[p].window \subseteq Observations
      BY DEF TypeOK, Local
  <2>2. PICK point \in Points : Goto(p, point)
      BY <1>9 DEF Extract, Points
  <2>3. run' \in [Runs -> Local]
      BY <2>2, GotoType
  <2>4. log' \in Seq(Row) /\ Len(log) <= Len(log')
    <3>1. CASE UNCHANGED log
        BY <3>1 DEF TypeOK
    <3>2. CASE log' = Append(log,
                 [kind |-> "memories", sources |-> run[p].window])
      <4>1. [kind |-> "memories", sources |-> run[p].window] \in Row
          BY <2>1 DEF Row
      <4> QED
          BY <3>2, <4>1, AppendRow DEF TypeOK
    <3> QED
        BY <1>9, <3>1, <3>2 DEF Extract
  <2>5. told' \in [1 .. MaxTurns -> Nat]
      BY <1>9 DEF Extract, TypeOK
  <2>6. distilled' \subseteq Observations
      BY <1>9, <2>1 DEF Extract, TypeOK
  <2> QED
      BY <1>9, <2>3, <2>4, <2>5, <2>6 DEF Extract, TypeOK
<1>10. ASSUME NEW p \in Runs, Rebuild(p) PROVE TypeOK'
  <2>1. run' \in [Runs -> Local]
      BY <1>10, GotoType DEF Rebuild, Points
  <2> QED
      BY <1>10, <2>1 DEF Rebuild, TypeOK
<1>11. ASSUME NEW p \in Runs, RoutePersonal(p) PROVE TypeOK'
  <2>1. run' \in [Runs -> Local]
      BY <1>11, GotoType DEF RoutePersonal, Points
  <2>2. routed' \in [Observations -> Nat]
      BY <1>11 DEF RoutePersonal, TypeOK
  <2> QED
      BY <1>11, <2>1, <2>2 DEF RoutePersonal, TypeOK
<1>12. ASSUME NEW p \in Runs, WriteMark(p) PROVE TypeOK'
  <2>1. run' \in [Runs -> Local]
      BY <1>12, GotoType DEF WriteMark, Points
  <2>2. run[p].last \in 0 .. Len(log)
      BY DEF TypeOK, Local, RunSound
  <2> QED
      BY <1>12, <2>1, <2>2 DEF WriteMark, TypeOK
<1>13. ASSUME NEW p \in Runs, WriteOffset(p) PROVE TypeOK'
  <2>1. run' \in [Runs -> Local]
      BY <1>13, GotoType DEF WriteOffset, Points
  <2>2. run[p].to \in 0 .. turns
      BY DEF TypeOK, Local, RunSound
  <2> QED
      BY <1>13, <2>1, <2>2 DEF WriteOffset, TypeOK
<1>14. ASSUME NEW p \in Runs, Release(p) PROVE TypeOK'
    BY <1>14, IdleType DEF Release, TypeOK
<1>15. ASSUME NEW p \in Runs, Kill(p) PROVE TypeOK'
    BY <1>15, IdleType DEF Kill, TypeOK
<1>16. ASSUME UNCHANGED vars PROVE TypeOK'
    BY <1>16 DEF vars, TypeOK
<1> QED
    BY <1>1, <1>2, <1>3, <1>4, <1>5, <1>6, <1>7, <1>8, <1>9, <1>10, <1>11,
       <1>12, <1>13, <1>14, <1>15, <1>16 DEF Next, Step

-----------------------------------------------------------------------------
(* What no step undoes *)

\* Every step keeps the rows of the log, what was distilled and what was told.
LEMMA StepKeeps == TypeOK /\ [Next]_vars => Kept
<1> SUFFICES ASSUME TypeOK, [Next]_vars PROVE Kept
    OBVIOUS
<1>1. CASE UNCHANGED <<log, distilled, told>>
    BY <1>1 DEF Kept, TypeOK
<1>2. ASSUME NEW o \in Observations, Capture(o) PROVE Kept
  <2>1. [kind |-> "observation", id |-> o] \in Row
      BY DEF Row
  <2>2. UNCHANGED <<distilled, told>>
      BY <1>2 DEF Capture, history
  <2> QED
      BY <1>2, <2>1, <2>2, AppendRow DEF Capture, Kept, TypeOK
<1>3. ASSUME NEW p \in Runs, Extract(p) PROVE Kept
  <2>1. run[p].window \subseteq Observations
      BY DEF TypeOK, Local
  <2>2. Len(log) <= Len(log') /\ \A i \in 1 .. Len(log) : log'[i] = log[i]
    <3>1. CASE UNCHANGED log
        BY <3>1 DEF TypeOK
    <3>2. CASE log' = Append(log,
                 [kind |-> "memories", sources |-> run[p].window])
      <4>1. [kind |-> "memories", sources |-> run[p].window] \in Row
          BY <2>1 DEF Row
      <4> QED
          BY <3>2, <4>1, AppendRow DEF TypeOK
    <3> QED
        BY <1>3, <3>1, <3>2 DEF Extract
  <2>3. \A t \in 1 .. MaxTurns : told[t] # 0 => told'[t] # 0
      BY <1>3 DEF Extract, TypeOK
  <2> QED
      BY <1>3, <2>2, <2>3 DEF Extract, Kept
<1> QED
    BY <1>1, <1>2, <1>3
    DEF Next, Step, OtherRebuild, Say, Reimport, Acquire, Steal, ReadWindow,
        ExtractFails, Rebuild, RoutePersonal, WriteMark, WriteOffset, Release,
        Kill, history, vars

\* Captures after the fact do not disturb what lies behind row n.
LEMMA KeepsDistilled ==
  ASSUME TypeOK, Kept, NEW n \in 0 .. Len(log), DistilledUpTo(n)
  PROVE  DistilledUpTo(n)'
<1> SUFFICES ASSUME NEW i \in Rows', i <= n, IsObservation(i)'
             PROVE  (log[i].id \in distilled)'
    BY DEF DistilledUpTo
<1>1. i \in Rows /\ log'[i] = log[i] /\ Len(log) \in Nat
    BY DEF Rows, Kept, TypeOK
<1> QED
    BY <1>1 DEF DistilledUpTo, IsObservation, Kept

LEMMA KeepsTold ==
  ASSUME Kept, NEW t, ToldUpTo(t)
  PROVE  ToldUpTo(t)'
BY DEF Kept, ToldUpTo

\* The locals of a boundary stay sound while it does not move.
LEMMA KeepsRun ==
  ASSUME TypeOK, Kept, turns <= turns', turns' \in Nat,
         NEW j \in Local, RunSound(j)
  PROVE  RunSound(j)'
<1>1. j.last \in 0 .. Len(log) /\ j.to \in Nat /\ Len(log) \in Nat
    BY DEF RunSound, Local, TypeOK
<1>2. j.last <= Len(log') /\ j.to <= turns'
    BY <1>1 DEF Kept, RunSound, TypeOK
<1>3. ASSUME j.pc = "extract", NEW i \in Rows', i <= j.last, IsObservation(i)'
      PROVE  log'[i].id \in distilled' \cup j.window
  <2>1. i \in Rows /\ log'[i] = log[i]
      BY <1>1, <1>3 DEF Rows, Kept
  <2> QED
      BY <1>3, <2>1 DEF RunSound, IsObservation, Kept
<1>4. j.pc \in {"rebuild", "personal", "mark"} => DistilledUpTo(j.last)'
    BY <1>1, KeepsDistilled DEF RunSound
<1>5. /\ j.pc = "extract" => ToldUpTo(j.from)'
      /\ j.pc \in {"rebuild", "personal", "mark", "offset"} => ToldUpTo(j.to)'
    BY KeepsTold DEF RunSound
<1> QED
    BY <1>2, <1>3, <1>4, <1>5 DEF RunSound

-----------------------------------------------------------------------------
(* The window of a boundary *)

\* The dedup guard only drops observations whose memories were stored.
LEMMA ConsumedDistilled == DistillInv => Consumed \subseteq distilled
BY DEF DistillInv, Consumed

\* Up to the last row of the window, everything was distilled or is in it.
LEMMA WindowCovers ==
  ASSUME DistillInv, NEW last \in Pending \cup {0},
         IF Pending = {} THEN last = 0 ELSE IsLast(last, Pending)
  PROVE  /\ last \in 0 .. Len(log)
         /\ \A i \in Rows : i <= last /\ IsObservation(i)
              => log[i].id \in distilled \cup Fresh
<1>1. last \in 0 .. Len(log) /\ watermark \in 0 .. Len(log) /\ Len(log) \in Nat
    BY DEF Pending, Rows, DistillInv, TypeOK
<1>2. ASSUME NEW i \in Rows, i <= last, IsObservation(i)
      PROVE  log[i].id \in distilled \cup Fresh
  <2>1. CASE i <= watermark
      BY <1>2, <2>1 DEF DistillInv, NothingSkipped, DistilledUpTo
  <2>2. CASE ~ i <= watermark
    <3>1. i \in Pending
        BY <1>1, <1>2, <2>2 DEF Pending, Rows
    <3>2. log[i].id \in {log[k].id : k \in Pending}
        BY <3>1
    <3>3. log[i].id \in Fresh \cup Consumed
        BY <3>2 DEF Fresh
    <3> QED
        BY <3>3, ConsumedDistilled
  <2> QED
      BY <2>1, <2>2
<1> QED
    BY <1>1, <1>2

-----------------------------------------------------------------------------
(* The four parts of DistillInv, step by step *)

\* Neither watermark is ever moved past something undistilled.
LEMMA MarksStep ==
  DistillInv /\ TypeOK' /\ Kept /\ [Next]_vars => NothingSkipped'
<1> SUFFICES ASSUME DistillInv, TypeOK', Kept, [Next]_vars
             PROVE  NothingSkipped'
    OBVIOUS
<1>0. TypeOK /\ NothingSkipped /\ \A p \in Runs : RunSound(run[p])
    BY DEF DistillInv
<1> USE <1>0
<1>a. ASSUME UNCHANGED watermark PROVE DistilledUpTo(watermark)'
  <2>1. PICK n \in 0 .. Len(log) : n = watermark
      BY DEF TypeOK
  <2>2. DistilledUpTo(n)'
      BY <2>1, KeepsDistilled DEF NothingSkipped
  <2> QED
      BY <1>a, <2>1, <2>2 DEF DistilledUpTo
<1>b. ASSUME UNCHANGED offset PROVE ToldUpTo(offset)'
  <2>1. PICK t : t = offset
      OBVIOUS
  <2>2. ToldUpTo(t)'
      BY <2>1, KeepsTold DEF NothingSkipped
  <2> QED
      BY <1>b, <2>1, <2>2 DEF ToldUpTo
<1>1. CASE UNCHANGED marks
    BY <1>1, <1>a, <1>b DEF marks, NothingSkipped
<1>2. CASE Reimport
    BY <1>2 DEF Reimport, NothingSkipped, DistilledUpTo, ToldUpTo, Rows
<1>3. ASSUME NEW p \in Runs, ReadWindow(p) PROVE NothingSkipped'
  <2>1. PICK last \in Pending \cup {0}, to \in {offset, turns} :
          /\ IF Pending = {} THEN last = 0 ELSE IsLast(last, Pending)
          /\ IF Fresh = {} /\ to = offset
               THEN watermark' = IF last = 0 THEN watermark ELSE last
               ELSE UNCHANGED watermark
      BY <1>3 DEF ReadWindow
  <2>2. UNCHANGED <<offset, log, distilled>>
      BY <1>3 DEF ReadWindow, history
  <2>3. CASE UNCHANGED watermark
      BY <2>2, <2>3, <1>a, <1>b DEF NothingSkipped
  <2>4. CASE watermark' = last /\ Fresh = {}
    <3>1. \A i \in Rows :
            i <= last /\ IsObservation(i) => log[i].id \in distilled
        BY <2>1, <2>4, WindowCovers
    <3>2. DistilledUpTo(watermark)'
        BY <2>2, <2>4, <3>1 DEF DistilledUpTo, IsObservation, Rows
    <3> QED
        BY <2>2, <3>2, <1>b DEF NothingSkipped
  <2> QED
      BY <2>1, <2>3, <2>4
<1>4. ASSUME NEW p \in Runs, WriteMark(p) PROVE NothingSkipped'
  <2>1. CASE UNCHANGED watermark
      BY <1>4, <2>1, <1>a, <1>b DEF WriteMark, NothingSkipped
  <2>2. CASE watermark' = run[p].last
    <3>0. run[p].last \in 0 .. Len(log)
        BY DEF RunSound, TypeOK, Local
    <3>1. PICK n \in 0 .. Len(log) : n = run[p].last
        BY <3>0
    <3>2. DistilledUpTo(n)
        BY <1>4, <3>1 DEF RunSound, WriteMark
    <3>3. DistilledUpTo(n)'
        BY <3>2, KeepsDistilled
    <3>4. DistilledUpTo(watermark)'
        BY <2>2, <3>1, <3>3 DEF DistilledUpTo
    <3> QED
        BY <1>4, <3>4, <1>b DEF WriteMark, NothingSkipped
  <2> QED
      BY <1>4, <2>1, <2>2 DEF WriteMark
<1>5. ASSUME NEW p \in Runs, WriteOffset(p) PROVE NothingSkipped'
  <2>1. CASE UNCHANGED offset
      BY <1>5, <2>1, <1>a, <1>b DEF WriteOffset, NothingSkipped
  <2>2. CASE offset' = run[p].to
    <3>1. PICK t : t = run[p].to
        OBVIOUS
    <3>2. ToldUpTo(t)
        BY <1>5, <3>1 DEF RunSound, WriteOffset
    <3>3. ToldUpTo(t)'
        BY <3>2, KeepsTold
    <3>4. ToldUpTo(offset)'
        BY <2>2, <3>1, <3>3 DEF ToldUpTo
    <3> QED
        BY <1>5, <3>4, <1>a DEF WriteOffset, NothingSkipped
  <2> QED
      BY <1>5, <2>1, <2>2 DEF WriteOffset
<1> QED
    BY <1>1, <1>2, <1>3, <1>4, <1>5
    DEF Next, Step, Capture, OtherRebuild, Say, Acquire, Steal, ExtractFails,
        Extract, Rebuild, RoutePersonal, Release, Kill, vars

\* A stored memory's sources were distilled.
LEMMA SourcesStep ==
  DistillInv /\ TypeOK' /\ Kept /\ [Next]_vars
    => (\A i \in Batches : log[i].sources \subseteq distilled)'
<1> SUFFICES ASSUME DistillInv, TypeOK', Kept, [Next]_vars, NEW i \in Batches'
             PROVE  log'[i].sources \subseteq distilled'
    OBVIOUS
<1>a. TypeOK
    BY DEF DistillInv
<1>0. TypeOK /\ Len(log) \in Nat
    BY <1>a, LogLength
<1>1. CASE i \in Rows
  <2>1. i \in Batches /\ log'[i] = log[i]
      BY <1>1 DEF Batches, Rows, Kept
  <2> QED
      BY <2>1 DEF DistillInv, Kept
<1>2. CASE i \notin Rows
  <2>1. ASSUME NEW o \in Observations, Capture(o) PROVE FALSE
    <3>1. [kind |-> "observation", id |-> o] \in Row
        BY DEF Row
    <3>2. log'[i].kind = "observation"
        BY <1>0, <1>2, <2>1, <3>1, AppendRow DEF Capture, Batches, Rows
    <3> QED
        BY <3>2 DEF Batches
  <2>2. ASSUME NEW p \in Runs, Extract(p)
        PROVE  log'[i].sources \subseteq distilled'
    <3>1. log' = Append(log, [kind |-> "memories", sources |-> run[p].window])
        BY <1>2, <2>2 DEF Extract, Batches, Rows
    <3>2. [kind |-> "memories", sources |-> run[p].window] \in Row
        BY <1>0 DEF Row, TypeOK, Local
    <3>3. log'[i].sources = run[p].window
        BY <1>0, <1>2, <3>1, <3>2, AppendRow DEF Batches, Rows
    <3> QED
        BY <2>2, <3>3 DEF Extract
  <2>3. CASE UNCHANGED log
      BY <1>2, <2>3 DEF Batches, Rows
  <2> QED
      BY <2>1, <2>2, <2>3
      DEF Next, Step, OtherRebuild, Say, Reimport, Acquire, Steal, ReadWindow,
          ExtractFails, Rebuild, RoutePersonal, WriteMark, WriteOffset,
          Release, Kill, vars
<1> QED
    BY <1>1, <1>2

\* A boundary that moves on to point stays sound if point's own facts hold.
LEMMA MoveRun ==
  ASSUME TypeOK, Kept, turns <= turns', turns' \in Nat,
         NEW j \in Local, RunSound(j),
         NEW point \in Points, point # "extract",
         point \in {"rebuild", "personal", "mark"} => DistilledUpTo(j.last)',
         point \in {"rebuild", "personal", "mark", "offset"} => ToldUpTo(j.to)'
  PROVE  RunSound([j EXCEPT !.pc = point])'
<1>1. /\ j.last <= Len(log) /\ j.to <= turns
      /\ j.last \in Nat /\ j.to \in Nat /\ Len(log) \in Nat /\ turns \in Nat
    BY DEF RunSound, Local, TypeOK
<1>2. j.last <= Len(log') /\ j.to <= turns'
    BY <1>1 DEF Kept, TypeOK
<1> DEFINE k == [j EXCEPT !.pc = point]
<1>3. k.pc = point /\ k.last = j.last /\ k.to = j.to
    BY DEF Local
<1> HIDE DEF k
<1> QED
    BY <1>2, <1>3 DEF RunSound

\* An idle process knows nothing.
LEMMA IdleSound ==
  ASSUME TypeOK PROVE RunSound(Idle)
BY DEF RunSound, Idle, TypeOK

\* What every boundary has read stays true while it runs.
LEMMA RunStep ==
  DistillInv /\ TypeOK' /\ Kept /\ [Next]_vars
    => \A q \in Runs : RunSound(run[q])'
<1> SUFFICES ASSUME DistillInv, TypeOK', Kept, [Next]_vars, NEW q \in Runs
             PROVE  RunSound(run[q])'
    OBVIOUS
<1>a. TypeOK /\ NothingSkipped /\ \A p \in Runs : RunSound(run[p])
    BY DEF DistillInv
<1>b. turns \in Nat /\ turns' \in Nat /\ turns <= turns'
  <2>1. turns \in Nat /\ turns' \in Nat
      BY <1>a DEF TypeOK
  <2>2. turns' = turns \/ turns' = turns + 1
      BY DEF Next, Step, Capture, OtherRebuild, Say, Reimport, Acquire, Steal,
         ReadWindow, ExtractFails, Extract, Rebuild, RoutePersonal, WriteMark,
         WriteOffset, Release, Kill, outside, vars
  <2> QED
      BY <2>1, <2>2
<1> USE <1>a, <1>b
<1>c. PICK j \in Local : j = run[q]
    BY DEF TypeOK
<1>d. RunSound(j)
    BY <1>c
<1>e. ASSUME run'[q] = run[q] PROVE RunSound(run[q])'
  <2>1. RunSound(j)'
      BY <1>d, KeepsRun
  <2> QED
      BY <1>c, <1>e, <2>1 DEF RunSound, DistilledUpTo, ToldUpTo
<1>f. ASSUME NEW point \in Points, point # "extract", Goto(q, point),
             point \in {"rebuild", "personal", "mark"}
               => DistilledUpTo(j.last)',
             point \in {"rebuild", "personal", "mark", "offset"}
               => ToldUpTo(j.to)'
      PROVE  RunSound(run[q])'
  <2>1. PICK k : k = [j EXCEPT !.pc = point]
      OBVIOUS
  <2>2. RunSound(k)'
      BY <1>d, <1>f, <2>1, MoveRun
  <2>3. run'[q] = k
      BY <1>c, <1>f, <2>1 DEF Goto, TypeOK
  <2> QED
      BY <2>2, <2>3 DEF RunSound, DistilledUpTo, ToldUpTo
<1>g. ASSUME NEW pt \in {"rebuild", "personal", "mark"}, j.pc = pt
      PROVE  DistilledUpTo(j.last)' /\ ToldUpTo(j.to)'
  <2>1. j.last \in 0 .. Len(log)
      BY <1>d DEF RunSound, Local, TypeOK
  <2>2. DistilledUpTo(j.last) /\ ToldUpTo(j.to)
      BY <1>d, <1>g DEF RunSound
  <2> QED
      BY <2>1, <2>2, KeepsDistilled, KeepsTold
<1>h. ASSUME run'[q] = Idle PROVE RunSound(run[q])'
    BY <1>h DEF RunSound, Idle, TypeOK
<1>1. ASSUME NEW p \in Runs, p # q, Step(p) \/ Steal(p) \/ Kill(p)
      PROVE  run'[q] = run[q]
    BY <1>1 DEF Step, Acquire, ReadWindow, ExtractFails, Extract, Rebuild,
       RoutePersonal, WriteMark, WriteOffset, Release, Steal, Kill, Goto, TypeOK
<1>2. CASE Acquire(q) \/ Steal(q)
  <2>1. Goto(q, "read") /\ "read" \in Points
      BY <1>2 DEF Acquire, Steal, Points
  <2> QED
      BY <2>1, <1>f
<1>3. CASE ReadWindow(q)
  <2>1. PICK last \in Pending \cup {0}, to \in {offset, turns} :
          /\ IF Pending = {} THEN last = 0 ELSE IsLast(last, Pending)
          /\ IF Fresh = {} /\ to = offset
               THEN Goto(q, "release")
               ELSE run' = [run EXCEPT ![q] =
                      [pc |-> "extract", window |-> Fresh, last |-> last,
                       from |-> offset, to |-> to]]
      BY <1>3 DEF ReadWindow
  <2>2. CASE Goto(q, "release")
    <3>1. "release" \in Points
        BY DEF Points
    <3> QED
        BY <2>2, <3>1, <1>f
  <2>3. CASE run' = [run EXCEPT ![q] =
                      [pc |-> "extract", window |-> Fresh, last |-> last,
                       from |-> offset, to |-> to]]
    <3>1. UNCHANGED <<log, distilled, told, turns>>
        BY <1>3 DEF ReadWindow, outside, history
    <3>2. run'[q] = [pc |-> "extract", window |-> Fresh, last |-> last,
                     from |-> offset, to |-> to]
        BY <2>3 DEF TypeOK
    <3>3. last <= Len(log) /\ to <= turns
      <4>1. last \in 0 .. Len(log) /\ Len(log) \in Nat
          BY <2>1, WindowCovers, LogLength
      <4>2. offset <= turns
          BY DEF TypeOK
      <4> QED
          BY <4>1, <4>2
    <3>4. \A i \in Rows : i <= last /\ IsObservation(i)
            => log[i].id \in distilled \cup Fresh
        BY <2>1, WindowCovers
    <3>5. ToldUpTo(offset)
        BY DEF NothingSkipped
    <3> HIDE DEF Fresh
    <3> QED
        BY <3>1, <3>2, <3>3, <3>4, <3>5
        DEF RunSound, ToldUpTo, Rows, IsObservation
  <2> QED
      BY <2>1, <2>2, <2>3
<1>4. CASE ExtractFails(q) \/ WriteOffset(q)
  <2>1. Goto(q, "release") /\ "release" \in Points
      BY <1>4 DEF ExtractFails, WriteOffset, Points
  <2> QED
      BY <2>1, <1>f
<1>5. CASE Extract(q)
  <2>1. PICK point \in {"rebuild", "personal"} : Goto(q, point)
      BY <1>5 DEF Extract
  <2>2. /\ j.pc = "extract"
        /\ distilled' = distilled \cup j.window
        /\ told' = [t \in 1 .. MaxTurns |->
                      IF t \in j.from + 1 .. j.to THEN told[t] + 1 ELSE told[t]]
      BY <1>5, <1>c DEF Extract, Slice
  <2>3. j.last <= Len(log) /\ j.last \in Nat /\ Len(log) \in Nat
      BY <1>d DEF RunSound, Local, TypeOK
  <2>4. ASSUME NEW i \in Rows', i <= j.last, IsObservation(i)'
        PROVE  log'[i].id \in distilled'
    <3>1. i \in Rows /\ log'[i] = log[i]
        BY <2>3, <2>4 DEF Rows, Kept
    <3> QED
        BY <1>d, <2>2, <2>4, <3>1 DEF RunSound, IsObservation
  <2>5. DistilledUpTo(j.last)'
      BY <2>4 DEF DistilledUpTo
  <2>6. ASSUME NEW u \in 1 .. MaxTurns, u <= j.to PROVE told'[u] # 0
    <3>1. told[u] \in Nat /\ j.from \in Nat /\ j.to \in Nat
        BY DEF TypeOK, Local
    <3>2. u <= j.from => told[u] # 0
        BY <1>d, <2>2 DEF RunSound, ToldUpTo
    <3>3. ~ u <= j.from => u \in j.from + 1 .. j.to
        BY <2>6, <3>1
    <3> QED
        BY <2>2, <3>1, <3>2, <3>3
  <2>7. ToldUpTo(j.to)'
      BY <2>6 DEF ToldUpTo
  <2>8. point \in Points /\ point # "extract"
      BY DEF Points
  <2> QED
      BY <2>1, <2>5, <2>7, <2>8, <1>f
<1>6. CASE Rebuild(q) \/ RoutePersonal(q)
  <2>1. PICK point \in {"personal", "mark"} : Goto(q, point)
      BY <1>6 DEF Rebuild, RoutePersonal
  <2>2. DistilledUpTo(j.last)' /\ ToldUpTo(j.to)'
      BY <1>6, <1>c, <1>g DEF Rebuild, RoutePersonal
  <2>3. point \in Points /\ point # "extract"
      BY DEF Points
  <2> QED
      BY <2>1, <2>2, <2>3, <1>f
<1>7. CASE WriteMark(q)
  <2>1. Goto(q, "offset") /\ "offset" \in Points
      BY <1>7 DEF WriteMark, Points
  <2>2. ToldUpTo(j.to)'
      BY <1>7, <1>c, <1>g DEF WriteMark
  <2> QED
      BY <2>1, <2>2, <1>f
<1>8. CASE Release(q) \/ Kill(q)
  <2>1. run'[q] = Idle
      BY <1>8 DEF Release, Kill, TypeOK
  <2> QED
      BY <2>1, <1>h
<1>9. CASE UNCHANGED run
    BY <1>9, <1>e
<1> QED
    BY <1>1, <1>2, <1>3, <1>4, <1>5, <1>6, <1>7, <1>8, <1>9, <1>e
    DEF Next, Step, Capture, OtherRebuild, Say, Reimport, vars

-----------------------------------------------------------------------------
\* Whatever is captured, said, killed, stolen, reimported or lost, the
\* watermark and the transcript offset never pass an observation or a turn
\* whose extraction was not stored, and the locals of every boundary under
\* way keep it so.
THEOREM DistillCorrect == Spec => []DistillInv
<1>1. Init => DistillInv
  <2> SUFFICES ASSUME Init PROVE DistillInv
      OBVIOUS
  <2>1. TypeOK
      BY InitType
  <2>2. NothingSkipped /\ Batches = {}
      BY DEF Init, NothingSkipped, DistilledUpTo, ToldUpTo, Rows, Batches
  <2>3. \A p \in Runs : run[p] = Idle
      BY DEF Init
  <2>4. RunSound(Idle)
      BY <2>1, IdleSound
  <2> QED
      BY <2>1, <2>2, <2>3, <2>4 DEF DistillInv
<1>2. DistillInv /\ [Next]_vars => DistillInv'
  <2> SUFFICES ASSUME DistillInv, [Next]_vars PROVE DistillInv'
      OBVIOUS
  <2>1. TypeOK'
      BY StepType
  <2>2. Kept
      BY StepKeeps DEF DistillInv
  <2> QED
      BY <2>1, <2>2, MarksStep, SourcesStep, RunStep DEF DistillInv
<1> QED
    BY <1>1, <1>2, PTL DEF Spec

\* A boundary never makes a later one skip an observation or a turn.
THEOREM NothingIsSkipped == Spec => []NothingSkipped
<1>1. DistillInv => NothingSkipped
    BY DEF DistillInv
<1> QED
    BY <1>1, DistillCorrect, PTL

-----------------------------------------------------------------------------
(* Distilled once, routed once *)

\* Under the lock, as long as nobody was killed and no lock was stolen, a
\* boundary is alone; but the log, both watermarks and the personal store are
\* written one after the other, so the facts that keep a second boundary off
\* what the first has done refer to the one that is under way.

\* An observation is captured once.
CapturedOnce ==
  \A i, k \in Rows :
    IsObservation(i) /\ IsObservation(k) /\ log[i].id = log[k].id => i = k

\* Row i is the capture of an observation of S.
RowOf(i, S) == IsObservation(i) /\ log[i].id \in S

\* Row i is past the watermark, or in the window of a boundary that is at one
\* of the points and has yet to mark it.
Passed(i, points) ==
  \/ i <= watermark
  \/ \E p \in Runs : run[p].pc \in points /\ i <= run[p].last

Alone == lock # Killed /\ \A p \in Runs : run[p].pc # "idle" => lock = p

\* A window lies between the watermark and its last row, and nothing of it
\* was stored before it is extracted.
WindowKnown(j) ==
  j.pc \in {"extract", "rebuild", "personal", "mark"} =>
    /\ j.last = 0 \/ watermark <= j.last
    /\ j.window \subseteq Captured
    /\ \A i \in Rows : RowOf(i, j.window) => watermark < i /\ i <= j.last
    /\ j.pc = "extract" => \A b \in Batches : j.window \cap log[b].sources = {}

SliceKnown(j) ==
  j.pc \in {"extract", "rebuild", "personal", "mark", "offset"} =>
    j.from = offset /\ offset <= j.to

SourcesCaptured == \A b \in Batches : log[b].sources \subseteq Captured

SourcesPassed ==
  \A b \in Batches : \A i \in Rows :
    b > imported /\ RowOf(i, log[b].sources)
      => Passed(i, {"rebuild", "personal", "mark"})

RoutedPassed ==
  \A o \in Observations : routed[o] # 0 =>
    o \in Captured /\ \A i \in Rows : RowOf(i, {o}) => Passed(i, {"mark"})

ToldPassed ==
  \A t \in 1 .. MaxTurns : told[t] # 0 =>
    \/ t <= offset
    \/ \E p \in Runs :
         run[p].pc \in {"rebuild", "personal", "mark", "offset"} /\ t <= run[p].to

Orderly ==
  /\ Alone
  /\ \A p \in Runs : WindowKnown(run[p]) /\ SliceKnown(run[p])
  /\ SourcesCaptured
  /\ SourcesPassed
  /\ imported = 0 => RoutedPassed /\ ToldPassed

\* The inductive invariant.
OnceInv ==
  /\ imported <= built
  /\ CapturedOnce
  /\ faults = 0 => Orderly
  /\ DistilledOnce
  /\ RoutedOnce

\* What Orderly says when p is the boundary under way, and when none is.
PassedBy(p, i, points) ==
  i <= watermark \/ (run[p].pc \in points /\ i <= run[p].last)

Holding(p) ==
  /\ lock = p /\ run[p].pc # "idle"
  /\ \A q \in Runs : q # p => run[q].pc = "idle"
  /\ WindowKnown(run[p]) /\ SliceKnown(run[p])
  /\ SourcesCaptured
  /\ \A b \in Batches : \A i \in Rows :
       b > imported /\ RowOf(i, log[b].sources)
         => PassedBy(p, i, {"rebuild", "personal", "mark"})
  /\ imported = 0 =>
       /\ \A o \in Observations : routed[o] # 0 =>
            o \in Captured /\ \A i \in Rows : RowOf(i, {o}) => PassedBy(p, i, {"mark"})
       /\ \A t \in 1 .. MaxTurns : told[t] # 0 =>
            \/ t <= offset
            \/ run[p].pc \in {"rebuild", "personal", "mark", "offset"} /\ t <= run[p].to

AllIdle ==
  /\ lock # Killed
  /\ \A p \in Runs : run[p].pc = "idle"
  /\ SourcesCaptured
  /\ \A b \in Batches : \A i \in Rows :
       b > imported /\ RowOf(i, log[b].sources) => i <= watermark
  /\ imported = 0 =>
       /\ \A o \in Observations : routed[o] # 0 =>
            o \in Captured /\ \A i \in Rows : RowOf(i, {o}) => i <= watermark
       /\ \A t \in 1 .. MaxTurns : told[t] # 0 => t <= offset

LEMMA HoldingFrom ==
  ASSUME Orderly, NEW p \in Runs, run[p].pc # "idle"
  PROVE  Holding(p)
<1>1. lock = p /\ \A q \in Runs : q # p => run[q].pc = "idle"
    BY DEF Orderly, Alone
<1>2. ASSUME NEW i, NEW points, Passed(i, points), "idle" \notin points
      PROVE  PassedBy(p, i, points)
    BY <1>1, <1>2 DEF Passed, PassedBy
<1>3. WindowKnown(run[p]) /\ SliceKnown(run[p]) /\ SourcesCaptured
    BY DEF Orderly
<1>4. \A b \in Batches : \A i \in Rows :
        b > imported /\ RowOf(i, log[b].sources)
          => PassedBy(p, i, {"rebuild", "personal", "mark"})
    BY <1>2 DEF Orderly, SourcesPassed
<1>5. ASSUME imported = 0
      PROVE  /\ \A o \in Observations : routed[o] # 0 =>
                  /\ o \in Captured
                  /\ \A i \in Rows : RowOf(i, {o}) => PassedBy(p, i, {"mark"})
             /\ \A t \in 1 .. MaxTurns : told[t] # 0 =>
                  \/ t <= offset
                  \/ /\ run[p].pc \in {"rebuild", "personal", "mark", "offset"}
                     /\ t <= run[p].to
  <2>1. RoutedPassed /\ ToldPassed
      BY <1>5 DEF Orderly
  <2>2. \A o \in Observations : routed[o] # 0 =>
          o \in Captured /\ \A i \in Rows : RowOf(i, {o}) => PassedBy(p, i, {"mark"})
      BY <2>1, <1>2 DEF RoutedPassed
  <2>3. \A t \in 1 .. MaxTurns : told[t] # 0 =>
          \/ t <= offset
          \/ /\ run[p].pc \in {"rebuild", "personal", "mark", "offset"}
             /\ t <= run[p].to
      BY <2>1, <1>1 DEF ToldPassed
  <2> QED
      BY <2>2, <2>3
<1> QED
    BY <1>1, <1>3, <1>4, <1>5 DEF Holding

LEMMA AllIdleFrom ==
  ASSUME Orderly, \A p \in Runs : run[p].pc = "idle"
  PROVE  AllIdle
<1>1. ASSUME NEW i, NEW points, Passed(i, points), "idle" \notin points
      PROVE  i <= watermark
    BY <1>1 DEF Passed
<1>2. \A b \in Batches : \A i \in Rows :
        b > imported /\ RowOf(i, log[b].sources) => i <= watermark
    BY <1>1 DEF Orderly, SourcesPassed
<1>3. imported = 0 => \A o \in Observations : routed[o] # 0 =>
        o \in Captured /\ \A i \in Rows : RowOf(i, {o}) => i <= watermark
    BY <1>1 DEF Orderly, RoutedPassed
<1>4. imported = 0 => \A t \in 1 .. MaxTurns : told[t] # 0 => t <= offset
    BY DEF Orderly, ToldPassed
<1> QED
    BY <1>2, <1>3, <1>4 DEF AllIdle, Orderly, Alone

\* And back, of the state a step leads to.
LEMMA HoldingTo ==
  ASSUME NEW p \in Runs, Holding(p)'
  PROVE  Orderly'
<1>1. \A i, points : PassedBy(p, i, points)' => Passed(i, points)'
    BY DEF Passed, PassedBy
<1>2. Alone'
    BY DEF Holding, Alone
<1>3. \A q \in Runs : WindowKnown(run[q])' /\ SliceKnown(run[q])'
    BY DEF Holding, WindowKnown, SliceKnown
<1>4. SourcesCaptured' /\ SourcesPassed'
    BY <1>1 DEF Holding, SourcesPassed
<1>5. imported' = 0 => RoutedPassed' /\ ToldPassed'
    BY <1>1 DEF Holding, RoutedPassed, ToldPassed
<1> QED
    BY <1>2, <1>3, <1>4, <1>5 DEF Orderly

LEMMA AllIdleTo ==
  ASSUME AllIdle'
  PROVE  Orderly'
<1>1. Alone' /\ \A q \in Runs : WindowKnown(run[q])' /\ SliceKnown(run[q])'
    BY DEF AllIdle, Alone, WindowKnown, SliceKnown
<1>2. SourcesCaptured' /\ SourcesPassed'
    BY DEF AllIdle, SourcesPassed, Passed
<1>3. imported' = 0 => RoutedPassed' /\ ToldPassed'
    BY DEF AllIdle, RoutedPassed, ToldPassed, Passed
<1> QED
    BY <1>1, <1>2, <1>3 DEF Orderly

\* Setting the program point of p moves nothing else.
LEMMA Moved ==
  ASSUME TypeOK, NEW p \in Runs, NEW point, Goto(p, point)
  PROVE  /\ run'[p].pc = point
         /\ run'[p].window = run[p].window /\ run'[p].last = run[p].last
         /\ run'[p].from = run[p].from /\ run'[p].to = run[p].to
         /\ \A q \in Runs : q # p => run'[q] = run[q]
BY DEF TypeOK, Goto, Local

\* A step of p that only moves it on to a point, the locks and logs kept.
LEMMA MoveHolding ==
  ASSUME TypeOK, NEW p \in Runs, Holding(p),
         UNCHANGED <<log, watermark, offset, lock, imported, routed, told>>,
         NEW point, Goto(p, point), point \notin {"idle", "extract"},
         \* a point that needs the window comes after one that has it
         \/ point \in {"release", "read"}
              /\ run[p].pc \in {"read", "extract"}
         \/ point \in {"personal", "mark"}
              /\ run[p].pc \in {"rebuild", "personal"}
  PROVE  Holding(p)'
<1>1. /\ run'[p].pc = point
      /\ run'[p].window = run[p].window /\ run'[p].last = run[p].last
      /\ run'[p].from = run[p].from /\ run'[p].to = run[p].to
      /\ \A q \in Runs : q # p => run'[q] = run[q]
    BY Moved
<1>2. Captured' = Captured /\ Batches' = Batches /\ Rows' = Rows
    BY DEF Captured, Batches, Rows, IsObservation
<1>3. \A i, S : RowOf(i, S)' <=> RowOf(i, S)
    BY DEF RowOf, IsObservation, Rows
<1>4. \A i : /\ PassedBy(p, i, {"rebuild", "personal", "mark"})
                  => PassedBy(p, i, {"rebuild", "personal", "mark"})'
             /\ PassedBy(p, i, {"mark"}) => PassedBy(p, i, {"mark"})'
    BY <1>1 DEF PassedBy
<1>5. WindowKnown(run[p])' /\ SliceKnown(run[p])'
    BY <1>1, <1>2, <1>3 DEF WindowKnown, SliceKnown, Holding
<1>6. SourcesCaptured'
    BY <1>2 DEF SourcesCaptured, Holding
<1>7. \A b \in Batches' : \A i \in Rows' :
        (b > imported /\ RowOf(i, log[b].sources))'
          => PassedBy(p, i, {"rebuild", "personal", "mark"})'
    BY <1>2, <1>4 DEF Holding, RowOf, IsObservation, Rows
<1>8. imported' = 0 =>
        \A o \in Observations : routed'[o] # 0 =>
          o \in Captured' /\ \A i \in Rows' : RowOf(i, {o})' => PassedBy(p, i, {"mark"})'
    BY <1>2, <1>3, <1>4 DEF Holding
<1>9. imported' = 0 =>
        \A t \in 1 .. MaxTurns : told'[t] # 0 =>
          \/ t <= offset'
          \/ run'[p].pc \in {"rebuild", "personal", "mark", "offset"} /\ t <= run'[p].to
    BY <1>1 DEF Holding
<1> QED
    BY <1>1, <1>5, <1>6, <1>7, <1>8, <1>9 DEF Holding

\* The window p reads: captured, behind no mark, and not stored before.
LEMMA WindowFresh ==
  ASSUME TypeOK, imported <= built, CapturedOnce, NEW p \in Runs, Holding(p),
         run[p].pc = "read", NEW last \in Pending \cup {0},
         IF Pending = {} THEN last = 0 ELSE IsLast(last, Pending)
  PROVE  /\ last \in 0 .. Len(log) /\ (last = 0 \/ watermark < last)
         /\ Fresh \subseteq Captured
         /\ \A i \in Rows : RowOf(i, Fresh) => watermark < i /\ i <= last
         /\ \A b \in Batches : Fresh \cap log[b].sources = {}
<1>0. /\ Len(log) \in Nat /\ watermark \in Nat /\ built \in Nat
      /\ imported \in Nat
    BY LogLength DEF TypeOK
<1>1. \A k \in Pending : k \in Rows /\ IsObservation(k) /\ watermark < k
    BY <1>0 DEF Pending, Rows
<1>2. last \in 0 .. Len(log) /\ (last = 0 \/ watermark < last)
    BY <1>0, <1>1 DEF Rows
<1>3. Fresh \subseteq Captured
    BY <1>1 DEF Fresh, Captured
<1>4. ASSUME NEW i \in Rows, RowOf(i, Fresh) PROVE i \in Pending
  <2>1. PICK k \in Pending : log[i].id = log[k].id
      BY <1>4 DEF RowOf, Fresh
  <2> QED
      BY <2>1, <1>1, <1>4 DEF RowOf, CapturedOnce
<1>5. \A i \in Pending : i <= last
    BY DEF IsLast
<1>6. ASSUME NEW b \in Batches, NEW o \in Fresh, o \in log[b].sources PROVE FALSE
  <2>1. b \in Nat
      BY DEF Batches, Rows
  <2>2. CASE b <= built
    <3>1. o \in Consumed
        BY <1>6, <2>2 DEF Consumed
    <3> QED
        BY <3>1 DEF Fresh
  <2>3. CASE ~ b <= built
    <3>1. PICK k \in Pending : o = log[k].id
        BY DEF Fresh
    <3>2. k \in Rows /\ RowOf(k, log[b].sources) /\ watermark < k
        BY <1>1, <1>6, <3>1 DEF RowOf
    <3>3. b > imported
        BY <1>0, <2>1, <2>3
    <3>4. PassedBy(p, k, {"rebuild", "personal", "mark"})
        BY <3>2, <3>3 DEF Holding
    <3>5. k <= watermark
        BY <3>4 DEF PassedBy
    <3> QED
        BY <1>0, <3>2, <3>5 DEF Rows
  <2> QED
      BY <2>2, <2>3
<1> QED
    BY <1>1, <1>2, <1>3, <1>4, <1>5, <1>6

LEMMA HoldRead ==
  ASSUME TypeOK, imported <= built, CapturedOnce, NEW p \in Runs, Holding(p),
         ReadWindow(p)
  PROVE  Holding(p)'
<1>1. PICK last \in Pending \cup {0}, to \in {offset, turns} :
        /\ IF Pending = {} THEN last = 0 ELSE IsLast(last, Pending)
        /\ IF Fresh = {} /\ to = offset
             THEN /\ watermark' = IF last = 0 THEN watermark ELSE last
                  /\ Goto(p, "release")
             ELSE /\ run' = [run EXCEPT ![p] =
                       [pc |-> "extract", window |-> Fresh, last |-> last,
                        from |-> offset, to |-> to]]
                  /\ UNCHANGED watermark
    BY DEF ReadWindow
<1>2. /\ UNCHANGED <<log, offset, lock, imported, routed, told>>
      /\ run[p].pc = "read"
    BY DEF ReadWindow, outside, history
<1>3. /\ last \in 0 .. Len(log) /\ (last = 0 \/ watermark < last)
      /\ Fresh \subseteq Captured
      /\ \A i \in Rows : RowOf(i, Fresh) => watermark < i /\ i <= last
      /\ \A b \in Batches : Fresh \cap log[b].sources = {}
    BY <1>1, <1>2, WindowFresh
<1>4. watermark \in Nat /\ watermark' \in Nat /\ watermark <= watermark'
    BY <1>1, <1>3 DEF TypeOK
<1>5. Captured' = Captured /\ Batches' = Batches /\ Rows' = Rows
    BY <1>2 DEF Captured, Batches, Rows, IsObservation
<1>6. /\ run'[p].pc \in {"release", "extract"}
      /\ \A q \in Runs : q # p => run'[q] = run[q]
    BY <1>1, Moved DEF TypeOK
<1>7. ASSUME NEW i \in Rows, NEW points, "read" \notin points,
             PassedBy(p, i, points)
      PROVE  PassedBy(p, i, points)'
    BY <1>2, <1>4, <1>7 DEF PassedBy, Rows
<1>8. WindowKnown(run[p])' /\ SliceKnown(run[p])'
  <2>1. CASE Fresh = {} /\ to = offset
      BY <1>1, <2>1, Moved DEF WindowKnown, SliceKnown
  <2>2. CASE ~ (Fresh = {} /\ to = offset)
    <3>1. /\ run'[p] = [pc |-> "extract", window |-> Fresh, last |-> last,
                        from |-> offset, to |-> to]
          /\ UNCHANGED watermark
        BY <1>1, <2>2 DEF TypeOK
    <3>2. offset <= to
        BY <1>1 DEF TypeOK
    <3> DEFINE F == Fresh
    <3>3. /\ run'[p] = [pc |-> "extract", window |-> F, last |-> last,
                        from |-> offset, to |-> to]
          /\ F \subseteq Captured
          /\ \A i \in Rows : RowOf(i, F) => watermark < i /\ i <= last
          /\ \A b \in Batches : F \cap log[b].sources = {}
        BY <1>3, <3>1
    <3> HIDE DEF F
    <3>4. SliceKnown(run[p])'
        BY <1>2, <3>2, <3>3 DEF SliceKnown
    <3>5. last = 0 \/ watermark <= last
        BY <1>3, <1>4
    <3>6. WindowKnown(run[p])'
        BY <1>2, <1>5, <3>1, <3>3, <3>5 DEF WindowKnown, RowOf, IsObservation, Rows
    <3> QED
        BY <3>4, <3>6
  <2> QED
      BY <2>1, <2>2
<1>9. SourcesCaptured'
    BY <1>2, <1>5 DEF SourcesCaptured, Holding
<1>10. \A b \in Batches' : \A i \in Rows' :
         (b > imported /\ RowOf(i, log[b].sources))'
           => PassedBy(p, i, {"rebuild", "personal", "mark"})'
    BY <1>2, <1>5, <1>7 DEF Holding, RowOf, IsObservation, Rows
<1>11. imported' = 0 =>
         \A o \in Observations : routed'[o] # 0 =>
           o \in Captured' /\ \A i \in Rows' : RowOf(i, {o})' => PassedBy(p, i, {"mark"})'
    BY <1>2, <1>5, <1>7 DEF Holding, RowOf, IsObservation, Rows
<1>12. imported' = 0 =>
         \A t \in 1 .. MaxTurns : told'[t] # 0 =>
           \/ t <= offset'
           \/ run'[p].pc \in {"rebuild", "personal", "mark", "offset"} /\ t <= run'[p].to
    BY <1>2 DEF Holding
<1> QED
    BY <1>2, <1>6, <1>8, <1>9, <1>10, <1>11, <1>12 DEF Holding

\* The log after memories distilled from a window were stored.
LEMMA AppendMemories ==
  ASSUME TypeOK, NEW window \in SUBSET Observations,
         log' = Append(log, [kind |-> "memories", sources |-> window])
  PROVE  /\ Rows' = Rows \cup {Len(log) + 1} /\ Len(log) + 1 \notin Rows
         /\ \A i \in Rows : log'[i] = log[i]
         /\ \A i : IsObservation(i)' <=> IsObservation(i)
         /\ Captured' = Captured
         /\ Batches' = Batches \cup {Len(log) + 1}
         /\ log'[Len(log) + 1].sources = window
<1> DEFINE row == [kind |-> "memories", sources |-> window]
<1>1. row \in Row /\ row.kind = "memories" /\ row.sources = window
    BY DEF Row
<1>a. log' = Append(log, row)
    OBVIOUS
<1> HIDE DEF row
<1>2. /\ Len(log') = Len(log) + 1 /\ log'[Len(log) + 1] = row
      /\ \A i \in 1 .. Len(log) : log'[i] = log[i]
    BY <1>1, <1>a, AppendRow
<1>3. Rows' = Rows \cup {Len(log) + 1} /\ Len(log) + 1 \notin Rows
    BY <1>2, LogLength DEF Rows
<1>4. \A i : IsObservation(i)' <=> IsObservation(i)
    BY <1>1, <1>2, <1>3 DEF IsObservation, Rows
<1>5. Captured' = Captured
    BY <1>2, <1>3, <1>4 DEF Captured, IsObservation, Rows
<1>6. Batches' = Batches \cup {Len(log) + 1}
    BY <1>1, <1>2, <1>3 DEF Batches, Rows
<1> QED
    BY <1>1, <1>2, <1>3, <1>4, <1>5, <1>6 DEF Rows

LEMMA HoldExtract ==
  ASSUME TypeOK, NEW p \in Runs, Holding(p), Extract(p)
  PROVE  Holding(p)'
<1>1. PICK point \in {"rebuild", "personal"} : Goto(p, point)
    BY DEF Extract
<1>2. /\ run'[p].pc = point
      /\ run'[p].window = run[p].window /\ run'[p].last = run[p].last
      /\ run'[p].from = run[p].from /\ run'[p].to = run[p].to
      /\ \A q \in Runs : q # p => run'[q] = run[q]
    BY <1>1, Moved
<1>3. /\ UNCHANGED <<watermark, offset, lock, imported, routed>>
      /\ run[p].pc = "extract"
    BY DEF Extract, marks, outside
<1>4. /\ run[p].window \subseteq Captured /\ run[p].window \subseteq Observations
      /\ \A i \in Rows : RowOf(i, run[p].window) => i <= run[p].last
      /\ WindowKnown(run[p]) /\ SliceKnown(run[p])
    BY <1>3 DEF Holding, WindowKnown, TypeOK, Local
<1>5. /\ \A i : IsObservation(i)' <=> IsObservation(i)
      /\ \A i : IsObservation(i) => i \in Rows /\ log'[i] = log[i]
      /\ Captured' = Captured
      /\ \A i \in Rows' : IsObservation(i)' => i \in Rows
  <2>1. CASE UNCHANGED log
      BY <2>1 DEF IsObservation, Captured, Rows
  <2>2. CASE log' = Append(log,
               [kind |-> "memories", sources |-> run[p].window])
      BY <1>4, <2>2, AppendMemories DEF IsObservation
  <2> QED
      BY <2>1, <2>2 DEF Extract
<1>6. \A b \in Batches' : \/ b \in Batches /\ log'[b] = log[b]
                          \/ log'[b].sources = run[p].window
  <2>1. CASE UNCHANGED log
      BY <2>1 DEF Batches, Rows
  <2>2. CASE log' = Append(log,
               [kind |-> "memories", sources |-> run[p].window])
    <3>1. /\ \A i \in Rows : log'[i] = log[i]
          /\ Batches' = Batches \cup {Len(log) + 1}
          /\ log'[Len(log) + 1].sources = run[p].window
        BY <1>4, <2>2, AppendMemories
    <3>2. Batches \subseteq Rows
        BY DEF Batches
    <3> QED
        BY <3>1, <3>2
  <2> QED
      BY <2>1, <2>2 DEF Extract
<1>7. WindowKnown(run[p])' /\ SliceKnown(run[p])'
    BY <1>2, <1>3, <1>4, <1>5 DEF WindowKnown, SliceKnown, RowOf
<1>8. SourcesCaptured'
    BY <1>4, <1>5, <1>6 DEF SourcesCaptured, Holding
<1>9. ASSUME NEW b \in Batches', NEW i \in Rows',
             (b > imported /\ RowOf(i, log[b].sources))'
      PROVE  PassedBy(p, i, {"rebuild", "personal", "mark"})'
  <2>1. i \in Rows /\ IsObservation(i) /\ log'[i].id = log[i].id
      BY <1>5, <1>9 DEF RowOf
  <2>2. CASE b \in Batches /\ log'[b] = log[b]
    <3>1. RowOf(i, log[b].sources)
        BY <2>1, <2>2, <1>9 DEF RowOf
    <3>2. PassedBy(p, i, {"rebuild", "personal", "mark"})
        BY <1>3, <1>9, <2>1, <2>2, <3>1 DEF Holding
    <3>3. i <= watermark
        BY <1>3, <3>2 DEF PassedBy
    <3> QED
        BY <1>3, <3>3 DEF PassedBy
  <2>3. CASE log'[b].sources = run[p].window
    <3>1. RowOf(i, run[p].window)
        BY <2>1, <2>3, <1>9 DEF RowOf
    <3>2. i <= run'[p].last /\ run'[p].pc \in {"rebuild", "personal", "mark"}
        BY <1>2, <1>4, <2>1, <3>1
    <3> QED
        BY <3>2 DEF PassedBy
  <2> QED
      BY <1>6, <2>2, <2>3
<1>10. ASSUME imported' = 0, NEW o \in Observations, routed'[o] # 0
       PROVE  o \in Captured' /\ \A i \in Rows' : RowOf(i, {o})' => PassedBy(p, i, {"mark"})'
  <2>1. o \in Captured /\ \A i \in Rows : RowOf(i, {o}) => PassedBy(p, i, {"mark"})
      BY <1>3, <1>10 DEF Holding
  <2>2. ASSUME NEW i \in Rows', RowOf(i, {o})' PROVE PassedBy(p, i, {"mark"})'
    <3>1. i \in Rows /\ RowOf(i, {o})
        BY <1>5, <2>2 DEF RowOf
    <3>2. i <= watermark
        BY <1>3, <2>1, <3>1 DEF PassedBy
    <3> QED
        BY <1>3, <3>2 DEF PassedBy
  <2> QED
      BY <1>5, <2>1, <2>2
<1>11. ASSUME imported' = 0, NEW t \in 1 .. MaxTurns, told'[t] # 0
       PROVE  \/ t <= offset'
              \/ /\ run'[p].pc \in {"rebuild", "personal", "mark", "offset"}
                 /\ t <= run'[p].to
  <2>1. CASE t \in Slice(p)
      BY <1>2, <2>1 DEF Slice, TypeOK, Local
  <2>2. CASE t \notin Slice(p)
    <3>1. told'[t] = told[t]
        BY <2>2 DEF Extract
    <3>2. t <= offset
        BY <1>3, <1>11, <3>1 DEF Holding
    <3> QED
        BY <1>3, <3>2
  <2> QED
      BY <2>1, <2>2
<1> QED
    BY <1>2, <1>3, <1>7, <1>8, <1>9, <1>10, <1>11 DEF Holding

LEMMA HoldPersonal ==
  ASSUME TypeOK, NEW p \in Runs, Holding(p), RoutePersonal(p)
  PROVE  Holding(p)'
<1>1. /\ Goto(p, "mark") /\ run[p].pc = "personal"
      /\ UNCHANGED <<log, watermark, offset, lock, imported, told>>
    BY DEF RoutePersonal, marks, outside
<1>2. CASE UNCHANGED routed
    BY <1>1, <1>2, MoveHolding
<1>3. CASE routed' = [o \in Observations |->
             IF o \in run[p].window THEN routed[o] + 1 ELSE routed[o]]
  <2>1. /\ run'[p].pc = "mark"
        /\ run'[p].window = run[p].window /\ run'[p].last = run[p].last
        /\ run'[p].from = run[p].from /\ run'[p].to = run[p].to
        /\ \A q \in Runs : q # p => run'[q] = run[q]
      BY <1>1, Moved
  <2>2. Captured' = Captured /\ Batches' = Batches /\ Rows' = Rows
      BY <1>1 DEF Captured, Batches, Rows, IsObservation
  <2>3. \A i, S : RowOf(i, S)' <=> RowOf(i, S)
      BY <1>1 DEF RowOf, IsObservation, Rows
  <2>4. WindowKnown(run[p])' /\ SliceKnown(run[p])'
      BY <1>1, <2>1, <2>2, <2>3 DEF WindowKnown, SliceKnown, Holding
  <2>5. SourcesCaptured'
      BY <1>1, <2>2 DEF SourcesCaptured, Holding
  <2>6. \A b \in Batches' : \A i \in Rows' :
          (b > imported /\ RowOf(i, log[b].sources))'
            => PassedBy(p, i, {"rebuild", "personal", "mark"})'
      BY <1>1, <2>1, <2>2 DEF Holding, PassedBy, RowOf, IsObservation, Rows
  <2>7. ASSUME imported' = 0, NEW o \in Observations, routed'[o] # 0
        PROVE  o \in Captured' /\ \A i \in Rows' : RowOf(i, {o})' => PassedBy(p, i, {"mark"})'
    <3>1. CASE o \in run[p].window
      <4>1. /\ run[p].window \subseteq Captured
            /\ \A i \in Rows : RowOf(i, run[p].window) => i <= run[p].last
          BY <1>1 DEF Holding, WindowKnown
      <4> QED
          BY <2>1, <2>2, <2>3, <3>1, <4>1 DEF PassedBy, RowOf
    <3>2. CASE o \notin run[p].window
      <4>1. o \in Captured /\ \A i \in Rows : RowOf(i, {o}) => PassedBy(p, i, {"mark"})
          BY <1>1, <1>3, <2>7, <3>2 DEF Holding
      <4> QED
          BY <1>1, <2>1, <2>2, <2>3, <4>1 DEF PassedBy
    <3> QED
        BY <3>1, <3>2
  <2>8. imported' = 0 =>
          \A t \in 1 .. MaxTurns : told'[t] # 0 =>
            \/ t <= offset'
            \/ run'[p].pc \in {"rebuild", "personal", "mark", "offset"} /\ t <= run'[p].to
      BY <1>1, <2>1 DEF Holding
  <2> QED
      BY <1>1, <2>1, <2>4, <2>5, <2>6, <2>7, <2>8 DEF Holding
<1> QED
    BY <1>2, <1>3 DEF RoutePersonal

LEMMA HoldMark ==
  ASSUME TypeOK, TypeOK', NEW p \in Runs, Holding(p), WriteMark(p)
  PROVE  Holding(p)'
<1>1. /\ Goto(p, "offset") /\ run[p].pc = "mark"
      /\ UNCHANGED <<log, offset, lock, imported, routed, told>>
      /\ watermark' = IF run[p].last = 0 THEN watermark ELSE run[p].last
    BY DEF WriteMark, outside, history
<1>2. /\ run'[p].pc = "offset" /\ run'[p].from = run[p].from /\ run'[p].to = run[p].to
      /\ \A q \in Runs : q # p => run'[q] = run[q]
    BY <1>1, Moved
<1>3. run[p].last = 0 \/ watermark <= run[p].last
    BY <1>1 DEF Holding, WindowKnown
<1>4. run[p].last \in Nat /\ watermark \in Nat
    BY DEF TypeOK, Local
<1>5. ASSUME NEW i \in Rows, NEW points, PassedBy(p, i, points)
      PROVE  PassedBy(p, i, points)'
  <2>1. i \in Nat /\ i # 0
      BY DEF Rows
  <2>2. i <= watermark'
      BY <1>1, <1>3, <1>4, <1>5, <2>1 DEF PassedBy
  <2> QED
      BY <2>2 DEF PassedBy
<1>6. Captured' = Captured /\ Batches' = Batches /\ Rows' = Rows
    BY <1>1 DEF Captured, Batches, Rows, IsObservation
<1>7. WindowKnown(run[p])' /\ SliceKnown(run[p])'
    BY <1>1, <1>2 DEF WindowKnown, SliceKnown, Holding
<1>8. SourcesCaptured'
    BY <1>1, <1>6 DEF SourcesCaptured, Holding
<1>9. \A b \in Batches' : \A i \in Rows' :
        (b > imported /\ RowOf(i, log[b].sources))'
          => PassedBy(p, i, {"rebuild", "personal", "mark"})'
    BY <1>1, <1>5, <1>6 DEF Holding, RowOf, IsObservation, Rows
<1>10. imported' = 0 =>
         \A o \in Observations : routed'[o] # 0 =>
           o \in Captured' /\ \A i \in Rows' : RowOf(i, {o})' => PassedBy(p, i, {"mark"})'
    BY <1>1, <1>5, <1>6 DEF Holding, RowOf, IsObservation, Rows
<1>11. imported' = 0 =>
         \A t \in 1 .. MaxTurns : told'[t] # 0 =>
           \/ t <= offset'
           \/ run'[p].pc \in {"rebuild", "personal", "mark", "offset"} /\ t <= run'[p].to
    BY <1>1, <1>2 DEF Holding
<1> QED
    BY <1>1, <1>2, <1>7, <1>8, <1>9, <1>10, <1>11 DEF Holding

LEMMA HoldOffset ==
  ASSUME TypeOK, TypeOK', NEW p \in Runs, Holding(p), WriteOffset(p)
  PROVE  Holding(p)'
<1>1. /\ Goto(p, "release") /\ run[p].pc = "offset"
      /\ UNCHANGED <<log, watermark, lock, imported, routed, told>>
      /\ offset' = IF Slice(p) = {} THEN offset ELSE run[p].to
    BY DEF WriteOffset, outside, history
<1>2. run'[p].pc = "release" /\ \A q \in Runs : q # p => run'[q] = run[q]
    BY <1>1, Moved
<1>3. run[p].to <= offset' /\ offset <= offset' /\ offset' \in Nat /\ offset \in Nat
      /\ run[p].to \in Nat
  <2>1. run[p].from = offset /\ offset <= run[p].to
      BY <1>1 DEF Holding, SliceKnown
  <2>2. offset \in Nat /\ run[p].to \in Nat
      BY DEF TypeOK, Local
  <2>3. Slice(p) = {} => run[p].to <= offset
    <3> SUFFICES ASSUME Slice(p) = {}, ~ run[p].to <= offset PROVE FALSE
        OBVIOUS
    <3>1. run[p].to \in Slice(p)
        BY <2>1, <2>2 DEF Slice
    <3> QED
        BY <3>1
  <2> QED
      BY <1>1, <2>1, <2>2, <2>3
<1>4. ASSUME NEW i \in Rows, NEW points, "offset" \notin points, PassedBy(p, i, points)
      PROVE  PassedBy(p, i, points)'
    BY <1>1, <1>4 DEF PassedBy
<1>5. Captured' = Captured /\ Batches' = Batches /\ Rows' = Rows
    BY <1>1 DEF Captured, Batches, Rows, IsObservation
<1>6. WindowKnown(run[p])' /\ SliceKnown(run[p])'
    BY <1>2 DEF WindowKnown, SliceKnown
<1>7. SourcesCaptured'
    BY <1>1, <1>5 DEF SourcesCaptured, Holding
<1>8. \A b \in Batches' : \A i \in Rows' :
        (b > imported /\ RowOf(i, log[b].sources))'
          => PassedBy(p, i, {"rebuild", "personal", "mark"})'
    BY <1>1, <1>4, <1>5 DEF Holding, RowOf, IsObservation, Rows
<1>9. imported' = 0 =>
        \A o \in Observations : routed'[o] # 0 =>
          o \in Captured' /\ \A i \in Rows' : RowOf(i, {o})' => PassedBy(p, i, {"mark"})'
    BY <1>1, <1>4, <1>5 DEF Holding, RowOf, IsObservation, Rows
<1>10. imported' = 0 => \A t \in 1 .. MaxTurns : told'[t] # 0 => t <= offset'
    BY <1>1, <1>3 DEF Holding
<1> QED
    BY <1>1, <1>2, <1>6, <1>7, <1>8, <1>9, <1>10 DEF Holding

LEMMA HoldAcquire ==
  ASSUME TypeOK, Orderly, NEW p \in Runs, Acquire(p)
  PROVE  Holding(p)'
<1>1. \A q \in Runs : run[q].pc = "idle"
    BY DEF Acquire, Orderly, Alone
<1>2. AllIdle
    BY <1>1, AllIdleFrom
<1>3. /\ run'[p].pc = "read" /\ \A q \in Runs : q # p => run'[q] = run[q]
      /\ lock' = p
      /\ UNCHANGED <<log, watermark, offset, imported, routed, told>>
    BY Moved DEF Acquire, marks, outside, history
<1>4. Captured' = Captured /\ Batches' = Batches /\ Rows' = Rows
    BY <1>3 DEF Captured, Batches, Rows, IsObservation
<1>5. WindowKnown(run[p])' /\ SliceKnown(run[p])'
    BY <1>3 DEF WindowKnown, SliceKnown
<1>6. SourcesCaptured'
    BY <1>2, <1>3, <1>4 DEF SourcesCaptured, AllIdle
<1>7. \A b \in Batches' : \A i \in Rows' :
        (b > imported /\ RowOf(i, log[b].sources))'
          => PassedBy(p, i, {"rebuild", "personal", "mark"})'
    BY <1>2, <1>3, <1>4 DEF AllIdle, PassedBy, RowOf, IsObservation, Rows
<1>8. imported' = 0 =>
        \A o \in Observations : routed'[o] # 0 =>
          o \in Captured' /\ \A i \in Rows' : RowOf(i, {o})' => PassedBy(p, i, {"mark"})'
    BY <1>2, <1>3, <1>4 DEF AllIdle, PassedBy, RowOf, IsObservation, Rows
<1>9. imported' = 0 => \A t \in 1 .. MaxTurns : told'[t] # 0 => t <= offset'
    BY <1>2, <1>3 DEF AllIdle
<1> QED
    BY <1>1, <1>3, <1>5, <1>6, <1>7, <1>8, <1>9 DEF Holding

LEMMA HoldRelease ==
  ASSUME TypeOK, NEW p \in Runs, Holding(p), Release(p)
  PROVE  AllIdle'
<1>1. /\ run[p].pc = "release" /\ run' = [run EXCEPT ![p] = Idle]
      /\ lock' = NoProc
      /\ UNCHANGED <<log, watermark, offset, imported, routed, told>>
    BY DEF Release, marks, outside, history
<1>2. \A q \in Runs : run'[q].pc = "idle"
    BY <1>1 DEF Holding, Idle, TypeOK
<1>3. Captured' = Captured /\ Batches' = Batches /\ Rows' = Rows
    BY <1>1 DEF Captured, Batches, Rows, IsObservation
<1>4. SourcesCaptured'
    BY <1>1, <1>3 DEF SourcesCaptured, Holding
<1>5. \A b \in Batches' : \A i \in Rows' :
        (b > imported /\ RowOf(i, log[b].sources))' => i <= watermark'
    BY <1>1, <1>3 DEF Holding, PassedBy, RowOf, IsObservation, Rows
<1>6. imported' = 0 =>
        \A o \in Observations : routed'[o] # 0 =>
          o \in Captured' /\ \A i \in Rows' : RowOf(i, {o})' => i <= watermark'
    BY <1>1, <1>3 DEF Holding, PassedBy, RowOf, IsObservation, Rows
<1>7. imported' = 0 => \A t \in 1 .. MaxTurns : told'[t] # 0 => t <= offset'
    BY <1>1 DEF Holding
<1> QED
    BY <1>1, <1>2, <1>4, <1>5, <1>6, <1>7 DEF AllIdle

\* The meta table is lost: every memory of the log is a projected one.
LEMMA HoldReimport ==
  ASSUME TypeOK, Orderly, Reimport
  PROVE  AllIdle'
<1>1. /\ imported' = Len(log) /\ imported' # 0
      /\ UNCHANGED <<log, lock, run>> /\ lock # Killed
      /\ \A p \in Runs : run[p].pc = "idle"
    BY LogLength DEF Reimport, Orderly, Alone, TypeOK
<1>2. SourcesCaptured'
    BY <1>1 DEF Orderly, SourcesCaptured, Batches, Captured, IsObservation, Rows
<1>3. \A b \in Batches' : ~ (b > imported')
    BY <1>1, LogLength DEF Batches, Rows
<1> QED
    BY <1>1, <1>2, <1>3 DEF AllIdle

\* The log after a capture.
LEMMA AppendObservation ==
  ASSUME TypeOK, NEW o \in Observations, Capture(o)
  PROVE  /\ Rows' = Rows \cup {Len(log) + 1} /\ Len(log) + 1 \notin Rows
         /\ \A i \in Rows : log'[i] = log[i]
         /\ \A i \in Rows : IsObservation(i)' <=> IsObservation(i)
         /\ log'[Len(log) + 1].id = o
         /\ Captured \subseteq Captured' /\ o \notin Captured
         /\ Batches' = Batches
<1> DEFINE row == [kind |-> "observation", id |-> o]
<1>1. row \in Row /\ row.kind = "observation" /\ row.id = o
    BY DEF Row
<1>a. log' = Append(log, row)
    BY DEF Capture
<1> HIDE DEF row
<1>2. /\ Len(log') = Len(log) + 1 /\ log'[Len(log) + 1] = row
      /\ \A i \in 1 .. Len(log) : log'[i] = log[i]
    BY <1>1, <1>a, AppendRow
<1>3. Rows' = Rows \cup {Len(log) + 1} /\ Len(log) + 1 \notin Rows
    BY <1>2, LogLength DEF Rows
<1>4. \A i \in Rows : IsObservation(i)' <=> IsObservation(i)
    BY <1>1, <1>2, <1>3 DEF IsObservation, Rows
<1>5. Captured \subseteq Captured'
    BY <1>2, <1>3, <1>4 DEF Captured, IsObservation, Rows
<1>6. Batches' = Batches
    BY <1>1, <1>2, <1>3 DEF Batches, Rows
<1> QED
    BY <1>1, <1>2, <1>3, <1>4, <1>5, <1>6 DEF Rows, Capture

\* What is captured meanwhile is in no window and no memory's sources.
LEMMA OrderlyCapture ==
  ASSUME TypeOK, Orderly, NEW o \in Observations, Capture(o)
  PROVE  Orderly'
<1>1. UNCHANGED <<watermark, offset, lock, imported, run, routed, told>>
    BY DEF Capture, marks, outside, history
<1>2. /\ \A i \in Rows : log'[i] = log[i]
      /\ \A i \in Rows : IsObservation(i)' <=> IsObservation(i)
      /\ Captured \subseteq Captured'
      /\ Batches' = Batches /\ Batches \subseteq Rows
    BY AppendObservation DEF Batches
<1>3. ASSUME NEW S \in SUBSET Captured, NEW i \in Rows', RowOf(i, S)'
      PROVE  i \in Rows /\ RowOf(i, S)
    BY <1>3, AppendObservation DEF RowOf
<1>4. \A i, points : Passed(i, points) => Passed(i, points)'
    BY <1>1 DEF Passed
<1>5. \A q \in Runs : WindowKnown(run[q])' /\ SliceKnown(run[q])'
  <2> SUFFICES ASSUME NEW q \in Runs PROVE WindowKnown(run[q])' /\ SliceKnown(run[q])'
      OBVIOUS
  <2>1. WindowKnown(run[q]) /\ SliceKnown(run[q])
      BY DEF Orderly
  <2>2. SliceKnown(run[q])'
      BY <1>1, <2>1 DEF SliceKnown
  <2>3. WindowKnown(run[q])'
    <3> SUFFICES ASSUME run[q].pc \in {"extract", "rebuild", "personal", "mark"}
                 PROVE  WindowKnown(run[q])'
        BY <1>1 DEF WindowKnown
    <3>1. /\ run[q].last = 0 \/ watermark <= run[q].last
          /\ run[q].window \subseteq Captured
          /\ \A i \in Rows : RowOf(i, run[q].window) => watermark < i /\ i <= run[q].last
          /\ run[q].pc = "extract" =>
               \A b \in Batches : run[q].window \cap log[b].sources = {}
        BY <2>1 DEF WindowKnown
    <3> DEFINE W == run[q].window
    <3>2. \A i \in Rows' : RowOf(i, W)' => i \in Rows /\ RowOf(i, W)
        BY <1>1, <1>3, <3>1 DEF RowOf
    <3> QED
        BY <1>1, <1>2, <3>1, <3>2 DEF WindowKnown
  <2> QED
      BY <2>2, <2>3
<1>6. SourcesCaptured'
    BY <1>2 DEF Orderly, SourcesCaptured
<1>7. SourcesPassed'
  <2> SUFFICES ASSUME NEW b \in Batches', NEW i \in Rows',
                      (b > imported /\ RowOf(i, log[b].sources))'
               PROVE  Passed(i, {"rebuild", "personal", "mark"})'
      BY DEF SourcesPassed
  <2>1. b \in Batches /\ log'[b] = log[b]
      BY <1>2
  <2> DEFINE S == log[b].sources
  <2>2. S \subseteq Captured
      BY <2>1 DEF Orderly, SourcesCaptured
  <2>3. i \in Rows /\ RowOf(i, S)
      BY <2>1, <2>2, AppendObservation DEF RowOf
  <2>4. Passed(i, {"rebuild", "personal", "mark"})
      BY <1>1, <2>1, <2>3 DEF Orderly, SourcesPassed
  <2> QED
      BY <1>4, <2>4
<1>8. ASSUME imported' = 0 PROVE RoutedPassed'
  <2> SUFFICES ASSUME NEW x \in Observations, routed'[x] # 0
               PROVE  /\ x \in Captured'
                      /\ \A i \in Rows' : RowOf(i, {x})' => Passed(i, {"mark"})'
      BY DEF RoutedPassed
  <2>1. x \in Captured /\ \A i \in Rows : RowOf(i, {x}) => Passed(i, {"mark"})
      BY <1>1, <1>8 DEF Orderly, RoutedPassed
  <2>2. \A i \in Rows' : RowOf(i, {x})' => i \in Rows /\ RowOf(i, {x})
      BY <2>1, AppendObservation DEF RowOf
  <2> QED
      BY <1>2, <1>4, <2>1, <2>2
<1>9. imported' = 0 => ToldPassed'
    BY <1>1 DEF Orderly, ToldPassed
<1>10. Alone'
    BY <1>1 DEF Orderly, Alone
<1> QED
    BY <1>5, <1>6, <1>7, <1>8, <1>9, <1>10 DEF Orderly

\* The parts that hold whatever was killed or stolen.
LEMMA PlainStep ==
  TypeOK /\ TypeOK' /\ OnceInv /\ [Next]_vars
    => imported' <= built' /\ CapturedOnce'
<1> SUFFICES ASSUME TypeOK, TypeOK', OnceInv, [Next]_vars
             PROVE  imported' <= built' /\ CapturedOnce'
    OBVIOUS
<1>1. imported <= built /\ CapturedOnce
    BY DEF OnceInv
<1>2. CapturedOnce'
  <2>1. CASE UNCHANGED log
      BY <1>1, <2>1 DEF CapturedOnce, IsObservation, Rows
  <2>2. ASSUME NEW o \in Observations, Capture(o) PROVE CapturedOnce'
    <3>1. /\ Rows' = Rows \cup {Len(log) + 1}
          /\ \A i \in Rows : log'[i] = log[i]
          /\ \A i \in Rows : IsObservation(i)' <=> IsObservation(i)
          /\ log'[Len(log) + 1].id = o /\ o \notin Captured
        BY <2>2, AppendObservation
    <3>2. \A i \in Rows : IsObservation(i) => log[i].id # o
        BY <3>1 DEF Captured
    <3> QED
        BY <1>1, <3>1, <3>2 DEF CapturedOnce
  <2>3. ASSUME NEW p \in Runs, Extract(p) PROVE CapturedOnce'
    <3>1. CASE UNCHANGED log
        BY <2>1, <3>1
    <3>2. CASE log' = Append(log,
                 [kind |-> "memories", sources |-> run[p].window])
      <4>1. run[p].window \subseteq Observations
          BY DEF TypeOK, Local
      <4>2. /\ \A i \in Rows : log'[i] = log[i]
            /\ \A i : IsObservation(i)' <=> IsObservation(i)
          BY <3>2, <4>1, AppendMemories
      <4> QED
          BY <1>1, <4>2 DEF CapturedOnce, IsObservation
    <3> QED
        BY <2>3, <3>1, <3>2 DEF Extract
  <2> QED
      BY <2>1, <2>2, <2>3
      DEF Next, Step, OtherRebuild, Say, Reimport, Acquire, Steal, ReadWindow,
          ExtractFails, Rebuild, RoutePersonal, WriteMark, WriteOffset,
          Release, Kill, vars
<1>3. imported' <= built'
  <2>1. CASE UNCHANGED <<imported, built>>
      BY <1>1, <2>1
  <2>2. CASE OtherRebuild
      BY <2>2 DEF OtherRebuild, outside, TypeOK
  <2>3. CASE Reimport
      BY <2>3, LogLength DEF Reimport
  <2>4. ASSUME NEW p \in Runs, Rebuild(p) PROVE imported' <= built'
      BY <2>4 DEF Rebuild, outside, TypeOK
  <2> QED
      BY <2>1, <2>2, <2>3, <2>4
      DEF Next, Step, Capture, Say, Acquire, Steal, ReadWindow, ExtractFails,
          Extract, RoutePersonal, WriteMark, WriteOffset, Release, Kill,
          outside, vars
<1> QED
    BY <1>2, <1>3

\* Without a fault, every step keeps the order.
LEMMA OrderStep ==
  TypeOK /\ TypeOK' /\ OnceInv /\ [Next]_vars
    => (faults = 0 => Orderly)'
<1> SUFFICES ASSUME TypeOK, TypeOK', OnceInv, [Next]_vars, faults' = 0
             PROVE  Orderly'
    OBVIOUS
<1>1. faults = 0 /\ \A p \in Runs : ~ Steal(p) /\ ~ Kill(p)
  <2>1. \A p \in Runs : ~ Steal(p) /\ ~ Kill(p)
      BY DEF Steal, Kill, TypeOK
  <2> QED
      BY <2>1 DEF Next, Step, Capture, OtherRebuild, Say, Reimport, Acquire,
         ReadWindow, ExtractFails, Extract, Rebuild, RoutePersonal, WriteMark,
         WriteOffset, Release, outside, vars
<1>2. Orderly /\ imported <= built /\ CapturedOnce
    BY <1>1 DEF OnceInv
<1> USE <1>2
<1>3. ASSUME NEW o \in Observations, Capture(o) PROVE Orderly'
    BY <1>3, OrderlyCapture
<1>4. ASSUME UNCHANGED <<log, watermark, offset, lock, run, imported, routed, told>>
      PROVE  Orderly'
  <2>1. Orderly
      OBVIOUS
  <2> QED
      BY <1>4, <2>1
      DEF Orderly, Alone, WindowKnown, SliceKnown, SourcesCaptured,
          SourcesPassed, RoutedPassed, ToldPassed, Passed, RowOf, Captured,
          Batches, Rows, IsObservation
<1>5. CASE Reimport
    BY <1>5, HoldReimport, AllIdleTo
<1>6. ASSUME NEW p \in Runs, Step(p) PROVE Orderly'
  <2>1. CASE Acquire(p)
      BY <2>1, HoldAcquire, HoldingTo
  <2>2. CASE ~ Acquire(p)
    <3>1. run[p].pc # "idle"
        BY <1>6, <2>2 DEF Step, ReadWindow, ExtractFails, Extract, Rebuild,
           RoutePersonal, WriteMark, WriteOffset, Release
    <3>2. Holding(p)
        BY <3>1, HoldingFrom
    <3>3. CASE Release(p)
        BY <3>2, <3>3, HoldRelease, AllIdleTo
    <3>4. CASE ExtractFails(p) \/ Rebuild(p)
      <4>1. PICK point \in {"release", "personal"} :
              /\ Goto(p, point)
              /\ \/ point = "release" /\ run[p].pc = "extract"
                 \/ point = "personal" /\ run[p].pc = "rebuild"
          BY <3>4 DEF ExtractFails, Rebuild
      <4>2. UNCHANGED <<log, watermark, offset, lock, imported, routed, told>>
          BY <3>4 DEF ExtractFails, Rebuild, marks, outside, history
      <4>3. Holding(p)'
          BY <3>2, <4>1, <4>2, MoveHolding
      <4> QED
          BY <4>3, HoldingTo
    <3>5. CASE ReadWindow(p)
        BY <3>2, <3>5, HoldRead, HoldingTo
    <3>6. CASE Extract(p)
        BY <3>2, <3>6, HoldExtract, HoldingTo
    <3>7. CASE RoutePersonal(p)
        BY <3>2, <3>7, HoldPersonal, HoldingTo
    <3>8. CASE WriteMark(p)
        BY <3>2, <3>8, HoldMark, HoldingTo
    <3>9. CASE WriteOffset(p)
        BY <3>2, <3>9, HoldOffset, HoldingTo
    <3> QED
        BY <1>6, <2>2, <3>3, <3>4, <3>5, <3>6, <3>7, <3>8, <3>9 DEF Step
  <2> QED
      BY <2>1, <2>2
<1> QED
    BY <1>1, <1>3, <1>4, <1>5, <1>6
    DEF Next, OtherRebuild, Say, marks, outside, history, vars

\* Memories distilled from a window share no source with stored ones.
LEMMA DistilledStep ==
  TypeOK /\ TypeOK' /\ OnceInv /\ [Next]_vars /\ (faults' = 0 => faults = 0)
    => DistilledOnce'
<1> SUFFICES ASSUME TypeOK, OnceInv, [Next]_vars, faults' = 0, faults = 0,
                    NEW b \in Batches', NEW c \in Batches', b # c
             PROVE  log'[b].sources \cap log'[c].sources = {}
    BY DEF DistilledOnce
<1>1. \A i, k \in Batches : i # k => log[i].sources \cap log[k].sources = {}
    BY DEF OnceInv, DistilledOnce
<1>2. CASE UNCHANGED log
    BY <1>1, <1>2 DEF Batches, Rows
<1>3. ASSUME NEW o \in Observations, Capture(o)
      PROVE  log'[b].sources \cap log'[c].sources = {}
  <2>1. Batches' = Batches /\ \A i \in Batches : log'[i] = log[i]
      BY <1>3, AppendObservation DEF Batches
  <2> QED
      BY <1>1, <2>1
<1>4. ASSUME NEW p \in Runs, Extract(p)
      PROVE  log'[b].sources \cap log'[c].sources = {}
  <2>1. CASE UNCHANGED log
      BY <1>2, <2>1
  <2>2. CASE log' = Append(log,
               [kind |-> "memories", sources |-> run[p].window])
    <3>1. run[p].window \subseteq Observations /\ run[p].pc = "extract"
        BY <1>4 DEF TypeOK, Local, Extract
    <3>2. /\ \A i \in Batches : log'[i] = log[i]
          /\ Batches' = Batches \cup {Len(log) + 1}
          /\ log'[Len(log) + 1].sources = run[p].window
        BY <2>2, <3>1, AppendMemories DEF Batches
    <3>3. \A i \in Batches : run[p].window \cap log[i].sources = {}
        BY <3>1 DEF OnceInv, Orderly, WindowKnown
    <3> QED
        BY <1>1, <3>2, <3>3
  <2> QED
      BY <1>4, <2>1, <2>2 DEF Extract
<1> QED
    BY <1>2, <1>3, <1>4
    DEF Next, Step, OtherRebuild, Say, Reimport, Acquire, Steal, ReadWindow,
        ExtractFails, Rebuild, RoutePersonal, WriteMark, WriteOffset,
        Release, Kill, vars

\* What a boundary routes or tells was neither routed nor told before.
LEMMA RoutedStep ==
  TypeOK /\ TypeOK' /\ OnceInv /\ [Next]_vars /\ (faults' = 0 => faults = 0)
    => RoutedOnce'
<1> SUFFICES ASSUME TypeOK, TypeOK', OnceInv, [Next]_vars, faults' = 0, faults = 0,
                    imported' = 0
             PROVE  /\ \A o \in Observations : routed'[o] <= 1
                    /\ \A t \in 1 .. MaxTurns : told'[t] <= 1
    BY DEF RoutedOnce
<1>1. imported = 0
  <2>1. ~ Reimport
      BY LogLength DEF Reimport, TypeOK
  <2> QED
      BY <2>1 DEF Next, Step, Capture, OtherRebuild, Say, Acquire, Steal,
         ReadWindow, ExtractFails, Extract, Rebuild, RoutePersonal, WriteMark,
         WriteOffset, Release, Kill, outside, vars
<1>2. /\ \A o \in Observations : routed[o] <= 1
      /\ \A t \in 1 .. MaxTurns : told[t] <= 1
    BY <1>1 DEF OnceInv, RoutedOnce
<1>3. Orderly
    BY DEF OnceInv
<1>4. CASE UNCHANGED <<routed, told>>
    BY <1>2, <1>4
<1>5. ASSUME NEW p \in Runs, Extract(p)
      PROVE  \A t \in 1 .. MaxTurns : told'[t] <= 1
  <2> SUFFICES ASSUME NEW t \in 1 .. MaxTurns, t \in Slice(p) PROVE told'[t] <= 1
      BY <1>2, <1>5 DEF Extract
  <2>1. run[p].pc = "extract"
      BY <1>5 DEF Extract
  <2>2. Holding(p)
      BY <1>3, <2>1, HoldingFrom
  <2>3. run[p].from = offset
      BY <1>3, <2>1 DEF Orderly, SliceKnown
  <2>4. ~ t <= offset
      BY <2>3 DEF Slice, TypeOK, Local
  <2>5. told[t] = 0
      BY <1>1, <2>1, <2>2, <2>4 DEF Holding
  <2> QED
      BY <1>5, <2>5 DEF Extract
<1>6. ASSUME NEW p \in Runs, RoutePersonal(p)
      PROVE  \A o \in Observations : routed'[o] <= 1
  <2> SUFFICES ASSUME NEW o \in Observations, o \in run[p].window,
                      routed'[o] = routed[o] + 1
               PROVE  routed'[o] <= 1
      BY <1>2, <1>6 DEF RoutePersonal
  <2>1. run[p].pc = "personal"
      BY <1>6 DEF RoutePersonal
  <2>2. Holding(p)
      BY <1>3, <2>1, HoldingFrom
  <2>3. /\ o \in Captured
        /\ \A i \in Rows : RowOf(i, run[p].window) => watermark < i
      BY <1>3, <2>1 DEF Orderly, WindowKnown
  <2>4. PICK i \in Rows : IsObservation(i) /\ log[i].id = o
      BY <2>3 DEF Captured
  <2>5. RowOf(i, {o}) /\ watermark < i /\ i \in Nat /\ watermark \in Nat
      BY <2>3, <2>4 DEF RowOf, Rows, TypeOK
  <2>6. ~ PassedBy(p, i, {"mark"})
      BY <2>1, <2>5 DEF PassedBy
  <2>7. routed[o] = 0
      BY <1>1, <2>2, <2>5, <2>6 DEF Holding
  <2> QED
      BY <2>7
<1> QED
    BY <1>2, <1>4, <1>5, <1>6
    DEF Next, Step, Capture, OtherRebuild, Say, Reimport, Acquire, Steal,
        ReadWindow, ExtractFails, Extract, Rebuild, RoutePersonal, WriteMark,
        WriteOffset, Release, Kill, history, vars

\* Without a fault, boundaries keep the order that DistilledOnce and RoutedOnce
\* rest on: one at a time, each off what an earlier one stored.
THEOREM OnceCorrect == Spec => []OnceInv
<1>1. Init => OnceInv
  <2> SUFFICES ASSUME Init PROVE OnceInv
      OBVIOUS
  <2>1. Rows = {} /\ Batches = {}
      BY DEF Init, Rows, Batches
  <2>2. AllIdle
      BY <2>1 DEF Init, AllIdle, Idle, SourcesCaptured
  <2>3. Orderly
      BY <2>1, <2>2 DEF AllIdle, Orderly, Alone, WindowKnown, SliceKnown,
         SourcesPassed, RoutedPassed, ToldPassed, Passed, Init
  <2>4. DistilledOnce /\ RoutedOnce /\ CapturedOnce
      BY <2>1 DEF Init, DistilledOnce, RoutedOnce, CapturedOnce
  <2> QED
      BY <2>3, <2>4 DEF Init, OnceInv
<1>2. DistillInv /\ DistillInv' /\ OnceInv /\ [Next]_vars => OnceInv'
  <2> SUFFICES ASSUME DistillInv, DistillInv', OnceInv, [Next]_vars PROVE OnceInv'
      OBVIOUS
  <2>1. TypeOK /\ TypeOK'
      BY DEF DistillInv
  <2>2. faults' = 0 => faults = 0
    <3>1. faults' = faults \/ faults' = faults + 1
        BY DEF Next, Step, Capture, OtherRebuild, Say, Reimport, Acquire,
           Steal, Kill, ReadWindow, ExtractFails, Extract, Rebuild,
           RoutePersonal, WriteMark, WriteOffset, Release, outside, vars
    <3>2. faults \in Nat
        BY <2>1 DEF TypeOK
    <3> QED
        BY <3>1, <3>2
  <2> QED
      BY <2>1, <2>2, PlainStep, OrderStep, DistilledStep, RoutedStep DEF OnceInv
<1> QED
    BY <1>1, <1>2, DistillCorrect, PTL DEF Spec

\* As long as no process is killed and no lock stolen, no two extractions
\* store memories of one observation, through lost watermarks too.
THEOREM DistilledOnceHolds == Spec => []DistilledOnce
<1>1. OnceInv => DistilledOnce
    BY DEF OnceInv
<1> QED
    BY <1>1, OnceCorrect, PTL

\* Under the same proviso and with its meta table alive, a boundary routes no
\* observation, and stores no turn, that an earlier one did.
THEOREM RoutedOnceHolds == Spec => []RoutedOnce
<1>1. OnceInv => RoutedOnce
    BY DEF OnceInv
<1> QED
    BY <1>1, OnceCorrect, PTL
=============================================================================
