---------------------------- MODULE Sessions_proofs ----------------------------
(***************************************************************************)
(* Proofs about Sessions, for any number of processes, conversations,      *)
(* tasks and sessions.                                                     *)
(*                                                                         *)
(* A process reads a pointer, and writes an event or the pointer later, so *)
(* the invariant says what each one has on its hands (Shape), what it may  *)
(* rely on of the session it is at work on (Started, Owned, Newborn), what *)
(* a reap and a resume of one session spoil for each other (Uncrossed),    *)
(* what a picker sees of the sessions before it (Claimed), and how the log *)
(* and the pointers differ (Matched).                                      *)
(***************************************************************************)
EXTENDS Sessions, SequenceTheorems, FiniteSetTheorems, WellFoundedInduction, TLAPS

-----------------------------------------------------------------------------
(* The inductive invariant *)

\* What a process is doing, by its kind and point
Shape(j) ==
  /\ j.op = "free" => j = Free
  /\ j.op = "resume" =>
       /\ j.who # NoAgent
       /\ j.at \in {"resolve", "reattach", "stamp", "resumed", "lock", "read", "write"}
       /\ j.s = 0 <=> j.at \in {"resolve", "lock"}
  /\ j.op = "start" =>
       /\ j.who # NoAgent
       /\ j.at \in {"recheck", "pick", "start", "read", "write", "point"}
       /\ j.s = 0 <=> j.at \in {"recheck", "pick", "start"}
  /\ j.op = "pause" =>
       /\ j.who # NoAgent
       /\ j.at \in {"match", "pause", "wait", "check", "paused", "read", "write"}
       /\ j.s = 0 <=> j.at = "match"
  /\ j.op = "reap" =>
       /\ j.at \in {"sweep", "abandon", "read", "write", "unlink"}
       /\ j.at # "sweep" => j.s \in j.todo
  /\ j.op = "beat" => j.at \in {"beat", "read", "write"} /\ j.s # 0
  /\ j.op # "reap" => j.todo = {}

StartOf(s, i) == log[i].kind = "started" /\ log[i].s = s

\* Sessions the log has started; those the table has, too
Begun == {s \in Sessions : \E i \in 1 .. Len(log) : StartOf(s, i)}
Shown == {s \in Sessions : \E i \in 1 .. built : StartOf(s, i)}

\* The task each was started with, and where each is
Gift == [s \in Sessions |-> TaskOf(s, Len(log))]
Live == {s \in Sessions : Status(s, Len(log)) \in {"active", "paused"}}
Gone == {s \in Sessions : Status(s, Len(log)) = "abandoned"}

Jobs ==
  \A p \in Procs :
    /\ Shape(job[p])
    /\ job[p].at = "write" => job[p].seen <= Len(log)
    /\ job[p].s # 0 => job[p].s \in Begun
    /\ job[p].todo \subseteq Begun

Locked == \A p \in Procs : Claims(p) <=> lock = p

LogInv ==
  /\ \A i \in 1 .. Len(log) : log[i].s \in Begun
  /\ \A i, j \in 1 .. Len(log) :
       log[i].kind = "started" /\ log[j].kind = "started" /\ log[i].s = log[j].s => i = j
  /\ \A i \in 1 .. Len(log) : log[i].kind = "abandoned" => log[i].s \in lapsed
  /\ \A s \in Sessions : aged[s] # 0 => s \in lapsed
  /\ \A s \in Sessions : ptr[s] # NoAgent => s \in Begun

\* A session is its conversation's for good.
Owned ==
  /\ \A p \in Procs : job[p].op = "resume" /\ job[p].s # 0 =>
       ptr[job[p].s] \in {NoAgent, job[p].who}
  /\ \A p, q \in Procs :
       /\ job[p].op = "resume" /\ job[q].op = "resume"
       /\ job[p].s # 0 /\ job[p].s = job[q].s
       => job[p].who = job[q].who

\* Nobody else knows of a session that is being started.
Newborn ==
  \A p \in Procs : job[p].op = "start" /\ job[p].s # 0 =>
    /\ ptr[job[p].s] = NoAgent
    /\ \A q \in Procs \ {p} : job[q].s # job[p].s
    /\ \A q \in Procs : job[p].s \notin job[q].todo
    /\ job[p].s \in Live
    /\ Gift[job[p].s] = job[p].task
    /\ job[p].crowded => job[p].s \in forced

Reaped(p, s) ==
  job[p].op = "reap" /\ job[p].s = s /\ job[p].at \in {"read", "write", "unlink"}

\* In the critical section, and past its look for a pointer
Alone(p) == Claims(p) /\ ~ At(p, "recheck")

Uncrossed ==
  ~ crossed =>
    /\ \A p, q \in Procs : \A s \in job[q].todo : ~ Attached(p, s)
    /\ \A p \in Procs, s \in Sessions : Attached(p, s) => ptr[s] # NoAgent
    /\ \A r, s \in Sessions : ptr[r] # NoAgent /\ ptr[r] = ptr[s] => r = s
    /\ \A p \in Procs : Alone(p) => \A s \in Sessions : ptr[s] # job[p].who
    /\ \A p \in Procs, s \in Sessions : Reaped(p, s) => s \in Gone

\* Sessions a picker is to count with
Known ==
  {s \in Sessions : ptr[s] # NoAgent
                     \/ \E q \in Procs : job[q].op = "resume" /\ job[q].s = s}

\* Past the picker
Picked(p) == job[p].op = "start" /\ job[p].at \notin {"recheck", "pick"}

Claimed ==
  ~ overwritten =>
    /\ Known \subseteq Shown
    /\ \A p \in Procs : job[p].op = "start" =>
         /\ job[p].at = "write" => \E i \in 1 .. job[p].seen : StartOf(job[p].s, i)
         /\ job[p].at = "point" => job[p].s \in Shown
    /\ \A p \in Procs : Picked(p) /\ ~ job[p].crowded =>
         \A r \in Known \ lapsed : Gift[r] # job[p].task
    /\ \A r, s \in Known \ (forced \cup lapsed) : r # s => Gift[r] # Gift[s]

Matched ==
  ~ crossed /\ kills = 0 =>
    \A s \in Sessions :
      /\ s \in Live /\ ptr[s] = NoAgent
         => \E p \in Procs : job[p].op = "start" /\ job[p].s = s
      /\ s \in Gone /\ ptr[s] # NoAgent => \E p \in Procs : Reaped(p, s)

Inv ==
  TypeOK /\ Jobs /\ Locked /\ LogInv /\ Owned /\ Newborn /\ Uncrossed /\ Claimed /\ Matched

-----------------------------------------------------------------------------
(* Positions, and what a log says of a session *)

\* A non-empty set of positions has a last one.
LEMMA LastOne ==
  ASSUME NEW n \in Nat, NEW T, T \subseteq 1 .. n, T # {}
  PROVE  \E i \in T : \A j \in i + 1 .. n : j \notin T
<1> DEFINE S == 1 .. n
           F == {i .. n : i \in T}
           R == StrictSubsetOrdering(S)
<1>1. IsFiniteSet(S)
  BY FS_Interval
<1>2. IsWellFoundedOn(R, SUBSET S)
  <2>1. IsWellFoundedOn(R, FiniteSubsetsOf(S))
    BY FS_StrictSubsetOrderingWellFounded
  <2>2. FiniteSubsetsOf(S) = SUBSET S
    BY <1>1, FS_FiniteSubsetsOfFinite
  <2> QED BY <2>1, <2>2
<1>3. F \subseteq SUBSET S /\ F # {}
  <2>1. \A i \in T : i .. n \subseteq S
    OBVIOUS
  <2>2. F \subseteq SUBSET S
    BY <2>1
  <2>3. PICK i \in T : TRUE
    OBVIOUS
  <2>4. i .. n \in F
    BY <2>3
  <2> QED BY <2>2, <2>4
<1>4. ASSUME NEW i \in T, NEW j \in T, i < j PROVE <<j .. n, i .. n>> \in R
  <2>1. j .. n \subseteq i .. n /\ i \in i .. n /\ i \notin j .. n
    BY <1>4
  <2>2. j .. n \in SUBSET S /\ i .. n \in SUBSET S
    OBVIOUS
  <2> QED BY <2>1, <2>2 DEF StrictSubsetOrdering
<1> HIDE DEF R
<1>5. PICK x \in F : \A y \in F : <<y, x>> \notin R
  BY <1>2, <1>3, WFMin
<1>6. PICK i \in T : x = i .. n
  BY <1>5
<1>7. \A j \in T : ~ i < j
  BY <1>4, <1>5, <1>6
<1> QED BY <1>7

LEMMA LastIs ==
  ASSUME NEW n \in Nat, NEW I, I \subseteq 1 .. n, I # {}
  PROVE  Last(I) \in I /\ \A k \in I : k <= Last(I)
<1>1. PICK i \in I : \A j \in i + 1 .. n : j \notin I
  BY LastOne
<1>2. \A k \in I : k <= i
  BY <1>1
<1> QED BY <1>2 DEF Last

LEMMA LogBounds ==
  TypeOK => /\ Len(log) \in Nat /\ built \in Nat /\ built <= Len(log)
            /\ \A i \in 1 .. Len(log) : log[i] \in Event
            /\ MaxSessions \in Nat
<1> SUFFICES ASSUME TypeOK
             PROVE  /\ Len(log) \in Nat /\ built \in Nat /\ built <= Len(log)
                    /\ \A i \in 1 .. Len(log) : log[i] \in Event
                    /\ MaxSessions \in Nat
  OBVIOUS
<1>1. Len(log) \in Nat /\ \A i \in 1 .. Len(log) : log[i] \in Event
  BY LenProperties, ElementOfSeq DEF TypeOK
<1>2. built \in 0 .. Len(log)
  BY DEF TypeOK
<1> QED BY <1>1, <1>2, SessionsAssumption
-----------------------------------------------------------------------------
(* What an event changes *)

\* The events of s that count for its status, and the status they make
Marks(L, s, n) == {i \in 1 .. n : L[i].s = s /\ L[i].kind # "heartbeat"}

StatusOf(L, I) ==
  IF I = {} THEN "none"
  ELSE CASE L[Last(I)].kind \in {"started", "resumed"} -> "active"
         [] L[Last(I)].kind = "paused" -> "paused"
         [] OTHER -> "abandoned"

LEMMA StatusIs ==
  \A s, n : Status(s, n) = StatusOf(log, Marks(log, s, n))
<1> TAKE s, n
<1>1. {i \in About(s, n) : log[i].kind # "heartbeat"} = Marks(log, s, n)
  BY DEF Marks, About
<1> QED BY <1>1 DEF Status, StatusOf

LEMMA StatusNext ==
  \A s : Status(s, Len(log))' = StatusOf(log', Marks(log', s, Len(log')))
<1> TAKE s
<1>1. {i \in About(s, Len(log)) : log[i].kind # "heartbeat"}' = Marks(log', s, Len(log'))
  BY DEF Marks, About
<1> QED BY <1>1 DEF Status, StatusOf

\* The started events of s, and the task they make
Starts(L, s, n) == {i \in 1 .. n : L[i].s = s /\ L[i].kind = "started"}

TaskIn(L, I) == IF I = {} THEN NoTask ELSE L[Last(I)].task

LEMMA TaskIs ==
  \A s, n : TaskOf(s, n) = TaskIn(log, Starts(log, s, n))
<1> TAKE s, n
<1>1. {i \in About(s, n) : log[i].kind = "started"} = Starts(log, s, n)
  BY DEF Starts, About
<1> QED BY <1>1 DEF TaskOf, TaskIn

LEMMA TaskNext ==
  \A s : TaskOf(s, Len(log))' = TaskIn(log', Starts(log', s, Len(log')))
<1> TAKE s
<1>1. {i \in About(s, Len(log)) : log[i].kind = "started"}' = Starts(log', s, Len(log'))
  BY DEF Starts, About
<1> QED BY <1>1 DEF TaskOf, TaskIn

LEMMA StatusKinds ==
  ASSUME NEW L, NEW n \in Nat, NEW I, I \subseteq 1 .. n, I # {},
         \A i \in I : L[i].kind \in Kinds /\ L[i].kind # "heartbeat"
  PROVE  /\ Last(I) \in I
         /\ L[Last(I)].kind \in {"started", "resumed"} => StatusOf(L, I) = "active"
         /\ L[Last(I)].kind = "paused" => StatusOf(L, I) = "paused"
         /\ L[Last(I)].kind = "abandoned" => StatusOf(L, I) = "abandoned"
         /\ StatusOf(L, I) \in {"active", "paused", "abandoned"}
<1>1. Last(I) \in I
  BY LastIs
<1>2. L[Last(I)].kind \in {"started", "resumed", "paused", "abandoned"}
  BY <1>1 DEF Kinds
<1>3. StatusOf(L, I) = CASE L[Last(I)].kind \in {"started", "resumed"} -> "active"
                         [] L[Last(I)].kind = "paused" -> "paused"
                         [] OTHER -> "abandoned"
  BY DEF StatusOf
<1> QED BY <1>1, <1>2, <1>3

\* Appending an event moves the status of its session, and of no other.
LEMMA StatusAppend ==
  ASSUME NEW L \in Seq(Event), NEW e \in Event, NEW r
  PROVE  LET now == StatusOf(L, Marks(L, r, Len(L)))
             next == StatusOf(Append(L, e), Marks(Append(L, e), r, Len(Append(L, e))))
         IN  /\ r # e.s \/ e.kind = "heartbeat" => next = now
             /\ r = e.s /\ e.kind \in {"started", "resumed"} => next = "active"
             /\ r = e.s /\ e.kind = "paused" => next = "paused"
             /\ r = e.s /\ e.kind = "abandoned" => next = "abandoned"
<1> DEFINE n == Len(L)
           M == Append(L, e)
           I == Marks(L, r, n)
           J == Marks(M, r, n + 1)
<1>1. n \in Nat /\ Len(M) = n + 1 /\ M[n + 1] = e /\ \A i \in 1 .. n : M[i] = L[i]
  BY LenProperties, AppendProperties
<1>2. \A i \in 1 .. n : L[i] \in Event
  BY ElementOfSeq
<1>3. \A i \in 1 .. n + 1 : M[i] \in Event
  BY <1>1, <1>2
<1>4. J \subseteq 1 .. n + 1 /\ I \subseteq 1 .. n
  BY DEF Marks
<1>5. ASSUME r # e.s \/ e.kind = "heartbeat" PROVE StatusOf(M, J) = StatusOf(L, I)
  <2>1. J = I
    BY <1>1, <1>5 DEF Marks
  <2>2. CASE I = {}
    BY <2>1, <2>2 DEF StatusOf
  <2>3. CASE I # {}
    <3>1. Last(I) \in 1 .. n
      BY <1>1, <1>4, <2>3, LastIs
    <3>2. M[Last(I)] = L[Last(I)]
      BY <1>1, <3>1
    <3> QED BY <2>1, <3>2 DEF StatusOf
  <2> QED BY <2>2, <2>3
<1>6. ASSUME r = e.s, e.kind # "heartbeat"
      PROVE  /\ e.kind \in {"started", "resumed"} => StatusOf(M, J) = "active"
             /\ e.kind = "paused" => StatusOf(M, J) = "paused"
             /\ e.kind = "abandoned" => StatusOf(M, J) = "abandoned"
  <2>1. n + 1 \in J
    BY <1>1, <1>6 DEF Marks
  <2>2. Last(J) \in J /\ \A k \in J : k <= Last(J)
    BY <1>1, <1>4, <2>1, LastIs
  <2>3. Last(J) = n + 1
    BY <1>1, <1>4, <2>1, <2>2
  <2>4. \A i \in J : M[i].kind \in Kinds /\ M[i].kind # "heartbeat"
    BY <1>3, <1>4 DEF Event, Marks
  <2>5. J # {} /\ n + 1 \in Nat
    BY <1>1, <2>1
  <2> HIDE DEF J, M, n
  <2> QED BY <1>1, <1>4, <2>3, <2>4, <2>5, StatusKinds
<1> HIDE DEF J, I
<1> QED BY <1>1, <1>5, <1>6 DEF J, I

\* Appending an event moves the task of a session it starts, and of no other.
LEMMA TaskAppend ==
  ASSUME NEW L \in Seq(Event), NEW e \in Event, NEW r
  PROVE  LET now == TaskIn(L, Starts(L, r, Len(L)))
             next == TaskIn(Append(L, e), Starts(Append(L, e), r, Len(Append(L, e))))
         IN  /\ r # e.s \/ e.kind # "started" => next = now
             /\ r = e.s /\ e.kind = "started" => next = e.task
<1> DEFINE n == Len(L)
           M == Append(L, e)
           I == Starts(L, r, n)
           J == Starts(M, r, n + 1)
<1>1. n \in Nat /\ Len(M) = n + 1 /\ M[n + 1] = e /\ \A i \in 1 .. n : M[i] = L[i]
  BY LenProperties, AppendProperties
<1>2. J \subseteq 1 .. n + 1 /\ I \subseteq 1 .. n
  BY DEF Starts
<1>3. ASSUME r # e.s \/ e.kind # "started" PROVE TaskIn(M, J) = TaskIn(L, I)
  <2>1. J = I
    BY <1>1, <1>3 DEF Starts
  <2>2. CASE I = {}
    BY <2>1, <2>2 DEF TaskIn
  <2>3. CASE I # {}
    <3>1. Last(I) \in 1 .. n
      BY <1>1, <1>2, <2>3, LastIs
    <3>2. M[Last(I)] = L[Last(I)]
      BY <1>1, <3>1
    <3> QED BY <2>1, <3>2 DEF TaskIn
  <2> QED BY <2>2, <2>3
<1>4. ASSUME r = e.s, e.kind = "started" PROVE TaskIn(M, J) = e.task
  <2>1. n + 1 \in J
    BY <1>1, <1>4 DEF Starts
  <2>2. Last(J) \in J /\ \A k \in J : k <= Last(J)
    BY <1>1, <1>2, <2>1, LastIs
  <2>3. Last(J) = n + 1
    BY <1>1, <1>2, <2>1, <2>2
  <2> HIDE DEF J
  <2> QED BY <1>1, <2>1, <2>3 DEF TaskIn
<1> HIDE DEF J, I
<1> QED BY <1>1, <1>3, <1>4 DEF J, I

\* What an event of s changes in the sets the invariant is about
LEMMA Appended ==
  ASSUME TypeOK, NEW kind \in Kinds, NEW s \in Sessions, NEW t \in Tasks \cup {NoTask},
         AppendEvent(kind, s, t)
  PROVE  /\ log' \in Seq(Event) /\ Len(log') = Len(log) + 1
         /\ \A i \in 1 .. Len(log) : log'[i] = log[i]
         /\ log'[Len(log) + 1] = [kind |-> kind, s |-> s, task |-> t]
         /\ Shown' = Shown /\ Begun \subseteq Begun'
         /\ kind # "started" => Begun' = Begun /\ Gift' = Gift
         /\ kind = "started" =>
              /\ Begun' = Begun \cup {s}
              /\ Gift'[s] = t
              /\ \A r \in Sessions : r # s => Gift'[r] = Gift[r]
         /\ kind = "heartbeat" => Live' = Live /\ Gone' = Gone
         /\ kind \in {"started", "resumed", "paused"} =>
              Live' = Live \cup {s} /\ Gone' = Gone \ {s}
         /\ kind = "abandoned" => Live' = Live \ {s} /\ Gone' = Gone \cup {s}
<1> DEFINE e == [kind |-> kind, s |-> s, task |-> t]
<1>1. log \in Seq(Event) /\ e \in Event /\ log' = Append(log, e) /\ built' = built
  BY DEF TypeOK, AppendEvent, Event
<1>2. e.kind = kind /\ e.s = s /\ e.task = t
  OBVIOUS
<1> HIDE DEF e
<1>3. /\ log' \in Seq(Event) /\ Len(log') = Len(log) + 1 /\ Len(log) \in Nat
      /\ \A i \in 1 .. Len(log) : log'[i] = log[i]
      /\ log'[Len(log) + 1] = e
  BY <1>1, LenProperties, AppendProperties
<1>4. built \in Nat /\ built <= Len(log)
  BY LogBounds
<1>5. Shown' = Shown
  BY <1>1, <1>3, <1>4 DEF Shown, StartOf
<1>6. kind # "started" => Begun' = Begun
  BY <1>2, <1>3 DEF Begun, StartOf
<1>7. kind = "started" => Begun' = Begun \cup {s}
  BY <1>2, <1>3 DEF Begun, StartOf
<1>8. \A r : TaskOf(r, Len(log)) = TaskIn(log, Starts(log, r, Len(log)))
  BY TaskIs
<1>9. \A r \in Sessions : Gift[r] = TaskIn(log, Starts(log, r, Len(log)))
  BY <1>8 DEF Gift
<1>10. Gift' = [r \in Sessions |-> TaskOf(r, Len(log))']
  BY DEF Gift
<1>11. \A r \in Sessions : Gift'[r] = TaskIn(log', Starts(log', r, Len(log')))
  BY <1>10, TaskNext
<1>12. \A r \in Sessions : /\ r # s \/ kind # "started" => Gift'[r] = Gift[r]
                           /\ r = s /\ kind = "started" => Gift'[r] = t
  BY <1>1, <1>2, <1>9, <1>11, TaskAppend
<1>13. kind # "started" => Gift' = Gift
  <2> SUFFICES ASSUME kind # "started" PROVE Gift' = Gift
    OBVIOUS
  <2>1. Gift = [r \in Sessions |-> Gift[r]]
    BY DEF Gift
  <2>2. Gift' = [r \in Sessions |-> Gift'[r]]
    BY <1>10
  <2>3. \A r \in Sessions : Gift'[r] = Gift[r]
    BY <1>12
  <2> HIDE DEF Gift
  <2> QED BY <2>1, <2>2, <2>3
<1>14. \A r : Status(r, Len(log)) = StatusOf(log, Marks(log, r, Len(log)))
  BY StatusIs
<1>15. \A r : Status(r, Len(log))' = StatusOf(log', Marks(log', r, Len(log')))
  BY StatusNext
<1>16. \A r \in Sessions :
         /\ r \in Live <=> StatusOf(log, Marks(log, r, Len(log))) \in {"active", "paused"}
         /\ r \in Gone <=> StatusOf(log, Marks(log, r, Len(log))) = "abandoned"
  BY <1>14 DEF Live, Gone
<1>17. \A r \in Sessions :
         /\ r \in Live' <=> StatusOf(log', Marks(log', r, Len(log'))) \in {"active", "paused"}
         /\ r \in Gone' <=> StatusOf(log', Marks(log', r, Len(log'))) = "abandoned"
  BY <1>15 DEF Live, Gone
<1>18. Live \subseteq Sessions /\ Gone \subseteq Sessions
       /\ Live' \subseteq Sessions /\ Gone' \subseteq Sessions
  BY DEF Live, Gone
<1>19. \A r \in Sessions :
         LET now == StatusOf(log, Marks(log, r, Len(log)))
             next == StatusOf(log', Marks(log', r, Len(log')))
         IN  /\ r # s \/ kind = "heartbeat" => next = now
             /\ r = s /\ kind \in {"started", "resumed"} => next = "active"
             /\ r = s /\ kind = "paused" => next = "paused"
             /\ r = s /\ kind = "abandoned" => next = "abandoned"
  BY <1>1, <1>2, StatusAppend
<1>20. \A r \in Sessions :
         /\ r # s \/ kind = "heartbeat" =>
              (r \in Live' <=> r \in Live) /\ (r \in Gone' <=> r \in Gone)
         /\ r = s /\ kind \in {"started", "resumed", "paused"} => r \in Live' /\ r \notin Gone'
         /\ r = s /\ kind = "abandoned" => r \notin Live' /\ r \in Gone'
  BY <1>16, <1>17, <1>19
<1>21. kind = "heartbeat" => Live' = Live /\ Gone' = Gone
  BY <1>18, <1>20
<1>22. kind \in {"started", "resumed", "paused"} =>
         Live' = Live \cup {s} /\ Gone' = Gone \ {s}
  BY <1>18, <1>20
<1>23. kind = "abandoned" => Live' = Live \ {s} /\ Gone' = Gone \cup {s}
  BY <1>18, <1>20
<1>24. kind = "started" => Gift'[s] = t /\ \A r \in Sessions : r # s => Gift'[r] = Gift[r]
  BY <1>12
<1>25. Begun \subseteq Begun'
  BY <1>6, <1>7
<1> QED
  BY <1>3, <1>5, <1>6, <1>7, <1>13, <1>21, <1>22, <1>23, <1>24, <1>25 DEF e

\* What the log alone says stays with it.
LEMMA SameLog ==
  ASSUME log' = log
  PROVE  /\ Begun' = Begun /\ Gift' = Gift /\ Live' = Live /\ Gone' = Gone
         /\ built' = built => Shown' = Shown
<1>1. Begun' = Begun
  BY DEF Begun, StartOf
<1>2. built' = built => Shown' = Shown
  BY DEF Shown, StartOf
<1>3. \A r : TaskOf(r, Len(log))' = TaskOf(r, Len(log))
  BY TaskIs, TaskNext
<1>4. \A r : Status(r, Len(log))' = Status(r, Len(log))
  BY StatusIs, StatusNext
<1>5. Gift' = Gift
  BY <1>3 DEF Gift
<1>6. Live' = Live /\ Gone' = Gone
  BY <1>4 DEF Live, Gone
<1> QED BY <1>1, <1>2, <1>5, <1>6

\* A session the log has started has a status.
LEMMA BegunStatus ==
  ASSUME TypeOK, NEW s \in Begun
  PROVE  Status(s, Len(log)) \in {"active", "paused", "abandoned"}
<1>1. PICK i \in 1 .. Len(log) : StartOf(s, i)
  BY DEF Begun
<1> DEFINE I == Marks(log, s, Len(log))
<1>2. I # {} /\ I \subseteq 1 .. Len(log)
  BY <1>1 DEF Marks, StartOf
<1>3. \A k \in I : log[k].kind \in Kinds /\ log[k].kind # "heartbeat"
  BY LogBounds DEF Marks, Event
<1>4. Len(log) \in Nat
  BY LogBounds
<1> HIDE DEF I
<1>5. StatusOf(log, I) \in {"active", "paused", "abandoned"}
  BY <1>2, <1>3, <1>4, StatusKinds
<1> QED BY <1>5, StatusIs DEF I

\* A session that never lapsed is one the picker sees, with its task.
LEMMA ShownClaims ==
  ASSUME TypeOK, LogInv, NEW s \in Shown \ lapsed
  PROVE  s \in Claiming(built) /\ TaskOf(s, built) = Gift[s]
<1>1. PICK i \in 1 .. built : StartOf(s, i)
  BY DEF Shown
<1>2. s \in Sessions /\ Len(log) \in Nat /\ built \in Nat /\ built <= Len(log)
      /\ \A k \in 1 .. Len(log) : log[k] \in Event
  BY LogBounds DEF Shown
<1>3. Status(s, built) \in {"active", "paused"}
  <2> DEFINE I == Marks(log, s, built)
  <2>1. I # {} /\ I \subseteq 1 .. built
    BY <1>1 DEF Marks, StartOf
  <2>2. \A k \in I : log[k].kind \in Kinds /\ log[k].kind # "heartbeat"
                     /\ log[k].kind # "abandoned"
    BY <1>2 DEF Marks, Event, LogInv
  <2> HIDE DEF I
  <2>3. StatusOf(log, I) \in {"active", "paused"}
    <3>1. /\ Last(I) \in I
          /\ log[Last(I)].kind \in {"started", "resumed"} => StatusOf(log, I) = "active"
          /\ log[Last(I)].kind = "paused" => StatusOf(log, I) = "paused"
      BY <1>2, <2>1, <2>2, StatusKinds
    <3> QED BY <2>2, <3>1 DEF Kinds
  <2> QED BY <2>3, StatusIs DEF I
<1>4. Last(About(s, built)) > aged[s]
  <2>1. aged[s] = 0
    BY <1>2 DEF LogInv
  <2>2. About(s, built) \subseteq 1 .. built /\ i \in About(s, built)
    BY <1>1 DEF About, StartOf
  <2>3. Last(About(s, built)) \in 1 .. built
    BY <1>2, <2>2, LastIs
  <2> QED BY <1>2, <2>1, <2>3
<1>5. TaskOf(s, built) = Gift[s]
  <2> DEFINE I == Starts(log, s, built)
             J == Starts(log, s, Len(log))
  <2>1. I = {i} /\ J = {i}
    BY <1>1, <1>2 DEF Starts, StartOf, LogInv
  <2>2. TaskOf(s, built) = TaskIn(log, I) /\ TaskOf(s, Len(log)) = TaskIn(log, J)
    BY TaskIs
  <2>3. Gift[s] = TaskOf(s, Len(log))
    BY <1>2 DEF Gift
  <2> HIDE DEF I, J
  <2> QED BY <2>1, <2>2, <2>3
<1> QED BY <1>2, <1>3, <1>4, <1>5 DEF Claiming
-----------------------------------------------------------------------------
(* Steps that write neither an event nor a pointer: most of them.  Moves     *)
(* says what such a step of p may do, and the lemmas that follow that it     *)
(* keeps the invariant.                                                      *)

\* Its own record goes on, and the counters.
Proceeds(p) ==
  /\ job' \in [Procs -> JobType]
  /\ \A q \in Procs \ {p} : job'[q] = job[q]
  /\ Shape(job'[p])
  /\ job'[p].at = "write" => job'[p].seen <= Len(log)
  /\ crossed' \in BOOLEAN /\ (~ crossed' => ~ crossed)
  /\ ops' \in 0 .. MaxOps /\ kills' \in 0 .. MaxKills /\ ages' \in 0 .. MaxAges
  /\ kills' = 0 => kills = 0

\* The table, if it replaces that
Rebuilds(p) ==
  /\ built' \in 0 .. Len(log) /\ overwritten' \in BOOLEAN
  /\ ~ overwritten' => ~ overwritten /\ built <= built'
  /\ job'[p].op = "start" =>
       /\ job'[p].at = "write" => job'[p].seen = Len(log)
       /\ job'[p].at = "point" => job[p].at = "write" /\ built' = job[p].seen

\* The lock, if it takes that or gives it back
Turns(p) ==
  /\ \/ lock' = lock
     \/ lock = NoProc /\ lock' = p
     \/ lock = p /\ lock' = NoProc
  /\ Claims(p)' <=> lock' = p
  /\ Alone(p)' => \/ Alone(p) /\ job'[p].who = job[p].who
                  \/ \A s \in Sessions : ptr[s] # job'[p].who

\* The sessions it takes up have pointers, but for those it had.
TakesUp(p) ==
  /\ job'[p].s \in {0, job[p].s} \cup Pointed \cup job[p].todo
  /\ job'[p].todo \subseteq job[p].todo \cup Pointed
  /\ job'[p].op = "resume" /\ job'[p].s # 0 =>
       \/ job[p].op = "resume" /\ job[p].s = job'[p].s /\ job[p].who = job'[p].who
       \/ ptr[job'[p].s] = job'[p].who
  /\ ~ crossed' =>
       /\ \A s \in Sessions : Attached(p, s)' =>
            Attached(p, s) \/ (ptr[s] # NoAgent /\ ~ Sweeping(s))
       /\ \A s \in job'[p].todo \ job[p].todo, q \in Procs : ~ Attached(q, s)

\* The session it starts or reaps it had before, and keeps unless killed.
KeepsAt(p) ==
  /\ job'[p].op = "start" /\ job'[p].s # 0 =>
       /\ job[p].op = "start" /\ job[p].s = job'[p].s
       /\ job[p].task = job'[p].task /\ job[p].crowded = job'[p].crowded
  /\ \A s \in Sessions : Reaped(p, s)' => Reaped(p, s)
  /\ kills' = 0 =>
       /\ job[p].op = "start" /\ job[p].s # 0 =>
            job'[p].op = "start" /\ job'[p].s = job[p].s
       /\ \A s \in Sessions : Reaped(p, s) => Reaped(p, s)'
  /\ Picked(p)' /\ ~ job'[p].crowded =>
       \/ /\ Picked(p) /\ ~ job[p].crowded
          /\ job[p].task = job'[p].task
       \/ job'[p].task \notin ClaimedTasks(built)

Moves(p) ==
  /\ UNCHANGED <<log, aged, ptr, lapsed, forced>>
  /\ Proceeds(p) /\ Rebuilds(p) /\ Turns(p) /\ TakesUp(p) /\ KeepsAt(p)

LEMMA MovesTypes ==
  ASSUME Inv, NEW p \in Procs, Moves(p)
  PROVE  TypeOK' /\ Jobs'
<1>1. TypeOK'
  BY DEF Inv, TypeOK, Moves, Proceeds, Rebuilds, Turns
<1>2. Begun' = Begun
  BY SameLog DEF Moves
<1>3. ASSUME NEW q \in Procs
      PROVE  /\ Shape(job'[q]) /\ (job'[q].at = "write" => job'[q].seen <= Len(log'))
             /\ job'[q].s # 0 => job'[q].s \in Begun
             /\ job'[q].todo \subseteq Begun
  <2>1. CASE q # p
    BY <2>1 DEF Inv, Jobs, Moves, Proceeds
  <2>2. CASE q = p
    <3>1. Pointed \subseteq Begun
      BY DEF Inv, LogInv, Pointed
    <3>2. job[p].todo \subseteq Begun /\ (job[p].s # 0 => job[p].s \in Begun)
      BY DEF Inv, Jobs
    <3>3. Shape(job'[q]) /\ (job'[q].at = "write" => job'[q].seen <= Len(log'))
      BY <2>2 DEF Moves, Proceeds
    <3>4. /\ job'[q].s \in {0, job[p].s} \cup Pointed \cup job[p].todo
          /\ job'[q].todo \subseteq job[p].todo \cup Pointed
      BY <2>2 DEF Moves, TakesUp
    <3> HIDE DEF Pointed, Begun, Shape
    <3> QED BY <3>1, <3>2, <3>3, <3>4
  <2> QED BY <2>1, <2>2
<1>4. Jobs'
  BY <1>2, <1>3 DEF Jobs, Shape
<1> QED BY <1>1, <1>4

LEMMA MovesLocked ==
  ASSUME Inv, NEW p \in Procs, Moves(p)
  PROVE  Locked'
<1> SUFFICES ASSUME NEW q \in Procs PROVE Claims(q)' <=> lock' = q
  BY DEF Locked
<1>1. CASE q = p
  BY <1>1 DEF Moves, Turns
<1>2. CASE q # p
  <2>1. Claims(q)' <=> Claims(q)
    BY <1>2 DEF Moves, Proceeds, Claims, At
  <2>2. Claims(q) <=> lock = q
    BY DEF Inv, Locked
  <2>3. lock' = q <=> lock = q
    BY <1>2, SessionsAssumption DEF Moves, Turns
  <2> QED BY <2>1, <2>2, <2>3
<1> QED BY <1>1, <1>2

LEMMA MovesLog ==
  ASSUME Inv, NEW p, Moves(p)
  PROVE  LogInv'
<1>1. Begun' = Begun /\ log' = log /\ lapsed' = lapsed /\ aged' = aged /\ ptr' = ptr
  BY SameLog DEF Moves
<1>2. LogInv
  BY DEF Inv
<1> QED BY <1>1, <1>2 DEF LogInv

LEMMA MovesOwned ==
  ASSUME Inv, NEW p \in Procs, Moves(p)
  PROVE  Owned'
<1>1. \A q \in Procs : job'[q].op = "resume" /\ job'[q].s # 0 =>
        \/ job[q].op = "resume" /\ job[q].s = job'[q].s /\ job[q].who = job'[q].who
        \/ ptr[job'[q].s] = job'[q].who /\ q = p
  BY DEF Moves, Proceeds, TakesUp
<1>2. \A q \in Procs : job'[q].op = "resume" => job'[q].who # NoAgent
  <2>1. \A q \in Procs : Shape(job'[q])
    BY DEF Moves, Proceeds, Inv, Jobs
  <2> QED BY <2>1 DEF Shape
<1>3. ptr' = ptr
  BY DEF Moves
<1>4. Owned
  BY DEF Inv
<1>5. \A q \in Procs : job'[q].op = "resume" /\ job'[q].s # 0 =>
        ptr'[job'[q].s] \in {NoAgent, job'[q].who}
  BY <1>1, <1>3, <1>4 DEF Owned
<1>6. ASSUME NEW q \in Procs, NEW r \in Procs,
             job'[q].op = "resume", job'[r].op = "resume",
             job'[q].s # 0, job'[q].s = job'[r].s
      PROVE  job'[q].who = job'[r].who
  <2>1. CASE ptr[job'[q].s] # NoAgent
    BY <1>3, <1>5, <1>6, <2>1
  <2>2. CASE ptr[job'[q].s] = NoAgent
    <3>1. /\ job[q].op = "resume" /\ job[q].s = job'[q].s /\ job[q].who = job'[q].who
          /\ job[r].op = "resume" /\ job[r].s = job'[r].s /\ job[r].who = job'[r].who
      BY <1>1, <1>2, <1>6, <2>2
    <3> QED BY <1>4, <1>6, <3>1 DEF Owned
  <2> QED BY <2>1, <2>2
<1> QED BY <1>5, <1>6 DEF Owned

LEMMA MovesNewborn ==
  ASSUME Inv, NEW p \in Procs, Moves(p)
  PROVE  Newborn'
<1>1. Live' = Live /\ Gift' = Gift /\ ptr' = ptr /\ forced' = forced
  BY SameLog DEF Moves
<1>2. \A q \in Procs : job'[q].op = "start" /\ job'[q].s # 0 =>
        /\ job[q].op = "start" /\ job[q].s = job'[q].s
        /\ job[q].task = job'[q].task /\ job[q].crowded = job'[q].crowded
  BY DEF Moves, Proceeds, KeepsAt
<1>3. /\ \A q \in Procs \ {p} : job'[q] = job[q]
      /\ job'[p].s \in {0, job[p].s} \cup Pointed \cup job[p].todo
      /\ job'[p].todo \subseteq job[p].todo \cup Pointed
  BY DEF Moves, Proceeds, TakesUp
<1> SUFFICES ASSUME NEW q \in Procs, job'[q].op = "start", job'[q].s # 0
             PROVE  /\ ptr'[job'[q].s] = NoAgent
                    /\ \A r \in Procs \ {q} : job'[r].s # job'[q].s
                    /\ \A r \in Procs : job'[q].s \notin job'[r].todo
                    /\ job'[q].s \in Live' /\ Gift'[job'[q].s] = job'[q].task
                    /\ job'[q].crowded => job'[q].s \in forced'
  BY DEF Newborn
<1> DEFINE s == job[q].s
<1>4. /\ job[q].op = "start" /\ s = job'[q].s /\ s # 0
      /\ job[q].task = job'[q].task /\ job[q].crowded = job'[q].crowded
  BY <1>2
<1>5. /\ ptr[s] = NoAgent /\ \A r \in Procs \ {q} : job[r].s # s
      /\ \A r \in Procs : s \notin job[r].todo
      /\ s \in Live /\ Gift[s] = job[q].task /\ (job[q].crowded => s \in forced)
  BY <1>4 DEF Inv, Newborn
<1>6. s \notin Pointed
  BY <1>5 DEF Pointed
<1> HIDE DEF s
<1>7. \A r \in Procs \ {q} : job'[r].s # s
  BY <1>3, <1>4, <1>5, <1>6
<1>8. \A r \in Procs : s \notin job'[r].todo
  BY <1>3, <1>5, <1>6
<1> QED BY <1>1, <1>4, <1>5, <1>7, <1>8

LEMMA MovesUncrossed ==
  ASSUME Inv, NEW p \in Procs, Moves(p)
  PROVE  Uncrossed'
<1> SUFFICES ASSUME ~ crossed'
             PROVE  /\ \A q, r \in Procs : \A s \in job'[r].todo : ~ Attached(q, s)'
                    /\ \A q \in Procs, s \in Sessions : Attached(q, s)' => ptr'[s] # NoAgent
                    /\ \A r, s \in Sessions : ptr'[r] # NoAgent /\ ptr'[r] = ptr'[s] => r = s
                    /\ \A q \in Procs : Alone(q)' => \A s \in Sessions : ptr'[s] # job'[q].who
                    /\ \A q \in Procs, s \in Sessions : Reaped(q, s)' => s \in Gone'
  BY DEF Uncrossed
<1>1. ~ crossed /\ ptr' = ptr /\ Gone' = Gone
  BY SameLog DEF Moves, Proceeds
<1>2. /\ \A q, r \in Procs : \A s \in job[r].todo : ~ Attached(q, s)
      /\ \A q \in Procs, s \in Sessions : Attached(q, s) => ptr[s] # NoAgent
      /\ \A r, s \in Sessions : ptr[r] # NoAgent /\ ptr[r] = ptr[s] => r = s
      /\ \A q \in Procs : Alone(q) => \A s \in Sessions : ptr[s] # job[q].who
      /\ \A q \in Procs, s \in Sessions : Reaped(q, s) => s \in Gone
  BY <1>1 DEF Inv, Uncrossed
<1>3. \A q \in Procs \ {p} : job'[q] = job[q]
  BY DEF Moves, Proceeds
<1>4. /\ \A s \in Sessions : Attached(p, s)' =>
           Attached(p, s) \/ (ptr[s] # NoAgent /\ ~ Sweeping(s))
      /\ \A s \in job'[p].todo \ job[p].todo, q \in Procs : ~ Attached(q, s)
      /\ job'[p].todo # {} => job'[p].op = "reap"
  BY DEF Moves, Proceeds, TakesUp, Shape
<1>5. \A q \in Procs : job'[q].todo \subseteq Sessions
  BY DEF Moves, Proceeds, JobType
<1>6. \A q \in Procs \ {p}, s \in Sessions :
        /\ Attached(q, s)' <=> Attached(q, s)
        /\ Reaped(q, s)' <=> Reaped(q, s)
        /\ Alone(q)' <=> Alone(q)
  BY <1>3 DEF Attached, Reaped, Alone, Claims, At
<1>7. ASSUME NEW s \in Sessions, Attached(p, s)' PROVE job'[p].todo = {}
  <2>1. job'[p].op # "reap"
    BY <1>7 DEF Attached, Moves, Proceeds, Shape
  <2> QED BY <1>4, <2>1
<1>8. ASSUME NEW q \in Procs, NEW r \in Procs, NEW s \in job'[r].todo
      PROVE  ~ Attached(q, s)'
  <2>1. s \in Sessions
    BY <1>5
  <2>2. CASE q # p /\ r # p
    BY <1>2, <1>3, <1>6, <2>1, <2>2
  <2>3. CASE q # p /\ r = p
    BY <1>2, <1>4, <1>6, <2>1, <2>3
  <2>4. CASE q = p /\ r = p
    BY <1>7, <2>1, <2>4
  <2>5. CASE q = p /\ r # p
    <3>1. s \in job[r].todo
      BY <1>3, <2>5
    <3>2. Sweeping(s) /\ ~ Attached(p, s)
      BY <1>2, <3>1 DEF Sweeping
    <3> QED BY <1>4, <2>1, <2>5, <3>2
  <2> QED BY <2>2, <2>3, <2>4, <2>5
<1>9. ASSUME NEW q \in Procs, NEW s \in Sessions, Attached(q, s)'
      PROVE  ptr'[s] # NoAgent
  <2>1. CASE q # p
    BY <1>1, <1>2, <1>6, <1>9, <2>1
  <2>2. CASE q = p
    BY <1>1, <1>2, <1>4, <1>9, <2>2
  <2> QED BY <2>1, <2>2
<1>10. ASSUME NEW q \in Procs, Alone(q)', NEW s \in Sessions
       PROVE  ptr'[s] # job'[q].who
  <2>1. CASE q # p
    BY <1>1, <1>2, <1>3, <1>6, <1>10, <2>1
  <2>2. CASE q = p
    <3>1. \/ Alone(p) /\ job'[p].who = job[p].who
          \/ \A r \in Sessions : ptr[r] # job'[p].who
      BY <1>10, <2>2 DEF Moves, Turns
    <3> QED BY <1>1, <1>2, <2>2, <3>1
  <2> QED BY <2>1, <2>2
<1>11. ASSUME NEW q \in Procs, NEW s \in Sessions, Reaped(q, s)'
       PROVE  s \in Gone'
  <2>1. Reaped(q, s)
    BY <1>6, <1>11 DEF Moves, KeepsAt
  <2> QED BY <1>1, <1>2, <2>1
<1> QED BY <1>1, <1>2, <1>8, <1>9, <1>10, <1>11

LEMMA MovesKnown ==
  ASSUME Inv, NEW p \in Procs, Moves(p)
  PROVE  Known' \subseteq Known
<1>1. ptr' = ptr
  BY DEF Moves
<1>2. ASSUME NEW s \in Sessions, NEW q \in Procs, job'[q].op = "resume", job'[q].s = s
      PROVE  ptr[s] # NoAgent \/ (job[q].op = "resume" /\ job[q].s = s)
  <2>1. CASE q # p
    BY <1>2, <2>1 DEF Moves, Proceeds
  <2>2. CASE q = p
    <3>1. job'[p].who # NoAgent /\ s # 0
      BY <1>2, <2>2, SessionsAssumption DEF Moves, Proceeds, Shape, Sessions
    <3> QED BY <1>2, <2>2, <3>1 DEF Moves, TakesUp
  <2> QED BY <2>1, <2>2
<1> QED BY <1>1, <1>2 DEF Known

LEMMA MovesClaimed ==
  ASSUME Inv, NEW p \in Procs, Moves(p)
  PROVE  Claimed'
<1> SUFFICES ASSUME ~ overwritten'
             PROVE  /\ Known' \subseteq Shown'
                    /\ \A q \in Procs : job'[q].op = "start" =>
                         /\ job'[q].at = "write" =>
                              \E i \in 1 .. job'[q].seen : StartOf(job[q].s, i)'
                         /\ job'[q].at = "point" => job'[q].s \in Shown'
                    /\ \A q \in Procs : Picked(q)' /\ ~ job'[q].crowded =>
                         \A r \in Known' \ lapsed' : Gift'[r] # job'[q].task
                    /\ \A r, s \in Known' \ (forced' \cup lapsed') : r # s => Gift'[r] # Gift'[s]
  BY DEF Claimed
<1>1. /\ ~ overwritten /\ Gift' = Gift /\ Begun' = Begun
      /\ lapsed' = lapsed /\ forced' = forced /\ log' = log
  BY SameLog DEF Moves, Rebuilds
<1>2. /\ Known \subseteq Shown
      /\ \A q \in Procs : job[q].op = "start" =>
           /\ job[q].at = "write" => \E i \in 1 .. job[q].seen : StartOf(job[q].s, i)
           /\ job[q].at = "point" => job[q].s \in Shown
      /\ \A q \in Procs : Picked(q) /\ ~ job[q].crowded =>
           \A r \in Known \ lapsed : Gift[r] # job[q].task
      /\ \A r, s \in Known \ (forced \cup lapsed) : r # s => Gift[r] # Gift[s]
  BY <1>1 DEF Inv, Claimed
<1>3. Known' \subseteq Known
  BY MovesKnown
<1>4. Shown \subseteq Shown'
  <2>1. built \in Nat /\ built' \in Nat /\ built <= built'
    BY LogBounds DEF Inv, Moves, Rebuilds
  <2> QED BY <1>1, <2>1 DEF Shown, StartOf
<1>5. \A q \in Procs \ {p} : job'[q] = job[q]
  BY DEF Moves, Proceeds
<1>6. ASSUME NEW q \in Procs, job'[q].op = "start", job'[q].at = "write"
      PROVE  \E i \in 1 .. job'[q].seen : StartOf(job[q].s, i)'
  <2>1. CASE q # p
    BY <1>1, <1>2, <1>5, <1>6, <2>1 DEF StartOf
  <2>2. CASE q = p
    <3>1. job'[p].seen = Len(log) /\ Shape(job'[p])
      BY <1>6, <2>2 DEF Moves, Proceeds, Rebuilds
    <3>2. job'[p].s # 0
      BY <1>6, <2>2, <3>1 DEF Shape
    <3>3. job'[p].s \in Begun
      BY <3>2, <1>1, MovesTypes DEF Jobs
    <3>4. \E i \in 1 .. Len(log) : log[i].kind = "started" /\ log[i].s = job'[p].s
      BY <3>3 DEF Begun, StartOf
    <3> QED BY <1>1, <2>2, <3>1, <3>4 DEF StartOf
  <2> QED BY <2>1, <2>2
<1>7. ASSUME NEW q \in Procs, job'[q].op = "start", job'[q].at = "point"
      PROVE  job'[q].s \in Shown'
  <2>1. CASE q # p
    BY <1>2, <1>4, <1>5, <1>7, <2>1
  <2>2. CASE q = p
    <3>1. job[p].at = "write" /\ built' = job[p].seen /\ Shape(job'[p])
      BY <1>7, <2>2 DEF Moves, Proceeds, Rebuilds
    <3>2. job'[p].s # 0
      BY <1>7, <2>2, <3>1 DEF Shape
    <3>3. job[p].op = "start" /\ job'[p].s = job[p].s
      BY <1>7, <2>2, <3>2 DEF Moves, KeepsAt
    <3>4. \E i \in 1 .. built' : StartOf(job[p].s, i)
      BY <1>2, <3>1, <3>3
    <3>5. job'[p].s \in Sessions
      BY <3>2, SessionsAssumption DEF Moves, Proceeds, JobType, Sessions
    <3>6. \E i \in 1 .. built' : log'[i].kind = "started" /\ log'[i].s = job'[p].s
      BY <1>1, <3>3, <3>4 DEF StartOf
    <3> QED BY <2>2, <3>5, <3>6 DEF Shown, StartOf
  <2> QED BY <2>1, <2>2
<1>8. ASSUME NEW q \in Procs, Picked(q)', ~ job'[q].crowded, NEW r \in Known \ lapsed
      PROVE  Gift[r] # job'[q].task
  <2>1. CASE q # p
    <3>1. Picked(q)
      BY <1>5, <1>8, <2>1 DEF Picked
    <3> QED BY <1>2, <1>5, <1>8, <2>1, <3>1
  <2>2. CASE q = p
    <3>1. CASE Picked(p) /\ ~ job[p].crowded /\ job[p].task = job'[p].task
      BY <1>2, <2>2, <3>1
    <3>2. CASE job'[p].task \notin ClaimedTasks(built)
      <4>1. r \in Claiming(built) /\ TaskOf(r, built) = Gift[r]
        BY <1>2, ShownClaims DEF Inv
      <4> QED BY <2>2, <3>2, <4>1 DEF ClaimedTasks
    <3> QED BY <1>8, <2>2, <3>1, <3>2 DEF Moves, KeepsAt
  <2> QED BY <2>1, <2>2
<1> QED BY <1>1, <1>2, <1>3, <1>4, <1>6, <1>7, <1>8

LEMMA MovesMatched ==
  ASSUME Inv, NEW p \in Procs, Moves(p)
  PROVE  Matched'
<1> SUFFICES ASSUME ~ crossed', kills' = 0, NEW s \in Sessions
             PROVE  /\ s \in Live' /\ ptr'[s] = NoAgent
                       => \E q \in Procs : job'[q].op = "start" /\ job'[q].s = s
                    /\ s \in Gone' /\ ptr'[s] # NoAgent => \E q \in Procs : Reaped(q, s)'
  BY DEF Matched
<1>1. /\ ~ crossed /\ kills = 0 /\ ptr' = ptr /\ Live' = Live /\ Gone' = Gone
      /\ \A q \in Procs \ {p} : job'[q] = job[q]
  BY SameLog DEF Moves, Proceeds
<1>2. /\ s \in Live /\ ptr[s] = NoAgent => \E q \in Procs : job[q].op = "start" /\ job[q].s = s
      /\ s \in Gone /\ ptr[s] # NoAgent => \E q \in Procs : Reaped(q, s)
  BY <1>1 DEF Inv, Matched
<1>3. s # 0
  BY SessionsAssumption DEF Sessions
<1>4. ASSUME NEW q \in Procs, job[q].op = "start", job[q].s = s
      PROVE  job'[q].op = "start" /\ job'[q].s = s
  BY <1>1, <1>3, <1>4 DEF Moves, KeepsAt
<1>5. ASSUME NEW q \in Procs, Reaped(q, s) PROVE Reaped(q, s)'
  <2>1. CASE q # p
    BY <1>1, <1>5, <2>1 DEF Reaped
  <2>2. CASE q = p
    BY <1>5, <2>2 DEF Moves, KeepsAt
  <2> QED BY <2>1, <2>2
<1> QED BY <1>1, <1>2, <1>4, <1>5

LEMMA MovesInv ==
  ASSUME Inv, NEW p \in Procs, Moves(p)
  PROVE  Inv'
BY MovesTypes, MovesLocked, MovesLog, MovesOwned, MovesNewborn, MovesUncrossed,
   MovesClaimed, MovesMatched DEF Inv

-----------------------------------------------------------------------------
(* The steps that are Moves *)

LEMMA JobNow ==
  ASSUME Inv, NEW p \in Procs
  PROVE  /\ job[p] \in JobType /\ Shape(job[p]) /\ job \in [Procs -> JobType]
         /\ Claims(p) <=> lock = p
         /\ job[p].at = "write" => job[p].seen <= Len(log)
         /\ MaxSessions \in Nat /\ NoProc \notin Procs /\ NoAgent \notin Agents
         /\ Free \in JobType
<1>1. Free \in JobType
  BY SessionsAssumption DEF Free, JobType, Ops, Points
<1> QED BY <1>1, SessionsAssumption DEF Inv, TypeOK, Jobs, Locked

LEMMA RebuildReadMoves ==
  ASSUME Inv, NEW p \in Procs, RebuildRead(p)
  PROVE  Moves(p)
<1>1. /\ job[p] \in JobType /\ Shape(job[p]) /\ job \in [Procs -> JobType]
      /\ Claims(p) <=> lock = p
  BY JobNow
<1>2. Len(log) \in Nat
  BY LogBounds DEF Inv
<1>3. /\ job' \in [Procs -> JobType] /\ \A q \in Procs \ {p} : job'[q] = job[q]
      /\ job'[p] = [job[p] EXCEPT !.at = "write", !.seen = Len(log)]
      /\ job[p].at = "read"
  BY <1>1, <1>2 DEF RebuildRead, At, JobType, Points
<1>4. /\ job'[p].op = job[p].op /\ job'[p].at = "write" /\ job'[p].who = job[p].who
      /\ job'[p].s = job[p].s /\ job'[p].todo = job[p].todo
      /\ job'[p].seen = Len(log) /\ job'[p].task = job[p].task
      /\ job'[p].crowded = job[p].crowded
  BY <1>1, <1>3 DEF JobType
<1>5. UNCHANGED <<log, built, aged, ptr, lapsed, forced, overwritten, crossed, lock, ops, kills, ages>>
  BY DEF RebuildRead, store, bounds, history
<1>6. Proceeds(p)
  BY <1>1, <1>2, <1>3, <1>4, <1>5 DEF Proceeds, Shape, Free, Inv, TypeOK
<1>7. Rebuilds(p)
  BY <1>2, <1>4, <1>5, LogBounds DEF Rebuilds, Inv, TypeOK
<1>8. Turns(p)
  BY <1>1, <1>3, <1>4, <1>5 DEF Turns, Claims, Alone, At
<1>9. TakesUp(p)
  BY <1>1, <1>3, <1>4, <1>5 DEF TakesUp, Attached
<1>10. KeepsAt(p)
  BY <1>1, <1>3, <1>4, <1>5 DEF KeepsAt, Reaped, Picked
<1> QED BY <1>5, <1>6, <1>7, <1>8, <1>9, <1>10 DEF Moves

\* A process that comes to its end, or is killed
LEMMA DoneMoves ==
  ASSUME Inv, NEW p \in Procs, Done(p), UNCHANGED <<log, built, aged, ptr, lapsed, forced, overwritten>>,
         crossed' = crossed, ops' = ops, ages' = ages, kills' \in 0 .. MaxKills,
         kills' = 0 => /\ kills = 0 /\ ~ (job[p].op = "start" /\ job[p].s # 0)
                       /\ \A s \in Sessions : ~ Reaped(p, s),
         (lock = p /\ lock' = NoProc) \/ (lock # p /\ lock' = lock)
  PROVE  Moves(p)
<1>1. /\ job[p] \in JobType /\ Shape(job[p]) /\ job \in [Procs -> JobType]
      /\ (Claims(p) <=> lock = p) /\ Free \in JobType /\ NoProc \notin Procs
  BY JobNow
<1>2. /\ job' \in [Procs -> JobType] /\ \A q \in Procs \ {p} : job'[q] = job[q]
      /\ job'[p] = Free
  BY <1>1 DEF Done
<1>3. /\ job'[p].op = "free" /\ job'[p].at = "free" /\ job'[p].who = NoAgent
      /\ job'[p].s = 0 /\ job'[p].todo = {} /\ job'[p].seen = 0
      /\ job'[p].task = NoTask /\ job'[p].crowded = FALSE
  BY <1>2 DEF Free
<1>4. Proceeds(p)
  BY <1>2, <1>3 DEF Proceeds, Shape, Ops, Inv, TypeOK
<1>5. Rebuilds(p)
  BY <1>3, LogBounds DEF Rebuilds, Inv, TypeOK
<1>6. Turns(p)
  BY <1>1, <1>2, <1>3 DEF Turns, Claims, Alone, At
<1>7. TakesUp(p)
  BY <1>3 DEF TakesUp, Attached
<1>8. KeepsAt(p)
  BY <1>3 DEF KeepsAt, Reaped, Picked
<1> QED BY <1>4, <1>5, <1>6, <1>7, <1>8 DEF Moves

LEMMA SessionStartMoves ==
  ASSUME Inv, NEW p \in Procs, NEW a \in Agents, SessionStart(p, a)
  PROVE  Moves(p)
<1>1. /\ job[p] \in JobType /\ Shape(job[p]) /\ job \in [Procs -> JobType]
      /\ (Claims(p) <=> lock = p) /\ Free \in JobType /\ MaxSessions \in Nat
      /\ NoProc \notin Procs /\ NoAgent \notin Agents /\ job[p].op \in Ops
  BY JobNow DEF JobType
<1>2. /\ job' \in [Procs -> JobType] /\ \A q \in Procs \ {p} : job'[q] = job[q]
      /\ job'[p] = [Free EXCEPT !.op = "resume", !.at = "resolve", !.who = a]
      /\ job[p].at = "free"
  BY <1>1 DEF SessionStart, Goto, Done, Launch, At, JobType, Points, Ops, Pointers,
     Pointed, Sessions
<1>3. /\ job'[p].op = "resume" /\ job'[p].at = "resolve" /\ job'[p].who = a
      /\ job'[p].s = 0 /\ job'[p].todo = {} /\ job'[p].seen = 0
      /\ job'[p].task = NoTask /\ job'[p].crowded = FALSE
  BY <1>1, <1>2 DEF JobType, Free
<1>4. /\ UNCHANGED <<log, built, aged, ptr, lapsed, forced, overwritten, crossed, lock, kills, ages>>
      /\ ops' \in Nat /\ ops' <= MaxOps
  BY <1>1, SessionsAssumption DEF SessionStart, Inv, TypeOK, Launch, At, store, bounds,
     history
<1>5. Proceeds(p)
  BY <1>1, <1>2, <1>3, <1>4 DEF Proceeds, Shape, Ops, Free, Inv, TypeOK, Launch, Pointers,
     Pointed, Sessions, SessionStart
<1>6. Rebuilds(p)
  BY <1>1, <1>2, <1>3, <1>4, LogBounds DEF Rebuilds, Inv, TypeOK
<1>7. Turns(p)
  BY <1>1, <1>2, <1>3, <1>4 DEF Turns, Claims, Alone, At, Shape, Pointers, Sessions
<1>8. TakesUp(p)
  BY <1>1, <1>2, <1>3, <1>4 DEF TakesUp, Attached, Shape, Ops, Pointers, Pointed, Sessions
<1>9. KeepsAt(p)
  BY <1>1, <1>2, <1>3, <1>4 DEF KeepsAt, Reaped, Picked, Shape, Ops, Sessions
<1> QED BY <1>4, <1>5, <1>6, <1>7, <1>8, <1>9 DEF Moves

LEMMA SessionEndMoves ==
  ASSUME Inv, NEW p \in Procs, NEW a \in Agents, SessionEnd(p, a)
  PROVE  Moves(p)
<1>1. /\ job[p] \in JobType /\ Shape(job[p]) /\ job \in [Procs -> JobType]
      /\ (Claims(p) <=> lock = p) /\ Free \in JobType /\ MaxSessions \in Nat
      /\ NoProc \notin Procs /\ NoAgent \notin Agents /\ job[p].op \in Ops
  BY JobNow DEF JobType
<1>2. /\ job' \in [Procs -> JobType] /\ \A q \in Procs \ {p} : job'[q] = job[q]
      /\ job'[p] = [Free EXCEPT !.op = "pause", !.at = "match", !.who = a]
      /\ job[p].at = "free"
  BY <1>1 DEF SessionEnd, Goto, Done, Launch, At, JobType, Points, Ops, Pointers, Pointed,
     Sessions
<1>3. /\ job'[p].op = "pause" /\ job'[p].at = "match" /\ job'[p].who = a
      /\ job'[p].s = 0 /\ job'[p].todo = {} /\ job'[p].seen = 0
      /\ job'[p].task = NoTask /\ job'[p].crowded = FALSE
  BY <1>1, <1>2 DEF JobType, Free
<1>4. /\ UNCHANGED <<log, built, aged, ptr, lapsed, forced, overwritten, crossed, lock, kills, ages>>
      /\ ops' \in Nat /\ ops' <= MaxOps
  BY <1>1, SessionsAssumption DEF SessionEnd, Inv, TypeOK, Launch, At, store, bounds,
     history
<1>5. Proceeds(p)
  BY <1>1, <1>2, <1>3, <1>4 DEF Proceeds, Shape, Ops, Free, Inv, TypeOK, Launch, Pointers,
     Pointed, Sessions, SessionEnd
<1>6. Rebuilds(p)
  BY <1>1, <1>2, <1>3, <1>4, LogBounds DEF Rebuilds, Inv, TypeOK
<1>7. Turns(p)
  BY <1>1, <1>2, <1>3, <1>4 DEF Turns, Claims, Alone, At, Shape, Pointers, Sessions
<1>8. TakesUp(p)
  BY <1>1, <1>2, <1>3, <1>4 DEF TakesUp, Attached, Shape, Ops, Pointers, Pointed, Sessions
<1>9. KeepsAt(p)
  BY <1>1, <1>2, <1>3, <1>4 DEF KeepsAt, Reaped, Picked, Shape, Ops, Sessions
<1> QED BY <1>4, <1>5, <1>6, <1>7, <1>8, <1>9 DEF Moves

LEMMA HeartbeatMoves ==
  ASSUME Inv, NEW p \in Procs, Heartbeat(p)
  PROVE  Moves(p)
<1>1. /\ job[p] \in JobType /\ Shape(job[p]) /\ job \in [Procs -> JobType]
      /\ (Claims(p) <=> lock = p) /\ Free \in JobType /\ MaxSessions \in Nat
      /\ NoProc \notin Procs /\ NoAgent \notin Agents /\ job[p].op \in Ops
  BY JobNow DEF JobType
<1>2. job[p].at = "free"
  BY DEF Heartbeat, Launch, At
<1>3. PICK s \in Pointed : Launch(p, [Free EXCEPT !.op = "beat", !.at = "beat", !.s = s])
  BY DEF Heartbeat
<1> QED
  <2>1. s \in Sessions /\ s # 0 /\ s \in 0 .. MaxSessions
    BY <1>1, <1>3 DEF Pointers, Pointed, Sessions
  <2>2. /\ job' \in [Procs -> JobType] /\ \A q \in Procs \ {p} : job'[q] = job[q]
        /\ job'[p] = [Free EXCEPT !.op = "beat", !.at = "beat", !.s = s]
        /\ job[p].at = "free"
    BY <1>1, <1>3, <2>1, <1>2 DEF Goto, Done, Launch, At, JobType, Points, Ops, Pointers,
       Pointed, Sessions
  <2>3. /\ job'[p].op = "beat" /\ job'[p].at = "beat" /\ job'[p].who = NoAgent
        /\ job'[p].s = s /\ job'[p].todo = {} /\ job'[p].seen = 0
        /\ job'[p].task = NoTask /\ job'[p].crowded = FALSE
    BY <1>1, <2>2 DEF JobType, Free
  <2>4. /\ UNCHANGED <<log, built, aged, ptr, lapsed, forced, overwritten, crossed, lock, kills, ages>>
        /\ ops' \in Nat /\ ops' <= MaxOps
    BY <1>1, <1>3, <2>1, SessionsAssumption DEF Heartbeat, Inv, TypeOK, Launch, At, store,
       bounds, history
  <2>5. Proceeds(p)
    BY <1>1, <1>3, <2>1, <2>2, <2>3, <2>4 DEF Proceeds, Shape, Ops, Free, Inv, TypeOK,
       Launch, Pointers, Pointed, Sessions, Heartbeat
  <2>6. Rebuilds(p)
    BY <1>1, <1>3, <2>1, <2>2, <2>3, <2>4, LogBounds DEF Rebuilds, Inv, TypeOK
  <2>7. Turns(p)
    BY <1>1, <1>3, <2>1, <2>2, <2>3, <2>4 DEF Turns, Claims, Alone, At, Shape, Pointers,
       Sessions
  <2>8. TakesUp(p)
    BY <1>1, <1>3, <2>1, <2>2, <2>3, <2>4 DEF TakesUp, Attached, Shape, Ops, Pointers,
       Pointed, Sessions
  <2>9. KeepsAt(p)
    BY <1>1, <1>3, <2>1, <2>2, <2>3, <2>4 DEF KeepsAt, Reaped, Picked, Shape, Ops,
       Sessions
  <2> QED BY <2>4, <2>5, <2>6, <2>7, <2>8, <2>9 DEF Moves

LEMMA ReapMoves ==
  ASSUME Inv, NEW p \in Procs, NEW force \in BOOLEAN, Reap(p, force)
  PROVE  Moves(p)
<1>1. /\ job[p] \in JobType /\ Shape(job[p]) /\ job \in [Procs -> JobType]
      /\ (Claims(p) <=> lock = p) /\ Free \in JobType /\ MaxSessions \in Nat
      /\ NoProc \notin Procs /\ NoAgent \notin Agents /\ job[p].op \in Ops
  BY JobNow DEF JobType
<1>2. /\ job' \in [Procs -> JobType] /\ \A q \in Procs \ {p} : job'[q] = job[q]
      /\ job'[p] = [Free EXCEPT !.op = "reap", !.at = "sweep", !.force = force, !.todo = Pointed]
      /\ job[p].at = "free"
  BY <1>1 DEF Reap, Goto, Done, Launch, At, JobType, Points, Ops, Pointers, Pointed,
     Sessions
<1>3. /\ job'[p].op = "reap" /\ job'[p].at = "sweep" /\ job'[p].who = NoAgent
      /\ job'[p].s = 0 /\ job'[p].todo = Pointed /\ job'[p].seen = 0
      /\ job'[p].task = NoTask /\ job'[p].crowded = FALSE
  BY <1>1, <1>2 DEF JobType, Free
<1>4. /\ UNCHANGED <<log, built, aged, ptr, lapsed, forced, overwritten, lock, kills, ages>>
      /\ ops' \in Nat /\ ops' <= MaxOps /\ crossed' = (crossed \/ \E q \in Procs, s \in Pointed : Attached(q, s))
  BY <1>1, SessionsAssumption DEF Reap, Inv, TypeOK, Launch, At, store, bounds, history
<1>5. Proceeds(p)
  BY <1>1, <1>2, <1>3, <1>4 DEF Proceeds, Shape, Ops, Free, Inv, TypeOK, Launch, Pointers,
     Pointed, Sessions, Reap
<1>6. Rebuilds(p)
  BY <1>1, <1>2, <1>3, <1>4, LogBounds DEF Rebuilds, Inv, TypeOK
<1>7. Turns(p)
  BY <1>1, <1>2, <1>3, <1>4 DEF Turns, Claims, Alone, At, Shape, Pointers, Sessions
<1>8. TakesUp(p)
  BY <1>1, <1>2, <1>3, <1>4 DEF TakesUp, Attached, Shape, Ops, Pointers, Pointed, Sessions
<1>9. KeepsAt(p)
  BY <1>1, <1>2, <1>3, <1>4 DEF KeepsAt, Reaped, Picked, Shape, Ops, Sessions
<1> QED BY <1>4, <1>5, <1>6, <1>7, <1>8, <1>9 DEF Moves

LEMMA ResolveMoves ==
  ASSUME Inv, NEW p \in Procs, Resolve(p)
  PROVE  Moves(p)
<1>1. /\ job[p] \in JobType /\ Shape(job[p]) /\ job \in [Procs -> JobType]
      /\ (Claims(p) <=> lock = p) /\ Free \in JobType /\ MaxSessions \in Nat
      /\ NoProc \notin Procs /\ NoAgent \notin Agents /\ job[p].op \in Ops
  BY JobNow DEF JobType
<1>2. job[p].at = "resolve"
  BY DEF Resolve, At
<1>3. job[p].op = "resume" /\ job[p].who # NoAgent /\ job[p].s = 0
  BY <1>1, <1>2 DEF Shape, Ops, Free
<1>4. ASSUME NEW s \in Pointers(job[p].who), job' = [job EXCEPT ![p].s = s, ![p].at = "reattach"]
      PROVE  Moves(p)
  <2>1. s \in Sessions /\ s # 0 /\ s \in 0 .. MaxSessions
    BY <1>1, <1>4 DEF Pointers, Pointed, Sessions
  <2>2. /\ job' \in [Procs -> JobType] /\ \A q \in Procs \ {p} : job'[q] = job[q]
        /\ job'[p] = [job[p] EXCEPT !.s = s, !.at = "reattach"]
        /\ job[p].at = "resolve"
    BY <1>1, <1>4, <2>1, <1>2 DEF Goto, Done, Launch, At, JobType, Points, Ops, Pointers,
       Pointed, Sessions
  <2>3. /\ job'[p].op = job[p].op /\ job'[p].at = "reattach" /\ job'[p].who = job[p].who
        /\ job'[p].s = s /\ job'[p].todo = job[p].todo /\ job'[p].seen = job[p].seen
        /\ job'[p].task = job[p].task /\ job'[p].crowded = job[p].crowded
    BY <1>1, <2>2 DEF JobType, Free
  <2>4. UNCHANGED <<log, built, aged, ptr, lapsed, forced, overwritten, crossed, lock, ops, kills, ages>>
    BY <1>1, <1>4, <2>1 DEF Resolve, Launch, At, store, bounds, history
  <2>5. Proceeds(p)
    BY <1>1, <1>4, <2>1, <2>2, <2>3, <2>4, <1>3 DEF Proceeds, Shape, Ops, Free, Inv,
       TypeOK, Launch, Pointers, Pointed, Sessions, Resolve
  <2>6. Rebuilds(p)
    BY <1>1, <1>4, <2>1, <2>2, <2>3, <2>4, <1>3, LogBounds DEF Rebuilds, Inv, TypeOK
  <2>7. Turns(p)
    BY <1>1, <1>4, <2>1, <2>2, <2>3, <2>4, <1>3 DEF Turns, Claims, Alone, At, Shape,
       Pointers, Sessions
  <2>8. TakesUp(p)
    BY <1>1, <1>4, <2>1, <2>2, <2>3, <2>4, <1>3 DEF TakesUp, Attached, Shape, Ops,
       Pointers, Pointed, Sessions
  <2>9. KeepsAt(p)
    BY <1>1, <1>4, <2>1, <2>2, <2>3, <2>4, <1>3 DEF KeepsAt, Reaped, Picked, Shape, Ops,
       Sessions
  <2> QED BY <2>4, <2>5, <2>6, <2>7, <2>8, <2>9 DEF Moves
<1>5. ASSUME Goto(p, "lock")
      PROVE  Moves(p)
  <2>1. /\ job' \in [Procs -> JobType] /\ \A q \in Procs \ {p} : job'[q] = job[q]
        /\ job'[p] = [job[p] EXCEPT !.at = "lock"]
        /\ job[p].at = "resolve"
    BY <1>1, <1>5, <1>2 DEF Goto, Done, Launch, At, JobType, Points, Ops, Pointers,
       Pointed, Sessions
  <2>2. /\ job'[p].op = job[p].op /\ job'[p].at = "lock" /\ job'[p].who = job[p].who
        /\ job'[p].s = job[p].s /\ job'[p].todo = job[p].todo /\ job'[p].seen = job[p].seen
        /\ job'[p].task = job[p].task /\ job'[p].crowded = job[p].crowded
    BY <1>1, <2>1 DEF JobType, Free
  <2>3. UNCHANGED <<log, built, aged, ptr, lapsed, forced, overwritten, crossed, lock, ops, kills, ages>>
    BY <1>1, <1>5 DEF Resolve, Launch, At, store, bounds, history
  <2>4. Proceeds(p)
    BY <1>1, <1>5, <2>1, <2>2, <2>3, <1>3 DEF Proceeds, Shape, Ops, Free, Inv, TypeOK,
       Launch, Pointers, Pointed, Sessions, Resolve
  <2>5. Rebuilds(p)
    BY <1>1, <1>5, <2>1, <2>2, <2>3, <1>3, LogBounds DEF Rebuilds, Inv, TypeOK
  <2>6. Turns(p)
    BY <1>1, <1>5, <2>1, <2>2, <2>3, <1>3 DEF Turns, Claims, Alone, At, Shape, Pointers,
       Sessions
  <2>7. TakesUp(p)
    BY <1>1, <1>5, <2>1, <2>2, <2>3, <1>3 DEF TakesUp, Attached, Shape, Ops, Pointers,
       Pointed, Sessions
  <2>8. KeepsAt(p)
    BY <1>1, <1>5, <2>1, <2>2, <2>3, <1>3 DEF KeepsAt, Reaped, Picked, Shape, Ops,
       Sessions
  <2> QED BY <2>3, <2>4, <2>5, <2>6, <2>7, <2>8 DEF Moves
<1> QED BY <1>4, <1>5 DEF Resolve

LEMMA ReattachMoves ==
  ASSUME Inv, NEW p \in Procs, Reattach(p)
  PROVE  Moves(p)
<1>1. /\ job[p] \in JobType /\ Shape(job[p]) /\ job \in [Procs -> JobType]
      /\ (Claims(p) <=> lock = p) /\ Free \in JobType /\ MaxSessions \in Nat
      /\ NoProc \notin Procs /\ NoAgent \notin Agents /\ job[p].op \in Ops
  BY JobNow DEF JobType
<1>2. job[p].at = "reattach"
  BY DEF Reattach, At
<1>3. job[p].op = "resume" /\ job[p].who # NoAgent /\ job[p].s # 0
  BY <1>1, <1>2 DEF Shape, Ops, Free
<1>4. CASE ptr[job[p].s] = NoAgent
  <2>1. /\ job' \in [Procs -> JobType] /\ \A q \in Procs \ {p} : job'[q] = job[q]
        /\ job'[p] = [job[p] EXCEPT !.s = 0, !.at = "lock"]
        /\ job[p].at = "reattach"
    BY <1>1, <1>4 DEF Reattach, Goto, Done, Launch, At, JobType, Points, Ops, Pointers,
       Pointed, Sessions
  <2>2. /\ job'[p].op = job[p].op /\ job'[p].at = "lock" /\ job'[p].who = job[p].who
        /\ job'[p].s = 0 /\ job'[p].todo = job[p].todo /\ job'[p].seen = job[p].seen
        /\ job'[p].task = job[p].task /\ job'[p].crowded = job[p].crowded
    BY <1>1, <2>1 DEF JobType, Free
  <2>3. UNCHANGED <<log, built, aged, ptr, lapsed, forced, overwritten, crossed, lock, ops, kills, ages>>
    BY <1>1, <1>4 DEF Reattach, Launch, At, store, bounds, history
  <2>4. Proceeds(p)
    BY <1>1, <1>4, <2>1, <2>2, <2>3, <1>3 DEF Proceeds, Shape, Ops, Free, Inv, TypeOK,
       Launch, Pointers, Pointed, Sessions, Reattach
  <2>5. Rebuilds(p)
    BY <1>1, <1>4, <2>1, <2>2, <2>3, <1>3, LogBounds DEF Rebuilds, Inv, TypeOK
  <2>6. Turns(p)
    BY <1>1, <1>4, <2>1, <2>2, <2>3, <1>3 DEF Turns, Claims, Alone, At, Shape, Pointers,
       Sessions
  <2>7. TakesUp(p)
    BY <1>1, <1>4, <2>1, <2>2, <2>3, <1>3 DEF TakesUp, Attached, Shape, Ops, Pointers,
       Pointed, Sessions
  <2>8. KeepsAt(p)
    BY <1>1, <1>4, <2>1, <2>2, <2>3, <1>3 DEF KeepsAt, Reaped, Picked, Shape, Ops,
       Sessions
  <2> QED BY <2>3, <2>4, <2>5, <2>6, <2>7, <2>8 DEF Moves
<1>5. ptr[job[p].s] # NoAgent => (~ crossed' => ~ Sweeping(job[p].s))
  BY Zenon DEF Reattach
<1>6. CASE ptr[job[p].s] # NoAgent
  <2>1. /\ job' \in [Procs -> JobType] /\ \A q \in Procs \ {p} : job'[q] = job[q]
        /\ job'[p] = [job[p] EXCEPT !.at = "stamp"]
        /\ job[p].at = "reattach"
    BY <1>1, <1>6 DEF Reattach, Goto, Done, Launch, At, JobType, Points, Ops, Pointers,
       Pointed, Sessions
  <2>2. /\ job'[p].op = job[p].op /\ job'[p].at = "stamp" /\ job'[p].who = job[p].who
        /\ job'[p].s = job[p].s /\ job'[p].todo = job[p].todo /\ job'[p].seen = job[p].seen
        /\ job'[p].task = job[p].task /\ job'[p].crowded = job[p].crowded
    BY <1>1, <2>1 DEF JobType, Free
  <2>3. /\ UNCHANGED <<log, built, aged, ptr, lapsed, forced, overwritten, lock, ops, kills, ages>>
        /\ crossed' = (crossed \/ Sweeping(job[p].s))
    BY <1>1, <1>6 DEF Reattach, Launch, At, store, bounds, history
  <2>4. Proceeds(p)
    BY <1>1, <1>6, <2>1, <2>2, <2>3, <1>3, <1>5 DEF Proceeds, Shape, Ops, Free, Inv,
       TypeOK, Launch, Pointers, Pointed, Sessions, Reattach
  <2>5. Rebuilds(p)
    BY <1>1, <1>6, <2>1, <2>2, <2>3, <1>3, <1>5, LogBounds DEF Rebuilds, Inv, TypeOK
  <2>6. Turns(p)
    BY <1>1, <1>6, <2>1, <2>2, <2>3, <1>3, <1>5 DEF Turns, Claims, Alone, At, Shape,
       Pointers, Sessions
  <2>7. TakesUp(p)
    BY <1>1, <1>6, <2>1, <2>2, <2>3, <1>3, <1>5 DEF TakesUp, Attached, Shape, Ops,
       Pointers, Pointed, Sessions
  <2>8. KeepsAt(p)
    BY <1>1, <1>6, <2>1, <2>2, <2>3, <1>3, <1>5 DEF KeepsAt, Reaped, Picked, Shape, Ops,
       Sessions
  <2> QED BY <2>3, <2>4, <2>5, <2>6, <2>7, <2>8 DEF Moves
<1> QED BY <1>4, <1>6

LEMMA AcquireMoves ==
  ASSUME Inv, NEW p \in Procs, Acquire(p)
  PROVE  Moves(p)
<1>1. /\ job[p] \in JobType /\ Shape(job[p]) /\ job \in [Procs -> JobType]
      /\ (Claims(p) <=> lock = p) /\ Free \in JobType /\ MaxSessions \in Nat
      /\ NoProc \notin Procs /\ NoAgent \notin Agents /\ job[p].op \in Ops
  BY JobNow DEF JobType
<1>2. job[p].at = "lock"
  BY DEF Acquire, At
<1>3. job[p].op = "resume" /\ job[p].who # NoAgent /\ job[p].s = 0
  BY <1>1, <1>2 DEF Shape, Ops, Free
<1>4. /\ job' \in [Procs -> JobType] /\ \A q \in Procs \ {p} : job'[q] = job[q]
      /\ job'[p] = [job[p] EXCEPT !.op = "start", !.at = "recheck"]
      /\ job[p].at = "lock"
  BY <1>1 DEF Acquire, Goto, Done, Launch, At, JobType, Points, Ops, Pointers, Pointed,
     Sessions
<1>5. /\ job'[p].op = "start" /\ job'[p].at = "recheck" /\ job'[p].who = job[p].who
      /\ job'[p].s = job[p].s /\ job'[p].todo = job[p].todo /\ job'[p].seen = job[p].seen
      /\ job'[p].task = job[p].task /\ job'[p].crowded = job[p].crowded
  BY <1>1, <1>4 DEF JobType, Free
<1>6. /\ UNCHANGED <<log, built, aged, ptr, lapsed, forced, overwritten, crossed, ops, kills, ages>>
      /\ lock = NoProc /\ lock' = p
  BY <1>1 DEF Acquire, Launch, At, store, bounds, history
<1>7. Proceeds(p)
  BY <1>1, <1>4, <1>5, <1>6, <1>3 DEF Proceeds, Shape, Ops, Free, Inv, TypeOK, Launch,
     Pointers, Pointed, Sessions, Acquire
<1>8. Rebuilds(p)
  BY <1>1, <1>4, <1>5, <1>6, <1>3, LogBounds DEF Rebuilds, Inv, TypeOK
<1>9. Turns(p)
  BY <1>1, <1>4, <1>5, <1>6, <1>3 DEF Turns, Claims, Alone, At, Shape, Pointers, Sessions
<1>10. TakesUp(p)
  BY <1>1, <1>4, <1>5, <1>6, <1>3 DEF TakesUp, Attached, Shape, Ops, Pointers, Pointed,
     Sessions
<1>11. KeepsAt(p)
  BY <1>1, <1>4, <1>5, <1>6, <1>3 DEF KeepsAt, Reaped, Picked, Shape, Ops, Sessions
<1> QED BY <1>6, <1>7, <1>8, <1>9, <1>10, <1>11 DEF Moves

LEMMA RecheckMoves ==
  ASSUME Inv, NEW p \in Procs, Recheck(p)
  PROVE  Moves(p)
<1>1. /\ job[p] \in JobType /\ Shape(job[p]) /\ job \in [Procs -> JobType]
      /\ (Claims(p) <=> lock = p) /\ Free \in JobType /\ MaxSessions \in Nat
      /\ NoProc \notin Procs /\ NoAgent \notin Agents /\ job[p].op \in Ops
  BY JobNow DEF JobType
<1>2. CASE Pointers(job[p].who) # {}
  <2>1. Done(p) /\ lock' = NoProc /\ Claims(p) /\ UNCHANGED <<log, built, aged, ptr, lapsed, forced, overwritten, crossed, ops, kills, ages>>
    BY <1>1, <1>2 DEF Recheck, At, Claims, Shape, store, bounds, history
  <2>2. /\ ~ (job[p].op = "start" /\ job[p].s # 0) /\ \A s \in Sessions : ~ Reaped(p, s)
        /\ kills \in 0 .. MaxKills
    BY <1>1, <1>2 DEF Recheck, At, Shape, Reaped, Inv, TypeOK
  <2> QED BY <1>1, <2>1, <2>2, DoneMoves
<1>3. CASE Pointers(job[p].who) = {}
  <2>1. /\ job' \in [Procs -> JobType] /\ \A q \in Procs \ {p} : job'[q] = job[q]
        /\ job'[p] = [job[p] EXCEPT !.at = "pick"]
        /\ job[p].at = "recheck"
    BY <1>1, <1>3 DEF Recheck, Goto, Done, Launch, At, JobType, Points, Ops, Pointers,
       Pointed, Sessions
  <2>2. /\ job'[p].op = job[p].op /\ job'[p].at = "pick" /\ job'[p].who = job[p].who
        /\ job'[p].s = job[p].s /\ job'[p].todo = job[p].todo /\ job'[p].seen = job[p].seen
        /\ job'[p].task = job[p].task /\ job'[p].crowded = job[p].crowded
    BY <1>1, <2>1 DEF JobType, Free
  <2>3. UNCHANGED <<log, built, aged, ptr, lapsed, forced, overwritten, crossed, lock, ops, kills, ages>>
    BY <1>1, <1>3 DEF Recheck, Launch, At, store, bounds, history
  <2>4. Proceeds(p)
    BY <1>1, <1>3, <2>1, <2>2, <2>3 DEF Proceeds, Shape, Ops, Free, Inv, TypeOK, Launch,
       Pointers, Pointed, Sessions, Recheck
  <2>5. Rebuilds(p)
    BY <1>1, <1>3, <2>1, <2>2, <2>3, LogBounds DEF Rebuilds, Inv, TypeOK
  <2>6. Turns(p)
    BY <1>1, <1>3, <2>1, <2>2, <2>3 DEF Turns, Claims, Alone, At, Shape, Pointers,
       Sessions
  <2>7. TakesUp(p)
    BY <1>1, <1>3, <2>1, <2>2, <2>3 DEF TakesUp, Attached, Shape, Ops, Pointers, Pointed,
       Sessions
  <2>8. KeepsAt(p)
    BY <1>1, <1>3, <2>1, <2>2, <2>3 DEF KeepsAt, Reaped, Picked, Shape, Ops, Sessions
  <2> QED BY <2>3, <2>4, <2>5, <2>6, <2>7, <2>8 DEF Moves
<1> QED BY <1>2, <1>3

LEMMA PickMoves ==
  ASSUME Inv, NEW p \in Procs, Pick(p)
  PROVE  Moves(p)
<1>1. /\ job[p] \in JobType /\ Shape(job[p]) /\ job \in [Procs -> JobType]
      /\ (Claims(p) <=> lock = p) /\ Free \in JobType /\ MaxSessions \in Nat
      /\ NoProc \notin Procs /\ NoAgent \notin Agents /\ job[p].op \in Ops
  BY JobNow DEF JobType
<1>2. PICK t \in Tasks :
        /\ job' = [job EXCEPT ![p].task = t, ![p].at = "start",
                              ![p].crowded = (Tasks \ ClaimedTasks(built) = {})]
        /\ t \notin ClaimedTasks(built) \/ Tasks \ ClaimedTasks(built) = {}
  BY DEF Pick
<1> QED
  <2>1. /\ job' \in [Procs -> JobType] /\ \A q \in Procs \ {p} : job'[q] = job[q]
        /\ job'[p] = [job[p] EXCEPT !.task = t, !.at = "start", !.crowded = (Tasks \ ClaimedTasks(built) = {})]
        /\ job[p].at = "pick"
    BY <1>1, <1>2 DEF Pick, Goto, Done, Launch, At, JobType, Points, Ops, Pointers,
       Pointed, Sessions
  <2>2. /\ job'[p].op = job[p].op /\ job'[p].at = "start" /\ job'[p].who = job[p].who
        /\ job'[p].s = job[p].s /\ job'[p].todo = job[p].todo /\ job'[p].seen = job[p].seen
        /\ job'[p].task = t /\ job'[p].crowded = (Tasks \ ClaimedTasks(built) = {})
    BY <1>1, <2>1 DEF JobType, Free
  <2>3. UNCHANGED <<log, built, aged, ptr, lapsed, forced, overwritten, crossed, lock, ops, kills, ages>>
    BY <1>1, <1>2 DEF Pick, Launch, At, store, bounds, history
  <2>4. Proceeds(p)
    BY <1>1, <1>2, <2>1, <2>2, <2>3 DEF Proceeds, Shape, Ops, Free, Inv, TypeOK, Launch,
       Pointers, Pointed, Sessions, Pick
  <2>5. Rebuilds(p)
    BY <1>1, <1>2, <2>1, <2>2, <2>3, LogBounds DEF Rebuilds, Inv, TypeOK
  <2>6. Turns(p)
    BY <1>1, <1>2, <2>1, <2>2, <2>3 DEF Turns, Claims, Alone, At, Shape, Pointers,
       Sessions
  <2>7. TakesUp(p)
    BY <1>1, <1>2, <2>1, <2>2, <2>3 DEF TakesUp, Attached, Shape, Ops, Pointers, Pointed,
       Sessions
  <2>8. KeepsAt(p)
    BY <1>1, <1>2, <2>1, <2>2, <2>3 DEF KeepsAt, Reaped, Picked, Shape, Ops, Sessions
  <2> QED BY <2>3, <2>4, <2>5, <2>6, <2>7, <2>8 DEF Moves

LEMMA MatchMoves ==
  ASSUME Inv, NEW p \in Procs, Match(p)
  PROVE  Moves(p)
<1>1. /\ job[p] \in JobType /\ Shape(job[p]) /\ job \in [Procs -> JobType]
      /\ (Claims(p) <=> lock = p) /\ Free \in JobType /\ MaxSessions \in Nat
      /\ NoProc \notin Procs /\ NoAgent \notin Agents /\ job[p].op \in Ops
  BY JobNow DEF JobType
<1>2. job[p].at = "match"
  BY DEF Match, At
<1>3. job[p].op = "pause" /\ job[p].who # NoAgent /\ job[p].s = 0
  BY <1>1, <1>2 DEF Shape, Ops, Free
<1>4. ASSUME NEW s \in Pointed, job' = [job EXCEPT ![p].s = s, ![p].at = "pause"]
      PROVE  Moves(p)
  <2>1. s \in Sessions /\ s # 0 /\ s \in 0 .. MaxSessions
    BY <1>1, <1>4 DEF Pointers, Pointed, Sessions
  <2>2. /\ job' \in [Procs -> JobType] /\ \A q \in Procs \ {p} : job'[q] = job[q]
        /\ job'[p] = [job[p] EXCEPT !.s = s, !.at = "pause"]
        /\ job[p].at = "match"
    BY <1>1, <1>4, <2>1, <1>2 DEF Goto, Done, Launch, At, JobType, Points, Ops, Pointers,
       Pointed, Sessions
  <2>3. /\ job'[p].op = job[p].op /\ job'[p].at = "pause" /\ job'[p].who = job[p].who
        /\ job'[p].s = s /\ job'[p].todo = job[p].todo /\ job'[p].seen = job[p].seen
        /\ job'[p].task = job[p].task /\ job'[p].crowded = job[p].crowded
    BY <1>1, <2>2 DEF JobType, Free
  <2>4. UNCHANGED <<log, built, aged, ptr, lapsed, forced, overwritten, crossed, lock, ops, kills, ages>>
    BY <1>1, <1>4, <2>1 DEF Match, Launch, At, store, bounds, history
  <2>5. Proceeds(p)
    BY <1>1, <1>4, <2>1, <2>2, <2>3, <2>4, <1>3 DEF Proceeds, Shape, Ops, Free, Inv,
       TypeOK, Launch, Pointers, Pointed, Sessions, Match
  <2>6. Rebuilds(p)
    BY <1>1, <1>4, <2>1, <2>2, <2>3, <2>4, <1>3, LogBounds DEF Rebuilds, Inv, TypeOK
  <2>7. Turns(p)
    BY <1>1, <1>4, <2>1, <2>2, <2>3, <2>4, <1>3 DEF Turns, Claims, Alone, At, Shape,
       Pointers, Sessions
  <2>8. TakesUp(p)
    BY <1>1, <1>4, <2>1, <2>2, <2>3, <2>4, <1>3 DEF TakesUp, Attached, Shape, Ops,
       Pointers, Pointed, Sessions
  <2>9. KeepsAt(p)
    BY <1>1, <1>4, <2>1, <2>2, <2>3, <2>4, <1>3 DEF KeepsAt, Reaped, Picked, Shape, Ops,
       Sessions
  <2> QED BY <2>4, <2>5, <2>6, <2>7, <2>8, <2>9 DEF Moves
<1>5. ASSUME Done(p) PROVE Moves(p)
  <2>1. Done(p) /\ lock' = lock /\ ~ Claims(p) /\ UNCHANGED <<log, built, aged, ptr, lapsed, forced, overwritten, crossed, ops, kills, ages>>
    BY <1>1, <1>5 DEF Match, At, Claims, Shape, store, bounds, history
  <2>2. /\ ~ (job[p].op = "start" /\ job[p].s # 0) /\ \A s \in Sessions : ~ Reaped(p, s)
        /\ kills \in 0 .. MaxKills
    BY <1>1, <1>5 DEF Match, At, Shape, Reaped, Inv, TypeOK
  <2> QED BY <1>1, <2>1, <2>2, DoneMoves
<1>6. \A s \in Pointers(job[p].who) : s \in Pointed
  BY <1>3 DEF Pointers, Pointed
<1> QED BY <1>4, <1>5, <1>6 DEF Match

LEMMA PauseMoves ==
  ASSUME Inv, NEW p \in Procs, Pause(p)
  PROVE  Moves(p)
<1>1. /\ job[p] \in JobType /\ Shape(job[p]) /\ job \in [Procs -> JobType]
      /\ (Claims(p) <=> lock = p) /\ Free \in JobType /\ MaxSessions \in Nat
      /\ NoProc \notin Procs /\ NoAgent \notin Agents /\ job[p].op \in Ops
  BY JobNow DEF JobType
<1>2. CASE ptr[job[p].s] = NoAgent
  <2>1. Done(p) /\ lock' = lock /\ ~ Claims(p) /\ UNCHANGED <<log, built, aged, ptr, lapsed, forced, overwritten, crossed, ops, kills, ages>>
    BY <1>1, <1>2 DEF Pause, At, Claims, Shape, store, bounds, history
  <2>2. /\ ~ (job[p].op = "start" /\ job[p].s # 0) /\ \A s \in Sessions : ~ Reaped(p, s)
        /\ kills \in 0 .. MaxKills
    BY <1>1, <1>2 DEF Pause, At, Shape, Reaped, Inv, TypeOK
  <2> QED BY <1>1, <2>1, <2>2, DoneMoves
<1>3. CASE ptr[job[p].s] # NoAgent
  <2>1. /\ job' \in [Procs -> JobType] /\ \A q \in Procs \ {p} : job'[q] = job[q]
        /\ job'[p] = [job[p] EXCEPT !.at = "wait"]
        /\ job[p].at = "pause"
    BY <1>1, <1>3 DEF Pause, Goto, Done, Launch, At, JobType, Points, Ops, Pointers,
       Pointed, Sessions
  <2>2. /\ job'[p].op = job[p].op /\ job'[p].at = "wait" /\ job'[p].who = job[p].who
        /\ job'[p].s = job[p].s /\ job'[p].todo = job[p].todo /\ job'[p].seen = job[p].seen
        /\ job'[p].task = job[p].task /\ job'[p].crowded = job[p].crowded
    BY <1>1, <2>1 DEF JobType, Free
  <2>3. /\ UNCHANGED <<log, built, aged, ptr, lapsed, forced, overwritten, lock, ops, kills, ages>>
        /\ crossed' = (crossed \/ Sweeping(job[p].s))
    BY <1>1, <1>3 DEF Pause, Launch, At, store, bounds, history
  <2>4. Proceeds(p)
    BY <1>1, <1>3, <2>1, <2>2, <2>3 DEF Proceeds, Shape, Ops, Free, Inv, TypeOK, Launch,
       Pointers, Pointed, Sessions, Pause
  <2>5. Rebuilds(p)
    BY <1>1, <1>3, <2>1, <2>2, <2>3, LogBounds DEF Rebuilds, Inv, TypeOK
  <2>6. Turns(p)
    BY <1>1, <1>3, <2>1, <2>2, <2>3 DEF Turns, Claims, Alone, At, Shape, Pointers,
       Sessions
  <2>7. TakesUp(p)
    BY <1>1, <1>3, <2>1, <2>2, <2>3 DEF TakesUp, Attached, Shape, Ops, Pointers, Pointed,
       Sessions
  <2>8. KeepsAt(p)
    BY <1>1, <1>3, <2>1, <2>2, <2>3 DEF KeepsAt, Reaped, Picked, Shape, Ops, Sessions
  <2> QED BY <2>3, <2>4, <2>5, <2>6, <2>7, <2>8 DEF Moves
<1> QED BY <1>2, <1>3

LEMMA PauseLockMoves ==
  ASSUME Inv, NEW p \in Procs, PauseLock(p)
  PROVE  Moves(p)
<1>1. /\ job[p] \in JobType /\ Shape(job[p]) /\ job \in [Procs -> JobType]
      /\ (Claims(p) <=> lock = p) /\ Free \in JobType /\ MaxSessions \in Nat
      /\ NoProc \notin Procs /\ NoAgent \notin Agents /\ job[p].op \in Ops
  BY JobNow DEF JobType
<1>2. /\ job' \in [Procs -> JobType] /\ \A q \in Procs \ {p} : job'[q] = job[q]
      /\ job'[p] = [job[p] EXCEPT !.at = "check"]
      /\ job[p].at = "wait"
  BY <1>1 DEF PauseLock, Goto, Done, Launch, At, JobType, Points, Ops, Pointers, Pointed,
     Sessions
<1>3. /\ job'[p].op = job[p].op /\ job'[p].at = "check" /\ job'[p].who = job[p].who
      /\ job'[p].s = job[p].s /\ job'[p].todo = job[p].todo /\ job'[p].seen = job[p].seen
      /\ job'[p].task = job[p].task /\ job'[p].crowded = job[p].crowded
  BY <1>1, <1>2 DEF JobType, Free
<1>4. UNCHANGED <<log, built, aged, ptr, lapsed, forced, overwritten, crossed, lock, ops, kills, ages>>
  BY <1>1 DEF PauseLock, Launch, At, store, bounds, history
<1>5. Proceeds(p)
  BY <1>1, <1>2, <1>3, <1>4 DEF Proceeds, Shape, Ops, Free, Inv, TypeOK, Launch, Pointers,
     Pointed, Sessions, PauseLock
<1>6. Rebuilds(p)
  BY <1>1, <1>2, <1>3, <1>4, LogBounds DEF Rebuilds, Inv, TypeOK
<1>7. Turns(p)
  BY <1>1, <1>2, <1>3, <1>4 DEF Turns, Claims, Alone, At, Shape, Pointers, Sessions
<1>8. TakesUp(p)
  BY <1>1, <1>2, <1>3, <1>4 DEF TakesUp, Attached, Shape, Ops, Pointers, Pointed, Sessions
<1>9. KeepsAt(p)
  BY <1>1, <1>2, <1>3, <1>4 DEF KeepsAt, Reaped, Picked, Shape, Ops, Sessions
<1> QED BY <1>4, <1>5, <1>6, <1>7, <1>8, <1>9 DEF Moves

LEMMA PauseCheckMoves ==
  ASSUME Inv, NEW p \in Procs, PauseCheck(p)
  PROVE  Moves(p)
<1>1. /\ job[p] \in JobType /\ Shape(job[p]) /\ job \in [Procs -> JobType]
      /\ (Claims(p) <=> lock = p) /\ Free \in JobType /\ MaxSessions \in Nat
      /\ NoProc \notin Procs /\ NoAgent \notin Agents /\ job[p].op \in Ops
  BY JobNow DEF JobType
<1>2. job[p].at = "check"
  BY DEF PauseCheck, At
<1>3. ASSUME Done(p) PROVE Moves(p)
  <2>1. Done(p) /\ lock' = lock /\ ~ Claims(p) /\ UNCHANGED <<log, built, aged, ptr, lapsed, forced, overwritten, crossed, ops, kills, ages>>
    BY <1>1, <1>3 DEF PauseCheck, At, Claims, Shape, store, bounds, history
  <2>2. /\ ~ (job[p].op = "start" /\ job[p].s # 0) /\ \A s \in Sessions : ~ Reaped(p, s)
        /\ kills \in 0 .. MaxKills
    BY <1>1, <1>3 DEF PauseCheck, At, Shape, Reaped, Inv, TypeOK
  <2> QED BY <1>1, <2>1, <2>2, DoneMoves
<1>4. ASSUME Goto(p, "paused") PROVE Moves(p)
  <2>1. /\ job' \in [Procs -> JobType] /\ \A q \in Procs \ {p} : job'[q] = job[q]
        /\ job'[p] = [job[p] EXCEPT !.at = "paused"]
        /\ job[p].at = "check"
    BY <1>1, <1>4, <1>2 DEF Goto, Done, Launch, At, JobType, Points, Ops, Pointers,
       Pointed, Sessions
  <2>2. /\ job'[p].op = job[p].op /\ job'[p].at = "paused" /\ job'[p].who = job[p].who
        /\ job'[p].s = job[p].s /\ job'[p].todo = job[p].todo /\ job'[p].seen = job[p].seen
        /\ job'[p].task = job[p].task /\ job'[p].crowded = job[p].crowded
    BY <1>1, <2>1 DEF JobType, Free
  <2>3. UNCHANGED <<log, built, aged, ptr, lapsed, forced, overwritten, crossed, lock, ops, kills, ages>>
    BY <1>1, <1>4 DEF PauseCheck, Launch, At, store, bounds, history
  <2>4. Proceeds(p)
    BY <1>1, <1>4, <2>1, <2>2, <2>3 DEF Proceeds, Shape, Ops, Free, Inv, TypeOK, Launch,
       Pointers, Pointed, Sessions, PauseCheck
  <2>5. Rebuilds(p)
    BY <1>1, <1>4, <2>1, <2>2, <2>3, LogBounds DEF Rebuilds, Inv, TypeOK
  <2>6. Turns(p)
    BY <1>1, <1>4, <2>1, <2>2, <2>3 DEF Turns, Claims, Alone, At, Shape, Pointers,
       Sessions
  <2>7. TakesUp(p)
    BY <1>1, <1>4, <2>1, <2>2, <2>3 DEF TakesUp, Attached, Shape, Ops, Pointers, Pointed,
       Sessions
  <2>8. KeepsAt(p)
    BY <1>1, <1>4, <2>1, <2>2, <2>3 DEF KeepsAt, Reaped, Picked, Shape, Ops, Sessions
  <2> QED BY <2>3, <2>4, <2>5, <2>6, <2>7, <2>8 DEF Moves
<1> QED BY <1>3, <1>4 DEF PauseCheck

LEMMA SweepMoves ==
  ASSUME Inv, NEW p \in Procs, Sweep(p)
  PROVE  Moves(p)
<1>1. /\ job[p] \in JobType /\ Shape(job[p]) /\ job \in [Procs -> JobType]
      /\ (Claims(p) <=> lock = p) /\ Free \in JobType /\ MaxSessions \in Nat
      /\ NoProc \notin Procs /\ NoAgent \notin Agents /\ job[p].op \in Ops
  BY JobNow DEF JobType
<1>2. job[p].at = "sweep"
  BY DEF Sweep, At
<1>3. ASSUME Done(p) PROVE Moves(p)
  <2>1. Done(p) /\ lock' = lock /\ ~ Claims(p) /\ UNCHANGED <<log, built, aged, ptr, lapsed, forced, overwritten, crossed, ops, kills, ages>>
    BY <1>1, <1>3 DEF Sweep, At, Claims, Shape, store, bounds, history
  <2>2. /\ ~ (job[p].op = "start" /\ job[p].s # 0) /\ \A s \in Sessions : ~ Reaped(p, s)
        /\ kills \in 0 .. MaxKills
    BY <1>1, <1>3 DEF Sweep, At, Shape, Reaped, Inv, TypeOK
  <2> QED BY <1>1, <2>1, <2>2, DoneMoves
<1>4. ASSUME NEW s \in job[p].todo, job' = [job EXCEPT ![p].s = s, ![p].at = "abandon"]
      PROVE  Moves(p)
  <2>1. /\ job' \in [Procs -> JobType] /\ \A q \in Procs \ {p} : job'[q] = job[q]
        /\ job'[p] = [job[p] EXCEPT !.s = s, !.at = "abandon"]
        /\ job[p].at = "sweep"
    BY <1>1, <1>4, <1>2 DEF Goto, Done, Launch, At, JobType, Points, Ops, Pointers,
       Pointed, Sessions
  <2>2. /\ job'[p].op = job[p].op /\ job'[p].at = "abandon" /\ job'[p].who = job[p].who
        /\ job'[p].s = s /\ job'[p].todo = job[p].todo /\ job'[p].seen = job[p].seen
        /\ job'[p].task = job[p].task /\ job'[p].crowded = job[p].crowded
    BY <1>1, <2>1 DEF JobType, Free
  <2>3. UNCHANGED <<log, built, aged, ptr, lapsed, forced, overwritten, crossed, lock, ops, kills, ages>>
    BY <1>1, <1>4 DEF Sweep, Launch, At, store, bounds, history
  <2>4. Proceeds(p)
    BY <1>1, <1>4, <2>1, <2>2, <2>3 DEF Proceeds, Shape, Ops, Free, Inv, TypeOK, Launch,
       Pointers, Pointed, Sessions, Sweep
  <2>5. Rebuilds(p)
    BY <1>1, <1>4, <2>1, <2>2, <2>3, LogBounds DEF Rebuilds, Inv, TypeOK
  <2>6. Turns(p)
    BY <1>1, <1>4, <2>1, <2>2, <2>3 DEF Turns, Claims, Alone, At, Shape, Pointers,
       Sessions
  <2>7. TakesUp(p)
    BY <1>1, <1>4, <2>1, <2>2, <2>3 DEF TakesUp, Attached, Shape, Ops, Pointers, Pointed,
       Sessions
  <2>8. KeepsAt(p)
    BY <1>1, <1>4, <2>1, <2>2, <2>3 DEF KeepsAt, Reaped, Picked, Shape, Ops, Sessions
  <2> QED BY <2>3, <2>4, <2>5, <2>6, <2>7, <2>8 DEF Moves
<1>5. ASSUME NEW s \in job[p].todo, job' = [job EXCEPT ![p].todo = @ \ {s}]
      PROVE  Moves(p)
  <2>1. /\ job' \in [Procs -> JobType] /\ \A q \in Procs \ {p} : job'[q] = job[q]
        /\ job'[p] = [job[p] EXCEPT !.todo = @ \ {s}]
        /\ job[p].at = "sweep"
    BY <1>1, <1>5, <1>2 DEF Goto, Done, Launch, At, JobType, Points, Ops, Pointers,
       Pointed, Sessions
  <2>2. /\ job'[p].op = job[p].op /\ job'[p].at = job[p].at /\ job'[p].who = job[p].who
        /\ job'[p].s = job[p].s /\ job'[p].todo = job[p].todo \ {s} /\ job'[p].seen = job[p].seen
        /\ job'[p].task = job[p].task /\ job'[p].crowded = job[p].crowded
    BY <1>1, <2>1 DEF JobType, Free
  <2>3. UNCHANGED <<log, built, aged, ptr, lapsed, forced, overwritten, crossed, lock, ops, kills, ages>>
    BY <1>1, <1>5 DEF Sweep, Launch, At, store, bounds, history
  <2>4. Proceeds(p)
    BY <1>1, <1>5, <2>1, <2>2, <2>3 DEF Proceeds, Shape, Ops, Free, Inv, TypeOK, Launch,
       Pointers, Pointed, Sessions, Sweep
  <2>5. Rebuilds(p)
    BY <1>1, <1>5, <2>1, <2>2, <2>3, LogBounds DEF Rebuilds, Inv, TypeOK
  <2>6. Turns(p)
    BY <1>1, <1>5, <2>1, <2>2, <2>3 DEF Turns, Claims, Alone, At, Shape, Pointers,
       Sessions
  <2>7. TakesUp(p)
    BY <1>1, <1>5, <2>1, <2>2, <2>3 DEF TakesUp, Attached, Shape, Ops, Pointers, Pointed,
       Sessions
  <2>8. KeepsAt(p)
    BY <1>1, <1>5, <2>1, <2>2, <2>3 DEF KeepsAt, Reaped, Picked, Shape, Ops, Sessions
  <2> QED BY <2>3, <2>4, <2>5, <2>6, <2>7, <2>8 DEF Moves
<1> QED BY <1>3, <1>4, <1>5 DEF Sweep

LEMMA KillMoves ==
  ASSUME Inv, NEW p \in Procs, Kill(p)
  PROVE  Moves(p)
<1>1. /\ job[p] \in JobType /\ Shape(job[p]) /\ job \in [Procs -> JobType]
      /\ (Claims(p) <=> lock = p) /\ Free \in JobType /\ MaxSessions \in Nat
      /\ NoProc \notin Procs /\ NoAgent \notin Agents /\ job[p].op \in Ops
  BY JobNow DEF JobType
<1>2. /\ Done(p) /\ kills' = kills + 1 /\ kills < MaxKills /\ kills \in 0 .. MaxKills
      /\ UNCHANGED <<log, built, aged, ptr, lapsed, forced, overwritten, crossed, ops, ages>>
      /\ lock' = IF lock = p THEN NoProc ELSE lock
  BY DEF Kill, Inv, TypeOK, store, history
<1>3. kills' \in 0 .. MaxKills /\ kills' # 0
  BY <1>2, SessionsAssumption
<1> QED BY <1>2, <1>3, DoneMoves

LEMMA RebuildWriteMoves ==
  ASSUME Inv, NEW p \in Procs, RebuildWrite(p)
  PROVE  Moves(p)
<1>1. /\ job[p] \in JobType /\ Shape(job[p]) /\ job \in [Procs -> JobType]
      /\ (Claims(p) <=> lock = p) /\ Free \in JobType /\ MaxSessions \in Nat
      /\ NoProc \notin Procs /\ NoAgent \notin Agents /\ job[p].op \in Ops
  BY JobNow DEF JobType
<1>2. job[p].at = "write"
  BY DEF RebuildWrite, At
<1>3. built' = job[p].seen /\ overwritten' = (overwritten \/ job[p].seen < built)
  BY DEF RebuildWrite
<1>4. built' = job[p].seen
  BY <1>3
<1>5. built \in Nat /\ Len(log) \in Nat
  BY LogBounds DEF Inv
<1>6. job[p].seen \in Nat /\ job[p].seen <= Len(log)
  BY <1>1, <1>2, JobNow DEF JobType
<1>7. overwritten \in BOOLEAN
  BY DEF Inv, TypeOK
<1>8. overwritten' \in BOOLEAN
  BY <1>3, Zenon
<1>9. ~ overwritten' => ~ overwritten /\ ~ job[p].seen < built
  BY <1>3, Zenon
<1>10. ~ overwritten' => ~ overwritten /\ built <= built'
  BY <1>5, <1>6, <1>9, <1>4
<1>11. /\ job[p].op = "start" => Goto(p, "point")
       /\ job[p].op = "reap" => Goto(p, "unlink")
       /\ job[p].op \notin {"start", "reap"} => Done(p)
  BY DEF RebuildWrite
<1>12. CASE job[p].op = "start"
  <2>1. /\ job' \in [Procs -> JobType] /\ \A q \in Procs \ {p} : job'[q] = job[q]
        /\ job'[p] = [job[p] EXCEPT !.at = "point"]
        /\ job[p].at = "write"
    BY <1>1, <1>11, <1>12, <1>2 DEF Goto, Done, Launch, At, JobType, Points, Ops,
       Pointers, Pointed, Sessions
  <2>2. /\ job'[p].op = job[p].op /\ job'[p].at = "point" /\ job'[p].who = job[p].who
        /\ job'[p].s = job[p].s /\ job'[p].todo = job[p].todo /\ job'[p].seen = job[p].seen
        /\ job'[p].task = job[p].task /\ job'[p].crowded = job[p].crowded
    BY <1>1, <2>1 DEF JobType, Free
  <2>3. /\ UNCHANGED <<log, aged, ptr, lapsed, forced, crossed, lock, ops, kills, ages>>
        /\ built' = job[p].seen /\ overwritten' = (overwritten \/ job[p].seen < built)
    BY <1>1, <1>11, <1>12 DEF RebuildWrite, Launch, At, store, bounds, history
  <2>4. Proceeds(p)
    BY <1>1, <1>11, <1>12, <2>1, <2>2, <2>3, <1>5, <1>6, <1>7, <1>8, <1>10 DEF Proceeds,
       Shape, Ops, Free, Inv, TypeOK, Launch, Pointers, Pointed, Sessions, RebuildWrite
  <2>5. Rebuilds(p)
    BY <1>1, <1>11, <1>12, <2>1, <2>2, <2>3, <1>5, <1>6, <1>7, <1>8, <1>10, LogBounds
       DEF Rebuilds, Inv, TypeOK
  <2>6. Turns(p)
    BY <1>1, <1>11, <1>12, <2>1, <2>2, <2>3, <1>5, <1>6, <1>7, <1>8, <1>10 DEF Turns,
       Claims, Alone, At, Shape, Pointers, Sessions
  <2>7. TakesUp(p)
    BY <1>1, <1>11, <1>12, <2>1, <2>2, <2>3, <1>5, <1>6, <1>7, <1>8, <1>10 DEF TakesUp,
       Attached, Shape, Ops, Pointers, Pointed, Sessions
  <2>8. KeepsAt(p)
    BY <1>1, <1>11, <1>12, <2>1, <2>2, <2>3, <1>5, <1>6, <1>7, <1>8, <1>10 DEF KeepsAt,
       Reaped, Picked, Shape, Ops, Sessions
  <2> QED BY <2>3, <2>4, <2>5, <2>6, <2>7, <2>8 DEF Moves
<1>13. CASE job[p].op = "reap"
  <2>1. /\ job' \in [Procs -> JobType] /\ \A q \in Procs \ {p} : job'[q] = job[q]
        /\ job'[p] = [job[p] EXCEPT !.at = "unlink"]
        /\ job[p].at = "write"
    BY <1>1, <1>11, <1>13, <1>2 DEF Goto, Done, Launch, At, JobType, Points, Ops,
       Pointers, Pointed, Sessions
  <2>2. /\ job'[p].op = job[p].op /\ job'[p].at = "unlink" /\ job'[p].who = job[p].who
        /\ job'[p].s = job[p].s /\ job'[p].todo = job[p].todo /\ job'[p].seen = job[p].seen
        /\ job'[p].task = job[p].task /\ job'[p].crowded = job[p].crowded
    BY <1>1, <2>1 DEF JobType, Free
  <2>3. /\ UNCHANGED <<log, aged, ptr, lapsed, forced, crossed, lock, ops, kills, ages>>
        /\ built' = job[p].seen /\ overwritten' = (overwritten \/ job[p].seen < built)
    BY <1>1, <1>11, <1>13 DEF RebuildWrite, Launch, At, store, bounds, history
  <2>4. Proceeds(p)
    BY <1>1, <1>11, <1>13, <2>1, <2>2, <2>3, <1>5, <1>6, <1>7, <1>8, <1>10 DEF Proceeds,
       Shape, Ops, Free, Inv, TypeOK, Launch, Pointers, Pointed, Sessions, RebuildWrite
  <2>5. Rebuilds(p)
    BY <1>1, <1>11, <1>13, <2>1, <2>2, <2>3, <1>5, <1>6, <1>7, <1>8, <1>10, LogBounds
       DEF Rebuilds, Inv, TypeOK
  <2>6. Turns(p)
    BY <1>1, <1>11, <1>13, <2>1, <2>2, <2>3, <1>5, <1>6, <1>7, <1>8, <1>10 DEF Turns,
       Claims, Alone, At, Shape, Pointers, Sessions
  <2>7. TakesUp(p)
    BY <1>1, <1>11, <1>13, <2>1, <2>2, <2>3, <1>5, <1>6, <1>7, <1>8, <1>10 DEF TakesUp,
       Attached, Shape, Ops, Pointers, Pointed, Sessions
  <2>8. KeepsAt(p)
    BY <1>1, <1>11, <1>13, <2>1, <2>2, <2>3, <1>5, <1>6, <1>7, <1>8, <1>10 DEF KeepsAt,
       Reaped, Picked, Shape, Ops, Sessions
  <2> QED BY <2>3, <2>4, <2>5, <2>6, <2>7, <2>8 DEF Moves
<1>14. CASE job[p].op \notin {"start", "reap"}
  <2>1. /\ job' \in [Procs -> JobType] /\ \A q \in Procs \ {p} : job'[q] = job[q]
        /\ job'[p] = Free
        /\ job[p].at = "write"
    BY <1>1, <1>11, <1>14, <1>2 DEF Goto, Done, Launch, At, JobType, Points, Ops,
       Pointers, Pointed, Sessions
  <2>2. /\ job'[p].op = "free" /\ job'[p].at = "free" /\ job'[p].who = NoAgent
        /\ job'[p].s = 0 /\ job'[p].todo = {} /\ job'[p].seen = 0
        /\ job'[p].task = NoTask /\ job'[p].crowded = FALSE
    BY <1>1, <2>1 DEF JobType, Free
  <2>3. /\ UNCHANGED <<log, aged, ptr, lapsed, forced, crossed, lock, ops, kills, ages>>
        /\ built' = job[p].seen /\ overwritten' = (overwritten \/ job[p].seen < built)
    BY <1>1, <1>11, <1>14 DEF RebuildWrite, Launch, At, store, bounds, history
  <2>4. Proceeds(p)
    BY <1>1, <1>11, <1>14, <2>1, <2>2, <2>3, <1>5, <1>6, <1>7, <1>8, <1>10 DEF Proceeds,
       Shape, Ops, Free, Inv, TypeOK, Launch, Pointers, Pointed, Sessions, RebuildWrite
  <2>5. Rebuilds(p)
    BY <1>1, <1>11, <1>14, <2>1, <2>2, <2>3, <1>5, <1>6, <1>7, <1>8, <1>10, LogBounds
       DEF Rebuilds, Inv, TypeOK
  <2>6. Turns(p)
    BY <1>1, <1>11, <1>14, <2>1, <2>2, <2>3, <1>5, <1>6, <1>7, <1>8, <1>10 DEF Turns,
       Claims, Alone, At, Shape, Pointers, Sessions
  <2>7. TakesUp(p)
    BY <1>1, <1>11, <1>14, <2>1, <2>2, <2>3, <1>5, <1>6, <1>7, <1>8, <1>10 DEF TakesUp,
       Attached, Shape, Ops, Pointers, Pointed, Sessions
  <2>8. KeepsAt(p)
    BY <1>1, <1>11, <1>14, <2>1, <2>2, <2>3, <1>5, <1>6, <1>7, <1>8, <1>10 DEF KeepsAt,
       Reaped, Picked, Shape, Ops, Sessions
  <2> QED BY <2>3, <2>4, <2>5, <2>6, <2>7, <2>8 DEF Moves
<1> QED BY <1>12, <1>13, <1>14

-----------------------------------------------------------------------------
(* Steps that append an event of a session the process has at hand *)

\* p notes an event of its session, and goes on to the rebuild.
Notes(p, kind) ==
  /\ AppendEvent(kind, job[p].s, NoTask) /\ Goto(p, "read")
  /\ UNCHANGED <<lock, bounds, forced, overwritten, crossed>>
  /\ \/ kind = "resumed" /\ job[p].op = "resume" /\ job[p].at = "resumed" /\ lapsed' = lapsed
     \/ kind = "paused" /\ job[p].op = "pause" /\ job[p].at = "paused" /\ lapsed' = lapsed
     \/ kind = "heartbeat" /\ job[p].op = "beat" /\ job[p].at = "beat" /\ lapsed' = lapsed
     \/ /\ kind = "abandoned" /\ job[p].op = "reap" /\ job[p].at = "abandon"
        /\ lapsed' = lapsed \cup {job[p].s}

LEMMA NotesFacts ==
  ASSUME Inv, NEW p \in Procs, NEW kind, Notes(p, kind)
  PROVE  /\ job' \in [Procs -> JobType] /\ \A q \in Procs \ {p} : job'[q] = job[q]
         /\ job'[p].op = job[p].op /\ job'[p].at = "read" /\ job'[p].who = job[p].who
         /\ job'[p].s = job[p].s /\ job'[p].todo = job[p].todo
         /\ job'[p].task = job[p].task /\ job'[p].crowded = job[p].crowded
         /\ Shape(job'[p])
         /\ job[p].op \notin {"free", "start"} /\ job[p].at \notin {"read", "write", "unlink"}
         /\ job[p].s \in Begun /\ job[p].s \in Sessions
         /\ kind \in {"resumed", "paused", "heartbeat", "abandoned"}
         /\ lapsed \subseteq lapsed' /\ forced' = forced /\ aged' = aged /\ ptr' = ptr
         /\ crossed' = crossed /\ overwritten' = overwritten /\ lock' = lock
<1>1. job[p] \in JobType /\ Shape(job[p]) /\ job \in [Procs -> JobType]
  BY JobNow
<1>2. /\ job' \in [Procs -> JobType] /\ \A q \in Procs \ {p} : job'[q] = job[q]
      /\ job'[p] = [job[p] EXCEPT !.at = "read"]
  BY <1>1 DEF Notes, Goto, JobType, Points
<1>3. /\ job'[p].op = job[p].op /\ job'[p].at = "read" /\ job'[p].who = job[p].who
      /\ job'[p].s = job[p].s /\ job'[p].todo = job[p].todo
      /\ job'[p].task = job[p].task /\ job'[p].crowded = job[p].crowded
  BY <1>1, <1>2 DEF JobType
<1>4. /\ job[p].op \notin {"free", "start"} /\ job[p].at \notin {"read", "write", "unlink"}
      /\ job[p].s # 0
  <2>1. 0 \notin Begun /\ job[p].todo \subseteq Begun
    BY SessionsAssumption DEF Begun, Sessions, Inv, Jobs
  <2> QED BY <1>1, <2>1 DEF Notes, Shape
<1>5. Shape(job'[p])
  BY <1>1, <1>3, <1>4 DEF Notes, Shape
<1>6. job[p].s \in Begun /\ job[p].s \in Sessions
  BY <1>4 DEF Inv, Jobs, Begun
<1> QED BY <1>2, <1>3, <1>4, <1>5, <1>6 DEF Notes, AppendEvent

LEMMA NotesLog ==
  ASSUME Inv, NEW p \in Procs, NEW kind, Notes(p, kind)
  PROVE  /\ log' \in Seq(Event) /\ Len(log') = Len(log) + 1
         /\ \A i \in 1 .. Len(log) : log'[i] = log[i]
         /\ log'[Len(log) + 1] = [kind |-> kind, s |-> job[p].s, task |-> NoTask]
         /\ Shown' = Shown /\ Begun' = Begun /\ Gift' = Gift
         /\ kind = "heartbeat" => Live' = Live /\ Gone' = Gone
         /\ kind \in {"resumed", "paused"} =>
              Live' = Live \cup {job[p].s} /\ Gone' = Gone \ {job[p].s}
         /\ kind = "abandoned" =>
              Live' = Live \ {job[p].s} /\ Gone' = Gone \cup {job[p].s}
<1>1. job[p].s \in Sessions /\ kind \in {"resumed", "paused", "heartbeat", "abandoned"}
  BY NotesFacts
<1>2. kind \in Kinds /\ TypeOK /\ AppendEvent(kind, job[p].s, NoTask)
  BY <1>1 DEF Kinds, Inv, Notes
<1> QED BY <1>1, <1>2, Appended

LEMMA NotesTypes ==
  ASSUME Inv, NEW p \in Procs, NEW kind, Notes(p, kind)
  PROVE  TypeOK' /\ Jobs' /\ Locked' /\ Owned'
<1>1. /\ job' \in [Procs -> JobType] /\ \A q \in Procs \ {p} : job'[q] = job[q]
      /\ job'[p].op = job[p].op /\ job'[p].at = "read" /\ job'[p].who = job[p].who
      /\ job'[p].s = job[p].s /\ job'[p].todo = job[p].todo
      /\ Shape(job'[p]) /\ job[p].op \notin {"free", "start"}
      /\ job[p].s \in Sessions /\ aged' = aged /\ ptr' = ptr
      /\ crossed' = crossed /\ overwritten' = overwritten /\ lock' = lock
  BY NotesFacts
<1>2. log' \in Seq(Event) /\ Len(log') = Len(log) + 1 /\ Begun' = Begun
  BY NotesLog
<1>3. Len(log) \in Nat /\ built \in Nat /\ built <= Len(log) /\ built' = built
  BY LogBounds DEF Inv, Notes, AppendEvent
<1>4. built' \in 0 .. Len(log')
  BY <1>2, <1>3
<1>5. lapsed' \subseteq Sessions
  BY <1>1 DEF Notes, Inv, TypeOK
<1>6. TypeOK'
  BY <1>1, <1>2, <1>4, <1>5 DEF Inv, TypeOK, Notes, bounds
<1>7. Jobs'
  <2>1. \A q \in Procs : job[q].at = "write" => job[q].seen \in Nat /\ job[q].seen <= Len(log)
    BY DEF Inv, Jobs, TypeOK, JobType
  <2>2. \A q \in Procs : Shape(job'[q])
    BY <1>1 DEF Inv, Jobs
  <2>3. \A q \in Procs : job'[q].at = "write" => job'[q].seen <= Len(log')
    BY <1>1, <1>2, <1>3, <2>1
  <2>4. \A q \in Procs : (job'[q].s # 0 => job'[q].s \in Begun) /\ job'[q].todo \subseteq Begun
    BY <1>1 DEF Inv, Jobs
  <2> QED BY <1>2, <2>2, <2>3, <2>4 DEF Jobs, Shape
<1>8. Locked'
  <2>1. ~ Claims(p) /\ ~ Claims(p)'
    <3>1. Shape(job[p])
      BY DEF Inv, Jobs
    <3> QED BY <1>1, <3>1 DEF Claims, At, Notes
  <2>2. \A q \in Procs \ {p} : Claims(q)' <=> Claims(q)
    BY <1>1 DEF Claims, At
  <2>3. \A q \in Procs : Claims(q) <=> lock = q
    BY DEF Inv, Locked
  <2> QED BY <1>1, <2>1, <2>2, <2>3 DEF Locked
<1>9. Owned'
  <2>1. \A q \in Procs : /\ job'[q].op = job[q].op /\ job'[q].s = job[q].s
                         /\ job'[q].who = job[q].who
    BY <1>1
  <2> QED BY <1>1, <2>1 DEF Inv, Owned
<1> QED BY <1>6, <1>7, <1>8, <1>9

LEMMA NotesLogInv ==
  ASSUME Inv, NEW p \in Procs, NEW kind, Notes(p, kind)
  PROVE  LogInv'
<1>1. /\ job[p].s \in Begun /\ lapsed \subseteq lapsed' /\ aged' = aged /\ ptr' = ptr
      /\ kind # "started" /\ (kind = "abandoned" => job[p].s \in lapsed')
  BY NotesFacts DEF Notes
<1>2. /\ Len(log') = Len(log) + 1 /\ Begun' = Begun
      /\ \A i \in 1 .. Len(log) : log'[i] = log[i]
      /\ log'[Len(log) + 1] = [kind |-> kind, s |-> job[p].s, task |-> NoTask]
  BY NotesLog
<1>3. Len(log) \in Nat
  BY LogBounds DEF Inv
<1>4. /\ \A i \in 1 .. Len(log) : log[i].s \in Begun
      /\ \A i, j \in 1 .. Len(log) :
           log[i].kind = "started" /\ log[j].kind = "started" /\ log[i].s = log[j].s => i = j
      /\ \A i \in 1 .. Len(log) : log[i].kind = "abandoned" => log[i].s \in lapsed
      /\ \A s \in Sessions : aged[s] # 0 => s \in lapsed
      /\ \A s \in Sessions : ptr[s] # NoAgent => s \in Begun
  BY DEF Inv, LogInv
<1>5. \A i \in 1 .. Len(log') : i \in 1 .. Len(log) \/ i = Len(log) + 1
  BY <1>2, <1>3
<1>6. \A i \in 1 .. Len(log') : log'[i].s \in Begun'
  BY <1>1, <1>2, <1>4, <1>5
<1>7. \A i, j \in 1 .. Len(log') :
        log'[i].kind = "started" /\ log'[j].kind = "started" /\ log'[i].s = log'[j].s => i = j
  BY <1>1, <1>2, <1>4, <1>5
<1>8. \A i \in 1 .. Len(log') : log'[i].kind = "abandoned" => log'[i].s \in lapsed'
  BY <1>1, <1>2, <1>4, <1>5
<1> HIDE DEF Begun
<1> QED BY <1>1, <1>2, <1>4, <1>6, <1>7, <1>8 DEF LogInv

LEMMA NotesNewborn ==
  ASSUME Inv, NEW p \in Procs, NEW kind, Notes(p, kind)
  PROVE  Newborn'
<1>1. /\ \A q \in Procs \ {p} : job'[q] = job[q]
      /\ job'[p].op = job[p].op /\ job[p].op # "start"
      /\ job'[p].s = job[p].s /\ job'[p].todo = job[p].todo
      /\ ptr' = ptr /\ forced' = forced
      /\ kind \in {"resumed", "paused", "heartbeat", "abandoned"}
  BY NotesFacts
<1>2. Gift' = Gift /\ Live \subseteq Live' \cup {job[p].s}
  BY <1>1, NotesLog
<1>3. \A q \in Procs : job[q].op = "start" /\ job[q].s # 0 =>
        /\ ptr[job[q].s] = NoAgent
        /\ \A r \in Procs \ {q} : job[r].s # job[q].s
        /\ \A r \in Procs : job[q].s \notin job[r].todo
        /\ job[q].s \in Live
        /\ Gift[job[q].s] = job[q].task
        /\ job[q].crowded => job[q].s \in forced
  BY DEF Inv, Newborn
<1> SUFFICES ASSUME NEW q \in Procs, job'[q].op = "start", job'[q].s # 0
             PROVE  /\ ptr'[job'[q].s] = NoAgent
                    /\ \A r \in Procs \ {q} : job'[r].s # job'[q].s
                    /\ \A r \in Procs : job'[q].s \notin job'[r].todo
                    /\ job'[q].s \in Live' /\ Gift'[job'[q].s] = job'[q].task
                    /\ job'[q].crowded => job'[q].s \in forced'
  BY DEF Newborn
<1>4. q # p /\ job'[q] = job[q] /\ job[p].s # job[q].s
  BY <1>1, <1>3
<1>5. job[q].s \in Live'
  BY <1>2, <1>3, <1>4
<1> QED BY <1>1, <1>2, <1>3, <1>4, <1>5

LEMMA NotesUncrossed ==
  ASSUME Inv, NEW p \in Procs, NEW kind, Notes(p, kind)
  PROVE  Uncrossed'
<1>1. /\ \A q \in Procs \ {p} : job'[q] = job[q]
      /\ job'[p].op = job[p].op /\ job'[p].at = "read" /\ job'[p].s = job[p].s
      /\ job'[p].todo = job[p].todo
      /\ job[p].op # "start" /\ job[p].s \in Sessions
      /\ ptr' = ptr /\ crossed' = crossed
  BY NotesFacts
<1> SUFFICES ASSUME ~ crossed'
             PROVE  /\ \A q, r \in Procs : \A s \in job'[r].todo : ~ Attached(q, s)'
                    /\ \A q \in Procs, s \in Sessions : Attached(q, s)' => ptr'[s] # NoAgent
                    /\ \A r, s \in Sessions : ptr'[r] # NoAgent /\ ptr'[r] = ptr'[s] => r = s
                    /\ \A q \in Procs : Alone(q)' => \A s \in Sessions : ptr'[s] # job'[q].who
                    /\ \A q \in Procs, s \in Sessions : Reaped(q, s)' => s \in Gone'
  BY DEF Uncrossed
<1>2. /\ \A q, r \in Procs : \A s \in job[r].todo : ~ Attached(q, s)
      /\ \A q \in Procs, s \in Sessions : Attached(q, s) => ptr[s] # NoAgent
      /\ \A r, s \in Sessions : ptr[r] # NoAgent /\ ptr[r] = ptr[s] => r = s
      /\ \A q \in Procs : Alone(q) => \A s \in Sessions : ptr[s] # job[q].who
      /\ \A q \in Procs, s \in Sessions : Reaped(q, s) => s \in Gone
  BY <1>1 DEF Inv, Uncrossed
<1>3. \A q \in Procs \ {p}, s \in Sessions :
        /\ Attached(q, s)' <=> Attached(q, s)
        /\ Reaped(q, s)' <=> Reaped(q, s)
        /\ Alone(q)' <=> Alone(q)
  BY <1>1 DEF Attached, Reaped, Alone, Claims, At
<1>4. \A q, r \in Procs : \A s \in job'[r].todo : ~ Attached(q, s)'
  <2>1. \A s : ~ Attached(p, s)'
    BY <1>1 DEF Attached
  <2>2. \A q \in Procs \ {p} : \A s : Attached(q, s)' <=> Attached(q, s)
    BY <1>1 DEF Attached
  <2>3. \A r \in Procs : job'[r].todo = job[r].todo
    BY <1>1
  <2> QED BY <1>2, <2>1, <2>2, <2>3
<1>5. \A q \in Procs, s \in Sessions : Attached(q, s)' => ptr'[s] # NoAgent
  <2>1. \A s : ~ Attached(p, s)'
    BY <1>1 DEF Attached
  <2> QED BY <1>1, <1>2, <1>3, <2>1
<1>6. \A q \in Procs : Alone(q)' => \A s \in Sessions : ptr'[s] # job'[q].who
  <2>1. ~ Alone(p)'
    BY <1>1 DEF Alone, Claims, At
  <2>2. \A q \in Procs \ {p} : Alone(q)' <=> Alone(q)
    BY <1>1 DEF Alone, Claims, At
  <2> QED BY <1>1, <1>2, <2>1, <2>2
<1>7. ASSUME NEW q \in Procs, NEW s \in Sessions, Reaped(q, s)'
      PROVE  s \in Gone'
  <2>1. CASE q # p
    <3>1. Reaped(q, s) /\ s \in Gone
      BY <1>2, <1>3, <1>7, <2>1
    <3>2. s \in job[q].todo
      <4>1. Shape(job[q])
        BY DEF Inv, Jobs
      <4> QED BY <3>1, <4>1 DEF Reaped, Shape
    <3>3. kind \in {"resumed", "paused"} => job[p].s # s
      BY <1>2, <3>2 DEF Notes, Attached
    <3>4. kind \in {"resumed", "paused", "heartbeat", "abandoned"}
      BY NotesFacts
    <3> QED BY <3>1, <3>3, <3>4, NotesLog
  <2>2. CASE q = p
    <3>1. job[p].op = "reap" /\ job[p].s = s
      BY <1>1, <1>7, <2>2 DEF Reaped
    <3>2. kind = "abandoned"
      BY <3>1 DEF Notes
    <3> QED BY <3>1, <3>2, NotesLog
  <2> QED BY <2>1, <2>2
<1> QED BY <1>1, <1>2, <1>4, <1>5, <1>6, <1>7

LEMMA NotesClaimed ==
  ASSUME Inv, NEW p \in Procs, NEW kind, Notes(p, kind)
  PROVE  Claimed'
<1>1. /\ \A q \in Procs \ {p} : job'[q] = job[q]
      /\ job'[p].op = job[p].op /\ job'[p].s = job[p].s /\ job[p].op # "start"
      /\ ptr' = ptr /\ overwritten' = overwritten
      /\ lapsed \subseteq lapsed' /\ forced' = forced
  BY NotesFacts
<1>2. /\ Shown' = Shown /\ Gift' = Gift
      /\ \A i \in 1 .. Len(log) : log'[i] = log[i]
  BY NotesLog
<1> SUFFICES ASSUME ~ overwritten'
             PROVE  /\ Known' \subseteq Shown'
                    /\ \A q \in Procs : job'[q].op = "start" =>
                         /\ job'[q].at = "write" =>
                              \E i \in 1 .. job'[q].seen : StartOf(job[q].s, i)'
                         /\ job'[q].at = "point" => job'[q].s \in Shown'
                    /\ \A q \in Procs : Picked(q)' /\ ~ job'[q].crowded =>
                         \A r \in Known' \ lapsed' : Gift'[r] # job'[q].task
                    /\ \A r, s \in Known' \ (forced' \cup lapsed') : r # s => Gift'[r] # Gift'[s]
  BY DEF Claimed
<1>3. /\ Known \subseteq Shown
      /\ \A q \in Procs : job[q].op = "start" =>
           /\ job[q].at = "write" => \E i \in 1 .. job[q].seen : StartOf(job[q].s, i)
           /\ job[q].at = "point" => job[q].s \in Shown
      /\ \A q \in Procs : Picked(q) /\ ~ job[q].crowded =>
           \A r \in Known \ lapsed : Gift[r] # job[q].task
      /\ \A r, s \in Known \ (forced \cup lapsed) : r # s => Gift[r] # Gift[s]
  BY <1>1 DEF Inv, Claimed
<1>4. Known' = Known
  BY <1>1 DEF Known
<1>5. ASSUME NEW q \in Procs, job'[q].op = "start", job'[q].at = "write"
      PROVE  \E i \in 1 .. job'[q].seen : StartOf(job[q].s, i)'
  <2>1. q # p /\ job'[q] = job[q]
    BY <1>1, <1>5
  <2>2. PICK i \in 1 .. job[q].seen : StartOf(job[q].s, i)
    BY <1>3, <1>5, <2>1
  <2>3. job[q].seen \in Nat /\ job[q].seen <= Len(log) /\ Len(log) \in Nat
    BY <1>5, <2>1, LogBounds DEF Inv, Jobs, TypeOK, JobType
  <2>4. log'[i] = log[i]
    BY <1>2, <2>3
  <2> QED BY <2>1, <2>2, <2>4 DEF StartOf
<1>6. ASSUME NEW q \in Procs, Picked(q)', ~ job'[q].crowded, NEW r \in Known \ lapsed
      PROVE  Gift[r] # job'[q].task
  <2>1. q # p /\ job'[q] = job[q]
    BY <1>1, <1>6 DEF Picked
  <2>2. Picked(q)
    BY <1>6, <2>1 DEF Picked
  <2> QED BY <1>3, <1>6, <2>1, <2>2
<1>7. \A q \in Procs : job'[q].op = "start" /\ job'[q].at = "point" => job'[q].s \in Shown
  BY <1>1, <1>3
<1> QED BY <1>1, <1>2, <1>3, <1>4, <1>5, <1>6, <1>7

LEMMA NotesMatched ==
  ASSUME Inv, NEW p \in Procs, NEW kind, Notes(p, kind)
  PROVE  Matched'
<1>1. /\ \A q \in Procs \ {p} : job'[q] = job[q]
      /\ job'[p].op = job[p].op /\ job'[p].at = "read" /\ job'[p].s = job[p].s
      /\ job[p].op # "start" /\ job[p].at \notin {"read", "write", "unlink"}
      /\ ptr' = ptr /\ crossed' = crossed
      /\ kind \in {"resumed", "paused", "heartbeat", "abandoned"}
  BY NotesFacts
<1> SUFFICES ASSUME ~ crossed', kills' = 0, NEW s \in Sessions
             PROVE  /\ s \in Live' /\ ptr'[s] = NoAgent
                       => \E q \in Procs : job'[q].op = "start" /\ job'[q].s = s
                    /\ s \in Gone' /\ ptr'[s] # NoAgent => \E q \in Procs : Reaped(q, s)'
  BY DEF Matched
<1>2. ~ crossed /\ kills = 0
  BY <1>1 DEF Notes, bounds
<1>3. /\ s \in Live /\ ptr[s] = NoAgent => \E q \in Procs : job[q].op = "start" /\ job[q].s = s
      /\ s \in Gone /\ ptr[s] # NoAgent => \E q \in Procs : Reaped(q, s)
  BY <1>2 DEF Inv, Matched
<1>4. ASSUME s \in Live', ptr'[s] = NoAgent
      PROVE  \E q \in Procs : job'[q].op = "start" /\ job'[q].s = s
  <2>1. s \in Live
    <3>1. kind \in {"resumed", "paused"} => s # job[p].s
      <4>1. \A q \in Procs, r \in Sessions : Attached(q, r) => ptr[r] # NoAgent
        BY <1>2 DEF Inv, Uncrossed
      <4> QED BY <1>1, <1>4, <4>1 DEF Notes, Attached
    <3> QED BY <1>1, <1>4, <3>1, NotesLog
  <2>2. PICK q \in Procs : job[q].op = "start" /\ job[q].s = s
    BY <1>1, <1>3, <1>4, <2>1
  <2> QED BY <1>1, <2>2
<1>5. ASSUME s \in Gone', ptr'[s] # NoAgent
      PROVE  \E q \in Procs : Reaped(q, s)'
  <2>1. CASE kind = "abandoned" /\ s = job[p].s
    BY <1>1, <2>1 DEF Notes, Reaped
  <2>2. CASE ~ (kind = "abandoned" /\ s = job[p].s)
    <3>1. s \in Gone
      BY <1>1, <1>5, <2>2, NotesLog
    <3>2. PICK q \in Procs : Reaped(q, s)
      BY <1>1, <1>3, <1>5, <3>1
    <3>3. q # p
      BY <1>1, <3>2 DEF Reaped
    <3>4. Reaped(q, s)'
      BY <1>1, <3>2, <3>3 DEF Reaped
    <3> QED BY <3>4
  <2> QED BY <2>1, <2>2
<1> QED BY <1>4, <1>5

LEMMA NotesInv ==
  ASSUME Inv, NEW p \in Procs, NEW kind, Notes(p, kind)
  PROVE  Inv'
BY NotesTypes, NotesLogInv, NotesNewborn, NotesUncrossed, NotesClaimed, NotesMatched DEF Inv

LEMMA ResumedNotes ==
  ASSUME Inv, NEW p \in Procs, Resumed(p)
  PROVE  Notes(p, "resumed")
<1>1. job[p].at = "resumed" /\ Shape(job[p]) /\ job[p].op \in Ops
  BY JobNow DEF Resumed, At, JobType
<1>2. job[p].op = "resume"
  BY <1>1 DEF Shape, Free, Ops
<1> QED BY <1>1, <1>2 DEF Notes, Resumed, history

LEMMA PausedNotes ==
  ASSUME Inv, NEW p \in Procs, Paused(p)
  PROVE  Notes(p, "paused")
<1>1. job[p].at = "paused" /\ Shape(job[p]) /\ job[p].op \in Ops
  BY JobNow DEF Paused, At, JobType
<1>2. job[p].op = "pause"
  BY <1>1 DEF Shape, Free, Ops
<1> QED BY <1>1, <1>2 DEF Notes, Paused, history

LEMMA BeatNotes ==
  ASSUME Inv, NEW p \in Procs, Beat(p)
  PROVE  Notes(p, "heartbeat")
<1>1. job[p].at = "beat" /\ Shape(job[p]) /\ job[p].op \in Ops
  BY JobNow DEF Beat, At, JobType
<1>2. job[p].op = "beat"
  BY <1>1 DEF Shape, Free, Ops
<1> QED BY <1>1, <1>2 DEF Notes, Beat, history

LEMMA AbandonNotes ==
  ASSUME Inv, NEW p \in Procs, Abandon(p)
  PROVE  Notes(p, "abandoned")
<1>1. job[p].at = "abandon" /\ Shape(job[p]) /\ job[p].op \in Ops
  BY JobNow DEF Abandon, At, JobType
<1>2. job[p].op = "reap"
  BY <1>1 DEF Shape, Free, Ops
<1> QED BY <1>1, <1>2 DEF Notes, Abandon

-----------------------------------------------------------------------------
(* A session is started: it is new to everyone. *)

LEMMA StartFacts ==
  ASSUME Inv, NEW p \in Procs, Start(p)
  PROVE  \E s \in Sessions :
           /\ s \notin Begun /\ AppendEvent("started", s, job[p].task)
           /\ \A i \in 1 .. Len(log) : log[i].s # s
           /\ job' \in [Procs -> JobType] /\ \A q \in Procs \ {p} : job'[q] = job[q]
           /\ job'[p].op = "start" /\ job'[p].at = "read" /\ job'[p].who = job[p].who
           /\ job'[p].s = s /\ job'[p].todo = {} /\ job[p].todo = {}
           /\ job'[p].task = job[p].task /\ job'[p].crowded = job[p].crowded
           /\ job[p].op = "start" /\ job[p].at = "start" /\ job[p].s = 0 /\ job[p].who # NoAgent
           /\ forced' = IF job[p].crowded THEN forced \cup {s} ELSE forced
           /\ UNCHANGED <<lock, bounds, lapsed, overwritten, crossed, built, aged, ptr>>
<1>1. /\ job[p] \in JobType /\ Shape(job[p]) /\ job \in [Procs -> JobType]
      /\ job[p].op \in Ops /\ MaxSessions \in Nat
  BY JobNow DEF JobType
<1>2. PICK s \in Sessions :
        /\ Minted = 1 .. s - 1
        /\ AppendEvent("started", s, job[p].task)
        /\ job' = [job EXCEPT ![p].s = s, ![p].at = "read"]
        /\ forced' = IF job[p].crowded THEN forced \cup {s} ELSE forced
  BY DEF Start
<1>3. s \notin Minted
  BY <1>1, <1>2 DEF Sessions
<1>4. \A i \in 1 .. Len(log) : log[i].s # s
  BY <1>2, <1>3 DEF Minted, About
<1>5. s \notin Begun
  BY <1>4 DEF Begun, StartOf
<1>6. job[p].at = "start"
  BY DEF Start, At
<1>7. job[p].op = "start" /\ job[p].s = 0 /\ job[p].todo = {} /\ job[p].who # NoAgent
  BY <1>1, <1>6 DEF Shape, Free, Ops
<1>8. s \in 0 .. MaxSessions
  BY <1>1 DEF Sessions
<1>9. /\ job' \in [Procs -> JobType] /\ \A q \in Procs \ {p} : job'[q] = job[q]
      /\ job'[p] = [job[p] EXCEPT !.s = s, !.at = "read"]
  BY <1>1, <1>2, <1>8 DEF JobType, Points
<1>10. /\ job'[p].op = job[p].op /\ job'[p].at = "read" /\ job'[p].who = job[p].who
       /\ job'[p].s = s /\ job'[p].todo = job[p].todo
       /\ job'[p].task = job[p].task /\ job'[p].crowded = job[p].crowded
  BY <1>1, <1>9 DEF JobType
<1>11. UNCHANGED <<lock, bounds, lapsed, overwritten, crossed, built, aged, ptr>>
  BY <1>2 DEF Start, AppendEvent
<1> QED BY <1>2, <1>4, <1>5, <1>6, <1>7, <1>9, <1>10, <1>11

LEMMA StartInv ==
  ASSUME Inv, NEW p \in Procs, Start(p)
  PROVE  Inv'
<1>1. PICK s \in Sessions :
        /\ s \notin Begun /\ AppendEvent("started", s, job[p].task)
        /\ \A i \in 1 .. Len(log) : log[i].s # s
        /\ job' \in [Procs -> JobType] /\ \A q \in Procs \ {p} : job'[q] = job[q]
        /\ job'[p].op = "start" /\ job'[p].at = "read" /\ job'[p].who = job[p].who
        /\ job'[p].s = s /\ job'[p].todo = {} /\ job[p].todo = {}
        /\ job'[p].task = job[p].task /\ job'[p].crowded = job[p].crowded
        /\ job[p].op = "start" /\ job[p].at = "start" /\ job[p].s = 0 /\ job[p].who # NoAgent
        /\ forced' = IF job[p].crowded THEN forced \cup {s} ELSE forced
        /\ UNCHANGED <<lock, bounds, lapsed, overwritten, crossed, built, aged, ptr>>
  BY StartFacts
<1>2. job[p].task \in Tasks \cup {NoTask} /\ TypeOK /\ "started" \in Kinds
  BY JobNow DEF JobType, Inv, Kinds
<1>3. /\ log' \in Seq(Event) /\ Len(log') = Len(log) + 1
      /\ \A i \in 1 .. Len(log) : log'[i] = log[i]
      /\ log'[Len(log) + 1] = [kind |-> "started", s |-> s, task |-> job[p].task]
      /\ Shown' = Shown /\ Begun' = Begun \cup {s}
      /\ Gift'[s] = job[p].task /\ \A r \in Sessions : r # s => Gift'[r] = Gift[r]
      /\ Live' = Live \cup {s} /\ Gone' = Gone \ {s}
  BY <1>1, <1>2, Appended
<1>4. Len(log) \in Nat /\ built \in Nat /\ built <= Len(log)
  BY LogBounds DEF Inv
<1>5. s # 0 /\ NoAgent \notin Agents
  BY SessionsAssumption DEF Sessions
<1>6. /\ ptr[s] = NoAgent
      /\ \A q \in Procs : job[q].s # s /\ s \notin job[q].todo
  BY <1>1, <1>5 DEF Inv, LogInv, Jobs
<1>7. forced \subseteq forced' /\ forced' \subseteq Sessions /\ (job[p].crowded => s \in forced')
  BY <1>1 DEF Inv, TypeOK
<1>8. TypeOK'
  <2>1. built' \in 0 .. Len(log')
    BY <1>1, <1>3, <1>4
  <2> QED BY <1>1, <1>3, <1>7, <2>1 DEF Inv, TypeOK, bounds
<1>9. Jobs'
  <2>1. \A q \in Procs : Shape(job'[q])
    <3>1. Shape(job'[p])
      BY <1>1, <1>5 DEF Shape
    <3> QED BY <1>1, <3>1 DEF Inv, Jobs
  <2>2. \A q \in Procs : job[q].at = "write" => job[q].seen \in Nat /\ job[q].seen <= Len(log)
    BY DEF Inv, Jobs, TypeOK, JobType
  <2>3. \A q \in Procs : job'[q].at = "write" => job'[q].seen <= Len(log')
    BY <1>1, <1>3, <1>4, <2>2
  <2>4. \A q \in Procs : (job'[q].s # 0 => job'[q].s \in Begun') /\ job'[q].todo \subseteq Begun'
    <3>1. \A q \in Procs : (job[q].s # 0 => job[q].s \in Begun) /\ job[q].todo \subseteq Begun
      BY DEF Inv, Jobs
    <3> QED BY <1>1, <1>3, <3>1
  <2> QED BY <2>1, <2>3, <2>4 DEF Jobs, Shape
<1>10. \A q \in Procs : Claims(q)' <=> Claims(q)
  BY <1>1 DEF Claims, At
<1>11. Locked'
  BY <1>1, <1>10 DEF Inv, Locked
<1>12. LogInv'
  <2>1. \A i \in 1 .. Len(log') : i \in 1 .. Len(log) \/ i = Len(log) + 1
    BY <1>3, <1>4
  <2>2. /\ \A i \in 1 .. Len(log) : log[i].s \in Begun
        /\ \A i, j \in 1 .. Len(log) :
             log[i].kind = "started" /\ log[j].kind = "started" /\ log[i].s = log[j].s => i = j
        /\ \A i \in 1 .. Len(log) : log[i].kind = "abandoned" => log[i].s \in lapsed
        /\ \A r \in Sessions : aged[r] # 0 => r \in lapsed
        /\ \A r \in Sessions : ptr[r] # NoAgent => r \in Begun
    BY DEF Inv, LogInv
  <2>3. \A i \in 1 .. Len(log') : log'[i].s \in Begun'
    BY <1>3, <2>1, <2>2
  <2>4. \A i, j \in 1 .. Len(log') :
          log'[i].kind = "started" /\ log'[j].kind = "started" /\ log'[i].s = log'[j].s => i = j
    BY <1>1, <1>3, <2>1, <2>2
  <2>5. \A i \in 1 .. Len(log') : log'[i].kind = "abandoned" => log'[i].s \in lapsed'
    BY <1>1, <1>3, <2>1, <2>2
  <2>6. /\ \A r \in Sessions : aged'[r] # 0 => r \in lapsed'
        /\ \A r \in Sessions : ptr'[r] # NoAgent => r \in Begun'
    BY <1>1, <1>3, <2>2
  <2> QED BY <2>3, <2>4, <2>5, <2>6 DEF LogInv
<1>13. Owned'
  <2>1. \A q \in Procs : job'[q].op = "resume" => q # p /\ job'[q] = job[q]
    BY <1>1
  <2> QED BY <1>1, <2>1 DEF Inv, Owned
<1>14. Newborn'
  <2> SUFFICES ASSUME NEW q \in Procs, job'[q].op = "start", job'[q].s # 0
               PROVE  /\ ptr'[job'[q].s] = NoAgent
                      /\ \A r \in Procs \ {q} : job'[r].s # job'[q].s
                      /\ \A r \in Procs : job'[q].s \notin job'[r].todo
                      /\ job'[q].s \in Live' /\ Gift'[job'[q].s] = job'[q].task
                      /\ job'[q].crowded => job'[q].s \in forced'
    BY DEF Newborn
  <2>1. CASE q = p
    BY <1>1, <1>3, <1>6, <1>7, <2>1
  <2>2. CASE q # p
    <3>1. job'[q] = job[q] /\ job[q].s # s /\ job[q].s \in Sessions
      BY <1>1, <1>6, <2>2 DEF Inv, Jobs, Begun
    <3>2. /\ ptr[job[q].s] = NoAgent /\ \A r \in Procs \ {q} : job[r].s # job[q].s
          /\ \A r \in Procs : job[q].s \notin job[r].todo
          /\ job[q].s \in Live /\ Gift[job[q].s] = job[q].task
          /\ job[q].crowded => job[q].s \in forced
      BY <3>1 DEF Inv, Newborn
    <3>3. \A r \in Procs \ {q} : job'[r].s # job'[q].s
      BY <1>1, <3>1, <3>2
    <3>4. \A r \in Procs : job'[q].s \notin job'[r].todo
      BY <1>1, <3>1, <3>2
    <3> QED BY <1>1, <1>3, <1>7, <3>1, <3>2, <3>3, <3>4
  <2> QED BY <2>1, <2>2
<1>15. Uncrossed'
  <2>1. \A q \in Procs : \A r : /\ Attached(q, r)' => Attached(q, r)
                                /\ Reaped(q, r)' => Reaped(q, r)
                                /\ Alone(q)' => Alone(q)
    BY <1>1 DEF Attached, Reaped, Alone, Claims, At
  <2>2. \A q \in Procs : job'[q].todo = job[q].todo /\ job'[q].who = job[q].who
    BY <1>1
  <2>3. \A q \in Procs, r \in Sessions : Reaped(q, r) => r # s
    BY <1>6 DEF Reaped
  <2>4. crossed' = crossed /\ ptr' = ptr /\ Gone' = Gone \ {s}
    BY <1>1, <1>3
  <2> SUFFICES ASSUME ~ crossed'
               PROVE  /\ \A q, r \in Procs : \A t \in job'[r].todo : ~ Attached(q, t)'
                      /\ \A q \in Procs, t \in Sessions : Attached(q, t)' => ptr'[t] # NoAgent
                      /\ \A r, t \in Sessions : ptr'[r] # NoAgent /\ ptr'[r] = ptr'[t] => r = t
                      /\ \A q \in Procs : Alone(q)' => \A t \in Sessions : ptr'[t] # job'[q].who
                      /\ \A q \in Procs, t \in Sessions : Reaped(q, t)' => t \in Gone'
    BY DEF Uncrossed
  <2>5. /\ \A q, r \in Procs : \A t \in job[r].todo : ~ Attached(q, t)
        /\ \A q \in Procs, t \in Sessions : Attached(q, t) => ptr[t] # NoAgent
        /\ \A r, t \in Sessions : ptr[r] # NoAgent /\ ptr[r] = ptr[t] => r = t
        /\ \A q \in Procs : Alone(q) => \A t \in Sessions : ptr[t] # job[q].who
        /\ \A q \in Procs, t \in Sessions : Reaped(q, t) => t \in Gone
    BY <2>4 DEF Inv, Uncrossed
  <2> QED BY <2>1, <2>2, <2>3, <2>4, <2>5
<1>16. Known' = Known /\ s \notin Known
  BY <1>1, <1>6 DEF Known
<1>17. Claimed'
  <2> SUFFICES ASSUME ~ overwritten'
               PROVE  /\ Known' \subseteq Shown'
                      /\ \A q \in Procs : job'[q].op = "start" =>
                           /\ job'[q].at = "write" =>
                                \E i \in 1 .. job'[q].seen : StartOf(job[q].s, i)'
                           /\ job'[q].at = "point" => job'[q].s \in Shown'
                      /\ \A q \in Procs : Picked(q)' /\ ~ job'[q].crowded =>
                           \A r \in Known' \ lapsed' : Gift'[r] # job'[q].task
                      /\ \A r, t \in Known' \ (forced' \cup lapsed') :
                           r # t => Gift'[r] # Gift'[t]
    BY DEF Claimed
  <2>1. /\ Known \subseteq Shown
        /\ \A q \in Procs : job[q].op = "start" =>
             /\ job[q].at = "write" => \E i \in 1 .. job[q].seen : StartOf(job[q].s, i)
             /\ job[q].at = "point" => job[q].s \in Shown
        /\ \A q \in Procs : Picked(q) /\ ~ job[q].crowded =>
             \A r \in Known \ lapsed : Gift[r] # job[q].task
        /\ \A r, t \in Known \ (forced \cup lapsed) : r # t => Gift[r] # Gift[t]
    BY <1>1 DEF Inv, Claimed
  <2>2. \A r \in Known : Gift'[r] = Gift[r]
    <3>1. \A r \in Known : r \in Sessions
      BY DEF Known
    <3> QED BY <1>3, <1>16, <3>1
  <2>3. ASSUME NEW q \in Procs, job'[q].op = "start", job'[q].at = "write"
        PROVE  \E i \in 1 .. job'[q].seen : StartOf(job[q].s, i)'
    <3>1. q # p /\ job'[q] = job[q]
      BY <1>1, <2>3
    <3>2. PICK i \in 1 .. job[q].seen : StartOf(job[q].s, i)
      BY <2>1, <2>3, <3>1
    <3>3. job[q].seen \in Nat /\ job[q].seen <= Len(log)
      BY <2>3, <3>1 DEF Inv, Jobs, TypeOK, JobType
    <3>4. log'[i] = log[i]
      BY <1>3, <1>4, <3>3
    <3> QED BY <3>1, <3>2, <3>4 DEF StartOf
  <2>4. \A q \in Procs : job'[q].op = "start" /\ job'[q].at = "point" => job'[q].s \in Shown
    BY <1>1, <2>1
  <2>5. \A q \in Procs : /\ Picked(q)' => Picked(q)
                         /\ job'[q].crowded = job[q].crowded /\ job'[q].task = job[q].task
    BY <1>1 DEF Picked
  <2>6. \A q \in Procs : Picked(q)' /\ ~ job'[q].crowded =>
          \A r \in Known' \ lapsed' : Gift'[r] # job'[q].task
    BY <1>1, <1>16, <2>1, <2>2, <2>5
  <2>7. \A r, t \in Known' \ (forced' \cup lapsed') : r # t => Gift'[r] # Gift'[t]
    BY <1>1, <1>7, <1>16, <2>1, <2>2
  <2> QED BY <1>3, <1>16, <2>1, <2>3, <2>4, <2>6, <2>7
<1>18. Matched'
  <2> SUFFICES ASSUME ~ crossed', kills' = 0, NEW r \in Sessions
               PROVE  /\ r \in Live' /\ ptr'[r] = NoAgent
                         => \E q \in Procs : job'[q].op = "start" /\ job'[q].s = r
                      /\ r \in Gone' /\ ptr'[r] # NoAgent => \E q \in Procs : Reaped(q, r)'
    BY DEF Matched
  <2>1. r # 0 /\ ~ crossed /\ kills = 0
    BY <1>1, SessionsAssumption DEF Sessions, bounds
  <2>2. /\ r \in Live /\ ptr[r] = NoAgent
             => \E q \in Procs : job[q].op = "start" /\ job[q].s = r
        /\ r \in Gone /\ ptr[r] # NoAgent => \E q \in Procs : Reaped(q, r)
    BY <2>1 DEF Inv, Matched
  <2>3. \A q \in Procs : job[q].op = "start" /\ job[q].s = r =>
                           job'[q].op = "start" /\ job'[q].s = r
    BY <1>1, <2>1
  <2>4. \A q \in Procs : Reaped(q, r) => Reaped(q, r)'
    BY <1>1 DEF Reaped
  <2> QED BY <1>1, <1>3, <2>2, <2>3, <2>4
<1> QED BY <1>8, <1>9, <1>11, <1>12, <1>13, <1>14, <1>15, <1>17, <1>18 DEF Inv

-----------------------------------------------------------------------------
(* The pointers *)

\* What a step that writes the pointer of its own session has in common
LEMMA PointerFacts ==
  ASSUME Inv, NEW p \in Procs, NEW k \in JobType, job' = [job EXCEPT ![p] = k],
         Shape(k), k.at # "write", k.s # 0 => k.s = job[p].s, k.todo \subseteq job[p].todo,
         job[p].s # 0, NEW v \in Agents \cup {NoAgent}, ptr' = [ptr EXCEPT ![job[p].s] = v],
         UNCHANGED <<log, built, aged, bounds, history>>,
         lock' \in Procs \cup {NoProc}
  PROVE  /\ TypeOK' /\ Jobs' /\ LogInv'
         /\ Begun' = Begun /\ Shown' = Shown /\ Gift' = Gift /\ Live' = Live /\ Gone' = Gone
         /\ job' \in [Procs -> JobType] /\ job'[p] = k
         /\ \A q \in Procs \ {p} : job'[q] = job[q]
         /\ job[p].s \in Sessions /\ job[p].s \in Begun
         /\ ptr'[job[p].s] = v /\ \A s \in Sessions \ {job[p].s} : ptr'[s] = ptr[s]
<1>1. /\ job \in [Procs -> JobType] /\ ptr \in [Sessions -> Agents \cup {NoAgent}]
      /\ job[p].s \in Begun /\ job[p].s \in Sessions
  BY DEF Inv, TypeOK, Jobs, Begun
<1>2. /\ job' \in [Procs -> JobType] /\ job'[p] = k
      /\ \A q \in Procs \ {p} : job'[q] = job[q]
  BY <1>1
<1>3. /\ ptr' \in [Sessions -> Agents \cup {NoAgent}]
      /\ ptr'[job[p].s] = v /\ \A s \in Sessions \ {job[p].s} : ptr'[s] = ptr[s]
  BY <1>1
<1>4. Begun' = Begun /\ Shown' = Shown /\ Gift' = Gift /\ Live' = Live /\ Gone' = Gone
  BY SameLog
<1>5. TypeOK'
  BY <1>2, <1>3 DEF Inv, TypeOK, bounds, history
<1>6. Jobs'
  <2>1. \A q \in Procs : Shape(job'[q]) /\ (job'[q].at = "write" => job'[q].seen <= Len(log))
    BY <1>2 DEF Inv, Jobs
  <2>2. \A q \in Procs : (job'[q].s # 0 => job'[q].s \in Begun) /\ job'[q].todo \subseteq Begun
    <3>1. \A q \in Procs : (job[q].s # 0 => job[q].s \in Begun) /\ job[q].todo \subseteq Begun
      BY DEF Inv, Jobs
    <3> QED BY <1>1, <1>2, <3>1
  <2> QED BY <1>4, <2>1, <2>2 DEF Jobs, Shape
<1>7. LogInv'
  <2>1. \A s \in Sessions : ptr'[s] # NoAgent => s \in Begun
    BY <1>1, <1>3 DEF Inv, LogInv
  <2>2. log' = log /\ lapsed' = lapsed /\ aged' = aged /\ Begun' = Begun
    BY <1>4 DEF history
  <2> HIDE DEF Begun
  <2> QED BY <2>1, <2>2 DEF Inv, LogInv
<1> QED BY <1>1, <1>2, <1>3, <1>4, <1>5, <1>6, <1>7

\* The pointer of a session that was started
LEMMA PointInv ==
  ASSUME Inv, NEW p \in Procs, Point(p)
  PROVE  Inv'
<1> DEFINE s == job[p].s
           a == job[p].who
<1>1. /\ job[p] \in JobType /\ Shape(job[p]) /\ (Claims(p) <=> lock = p)
      /\ job[p].at = "point" /\ job[p].op \in Ops
      /\ Free \in JobType /\ NoProc \notin Procs /\ NoAgent \notin Agents
  BY JobNow DEF Point, At, JobType
<1>2. job[p].op = "start" /\ s # 0 /\ a # NoAgent /\ job[p].todo = {}
  BY <1>1 DEF Shape, Free, Ops
<1>3. a \in Agents \cup {NoAgent} /\ a # NoAgent
  BY <1>1, <1>2 DEF JobType
<1>4. /\ job' = [job EXCEPT ![p] = Free] /\ ptr' = [ptr EXCEPT ![s] = a]
      /\ UNCHANGED <<log, built, aged, bounds, history>> /\ lock' = NoProc
  BY DEF Point, Done
<1>5. Free.s = 0 /\ Free.todo = {} /\ Free.op = "free" /\ Free.at = "free"
  BY DEF Free
<1>6. Shape(Free)
  BY <1>5 DEF Shape
<1>7. /\ TypeOK' /\ Jobs' /\ LogInv'
      /\ Begun' = Begun /\ Shown' = Shown /\ Gift' = Gift /\ Live' = Live /\ Gone' = Gone
      /\ job' \in [Procs -> JobType] /\ job'[p] = Free
      /\ \A q \in Procs \ {p} : job'[q] = job[q]
      /\ s \in Sessions /\ s \in Begun
      /\ ptr'[s] = a /\ \A r \in Sessions \ {s} : ptr'[r] = ptr[r]
  <2>1. Free.at # "write" /\ (Free.s # 0 => Free.s = s) /\ Free.todo \subseteq job[p].todo
    BY <1>5
  <2>2. lock' \in Procs \cup {NoProc}
    BY <1>4
  <2> QED BY <1>1, <1>2, <1>3, <1>4, <1>6, <2>1, <2>2, PointerFacts
<1>8. /\ ptr[s] = NoAgent /\ \A q \in Procs \ {p} : job[q].s # s
      /\ \A q \in Procs : s \notin job[q].todo
      /\ s \in Live /\ Gift[s] = job[p].task /\ (job[p].crowded => s \in forced)
  BY <1>2 DEF Inv, Newborn
<1> HIDE DEF s, a
<1>9. Claims(p) /\ lock = p
  BY <1>1 DEF Claims, At
<1>10. \A q \in Procs \ {p} : ~ Claims(q) /\ ~ Claims(q)' /\ job[q].op # "start"
  <2>1. \A q \in Procs \ {p} : ~ Claims(q) /\ Shape(job[q])
    BY <1>9 DEF Inv, Locked, Jobs
  <2> QED BY <1>7, <2>1 DEF Claims, At, Shape
<1>11. ~ Claims(p)'
  BY <1>5, <1>7 DEF Claims, At
<1>12. Locked'
  BY <1>1, <1>4, <1>10, <1>11 DEF Locked
<1>13. Owned'
  <2>1. \A q \in Procs : job'[q].op = "resume" => q # p /\ job'[q] = job[q]
    BY <1>5, <1>7
  <2>2. \A q \in Procs : job'[q].op = "resume" /\ job'[q].s # 0 => job'[q].s \in Sessions \ {s}
    BY <1>8, <2>1 DEF Inv, Jobs, Begun
  <2>3. \A q \in Procs : job'[q].op = "resume" /\ job'[q].s # 0 =>
          ptr'[job'[q].s] \in {NoAgent, job'[q].who}
    BY <1>7, <2>1, <2>2 DEF Inv, Owned
  <2>4. \A q, r \in Procs :
          /\ job'[q].op = "resume" /\ job'[r].op = "resume"
          /\ job'[q].s # 0 /\ job'[q].s = job'[r].s
          => job'[q].who = job'[r].who
    BY <2>1 DEF Inv, Owned
  <2> QED BY <2>3, <2>4 DEF Owned
<1>14. \A q \in Procs : job'[q].op # "start"
  BY <1>5, <1>7, <1>10
<1>15. Newborn'
  BY <1>14 DEF Newborn
<1>16. Uncrossed'
  <2> SUFFICES ASSUME ~ crossed'
               PROVE  /\ \A q, r \in Procs : \A t \in job'[r].todo : ~ Attached(q, t)'
                      /\ \A q \in Procs, t \in Sessions : Attached(q, t)' => ptr'[t] # NoAgent
                      /\ \A r, t \in Sessions : ptr'[r] # NoAgent /\ ptr'[r] = ptr'[t] => r = t
                      /\ \A q \in Procs : Alone(q)' => \A t \in Sessions : ptr'[t] # job'[q].who
                      /\ \A q \in Procs, t \in Sessions : Reaped(q, t)' => t \in Gone'
    BY DEF Uncrossed
  <2>1. /\ \A q, r \in Procs : \A t \in job[r].todo : ~ Attached(q, t)
        /\ \A q \in Procs, t \in Sessions : Attached(q, t) => ptr[t] # NoAgent
        /\ \A r, t \in Sessions : ptr[r] # NoAgent /\ ptr[r] = ptr[t] => r = t
        /\ \A q \in Procs : Alone(q) => \A t \in Sessions : ptr[t] # job[q].who
        /\ \A q \in Procs, t \in Sessions : Reaped(q, t) => t \in Gone
    BY <1>4 DEF Inv, Uncrossed, history
  <2>2. \A t \in Sessions : ptr[t] # a
    BY <1>1, <1>9, <2>1 DEF Alone, At, a
  <2>3. \A r, t \in Sessions : ptr'[r] # NoAgent /\ ptr'[r] = ptr'[t] => r = t
    BY <1>7, <2>1, <2>2
  <2>4. \A q \in Procs : \A t : /\ Attached(q, t)' => Attached(q, t)
                                /\ Reaped(q, t)' => Reaped(q, t)
    BY <1>5, <1>7 DEF Attached, Reaped
  <2>5. \A q \in Procs : job'[q].todo \subseteq job[q].todo
    BY <1>5, <1>7
  <2>6. \A q \in Procs : ~ Alone(q)'
    BY <1>10, <1>11 DEF Alone
  <2>7. \A q \in Procs, t \in Sessions : Attached(q, t)' => ptr'[t] # NoAgent
    BY <1>3, <1>7, <2>1, <2>4
  <2>8. \A q, r \in Procs : \A t \in job'[r].todo : ~ Attached(q, t)'
    BY <2>1, <2>4, <2>5
  <2> QED BY <1>7, <2>1, <2>3, <2>4, <2>6, <2>7, <2>8
<1>17. Known' \subseteq Known \cup {s}
  <2>1. \A q \in Procs : job'[q].op = "resume" => job[q].op = "resume" /\ job'[q].s = job[q].s
    BY <1>5, <1>7
  <2> QED BY <1>7, <2>1 DEF Known
<1>18. Claimed'
  <2> SUFFICES ASSUME ~ overwritten'
               PROVE  /\ Known' \subseteq Shown'
                      /\ \A r, t \in Known' \ (forced' \cup lapsed') :
                           r # t => Gift'[r] # Gift'[t]
    BY <1>14 DEF Claimed, Picked
  <2>1. /\ Known \subseteq Shown
        /\ \A q \in Procs : job[q].op = "start" /\ job[q].at = "point" => job[q].s \in Shown
        /\ \A q \in Procs : Picked(q) /\ ~ job[q].crowded =>
             \A r \in Known \ lapsed : Gift[r] # job[q].task
        /\ \A r, t \in Known \ (forced \cup lapsed) : r # t => Gift[r] # Gift[t]
    BY <1>4 DEF Inv, Claimed, history
  <2>2. s \in Shown
    BY <1>1, <1>2, <2>1 DEF s
  <2>3. Picked(p)
    BY <1>1, <1>2 DEF Picked
  <2>4. s \notin forced => \A r \in Known \ lapsed : Gift[r] # Gift[s]
    BY <1>8, <2>1, <2>3
  <2>5. forced' = forced /\ lapsed' = lapsed
    BY <1>4 DEF history
  <2>6. ASSUME NEW r \in Known' \ (forced \cup lapsed), NEW t \in Known' \ (forced \cup lapsed),
               r # t
        PROVE  Gift[r] # Gift[t]
    <3>1. (r \in Known \/ r = s) /\ (t \in Known \/ t = s)
      BY <1>17
    <3>2. CASE r \in Known /\ t \in Known
      BY <2>1, <2>6, <3>2
    <3>3. CASE r = s /\ t \in Known
      BY <2>4, <2>6, <3>3
    <3>4. CASE t = s /\ r \in Known
      BY <2>4, <2>6, <3>4
    <3> QED BY <2>6, <3>1, <3>2, <3>3, <3>4
  <2> QED BY <1>7, <1>17, <2>1, <2>2, <2>5, <2>6
<1>19. Matched'
  <2> SUFFICES ASSUME ~ crossed', kills' = 0, NEW r \in Sessions
               PROVE  /\ r \in Live' /\ ptr'[r] = NoAgent
                         => \E q \in Procs : job'[q].op = "start" /\ job'[q].s = r
                      /\ r \in Gone' /\ ptr'[r] # NoAgent => \E q \in Procs : Reaped(q, r)'
    BY DEF Matched
  <2>1. ~ crossed /\ kills = 0
    BY <1>4 DEF bounds, history
  <2>2. /\ r \in Live /\ ptr[r] = NoAgent
             => \E q \in Procs : job[q].op = "start" /\ job[q].s = r
        /\ r \in Gone /\ ptr[r] # NoAgent => \E q \in Procs : Reaped(q, r)
    BY <2>1 DEF Inv, Matched
  <2>3. CASE r = s
    <3>1. s \notin Gone
      BY <1>8 DEF Live, Gone
    <3> QED BY <1>3, <1>7, <2>3, <3>1
  <2>4. CASE r # s
    <3>1. \A q \in Procs : job[q].op = "start" /\ job[q].s = r =>
                             job'[q].op = "start" /\ job'[q].s = r
      BY <1>7, <2>4 DEF s
    <3>2. \A q \in Procs : Reaped(q, r) => Reaped(q, r)'
      BY <1>2, <1>7 DEF Reaped
    <3> QED BY <1>7, <2>2, <2>4, <3>1, <3>2
  <2> QED BY <2>3, <2>4
<1> QED BY <1>7, <1>12, <1>13, <1>15, <1>16, <1>18, <1>19 DEF Inv

\* The pointer of a session that is resumed: its own conversation's
LEMMA StampInv ==
  ASSUME Inv, NEW p \in Procs, Stamp(p)
  PROVE  Inv'
<1> DEFINE s == job[p].s
           a == job[p].who
           k == [job[p] EXCEPT !.at = "resumed"]
<1>1. /\ job[p] \in JobType /\ Shape(job[p]) /\ (Claims(p) <=> lock = p)
      /\ job[p].at = "stamp" /\ job[p].op \in Ops /\ lock \in Procs \cup {NoProc}
  BY JobNow DEF Stamp, At, JobType, Inv, TypeOK
<1>2. job[p].op = "resume" /\ s # 0 /\ a # NoAgent
  BY <1>1 DEF Shape, Free, Ops
<1>3. a \in Agents \cup {NoAgent}
  BY <1>1 DEF JobType
<1>4. /\ job' = [job EXCEPT ![p] = k] /\ ptr' = [ptr EXCEPT ![s] = a]
      /\ UNCHANGED <<log, built, aged, lock, bounds, history>>
  BY <1>1 DEF Stamp, Goto, Inv, TypeOK
<1>5. /\ k \in JobType /\ k.op = job[p].op /\ k.at = "resumed" /\ k.who = a
      /\ k.s = s /\ k.todo = job[p].todo /\ k.task = job[p].task
      /\ k.crowded = job[p].crowded
  BY <1>1 DEF JobType, Points
<1> HIDE DEF k
<1>6. Shape(k)
  BY <1>1, <1>2, <1>5 DEF Shape
<1>7. /\ TypeOK' /\ Jobs' /\ LogInv'
      /\ Begun' = Begun /\ Shown' = Shown /\ Gift' = Gift /\ Live' = Live /\ Gone' = Gone
      /\ job' \in [Procs -> JobType] /\ job'[p] = k
      /\ \A q \in Procs \ {p} : job'[q] = job[q]
      /\ s \in Sessions /\ s \in Begun
      /\ ptr'[s] = a /\ \A r \in Sessions \ {s} : ptr'[r] = ptr[r]
  <2>1. k.at # "write" /\ (k.s # 0 => k.s = s) /\ k.todo \subseteq job[p].todo
    BY <1>5
  <2>2. lock' \in Procs \cup {NoProc}
    BY <1>1, <1>4
  <2>3. UNCHANGED <<log, built, aged, bounds, history>>
    BY <1>4
  <2> QED BY <1>2, <1>3, <1>4, <1>5, <1>6, <2>1, <2>2, <2>3, PointerFacts
<1> HIDE DEF s, a
<1>8. \A q \in Procs : /\ job'[q].op = job[q].op /\ job'[q].who = job[q].who
                       /\ job'[q].s = job[q].s /\ job'[q].todo = job[q].todo
                       /\ job'[q].task = job[q].task /\ job'[q].crowded = job[q].crowded
                       /\ q # p => job'[q] = job[q]
  BY <1>5, <1>7 DEF s, a
<1>9. \A q \in Procs : Claims(q)' <=> Claims(q)
  BY <1>1, <1>2, <1>5, <1>7 DEF Claims, At
<1>10. Locked'
  BY <1>4, <1>9 DEF Inv, Locked
<1>11. Owned'
  <2>1. Owned
    BY DEF Inv
  <2>2. \A q \in Procs : job[q].op = "resume" /\ job[q].s = s => job[q].who = a
    BY <1>2, <2>1 DEF Owned, s, a
  <2>3. \A q \in Procs : job[q].op = "resume" /\ job[q].s # 0 =>
          ptr'[job[q].s] \in {NoAgent, job[q].who}
    <3>1. \A q \in Procs : job[q].s # 0 => job[q].s \in Sessions
      BY DEF Inv, Jobs, Begun
    <3> QED BY <1>7, <2>1, <2>2, <3>1 DEF Owned
  <2> QED BY <1>8, <2>1, <2>3 DEF Owned
<1>12. Newborn'
  <2> SUFFICES ASSUME NEW q \in Procs, job'[q].op = "start", job'[q].s # 0
               PROVE  /\ ptr'[job'[q].s] = NoAgent
                      /\ \A r \in Procs \ {q} : job'[r].s # job'[q].s
                      /\ \A r \in Procs : job'[q].s \notin job'[r].todo
                      /\ job'[q].s \in Live' /\ Gift'[job'[q].s] = job'[q].task
                      /\ job'[q].crowded => job'[q].s \in forced'
    BY DEF Newborn
  <2>1. q # p /\ job'[q] = job[q] /\ job[q].s \in Sessions
    BY <1>2, <1>8 DEF Inv, Jobs, Begun
  <2>2. /\ ptr[job[q].s] = NoAgent /\ \A r \in Procs \ {q} : job[r].s # job[q].s
        /\ \A r \in Procs : job[q].s \notin job[r].todo
        /\ job[q].s \in Live /\ Gift[job[q].s] = job[q].task
        /\ job[q].crowded => job[q].s \in forced
    BY <2>1 DEF Inv, Newborn
  <2>3. job[q].s # s
    BY <2>1, <2>2 DEF s
  <2>4. forced' = forced
    BY <1>4 DEF history
  <2> QED BY <1>7, <1>8, <2>1, <2>2, <2>3, <2>4
<1>13. ~ crossed => ptr' = ptr
  <2> SUFFICES ASSUME ~ crossed PROVE ptr' = ptr
    OBVIOUS
  <2>1. ptr[s] # NoAgent
    BY <1>1, <1>7 DEF Inv, Uncrossed, Attached, s
  <2>2. ptr[s] = a
    BY <1>2, <2>1 DEF Inv, Owned, s, a
  <2>3. ptr \in [Sessions -> Agents \cup {NoAgent}] /\ ptr' = [ptr EXCEPT ![s] = a]
    BY <1>4 DEF Inv, TypeOK, s, a
  <2> QED BY <2>2, <2>3
<1>14. Uncrossed'
  <2> SUFFICES ASSUME ~ crossed'
               PROVE  /\ \A q, r \in Procs : \A t \in job'[r].todo : ~ Attached(q, t)'
                      /\ \A q \in Procs, t \in Sessions : Attached(q, t)' => ptr'[t] # NoAgent
                      /\ \A r, t \in Sessions : ptr'[r] # NoAgent /\ ptr'[r] = ptr'[t] => r = t
                      /\ \A q \in Procs : Alone(q)' => \A t \in Sessions : ptr'[t] # job'[q].who
                      /\ \A q \in Procs, t \in Sessions : Reaped(q, t)' => t \in Gone'
    BY DEF Uncrossed
  <2>1. ~ crossed /\ ptr' = ptr
    BY <1>4, <1>13 DEF history
  <2>2. /\ \A q, r \in Procs : \A t \in job[r].todo : ~ Attached(q, t)
        /\ \A q \in Procs, t \in Sessions : Attached(q, t) => ptr[t] # NoAgent
        /\ \A r, t \in Sessions : ptr[r] # NoAgent /\ ptr[r] = ptr[t] => r = t
        /\ \A q \in Procs : Alone(q) => \A t \in Sessions : ptr[t] # job[q].who
        /\ \A q \in Procs, t \in Sessions : Reaped(q, t) => t \in Gone
    BY <2>1 DEF Inv, Uncrossed
  <2>3. \A q \in Procs : \A t : /\ Attached(q, t)' <=> Attached(q, t)
                                /\ Reaped(q, t)' <=> Reaped(q, t)
    BY <1>1, <1>2, <1>5, <1>7, <1>8 DEF Attached, Reaped
  <2>4. \A q \in Procs : Alone(q)' <=> Alone(q)
    BY <1>1, <1>2, <1>5, <1>7 DEF Alone, Claims, At
  <2> QED BY <1>7, <1>8, <2>1, <2>2, <2>3, <2>4
<1>15. Known' = Known
  <2>1. \A r \in Sessions : r # s => ptr'[r] = ptr[r]
    BY <1>7
  <2>2. \A q \in Procs : job'[q].op = job[q].op /\ job'[q].s = job[q].s
    BY <1>8
  <2>3. job[p].op = "resume" /\ job[p].s = s
    BY <1>2 DEF s
  <2> QED BY <2>1, <2>2, <2>3 DEF Known
<1>16. Claimed'
  <2>1. \A q \in Procs : job[q].op = "start" => job'[q] = job[q]
    BY <1>2, <1>8
  <2>2. \A q \in Procs : job'[q].op = job[q].op /\ (Picked(q)' <=> Picked(q))
    BY <1>2, <1>8 DEF Picked
  <2>3. UNCHANGED <<forced, lapsed, overwritten, log>>
    BY <1>4 DEF history
  <2>4. ASSUME ~ overwritten'
        PROVE  /\ Known' \subseteq Shown'
               /\ \A q \in Procs : job'[q].op = "start" =>
                    /\ job'[q].at = "write" =>
                         \E i \in 1 .. job'[q].seen : StartOf(job[q].s, i)'
                    /\ job'[q].at = "point" => job'[q].s \in Shown'
               /\ \A q \in Procs : Picked(q)' /\ ~ job'[q].crowded =>
                    \A r \in Known' \ lapsed' : Gift'[r] # job'[q].task
               /\ \A r, t \in Known' \ (forced' \cup lapsed') : r # t => Gift'[r] # Gift'[t]
    <3>1. /\ Known \subseteq Shown
          /\ \A q \in Procs : job[q].op = "start" =>
               /\ job[q].at = "write" => \E i \in 1 .. job[q].seen : StartOf(job[q].s, i)
               /\ job[q].at = "point" => job[q].s \in Shown
          /\ \A q \in Procs : Picked(q) /\ ~ job[q].crowded =>
               \A r \in Known \ lapsed : Gift[r] # job[q].task
          /\ \A r, t \in Known \ (forced \cup lapsed) : r # t => Gift[r] # Gift[t]
      BY <2>3, <2>4 DEF Inv, Claimed
    <3>2. \A q \in Procs : job'[q].op = "start" /\ job'[q].at = "write" =>
            \E i \in 1 .. job'[q].seen : StartOf(job[q].s, i)'
      BY <2>1, <2>2, <2>3, <3>1 DEF StartOf
    <3> QED BY <1>7, <1>8, <1>15, <2>1, <2>2, <2>3, <3>1, <3>2
  <2> QED BY <2>4 DEF Claimed
<1>17. Matched'
  <2> SUFFICES ASSUME ~ crossed', kills' = 0, NEW r \in Sessions
               PROVE  /\ r \in Live' /\ ptr'[r] = NoAgent
                         => \E q \in Procs : job'[q].op = "start" /\ job'[q].s = r
                      /\ r \in Gone' /\ ptr'[r] # NoAgent => \E q \in Procs : Reaped(q, r)'
    BY DEF Matched
  <2>1. ~ crossed /\ kills = 0 /\ ptr' = ptr
    BY <1>4, <1>13 DEF bounds, history
  <2>2. /\ r \in Live /\ ptr[r] = NoAgent
             => \E q \in Procs : job[q].op = "start" /\ job[q].s = r
        /\ r \in Gone /\ ptr[r] # NoAgent => \E q \in Procs : Reaped(q, r)
    BY <2>1 DEF Inv, Matched
  <2>3. \A q \in Procs : Reaped(q, r) => Reaped(q, r)'
    BY <1>2, <1>7 DEF Reaped
  <2> QED BY <1>7, <1>8, <2>1, <2>2, <2>3
<1> QED BY <1>7, <1>10, <1>11, <1>12, <1>14, <1>16, <1>17 DEF Inv

\* The pointer of a session that was abandoned goes.
LEMMA UnlinkInv ==
  ASSUME Inv, NEW p \in Procs, Unlink(p)
  PROVE  Inv'
<1> DEFINE s == job[p].s
           k == [job[p] EXCEPT !.todo = @ \ {s}, !.at = "sweep"]
<1>1. /\ job[p] \in JobType /\ Shape(job[p]) /\ (Claims(p) <=> lock = p)
      /\ job[p].at = "unlink" /\ job[p].op \in Ops /\ lock \in Procs \cup {NoProc}
      /\ job[p].todo \subseteq Sessions
  BY JobNow DEF Unlink, At, JobType, Inv, TypeOK
<1>2. job[p].op = "reap" /\ s \in job[p].todo
  BY <1>1 DEF Shape, Free, Ops
<1>3. s # 0
  BY <1>1, <1>2, SessionsAssumption DEF Sessions
<1>4. /\ job' = [job EXCEPT ![p] = k] /\ ptr' = [ptr EXCEPT ![s] = NoAgent]
      /\ UNCHANGED <<log, built, aged, lock, bounds, history>>
  BY <1>1 DEF Unlink, Inv, TypeOK
<1>5. /\ k \in JobType /\ k.op = job[p].op /\ k.at = "sweep"
      /\ k.s = s /\ k.todo = job[p].todo \ {s}
  BY <1>1 DEF JobType, Points
<1> HIDE DEF k
<1>6. Shape(k)
  BY <1>1, <1>2, <1>5 DEF Shape
<1>7. /\ TypeOK' /\ Jobs' /\ LogInv'
      /\ Begun' = Begun /\ Shown' = Shown /\ Gift' = Gift /\ Live' = Live /\ Gone' = Gone
      /\ job' \in [Procs -> JobType] /\ job'[p] = k
      /\ \A q \in Procs \ {p} : job'[q] = job[q]
      /\ s \in Sessions /\ s \in Begun
      /\ ptr'[s] = NoAgent /\ \A r \in Sessions \ {s} : ptr'[r] = ptr[r]
  <2>1. k.at # "write" /\ (k.s # 0 => k.s = s) /\ k.todo \subseteq job[p].todo
    BY <1>5
  <2>2. lock' \in Procs \cup {NoProc}
    BY <1>1, <1>4
  <2>3. UNCHANGED <<log, built, aged, bounds, history>> /\ NoAgent \in Agents \cup {NoAgent}
    BY <1>4
  <2> QED BY <1>3, <1>4, <1>5, <1>6, <2>1, <2>2, <2>3, PointerFacts
<1> HIDE DEF s
<1>8. \A q \in Procs : /\ job'[q].op = job[q].op /\ job'[q].s = job[q].s
                       /\ job'[q].todo \subseteq job[q].todo
                       /\ q # p => job'[q] = job[q]
  BY <1>5, <1>7 DEF s
<1>9. \A r \in Sessions : ptr'[r] = NoAgent \/ ptr'[r] = ptr[r]
  BY <1>7
<1>10. \A q \in Procs : /\ Claims(q)' <=> Claims(q)
                        /\ Alone(q)' => Alone(q) /\ job'[q] = job[q]
  BY <1>1, <1>2, <1>5, <1>7 DEF Claims, At, Alone
<1>11. Locked'
  BY <1>4, <1>10 DEF Inv, Locked
<1>12. Owned'
  <2>1. \A q \in Procs : job'[q].op = "resume" => job'[q] = job[q]
    BY <1>2, <1>8
  <2>2. \A q \in Procs : job[q].s # 0 => job[q].s \in Sessions
    BY DEF Inv, Jobs, Begun
  <2>3. \A q \in Procs : job'[q].op = "resume" /\ job'[q].s # 0 =>
          ptr'[job'[q].s] \in {NoAgent, job'[q].who}
    BY <1>9, <2>1, <2>2 DEF Inv, Owned
  <2>4. \A q, r \in Procs :
          /\ job'[q].op = "resume" /\ job'[r].op = "resume"
          /\ job'[q].s # 0 /\ job'[q].s = job'[r].s
          => job'[q].who = job'[r].who
    BY <2>1 DEF Inv, Owned
  <2> QED BY <2>3, <2>4 DEF Owned
<1>13. Newborn'
  <2> SUFFICES ASSUME NEW q \in Procs, job'[q].op = "start", job'[q].s # 0
               PROVE  /\ ptr'[job'[q].s] = NoAgent
                      /\ \A r \in Procs \ {q} : job'[r].s # job'[q].s
                      /\ \A r \in Procs : job'[q].s \notin job'[r].todo
                      /\ job'[q].s \in Live' /\ Gift'[job'[q].s] = job'[q].task
                      /\ job'[q].crowded => job'[q].s \in forced'
    BY DEF Newborn
  <2>1. q # p /\ job'[q] = job[q] /\ job[q].s \in Sessions
    BY <1>2, <1>8 DEF Inv, Jobs, Begun
  <2>2. /\ ptr[job[q].s] = NoAgent /\ \A r \in Procs \ {q} : job[r].s # job[q].s
        /\ \A r \in Procs : job[q].s \notin job[r].todo
        /\ job[q].s \in Live /\ Gift[job[q].s] = job[q].task
        /\ job[q].crowded => job[q].s \in forced
    BY <2>1 DEF Inv, Newborn
  <2>3. ptr'[job[q].s] = NoAgent
    BY <1>9, <2>1, <2>2
  <2>4. forced' = forced
    BY <1>4 DEF history
  <2> QED BY <1>7, <1>8, <2>1, <2>2, <2>3, <2>4
<1>14. Uncrossed'
  <2> SUFFICES ASSUME ~ crossed'
               PROVE  /\ \A q, r \in Procs : \A t \in job'[r].todo : ~ Attached(q, t)'
                      /\ \A q \in Procs, t \in Sessions : Attached(q, t)' => ptr'[t] # NoAgent
                      /\ \A r, t \in Sessions : ptr'[r] # NoAgent /\ ptr'[r] = ptr'[t] => r = t
                      /\ \A q \in Procs : Alone(q)' => \A t \in Sessions : ptr'[t] # job'[q].who
                      /\ \A q \in Procs, t \in Sessions : Reaped(q, t)' => t \in Gone'
    BY DEF Uncrossed
  <2>1. /\ \A q, r \in Procs : \A t \in job[r].todo : ~ Attached(q, t)
        /\ \A q \in Procs, t \in Sessions : Attached(q, t) => ptr[t] # NoAgent
        /\ \A r, t \in Sessions : ptr[r] # NoAgent /\ ptr[r] = ptr[t] => r = t
        /\ \A q \in Procs : Alone(q) => \A t \in Sessions : ptr[t] # job[q].who
        /\ \A q \in Procs, t \in Sessions : Reaped(q, t) => t \in Gone
    BY <1>4 DEF Inv, Uncrossed, history
  <2>2. \A q \in Procs : \A t : /\ Attached(q, t)' => Attached(q, t)
                                /\ Reaped(q, t)' => Reaped(q, t)
    BY <1>1, <1>5, <1>7, <1>8 DEF Attached, Reaped
  <2>3. \A q, r \in Procs : \A t \in job'[r].todo : ~ Attached(q, t)'
    BY <1>8, <2>1, <2>2
  <2>4. \A q \in Procs, t \in Sessions : Attached(q, t)' => ptr'[t] # NoAgent
    <3>1. \A q \in Procs : ~ Attached(q, s)
      BY <1>2, <2>1
    <3> QED BY <1>7, <2>1, <2>2, <3>1
  <2>5. \A r, t \in Sessions : ptr'[r] # NoAgent /\ ptr'[r] = ptr'[t] => r = t
    BY <1>9, <2>1
  <2>6. \A q \in Procs : Alone(q)' => \A t \in Sessions : ptr'[t] # job'[q].who
    <3>1. \A q \in Procs : Alone(q) => job[q].who # NoAgent
      <4>1. \A q \in Procs : Shape(job[q]) /\ job[q].op \in Ops
        BY JobNow DEF JobType
      <4> QED BY <4>1 DEF Alone, Claims, At, Shape, Ops, Free
    <3> QED BY <1>9, <1>10, <2>1, <3>1
  <2> QED BY <1>7, <2>1, <2>2, <2>3, <2>4, <2>5, <2>6
<1>15. Known' \subseteq Known
  <2>1. \A q \in Procs : job'[q].op = job[q].op /\ job'[q].s = job[q].s
    BY <1>8
  <2> QED BY <1>9, <2>1 DEF Known
<1>16. Claimed'
  <2>1. \A q \in Procs : job'[q].op = job[q].op /\ (job[q].op = "start" => job'[q] = job[q])
    BY <1>2, <1>8
  <2>2. \A q \in Procs : Picked(q)' => Picked(q) /\ job'[q] = job[q]
    BY <2>1 DEF Picked
  <2>3. UNCHANGED <<forced, lapsed, overwritten, log>>
    BY <1>4 DEF history
  <2>4. ASSUME ~ overwritten'
        PROVE  /\ Known' \subseteq Shown'
               /\ \A q \in Procs : job'[q].op = "start" =>
                    /\ job'[q].at = "write" =>
                         \E i \in 1 .. job'[q].seen : StartOf(job[q].s, i)'
                    /\ job'[q].at = "point" => job'[q].s \in Shown'
               /\ \A q \in Procs : Picked(q)' /\ ~ job'[q].crowded =>
                    \A r \in Known' \ lapsed' : Gift'[r] # job'[q].task
               /\ \A r, t \in Known' \ (forced' \cup lapsed') : r # t => Gift'[r] # Gift'[t]
    <3>1. /\ Known \subseteq Shown
          /\ \A q \in Procs : job[q].op = "start" =>
               /\ job[q].at = "write" => \E i \in 1 .. job[q].seen : StartOf(job[q].s, i)
               /\ job[q].at = "point" => job[q].s \in Shown
          /\ \A q \in Procs : Picked(q) /\ ~ job[q].crowded =>
               \A r \in Known \ lapsed : Gift[r] # job[q].task
          /\ \A r, t \in Known \ (forced \cup lapsed) : r # t => Gift[r] # Gift[t]
      BY <2>3, <2>4 DEF Inv, Claimed
    <3>2. \A q \in Procs : job'[q].op = "start" /\ job'[q].at = "write" =>
            \E i \in 1 .. job'[q].seen : StartOf(job[q].s, i)'
      BY <2>1, <2>3, <3>1 DEF StartOf
    <3>3. \A q \in Procs : Picked(q)' /\ ~ job'[q].crowded =>
            \A r \in Known' \ lapsed' : Gift'[r] # job'[q].task
      BY <1>7, <1>15, <2>2, <2>3, <3>1
    <3> QED BY <1>7, <1>15, <2>1, <2>3, <3>1, <3>2, <3>3
  <2> QED BY <2>4 DEF Claimed
<1>17. Matched'
  <2> SUFFICES ASSUME ~ crossed', kills' = 0, NEW r \in Sessions
               PROVE  /\ r \in Live' /\ ptr'[r] = NoAgent
                         => \E q \in Procs : job'[q].op = "start" /\ job'[q].s = r
                      /\ r \in Gone' /\ ptr'[r] # NoAgent => \E q \in Procs : Reaped(q, r)'
    BY DEF Matched
  <2>1. ~ crossed /\ kills = 0
    BY <1>4 DEF bounds, history
  <2>2. /\ r \in Live /\ ptr[r] = NoAgent
             => \E q \in Procs : job[q].op = "start" /\ job[q].s = r
        /\ r \in Gone /\ ptr[r] # NoAgent => \E q \in Procs : Reaped(q, r)
    BY <2>1 DEF Inv, Matched
  <2>3. s \in Gone
    BY <1>1, <1>2, <1>7, <2>1 DEF Inv, Uncrossed, Reaped, s
  <2>4. CASE r = s
    BY <1>7, <2>3, <2>4 DEF Live, Gone
  <2>5. CASE r # s
    <3>1. \A q \in Procs : Reaped(q, r) => Reaped(q, r)'
      BY <1>7, <2>5 DEF Reaped, s
    <3> QED BY <1>7, <1>8, <2>2, <2>5, <3>1
  <2> QED BY <2>4, <2>5
<1> QED BY <1>7, <1>11, <1>12, <1>13, <1>14, <1>16, <1>17 DEF Inv

\* A session ages while nobody is at work.
LEMMA AgeInv ==
  ASSUME Inv, NEW s \in Sessions, Age(s)
  PROVE  Inv'
<1>1. /\ ages' = ages + 1 /\ ages < MaxAges
      /\ aged' = [aged EXCEPT ![s] = Len(log)] /\ lapsed' = lapsed \cup {s}
      /\ UNCHANGED <<log, built, ptr, job, lock, ops, kills, forced, overwritten, crossed>>
  BY DEF Age
<1>2. /\ Begun' = Begun /\ Shown' = Shown /\ Gift' = Gift /\ Live' = Live /\ Gone' = Gone
  BY <1>1, SameLog
<1>3. TypeOK'
  <2>1. Len(log) \in Nat
    BY LogBounds DEF Inv
  <2>2. ages' \in 0 .. MaxAges
    BY <1>1, SessionsAssumption DEF Inv, TypeOK
  <2> QED BY <1>1, <2>1, <2>2 DEF Inv, TypeOK
<1>4. Jobs' /\ Locked' /\ Owned'
  <2>1. Jobs'
    BY <1>1, <1>2 DEF Inv, Jobs, Shape
  <2>2. Locked'
    BY <1>1 DEF Inv, Locked, Claims, At
  <2>3. Owned'
    BY <1>1 DEF Inv, Owned
  <2> QED BY <2>1, <2>2, <2>3
<1>5. LogInv'
  <2>1. \A r \in Sessions : aged'[r] # 0 => r \in lapsed'
    BY <1>1 DEF Inv, LogInv, TypeOK
  <2> QED BY <1>1, <1>2, <2>1 DEF Inv, LogInv
<1>6. Newborn'
  BY <1>1, <1>2 DEF Inv, Newborn
<1>7. Uncrossed'
  BY <1>1, <1>2 DEF Inv, Uncrossed, Attached, Reaped, Alone, Claims, At
<1>8. Claimed'
  <2>1. Known' = Known
    BY <1>1 DEF Known
  <2> QED BY <1>1, <1>2, <2>1 DEF Inv, Claimed, StartOf, Picked
<1>9. Matched'
  BY <1>1, <1>2 DEF Inv, Matched, Reaped
<1> QED BY <1>3, <1>4, <1>5, <1>6, <1>7, <1>8, <1>9 DEF Inv

-----------------------------------------------------------------------------
(* The invariant *)

LEMMA InitInv == Init => Inv
<1> SUFFICES ASSUME Init PROVE Inv
  OBVIOUS
<1>1. /\ Free \in JobType /\ Free.s = 0 /\ Free.todo = {} /\ Free.op = "free" /\ Free.at = "free"
  BY SessionsAssumption DEF Free, JobType, Ops, Points
<1>2. Shape(Free)
  BY <1>1 DEF Shape
<1>3. Len(log) = 0 /\ log \in Seq(Event)
  BY DEF Init
<1>4. \A p \in Procs : job[p] = Free
  BY DEF Init
<1>5. \A s \in Sessions : Status(s, Len(log)) = "none"
  <2>1. \A s : Marks(log, s, Len(log)) = {}
    BY <1>3 DEF Marks
  <2> QED BY <2>1, StatusIs DEF StatusOf
<1>6. Live = {} /\ Gone = {}
  BY <1>5 DEF Live, Gone
<1>7. TypeOK
  <2>1. log \in Seq(Event) /\ built \in 0 .. Len(log)
    BY <1>3 DEF Init
  <2>2. job \in [Procs -> JobType]
    BY <1>1 DEF Init
  <2>3. /\ aged \in [Sessions -> Nat] /\ ptr \in [Sessions -> Agents \cup {NoAgent}]
        /\ lock \in Procs \cup {NoProc}
        /\ ops \in 0 .. MaxOps /\ kills \in 0 .. MaxKills /\ ages \in 0 .. MaxAges
    BY SessionsAssumption DEF Init
  <2>4. /\ forced \subseteq Sessions /\ lapsed \subseteq Sessions
        /\ overwritten \in BOOLEAN /\ crossed \in BOOLEAN
    BY DEF Init
  <2> QED BY <2>1, <2>2, <2>3, <2>4 DEF TypeOK
<1>8. Jobs
  BY <1>1, <1>2, <1>4 DEF Jobs
<1>9. Locked
  BY <1>1, <1>4, SessionsAssumption DEF Init, Locked, Claims, At
<1>10. LogInv
  BY <1>3 DEF Init, LogInv
<1>11. Owned /\ Newborn
  BY <1>1, <1>4 DEF Owned, Newborn
<1>12. Uncrossed
  BY <1>1, <1>4 DEF Init, Uncrossed, Attached, Alone, Claims, At, Reaped
<1>13. Claimed
  BY <1>1, <1>4 DEF Init, Claimed, Known, Picked
<1>14. Matched
  BY <1>6 DEF Matched
<1> QED BY <1>7, <1>8, <1>9, <1>10, <1>11, <1>12, <1>13, <1>14 DEF Inv

LEMMA NextInv == Inv /\ [Next]_vars => Inv'
<1> SUFFICES ASSUME Inv, [Next]_vars PROVE Inv'
  OBVIOUS
<1>1. ASSUME NEW p \in Procs, Step(p) PROVE Inv'
  <2>1. CASE RebuildRead(p)
    BY <2>1, RebuildReadMoves, MovesInv
  <2>2. CASE RebuildWrite(p)
    BY <2>2, RebuildWriteMoves, MovesInv
  <2>3. CASE Resolve(p)
    BY <2>3, ResolveMoves, MovesInv
  <2>4. CASE Reattach(p)
    BY <2>4, ReattachMoves, MovesInv
  <2>5. CASE Stamp(p)
    BY <2>5, StampInv
  <2>6. CASE Resumed(p)
    BY <2>6, ResumedNotes, NotesInv
  <2>7. CASE Acquire(p)
    BY <2>7, AcquireMoves, MovesInv
  <2>8. CASE Recheck(p)
    BY <2>8, RecheckMoves, MovesInv
  <2>9. CASE Pick(p)
    BY <2>9, PickMoves, MovesInv
  <2>10. CASE Start(p)
    BY <2>10, StartInv
  <2>11. CASE Point(p)
    BY <2>11, PointInv
  <2>12. CASE Match(p)
    BY <2>12, MatchMoves, MovesInv
  <2>13. CASE Pause(p)
    BY <2>13, PauseMoves, MovesInv
  <2>14. CASE PauseLock(p)
    BY <2>14, PauseLockMoves, MovesInv
  <2>15. CASE PauseCheck(p)
    BY <2>15, PauseCheckMoves, MovesInv
  <2>16. CASE Paused(p)
    BY <2>16, PausedNotes, NotesInv
  <2>17. CASE Sweep(p)
    BY <2>17, SweepMoves, MovesInv
  <2>18. CASE Abandon(p)
    BY <2>18, AbandonNotes, NotesInv
  <2>19. CASE Unlink(p)
    BY <2>19, UnlinkInv
  <2>20. CASE Beat(p)
    BY <2>20, BeatNotes, NotesInv
  <2> QED
    BY <1>1, <2>1, <2>2, <2>3, <2>4, <2>5, <2>6, <2>7, <2>8, <2>9, <2>10, <2>11, <2>12,
       <2>13, <2>14, <2>15, <2>16, <2>17, <2>18, <2>19, <2>20 DEF Step
<1>2. ASSUME NEW p \in Procs, Kill(p) PROVE Inv'
  BY <1>2, KillMoves, MovesInv
<1>3. ASSUME NEW p \in Procs, NEW a \in Agents, SessionStart(p, a) PROVE Inv'
  BY <1>3, SessionStartMoves, MovesInv
<1>4. ASSUME NEW p \in Procs, NEW a \in Agents, SessionEnd(p, a) PROVE Inv'
  BY <1>4, SessionEndMoves, MovesInv
<1>5. ASSUME NEW p \in Procs, NEW force \in BOOLEAN, Reap(p, force) PROVE Inv'
  BY <1>5, ReapMoves, MovesInv
<1>6. ASSUME NEW p \in Procs, Heartbeat(p) PROVE Inv'
  BY <1>6, HeartbeatMoves, MovesInv
<1>7. ASSUME NEW s \in Sessions, Age(s) PROVE Inv'
  BY <1>7, AgeInv
<1>8. CASE UNCHANGED vars
  <2>1. UNCHANGED <<log, built, aged, ptr, job, lock, ops, kills, ages, forced, lapsed, overwritten, crossed>>
    BY <1>8 DEF vars, store, bounds, history
  <2>2. Begun' = Begun /\ Shown' = Shown /\ Gift' = Gift /\ Live' = Live /\ Gone' = Gone
    BY <2>1, SameLog
  <2>3. TypeOK' /\ Jobs' /\ Locked' /\ LogInv' /\ Owned' /\ Newborn'
    BY <2>1, <2>2 DEF Inv, TypeOK, Jobs, Shape, Locked, Claims, At, LogInv, Owned, Newborn
  <2>4. Uncrossed'
    BY <2>1, <2>2 DEF Inv, Uncrossed, Attached, Reaped, Alone, Claims, At
  <2>5. Known' = Known
    BY <2>1 DEF Known
  <2>6. Claimed' /\ Matched'
    BY <2>1, <2>2, <2>5 DEF Inv, Claimed, StartOf, Picked, Matched, Reaped
  <2> QED BY <2>3, <2>4, <2>6 DEF Inv
<1> QED BY <1>1, <1>2, <1>3, <1>4, <1>5, <1>6, <1>7, <1>8 DEF Next

\* What each process has on its hands, and how the log, the table and the
\* pointers of session-service.ts differ, is as Inv says at every step.
THEOREM InvHolds == Spec => []Inv
<1>1. Init => Inv
  BY InitInv
<1>2. Inv /\ [Next]_vars => Inv'
  BY NextInv
<1> QED BY <1>1, <1>2, PTL DEF Spec

\* The 'session-start' lock is held by the process in the critical section and
\* by no other, and a pointer is only ever written after the started event of
\* its session, for any number of hooks and commands, some of them killed.
THEOREM SessionsInvHolds == Spec => []SessionsInv
<1>1. Inv => SessionsInv
  <2> SUFFICES ASSUME Inv PROVE SessionsInv
    OBVIOUS
  <2>1. \A s \in Sessions : ptr[s] # NoAgent => Status(s, Len(log)) # "none"
    BY BegunStatus DEF Inv, LogInv
  <2> QED BY <2>1 DEF Inv, Locked, SessionsInv
<1> QED BY <1>1, InvHolds, PTL

\* However many hooks of one conversation run at once, it comes to at most one
\* pointer, as long as no reap and resume of one session have met.
THEOREM OnePointerHolds == Spec => []OnePointer
<1>1. Inv => OnePointer
  <2> SUFFICES ASSUME Inv, ~ crossed, NEW a \in Agents
               PROVE  Cardinality(Pointers(a)) <= 1
    BY DEF OnePointer
  <2>1. \A r, s \in Sessions : ptr[r] # NoAgent /\ ptr[r] = ptr[s] => r = s
    BY DEF Inv, Uncrossed
  <2>2. \A r, s \in Pointers(a) : r = s
    BY <2>1, SessionsAssumption DEF Pointers
  <2>3. CASE Pointers(a) = {}
    BY <2>3, FS_EmptySet
  <2>4. CASE Pointers(a) # {}
    <3>1. PICK s \in Pointers(a) : TRUE
      BY <2>4
    <3>2. Pointers(a) = {s}
      BY <2>2, <3>1
    <3> QED BY <3>2, FS_Singleton
  <2> QED BY <2>3, <2>4
<1> QED BY <1>1, InvHolds, PTL

\* Two sessions that have claimed ever since they were started were given
\* different tasks, unless there was no other or a rebuild hid one of them.
THEOREM ClaimedOnceHolds == Spec => []ClaimedOnce
<1>1. Inv => ClaimedOnce
  <2> SUFFICES ASSUME Inv, ~ overwritten,
                      NEW r \in Sessions \ (forced \cup lapsed),
                      NEW s \in Sessions \ (forced \cup lapsed),
                      r # s, ptr[r] # NoAgent, ptr[s] # NoAgent
               PROVE  TaskOf(r, Len(log)) # TaskOf(s, Len(log))
    BY DEF ClaimedOnce
  <2>1. r \in Known \ (forced \cup lapsed) /\ s \in Known \ (forced \cup lapsed)
    BY DEF Known
  <2>2. Gift[r] # Gift[s]
    BY <2>1 DEF Inv, Claimed
  <2> QED BY <2>2 DEF Gift
<1> QED BY <1>1, InvHolds, PTL

\* But for what is under way, a session that claims has a pointer and an
\* abandoned one has none, as long as nobody was killed and no reap and resume
\* of one session have met.
THEOREM PointersMatchHolds == Spec => []PointersMatch
<1>1. Inv => PointersMatch
  <2> SUFFICES ASSUME Inv, ~ crossed, kills = 0, NEW s \in Sessions
               PROVE  /\ Status(s, Len(log)) \in {"active", "paused"} /\ ptr[s] = NoAgent
                         => \E p \in Procs : job[p].op = "start" /\ job[p].s = s
                      /\ Status(s, Len(log)) = "abandoned" /\ ptr[s] # NoAgent
                         => \E p \in Procs : job[p].op = "reap" /\ job[p].s = s
    BY DEF PointersMatch
  <2>1. /\ s \in Live /\ ptr[s] = NoAgent => \E p \in Procs : job[p].op = "start" /\ job[p].s = s
        /\ s \in Gone /\ ptr[s] # NoAgent => \E p \in Procs : Reaped(p, s)
    BY DEF Inv, Matched
  <2> QED BY <2>1 DEF Live, Gone, Reaped
<1> QED BY <1>1, InvHolds, PTL
==============================================================================
