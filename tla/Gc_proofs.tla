----------------------------- MODULE Gc_proofs -----------------------------
(***************************************************************************)
(* Theorems about Gc, for every number of observations, memories and       *)
(* events of other machines.                                               *)
(*                                                                         *)
(* All four properties are about a store whose sweeps found what they take *)
(* for granted (premise).  The heart of the argument is that what such a   *)
(* sweep deletes is not on the relay: so no pull brings it back, neither   *)
(* watermark names it, and whatever arrived between the sweep's reading    *)
(* and its deleting over the relay has all it stands on there.             *)
(***************************************************************************)
EXTENDS Gc, FiniteSetTheorems, WellFoundedInduction, TLAPS

-----------------------------------------------------------------------------
(* Identifiers *)

LEMMA Names ==
  /\ Root \in Events /\ None \notin Events
  /\ \A o \in Observations : Obs(o) \in Events /\ Obs(o) # Root
  /\ \A m \in Memories : /\ Mem(m) \in Events /\ Mem(m) # Root
                         /\ Ret(m) \in Events /\ Ret(m) # Root
                         /\ Mem(m) # Ret(m)
  /\ \A o \in Observations, m \in Memories : Obs(o) # Mem(m) /\ Obs(o) # Ret(m)
  /\ \A o, x \in Observations : Obs(o) = Obs(x) => o = x
  /\ \A m, n \in Memories : /\ Mem(m) = Mem(n) => m = n
                            /\ Ret(m) = Ret(n) => m = n
                            /\ Mem(m) # Ret(n)
BY DEF Events, Root, None, Obs, Mem, Ret

LEMMA EventsFinite == IsFiniteSet(Events)
<1> DEFINE O == {Obs(o) : o \in Observations}
           M == {Mem(m) : m \in Memories}
           R == {Ret(m) : m \in Memories}
<1>1. IsFiniteSet(O)
  <2>1. [o \in Observations |-> Obs(o)] \in Surjection(Observations, O)
    BY DEF Surjection
  <2> QED BY <2>1, GcAssumption, FS_Surjection
<1>2. IsFiniteSet(M)
  <2>1. [m \in Memories |-> Mem(m)] \in Surjection(Memories, M)
    BY DEF Surjection
  <2> QED BY <2>1, GcAssumption, FS_Surjection
<1>3. IsFiniteSet(R)
  <2>1. [m \in Memories |-> Ret(m)] \in Surjection(Memories, R)
    BY DEF Surjection
  <2> QED BY <2>1, GcAssumption, FS_Surjection
<1>4. IsFiniteSet({Root})
  BY FS_Singleton
<1>5. IsFiniteSet({Root} \cup O)
  BY <1>1, <1>4, FS_Union
<1>6. IsFiniteSet({Root} \cup O \cup M)
  BY <1>2, <1>5, FS_Union
<1>7. IsFiniteSet({Root} \cup O \cup M \cup R)
  BY <1>3, <1>6, FS_Union
<1> QED BY <1>7 DEF Events

-----------------------------------------------------------------------------
(* Orders *)

LEMMA FiniteHasMax ==
  ASSUME NEW S, IsFiniteSet(S), S \subseteq Nat, S # {}
  PROVE  \E n \in S : \A x \in S : x <= n
<1> DEFINE HasMax(T) == \E n \in T : \A x \in T : x <= n
           F == {T \in SUBSET S : T # {} /\ ~ HasMax(T)}
           R == StrictSubsetOrdering(S)
<1>1. IsWellFoundedOn(R, SUBSET S)
  <2>1. IsWellFoundedOn(R, FiniteSubsetsOf(S))
    BY FS_StrictSubsetOrderingWellFounded
  <2>2. FiniteSubsetsOf(S) = SUBSET S
    BY FS_FiniteSubsetsOfFinite
  <2> QED BY <2>1, <2>2
<1>2. SUFFICES ASSUME F # {} PROVE FALSE
  OBVIOUS
<1>3. PICK T \in F : \A U \in F : ~ (<<U, T>> \in R)
  <2>1. F \subseteq SUBSET S
    OBVIOUS
  <2> HIDE DEF F, R
  <2> QED BY <1>1, <1>2, <2>1, WFMin
<1>4. PICK t \in T : TRUE
  OBVIOUS
<1> DEFINE U == T \ {t}
<1>5. U \in SUBSET S /\ <<U, T>> \in R
  BY <1>4 DEF StrictSubsetOrdering
<1>6. U = {} \/ HasMax(U)
  <2>1. U \notin F
    BY <1>3, <1>5
  <2> QED BY <1>5, <2>1
<1>7. CASE U = {}
  <2>1. \A x \in T : x = t
    BY <1>7
  <2>2. t \in Nat
    BY <1>4
  <2>3. HasMax(T)
    BY <1>4, <2>1, <2>2
  <2> QED BY <2>3
<1>8. CASE HasMax(U)
  <2>1. PICK u \in U : \A x \in U : x <= u
    BY <1>8
  <2>2. u \in T /\ u \in Nat /\ t \in Nat
    BY <1>4, <2>1
  <2>3. CASE u <= t
    <3>1. \A x \in T : x \in Nat /\ (x = t \/ x <= u)
      BY <2>1
    <3>2. \A x \in T : x <= t
      BY <2>2, <2>3, <3>1
    <3> QED BY <1>4, <3>2
  <2>4. CASE t <= u
    <3>1. \A x \in T : x = t \/ x <= u
      BY <2>1
    <3>2. \A x \in T : x <= u
      BY <2>4, <3>1
    <3> QED BY <2>2, <3>2
  <2> QED BY <2>2, <2>3, <2>4
<1> QED BY <1>6, <1>7, <1>8

LEMMA TopFacts ==
  ASSUME NEW f \in [Events -> Nat]
  PROVE  /\ Top(f) \in Nat
         /\ \A e \in Events : f[e] <= Top(f)
         /\ \E e \in Events : f[e] = Top(f)
<1>1. f \in Surjection(Events, Range(f))
  BY DEF Surjection, Range
<1>2. IsFiniteSet(Range(f))
  BY <1>1, EventsFinite, FS_Surjection
<1>3. Range(f) \subseteq Nat /\ Range(f) # {}
  BY Names DEF Range
<1>4. \E n \in Range(f) : \A x \in Range(f) : x <= n
  BY <1>2, <1>3, FiniteHasMax
<1>5. \E n \in Range(f) : \A x \in Range(f) : n >= x
  BY <1>3, <1>4
<1>6. Top(f) \in Range(f) /\ \A x \in Range(f) : Top(f) >= x
  BY <1>5 DEF Top, Max
<1> QED BY <1>3, <1>6 DEF Range

LEMMA LastOfFacts ==
  ASSUME NEW f \in [Events -> Nat], NEW E \in SUBSET Events, E # {}
  PROVE  LastOf(E, f) \in E /\ \A x \in E : f[x] <= f[LastOf(E, f)]
<1> DEFINE g == [e \in E |-> f[e]]
           S == {f[e] : e \in E}
<1>1. IsFiniteSet(E)
  BY EventsFinite, FS_Subset
<1>2. g \in Surjection(E, S)
  BY DEF Surjection
<1>3. IsFiniteSet(S)
  BY <1>1, <1>2, FS_Surjection
<1>4. S \subseteq Nat /\ S # {}
  OBVIOUS
<1>5. \E n \in S : \A x \in S : x <= n
  <2> HIDE DEF S
  <2> QED BY <1>3, <1>4, FiniteHasMax
<1>6. \E e \in E : \A x \in E : f[x] <= f[e]
  BY <1>5
<1> QED BY <1>6 DEF LastOf
\* g is f with the events of E that f does not have behind it.
Grown(f, g, E) ==
  /\ g \in Orders
  /\ On(g) = On(f) \cup E
  /\ \A e \in On(f) : g[e] = f[e]
  /\ \A e \in E \ On(f) : \A x \in Events : f[x] < g[e]

LEMMA OrderFacts ==
  ASSUME NEW f \in Orders
  PROVE  /\ f \in [Events -> Nat]
         /\ On(f) \subseteq Events
         /\ \A e \in Events : e \notin On(f) => f[e] = 0
BY DEF Orders, On

LEMMA NowhereFacts == Nowhere \in Orders /\ On(Nowhere) = {}
BY DEF Nowhere, Orders, On

LEMMA WithGrows ==
  ASSUME NEW f \in Orders, NEW e \in Events, e \notin On(f)
  PROVE  Grown(f, With(f, e), {e})
<1>1. f \in [Events -> Nat]
  BY DEF Orders
<1>2. Top(f) \in Nat /\ \A x \in Events : f[x] <= Top(f)
  BY <1>1, TopFacts
<1>3. /\ With(f, e) \in [Events -> Nat]
      /\ With(f, e)[e] = Top(f) + 1
      /\ \A x \in Events : x # e => With(f, e)[x] = f[x]
  BY <1>1, <1>2 DEF With
<1>4. On(With(f, e)) = On(f) \cup {e}
  BY <1>1, <1>2, <1>3 DEF On
<1>5. \A x \in Events : f[x] < With(f, e)[e]
  BY <1>1, <1>2, <1>3
<1>6. ASSUME NEW x \in On(f) \cup {e}, NEW y \in On(f) \cup {e},
             With(f, e)[x] = With(f, e)[y]
      PROVE  x = y
  <2>1. x \in Events /\ y \in Events
    BY DEF On
  <2>2. CASE x = e /\ y # e
    BY <1>1, <1>3, <1>5, <1>6, <2>1, <2>2
  <2>3. CASE y = e /\ x # e
    BY <1>1, <1>3, <1>5, <1>6, <2>1, <2>3
  <2>4. CASE x # e /\ y # e
    BY <1>3, <1>6, <2>1, <2>4 DEF Orders
  <2> QED BY <2>2, <2>3, <2>4
<1>7. With(f, e) \in Orders
  BY <1>3, <1>4, <1>6 DEF Orders
<1> QED BY <1>3, <1>4, <1>5, <1>7 DEF Grown, On

LEMMA AfterFacts ==
  ASSUME NEW f \in Orders, NEW n \in Nat
  PROVE  /\ After(n, f) \in Orders
         /\ On(After(n, f)) = {e \in On(f) : f[e] > n}
         /\ \A e \in On(After(n, f)) : After(n, f)[e] = f[e]
<1>1. f \in [Events -> Nat]
  BY DEF Orders
<1>2. /\ After(n, f) \in [Events -> Nat]
      /\ \A e \in Events : After(n, f)[e] = IF f[e] > n THEN f[e] ELSE 0
  BY <1>1 DEF After
<1>3. On(After(n, f)) = {e \in On(f) : f[e] > n}
  BY <1>1, <1>2 DEF On
<1>4. \A e \in On(After(n, f)) : After(n, f)[e] = f[e]
  BY <1>2, <1>3 DEF On
<1> QED BY <1>2, <1>3, <1>4 DEF Orders

\* The number of those up to an event, in an order of new ones.
LEMMA Counting ==
  ASSUME NEW g \in Orders, NEW New \in SUBSET On(g),
         NEW C, C = [e \in New |-> Cardinality({x \in New : g[x] <= g[e]})]
  PROVE  /\ \A e \in New : C[e] \in Nat /\ C[e] > 0
         /\ \A e, x \in New : C[e] = C[x] => e = x
<1> DEFINE B(e) == {x \in New : g[x] <= g[e]}
<1>1. IsFiniteSet(New) /\ New \subseteq Events /\ g \in [Events -> Nat]
  BY EventsFinite, FS_Subset DEF On, Orders
<1>2. \A e \in New : B(e) \subseteq New /\ IsFiniteSet(B(e)) /\ e \in B(e)
  BY <1>1, FS_Subset
<1>3. ASSUME NEW e \in New PROVE C[e] \in Nat /\ C[e] > 0
  <2>1. C[e] = Cardinality(B(e))
    OBVIOUS
  <2>2. Cardinality(B(e)) \in Nat
    BY <1>2, FS_CardinalityType
  <2>3. Cardinality(B(e)) # 0
    <3> HIDE DEF B
    <3> QED BY <1>2, FS_EmptySet
  <2> QED BY <2>1, <2>2, <2>3
<1>4. ASSUME NEW e \in New, NEW x \in New, g[e] < g[x] PROVE C[e] # C[x]
  <2>1. B(e) \subseteq B(x) /\ x \notin B(e) /\ x \in B(x)
    BY <1>1, <1>4
  <2>2. C[e] = Cardinality(B(e)) /\ C[x] = Cardinality(B(x))
    OBVIOUS
  <2> HIDE DEF B
  <2> QED BY <1>2, <2>1, <2>2, FS_Subset
<1>5. ASSUME NEW e \in New, NEW x \in New, C[e] = C[x] PROVE e = x
  <2>1. ~ (g[e] < g[x]) /\ ~ (g[x] < g[e])
    BY <1>4, <1>5
  <2>2. g[e] = g[x]
    BY <1>1, <2>1
  <2> QED BY <2>2 DEF Orders
<1> QED BY <1>3, <1>5

LEMMA ExtendedGrows ==
  ASSUME NEW f \in Orders, NEW g \in Orders
  PROVE  Grown(f, Extended(f, g), On(g))
<1> DEFINE New == On(g) \ On(f)
           C == [e \in New |-> Cardinality({x \in New : g[x] <= g[e]})]
           h == Extended(f, g)
<1>1. f \in [Events -> Nat] /\ New \subseteq Events /\ On(f) \subseteq Events
  BY DEF Orders, On
<1>2. Top(f) \in Nat /\ \A x \in Events : f[x] <= Top(f)
  BY <1>1, TopFacts
<1>3. /\ \A e \in New : C[e] \in Nat /\ C[e] > 0
      /\ \A e, x \in New : C[e] = C[x] => e = x
  <2>1. New \in SUBSET On(g)
    OBVIOUS
  <2>2. C = [e \in New |-> Cardinality({x \in New : g[x] <= g[e]})]
    OBVIOUS
  <2> HIDE DEF New, C
  <2> QED BY <2>1, <2>2, Counting
<1>4. h = [e \in Events |-> IF e \in New THEN Top(f) + C[e] ELSE f[e]]
  BY DEF Extended
<1> HIDE DEF h, C
<1>5. h \in [Events -> Nat]
  BY <1>1, <1>2, <1>3, <1>4
<1>6. /\ \A e \in New : h[e] = Top(f) + C[e]
      /\ \A e \in Events : e \notin New => h[e] = f[e]
  BY <1>1, <1>4
<1>7. \A e \in New : \A x \in Events : f[x] < h[e]
  BY <1>1, <1>2, <1>3, <1>6
<1>8. On(h) = On(f) \cup On(g)
  <2>1. \A e \in New : h[e] > 0
    BY <1>1, <1>2, <1>3, <1>6
  <2>2. \A e \in Events : e \notin New => (h[e] > 0 <=> e \in On(f))
    BY <1>6 DEF On
  <2>3. New \cup On(f) = On(f) \cup On(g) /\ New \cap On(f) = {}
    OBVIOUS
  <2> HIDE DEF New
  <2> QED BY <1>1, <2>1, <2>2, <2>3 DEF On
<1>9. ASSUME NEW x \in On(h), NEW y \in On(h), h[x] = h[y] PROVE x = y
  <2>1. x \in Events /\ y \in Events /\ x \in On(f) \cup New /\ y \in On(f) \cup New
    BY <1>1, <1>8
  <2>2. CASE x \in New /\ y \in New
    <3>1. Top(f) + C[x] = Top(f) + C[y] /\ C[x] \in Nat /\ C[y] \in Nat
      BY <1>3, <1>6, <1>9, <2>2
    <3>2. C[x] = C[y]
      BY <1>2, <3>1
    <3> QED BY <1>3, <2>2, <3>2
  <2>3. CASE x \in New /\ y \notin New
    <3>1. h[y] = f[y] /\ f[y] < h[x] /\ f[y] \in Nat /\ h[x] \in Nat
      BY <1>1, <1>5, <1>6, <1>7, <2>1, <2>3
    <3> QED BY <1>9, <3>1
  <2>4. CASE x \notin New /\ y \in New
    <3>1. h[x] = f[x] /\ f[x] < h[y] /\ f[x] \in Nat /\ h[y] \in Nat
      BY <1>1, <1>5, <1>6, <1>7, <2>1, <2>4
    <3> QED BY <1>9, <3>1
  <2>5. CASE x \notin New /\ y \notin New
    BY <1>6, <1>9, <2>1, <2>5 DEF Orders
  <2> QED BY <2>2, <2>3, <2>4, <2>5
<1>10. h \in Orders
  BY <1>5, <1>9 DEF Orders
<1>11. On(g) \ On(f) = New
  OBVIOUS
<1> HIDE DEF New
<1> QED BY <1>1, <1>6, <1>7, <1>8, <1>10, <1>11 DEF Grown, h

\* What a boundary appends is an order of its memories.
LEMMA PlacedFacts ==
  ASSUME NEW M \in SUBSET Memories, NEW n,
         NEW place \in Bijection(M, 1 .. n)
  PROVE  Placed(M, place) \in Orders /\ On(Placed(M, place)) = {Mem(m) : m \in M}
<1> DEFINE g == Placed(M, place)
<1>1. place \in [M -> 1 .. n] /\ \A a, b \in M : place[a] = place[b] => a = b
  BY DEF Bijection, Injection, IsInjective
<1>2. \A m \in M : Mem(m) \in Events /\ g[Mem(m)] = place[m]
  <2> TAKE m \in M
  <2>1. Mem(m) \in Events
    BY Names
  <2>2. (CHOOSE k \in M : Mem(m) = Mem(k)) = m
    BY Names
  <2> QED BY <2>1, <2>2 DEF Placed
<1>3. \A e \in Events : e \notin {Mem(m) : m \in M} => g[e] = 0
  BY DEF Placed
<1>4. \A m \in M : g[Mem(m)] \in Nat /\ g[Mem(m)] > 0
  BY <1>1, <1>2
<1>5. On(g) = {Mem(m) : m \in M}
  <2> HIDE DEF g
  <2> QED BY <1>2, <1>3, <1>4 DEF On
<1>6. g \in [Events -> Nat]
  <2>1. \A e \in Events : g[e] \in Nat
    <3> HIDE DEF g
    <3> QED BY <1>3, <1>4
  <2>2. g = [e \in Events |-> g[e]]
    BY DEF Placed
  <2> HIDE DEF g
  <2> QED BY <2>1, <2>2
<1>7. \A e, x \in On(g) : g[e] = g[x] => e = x
  <2> HIDE DEF g
  <2> QED BY <1>1, <1>2, <1>5
<1> HIDE DEF g
<1>8. g \in Orders
  BY <1>6, <1>7 DEF Orders
<1> QED BY <1>5, <1>8 DEF g

LEMMA GrownTop ==
  ASSUME NEW f \in Orders, NEW g, NEW E, Grown(f, g, E)
  PROVE  Top(f) \in Nat /\ Top(g) \in Nat /\ Top(f) <= Top(g)
<1>1. f \in [Events -> Nat] /\ g \in [Events -> Nat]
  BY DEF Grown, Orders
<1>2. PICK e \in Events : f[e] = Top(f)
  BY <1>1, TopFacts
<1>3. Top(f) \in Nat /\ Top(g) \in Nat /\ g[e] <= Top(g)
  BY <1>1, TopFacts
<1>4. f[e] = 0 \/ g[e] = f[e]
  BY <1>1 DEF Grown, On
<1> QED BY <1>2, <1>3, <1>4

LEMMA RowFacts ==
  ASSUME NEW f \in Orders, NEW e
  PROVE  RowOf(e, f) \in Nat
BY DEF RowOf, Orders

-----------------------------------------------------------------------------
(* Types *)

LEMMA PendingFacts ==
  ASSUME TypeOK
  PROVE  /\ Pending \subseteq On(log)
         /\ Pending \in SUBSET Events
         /\ Fresh \subseteq Observations
         /\ \A o \in Fresh : Obs(o) \in Pending
<1>1. log \in Orders /\ RowOf(mark, log) \in Nat
  BY RowFacts DEF TypeOK
<1>2. On(Since(mark)) \subseteq On(log)
  BY <1>1, AfterFacts DEF Since
<1> QED BY <1>1, <1>2, OrderFacts DEF Pending, Fresh

LEMMA TypeCapture ==
  ASSUME TypeOK, NEW o \in Observations, Capture(o) PROVE TypeOK'
<1>1. log \in Orders /\ Obs(o) \in Events /\ Obs(o) \notin On(log)
  BY Names DEF TypeOK, Capture, Known
<1>2. log' \in Orders
  BY <1>1, WithGrows DEF Capture, Grown
<1> QED BY <1>2 DEF TypeOK, Capture, boundaries, syncing, sweeping

LEMMA TypeRetract ==
  ASSUME TypeOK, NEW m \in Memories, Retract(m) PROVE TypeOK'
<1>1. log \in Orders /\ Ret(m) \in Events /\ Ret(m) \notin On(log)
  BY Names DEF TypeOK, Retract, Known
<1>2. log' \in Orders
  BY <1>1, WithGrows DEF Retract, Grown
<1> QED BY <1>2 DEF TypeOK, Retract, boundaries, syncing, sweeping

LEMMA TypeBoundary ==
  ASSUME TypeOK, BoundaryRead \/ BoundaryAppend \/ BoundaryMark PROVE TypeOK'
<1>1. CASE BoundaryRead
  <2>1. log \in [Events -> Nat]
    BY DEF TypeOK, Orders
  <2>2. LastOf(Pending, log) \in Events /\ Fresh \in SUBSET Observations
    BY <1>1, <2>1, PendingFacts, LastOfFacts DEF BoundaryRead
  <2> QED BY <1>1, <2>2 DEF TypeOK, BoundaryRead, boundaries, syncing, sweeping
<1>2. CASE BoundaryAppend
  <2>1. CASE boundary' = NoBoundary /\ UNCHANGED <<log, sources>>
    BY <1>2, <2>1 DEF TypeOK, BoundaryAppend, NoBoundary, boundaries, syncing, sweeping
  <2>2. ASSUME NEW M \in SUBSET {m \in Memories : Mem(m) \notin Known},
               NEW place \in Bijection(M, 1 .. Cardinality(M)),
               log' = Extended(log, Placed(M, place)),
               sources' = [m \in Memories |->
                             IF m \in M THEN boundary.window ELSE sources[m]],
               boundary' = [boundary EXCEPT !.pc = "mark"]
        PROVE  TypeOK'
    <3>1. log \in Orders /\ Placed(M, place) \in Orders
      BY PlacedFacts DEF TypeOK
    <3>2. log' \in Orders
      BY <2>2, <3>1, ExtendedGrows DEF Grown
    <3>3. sources' \in [Memories -> SUBSET Observations]
      BY <2>2 DEF TypeOK
    <3> QED BY <1>2, <2>2, <3>2, <3>3
            DEF TypeOK, BoundaryAppend, boundaries, syncing, sweeping
  <2> QED BY <1>2, <2>1, <2>2 DEF BoundaryAppend
<1>3. CASE BoundaryMark
  BY <1>3 DEF TypeOK, BoundaryMark, NoBoundary, boundaries, syncing, sweeping
<1> QED BY <1>1, <1>2, <1>3

LEMMA SinceFacts ==
  ASSUME TypeOK, NEW e
  PROVE  /\ Since(e) \in Orders
         /\ On(Since(e)) = {x \in On(log) : log[x] > RowOf(e, log)}
         /\ \A x \in On(Since(e)) : Since(e)[x] = log[x]
<1>1. log \in Orders /\ RowOf(e, log) \in Nat
  BY RowFacts DEF TypeOK
<1> QED BY <1>1, AfterFacts DEF Since

LEMMA TypePush ==
  ASSUME TypeOK, PushRead \/ PushSend \/ PushMark PROVE TypeOK'
<1>1. CASE PushRead
  BY <1>1, SinceFacts DEF TypeOK, PushRead, NoPush, boundaries, sweeping
<1>2. CASE PushSend
  <2>1. relay \in Orders /\ push.rows \in Orders
    BY DEF TypeOK
  <2>2. Grown(relay, relay', On(push.rows))
    BY <1>2, <2>1, ExtendedGrows DEF PushSend
  <2>3. Top(relay) \in Nat /\ Top(relay') \in Nat /\ Top(relay) <= Top(relay')
    BY <2>1, <2>2, GrownTop
  <2>4. relay' \in Orders /\ pulled \in 0 .. Top(relay')
    BY <2>2, <2>3 DEF TypeOK, Grown
  <2>5. push' \in [pc : {"idle", "send", "mark"}, rows : Orders,
                   last : Events \cup {None}]
    <3>1. NoPush \in [pc : {"idle", "send", "mark"}, rows : Orders,
                      last : Events \cup {None}]
      BY NowhereFacts DEF NoPush
    <3>2. ASSUME On(push.rows) \ On(relay) # {}
          PROVE  LastOf(On(push.rows) \ On(relay), push.rows) \in Events
      <4>1. On(push.rows) \ On(relay) \in SUBSET Events /\ push.rows \in [Events -> Nat]
        BY <2>1 DEF On, Orders
      <4> QED BY <3>2, <4>1, LastOfFacts
    <3> QED BY <1>2, <3>1, <3>2 DEF PushSend, NoPush
  <2> QED BY <1>2, <2>4, <2>5 DEF TypeOK, PushSend, boundaries, sweeping
<1>3. CASE PushMark
  BY <1>3, NowhereFacts DEF TypeOK, PushMark, NoPush, boundaries, sweeping
<1> QED BY <1>1, <1>2, <1>3

LEMMA TypePull == ASSUME TypeOK, Pull PROVE TypeOK'
<1>1. log \in Orders /\ relay \in Orders /\ relay \in [Events -> Nat] /\ pulled \in Nat
  BY TopFacts DEF TypeOK, Orders
<1>2. After(pulled, relay) \in Orders
  BY <1>1, AfterFacts
<1>3. log' \in Orders
  BY <1>1, <1>2, ExtendedGrows DEF Pull, Grown
<1>4. pulled' \in 0 .. Top(relay)
  BY <1>1, TopFacts DEF Pull
<1> QED BY <1>3, <1>4 DEF TypeOK, Pull, boundaries, sweeping

\* What another machine adds is one event that is new, and keeps the sources
\* of every memory there is.
LEMMA PeerFacts ==
  ASSUME TypeOK, Peer
  PROVE  \E e \in Events :
           /\ e \notin Known
           /\ relay' = With(relay, e)
           /\ Grown(relay, relay', {e})
           /\ sources' \in [Memories -> SUBSET Observations]
           /\ \A m \in Memories :
                /\ Mem(m) \in Known => sources'[m] = sources[m]
                /\ e = Mem(m) => \A o \in sources'[m] : Obs(o) \in On(relay)
                /\ e = Ret(m) => Mem(m) \in On(relay)
<1>1. relay \in Orders /\ sources \in [Memories -> SUBSET Observations]
  BY DEF TypeOK
<1>2. \A e \in Events : e \notin Known => e \notin On(relay)
  BY DEF Known
<1>3. \A e \in Events : e \notin Known /\ relay' = With(relay, e)
                          => Grown(relay, relay', {e})
  BY <1>1, <1>2, WithGrows
<1>4. CASE \E o \in Observations :
             Obs(o) \notin Known /\ relay' = With(relay, Obs(o)) /\ UNCHANGED sources
  BY <1>1, <1>3, <1>4, Names
<1>5. CASE \E m \in Memories, S \in SUBSET Observations :
             /\ Mem(m) \notin Known
             /\ \A o \in S : Obs(o) \in On(relay)
             /\ relay' = With(relay, Mem(m))
             /\ sources' = [sources EXCEPT ![m] = S]
  <2>1. PICK m \in Memories, S \in SUBSET Observations :
             /\ Mem(m) \notin Known
             /\ \A o \in S : Obs(o) \in On(relay)
             /\ relay' = With(relay, Mem(m))
             /\ sources' = [sources EXCEPT ![m] = S]
    BY <1>5
  <2>2. Mem(m) \in Events /\ Grown(relay, relay', {Mem(m)})
    BY <1>3, <2>1, Names
  <2>3. /\ sources' \in [Memories -> SUBSET Observations]
        /\ sources'[m] = S
        /\ \A n \in Memories : n # m => sources'[n] = sources[n]
    BY <1>1, <2>1
  <2>4. \A n \in Memories :
          /\ Mem(n) \in Known => sources'[n] = sources[n]
          /\ Mem(m) = Mem(n) => \A o \in sources'[n] : Obs(o) \in On(relay)
          /\ Mem(m) # Ret(n)
    BY <2>1, <2>3, Names
  <2> QED BY <2>1, <2>2, <2>3, <2>4
<1>6. CASE \E m \in Memories :
             /\ Mem(m) \in On(relay) /\ Ret(m) \notin Known
             /\ relay' = With(relay, Ret(m))
             /\ UNCHANGED sources
  <2>1. PICK m \in Memories :
             /\ Mem(m) \in On(relay) /\ Ret(m) \notin Known
             /\ relay' = With(relay, Ret(m))
             /\ UNCHANGED sources
    BY <1>6
  <2>2. Ret(m) \in Events /\ Grown(relay, relay', {Ret(m)})
    BY <1>3, <2>1, Names
  <2>3. \A n \in Memories :
          /\ Ret(m) # Mem(n)
          /\ Ret(m) = Ret(n) => Mem(n) \in On(relay)
    BY <2>1, Names
  <2> QED BY <1>1, <2>1, <2>2, <2>3
<1> QED BY <1>4, <1>5, <1>6 DEF Peer

LEMMA TypePeer == ASSUME TypeOK, Peer PROVE TypeOK'
<1>1. PICK e \in Events : /\ Grown(relay, relay', {e})
                          /\ sources' \in [Memories -> SUBSET Observations]
  BY PeerFacts
<1>2. relay \in Orders
  BY DEF TypeOK
<1>3. Top(relay) \in Nat /\ Top(relay') \in Nat /\ Top(relay) <= Top(relay')
  BY <1>1, <1>2, GrownTop
<1>4. relay' \in Orders /\ pulled \in 0 .. Top(relay')
  BY <1>1, <1>3 DEF TypeOK, Grown
<1>5. peers' \in 0 .. MaxPeerEvents
  BY GcAssumption DEF TypeOK, Peer
<1> QED BY <1>1, <1>4, <1>5 DEF TypeOK, Peer, boundaries, sweeping

\* What a sweep is about to delete: rows of an eligible memory or of one of
\* its observations, if no other memory needs that.
LEMMA DoomedFacts ==
  ASSUME TypeOK
  PROVE  /\ Eligible \subseteq MemoriesOn(sweep.rows) \cap RetractedOn(sweep.rows)
         /\ \A e \in Doomed :
              /\ e \in On(sweep.rows) /\ e \in Events
              /\ \E m \in Eligible :
                   \/ e = Mem(m) \/ e = Ret(m)
                   \/ \E o \in Observations :
                        e = Obs(o) /\ o \in sources[m] /\ o \notin Needed
<1>1. Eligible \subseteq MemoriesOn(sweep.rows) \cap RetractedOn(sweep.rows)
  BY DEF Eligible
<1>2. \A m \in Eligible : sources[m] \subseteq Observations
  BY <1>1 DEF TypeOK, MemoriesOn
<1> QED BY <1>1, <1>2 DEF Doomed, On

\* The root is never deleted, so a watermark that loses its row finds another.
LEMMA TargetFacts ==
  ASSUME TypeOK, mark \in Doomed, sweep.rows[Root] = 1
  PROVE  Target \in On(sweep.rows) \ Doomed
<1> DEFINE E == {e \in On(sweep.rows) \ Doomed :
                   sweep.rows[e] <= RowOf(mark, sweep.rows)}
<1>1. sweep.rows \in [Events -> Nat]
  BY DEF TypeOK, Orders
<1>2. RowOf(mark, sweep.rows) \in Nat /\ RowOf(mark, sweep.rows) > 0
  BY <1>1, DoomedFacts DEF RowOf, On
<1>3. Root \notin Doomed
  BY DoomedFacts, Names DEF MemoriesOn
<1>4. Root \in E
  BY <1>1, <1>2, <1>3, Names DEF On
<1>5. E \in SUBSET Events /\ E # {}
  BY <1>4 DEF On
<1>6. LastOf(E, sweep.rows) \in E
  <2> HIDE DEF E
  <2> QED BY <1>1, <1>5, LastOfFacts
<1> QED BY <1>6 DEF Target

\* project.created is row 1, on the log and in what a sweep read of it.
Rooted ==
  /\ Root \in On(log) /\ log[Root] = 1
  /\ sweep.pc = "delete" => sweep.rows[Root] = 1

LEMMA TypeGc ==
  ASSUME TypeOK, Rooted, GcRead \/ GcDelete \/ GcRepair \/ GcKilled
  PROVE  TypeOK'
<1>1. CASE GcRead
  BY <1>1 DEF TypeOK, GcRead, NoSweep, boundaries, syncing
<1>2. CASE GcDelete
  <2>1. CASE Doomed = {}
    BY <1>2, <2>1, NowhereFacts DEF TypeOK, GcDelete, NoSweep, boundaries, syncing
  <2>2. CASE Doomed # {}
    <3>1. log' = [e \in Events |-> IF e \in Doomed THEN 0 ELSE log[e]]
      BY <1>2, <2>2 DEF GcDelete
    <3>2. log' \in Orders
      BY <3>1 DEF TypeOK, Orders, On
    <3>3. sweep' \in [pc : {"idle", "delete", "repair"}, rows : Orders,
                      target : Events \cup {None}]
      <4>1. mark \in Doomed => Target \in Events
        BY <1>2, TargetFacts DEF Rooted, GcDelete, On
      <4>2. NoSweep \in [pc : {"idle", "delete", "repair"}, rows : Orders,
                         target : Events \cup {None}]
        BY NowhereFacts DEF NoSweep
      <4>3. CASE mark \in Doomed
        <5>1. sweep' = [NoSweep EXCEPT !.pc = "repair", !.target = Target]
          BY <1>2, <2>2, <4>3 DEF GcDelete
        <5> QED BY <4>1, <4>2, <4>3, <5>1
      <4>4. CASE mark \notin Doomed
        <5>1. sweep' = NoSweep
          BY <1>2, <2>2, <4>4 DEF GcDelete
        <5> QED BY <4>2, <5>1
      <4> QED BY <4>3, <4>4
    <3>4. gone' \subseteq Events /\ premise' \in BOOLEAN
      <4>1. gone' \subseteq Events
        BY <1>2, <2>2, DoomedFacts DEF TypeOK, GcDelete
      <4>2. premise' \in BOOLEAN
        BY <1>2, <2>2 DEF TypeOK, GcDelete
      <4> QED BY <4>1, <4>2
    <3> QED BY <1>2, <3>2, <3>3, <3>4 DEF TypeOK, GcDelete, boundaries, syncing
  <2> QED BY <2>1, <2>2
<1>3. CASE GcRepair
  BY <1>3, NowhereFacts DEF TypeOK, GcRepair, NoSweep, syncing
<1>4. CASE GcKilled
  BY <1>4, NowhereFacts DEF TypeOK, GcKilled, NoSweep, boundaries, syncing
<1> QED BY <1>1, <1>2, <1>3, <1>4

LEMMA TypeStep ==
  ASSUME TypeOK, Rooted, [Next]_vars PROVE TypeOK'
<1>1. CASE \E o \in Observations : Capture(o)
  BY <1>1, TypeCapture
<1>2. CASE \E m \in Memories : Retract(m)
  BY <1>2, TypeRetract
<1>3. CASE UNCHANGED vars
  BY <1>3 DEF TypeOK, vars, boundaries, syncing, sweeping
<1> QED BY <1>1, <1>2, <1>3, TypeBoundary, TypePush, TypePull, TypePeer, TypeGc
        DEF Next

\* What a step that deletes nothing does to the log: rows are appended, each
\* an event nobody knew or one the relay has.
Appends ==
  \E E \in SUBSET Events :
    /\ Grown(log, log', E)
    /\ \A e \in E : e \notin Known \/ e \in On(relay)

LEMMA Appending ==
  ASSUME TypeOK, [Next]_vars
  PROVE  \/ Appends /\ gone' = gone
         \/ GcDelete /\ Doomed # {}
<1>1. log \in Orders
  BY DEF TypeOK
<1>2. ASSUME NEW o \in Observations, Capture(o)
      PROVE  Grown(log, log', {Obs(o)}) /\ Obs(o) \in Events /\ Obs(o) \notin Known
  BY <1>1, <1>2, WithGrows, Names DEF Capture, Known
<1>3. ASSUME NEW m \in Memories, Retract(m)
      PROVE  Grown(log, log', {Ret(m)}) /\ Ret(m) \in Events /\ Ret(m) \notin Known
  BY <1>1, <1>3, WithGrows, Names DEF Retract, Known
<1>4. ASSUME UNCHANGED log PROVE Appends
  <2>1. Grown(log, log', {})
    BY <1>1, <1>4 DEF Grown
  <2> QED BY <2>1 DEF Appends
<1>5. CASE BoundaryAppend /\ log' # log
  <2>1. PICK M \in SUBSET {m \in Memories : Mem(m) \notin Known} :
          \E place \in Bijection(M, 1 .. Cardinality(M)) :
            log' = Extended(log, Placed(M, place))
    BY <1>5 DEF BoundaryAppend
  <2>2. Grown(log, log', {Mem(m) : m \in M})
    BY <1>1, <2>1, PlacedFacts, ExtendedGrows
  <2>3. \A m \in M : Mem(m) \in Events /\ Mem(m) \notin Known
    BY <2>1, Names
  <2>4. Appends
    BY <2>2, <2>3 DEF Appends
  <2> QED BY <1>5, <2>4 DEF BoundaryAppend, sweeping
<1>6. CASE Pull
  <2>1. pulled \in Nat /\ relay \in Orders
    BY TopFacts DEF TypeOK, Orders
  <2>2. /\ After(pulled, relay) \in Orders
        /\ On(After(pulled, relay)) \subseteq On(relay)
    BY <2>1, AfterFacts
  <2>3. Grown(log, log', On(After(pulled, relay)))
    BY <1>1, <1>6, <2>2, ExtendedGrows DEF Pull
  <2>4. Appends
    BY <2>2, <2>3 DEF Appends, On
  <2> QED BY <1>6, <2>4 DEF Pull, sweeping
<1>7. CASE \E o \in Observations : Capture(o)
  BY <1>2, <1>7 DEF Appends, Capture, sweeping
<1>8. CASE \E m \in Memories : Retract(m)
  BY <1>3, <1>8 DEF Appends, Retract, sweeping
<1>9. CASE BoundaryRead \/ BoundaryMark \/ PushRead \/ PushSend \/ PushMark \/ Peer
  BY <1>4, <1>9 DEF BoundaryRead, BoundaryMark, PushRead, PushSend, PushMark, Peer,
                    sweeping
<1>10. CASE BoundaryAppend /\ log' = log
  BY <1>4, <1>10 DEF BoundaryAppend, sweeping
<1>11. CASE GcRead \/ GcRepair \/ GcKilled \/ UNCHANGED vars
  BY <1>4, <1>11 DEF GcRead, GcRepair, GcKilled, vars, sweeping
<1>12. CASE GcDelete /\ Doomed = {}
  BY <1>4, <1>12 DEF GcDelete
<1> QED BY <1>5, <1>6, <1>7, <1>8, <1>9, <1>10, <1>11, <1>12 DEF Next

LEMMA RootedStep ==
  ASSUME TypeOK, Rooted, [Next]_vars PROVE Rooted'
<1>1. Root \in On(log') /\ log'[Root] = 1
  <2>1. CASE Appends
    BY <2>1 DEF Appends, Grown, Rooted
  <2>2. CASE GcDelete /\ Doomed # {}
    <3>1. Root \notin Doomed
      BY DoomedFacts, Names DEF MemoriesOn
    <3>2. log'[Root] = log[Root]
      BY <2>2, <3>1, Names DEF GcDelete
    <3> QED BY <3>2, Names DEF Rooted, On
  <2> QED BY <2>1, <2>2, Appending
<1>2. sweep'.pc = "delete" => sweep'.rows[Root] = 1
  <2>1. CASE GcRead
    BY <2>1 DEF GcRead, NoSweep, Rooted
  <2>2. CASE UNCHANGED sweep
    BY <2>2 DEF Rooted
  <2>3. CASE GcDelete \/ GcRepair \/ GcKilled
    <3>1. sweep' = NoSweep \/ sweep' = [NoSweep EXCEPT !.pc = "repair",
                                                     !.target = Target]
      BY <2>3 DEF GcDelete, GcRepair, GcKilled
    <3>2. sweep' = NoSweep => sweep'.pc = "idle"
      BY DEF NoSweep
    <3>3. sweep' = [NoSweep EXCEPT !.pc = "repair", !.target = Target]
            => sweep'.pc = "repair"
      BY DEF NoSweep
    <3> QED BY <3>1, <3>2, <3>3
  <2>4. GcRead \/ UNCHANGED sweep \/ GcDelete \/ GcRepair \/ GcKilled
    BY DEF Next, vars, sweeping, Capture, Retract, BoundaryRead, BoundaryAppend,
           BoundaryMark, PushRead, PushSend, PushMark, Pull, Peer
  <2> QED BY <2>1, <2>2, <2>3, <2>4
<1> QED BY <1>1, <1>2 DEF Rooted, On

-----------------------------------------------------------------------------
(* The inductive invariant *)

\* What a sweep deleted is on neither side, and what was pushed or pulled is
\* on the log.
Kept ==
  /\ gone \cap (On(log) \cup On(relay)) = {}
  /\ pushed # None => pushed \in On(log) \cap On(relay)
  /\ \A e \in On(relay) : relay[e] <= pulled => e \in On(log)

\* The push watermark stands for every row up to its own, and so does a push
\* under way for every row up to those it sends.
Pushing ==
  /\ \A e \in On(log) : log[e] <= RowOf(pushed, log) => e \in On(relay)
  /\ push.pc = "send" =>
       \A e \in On(push.rows) :
         /\ e \in On(log) /\ log[e] = push.rows[e]
         /\ \A x \in On(log) :
              log[x] <= log[e] => x \in On(relay) \cup On(push.rows)
  /\ push.pc = "mark" =>
       /\ push.last \in On(log) \cap On(relay)
       /\ \A x \in On(log) : log[x] <= log[push.last] => x \in On(relay)

\* A memory's observations, and a retraction's memory, are on the relay with
\* it, or came before it.
Grounded ==
  \A m \in Memories :
    /\ Mem(m) \in On(relay) => \A o \in sources[m] : Obs(o) \in On(relay)
    /\ Ret(m) \in On(relay) => Mem(m) \in On(relay)
    /\ Mem(m) \in On(log) \ On(relay) =>
         \A o \in sources[m] : Obs(o) \in On(log) /\ log[Obs(o)] <= log[Mem(m)]
    /\ Ret(m) \in On(log) \ On(relay) =>
         Mem(m) \in On(log) /\ log[Mem(m)] <= log[Ret(m)]

\* A memory on the log has its observations there; each one of a reclaimed
\* memory is gone as well, or is there with another memory that has it.
Sourced ==
  /\ \A m \in Memories : Mem(m) \in On(log) =>
       \A o \in sources[m] : Obs(o) \in On(log)
  /\ \A m \in Memories : Mem(m) \in gone => \A o \in sources[m] :
       /\ Obs(o) \in On(log) \cup gone
       /\ Obs(o) \in On(log) => \E n \in MemoriesOn(log) : o \in sources[n]

\* A boundary's window is on the log; a memory that has come since with one of
\* its observations has come over the relay.
Distilling ==
  /\ boundary.pc # "idle" => boundary.last \in On(log)
  /\ boundary.pc = "extract" => \A o \in boundary.window :
       /\ Obs(o) \in On(log)
       /\ \A m \in MemoriesOn(log) : o \in sources[m] => Obs(o) \in On(relay)

\* The rows a sweep has read are still there, each memory with its
\* observations; a memory that has come since shares only those on the relay.
Sweeping ==
  /\ sweep.pc = "delete" =>
       /\ \A e \in On(sweep.rows) : e \in On(log) /\ log[e] = sweep.rows[e]
       /\ \A m \in MemoriesOn(sweep.rows) : \A o \in sources[m] :
            /\ Obs(o) \in On(sweep.rows)
            /\ \A n \in MemoriesOn(log) \ MemoriesOn(sweep.rows) :
                 o \in sources[n] => Obs(o) \in On(relay)
  /\ sweep.pc = "repair" => sweep.target \in On(log)

Marked == sweep.pc # "repair" => mark \in On(log) \cup {None}

Sound ==
  Kept /\ Pushing /\ Grounded /\ Sourced /\ Distilling /\ Sweeping /\ Marked

GcInv == TypeOK /\ Rooted /\ (premise => Sound)

-----------------------------------------------------------------------------
(* What a step changes *)

LEMMA PremiseStep ==
  ASSUME TypeOK, [Next]_vars, premise'
  PROVE  /\ premise
         /\ ~ GcKilled
         /\ GcDelete /\ Doomed # {} => Assumed
<1>1. premise' = premise \/ GcDelete \/ GcKilled
  BY DEF Next, vars, sweeping, Capture, Retract, BoundaryRead, BoundaryAppend,
         BoundaryMark, PushRead, PushSend, PushMark, Pull, Peer, GcRead, GcRepair
<1>2. ~ GcKilled
  BY DEF GcKilled
<1>3. ASSUME GcDelete, Doomed # {} PROVE premise /\ Assumed
  BY <1>3 DEF GcDelete
<1>4. ASSUME GcDelete, Doomed = {} PROVE premise
  BY <1>4 DEF GcDelete
<1> QED BY <1>1, <1>2, <1>3, <1>4

\* The sources of a memory that is known never change.
LEMMA SourcesKept ==
  ASSUME TypeOK, [Next]_vars, NEW m \in Memories, Mem(m) \in Known
  PROVE  sources'[m] = sources[m]
<1>1. CASE UNCHANGED sources
  BY <1>1
<1>2. CASE Peer
  BY <1>2, PeerFacts
<1>3. CASE BoundaryAppend
  BY <1>3 DEF BoundaryAppend, TypeOK
<1>4. UNCHANGED sources \/ Peer \/ BoundaryAppend
  BY DEF Next, vars, Capture, Retract, BoundaryRead, BoundaryMark, PushRead,
         PushSend, PushMark, Pull, GcRead, GcDelete, GcRepair, GcKilled
<1> QED BY <1>1, <1>2, <1>3, <1>4

LEMMA PushSendFacts ==
  ASSUME TypeOK, PushSend
  PROVE  /\ Grown(relay, relay', On(push.rows))
         /\ \/ push'.pc = "idle"
            \/ push'.pc = "mark" /\ push'.last \in On(push.rows)
<1>1. relay \in Orders /\ push.rows \in Orders
  BY DEF TypeOK
<1>2. Grown(relay, relay', On(push.rows))
  BY <1>1, ExtendedGrows DEF PushSend
<1>3. CASE push' = NoPush
  BY <1>2, <1>3 DEF NoPush
<1> DEFINE New == On(push.rows) \ On(relay)
<1>4. CASE New # {} /\ push' = [NoPush EXCEPT !.pc = "mark",
                                             !.last = LastOf(New, push.rows)]
  <2>1. New \in SUBSET Events /\ push.rows \in [Events -> Nat]
    BY <1>1 DEF On, Orders
  <2>2. LastOf(New, push.rows) \in New
    BY <1>4, <2>1, LastOfFacts
  <2>3. push'.pc = "mark" /\ push'.last = LastOf(New, push.rows)
    BY <1>4 DEF NoPush
  <2> QED BY <1>2, <2>2, <2>3
<1> QED BY <1>3, <1>4 DEF PushSend

\* The relay only grows: by the rows of a push, or by what is new.
LEMMA RelayGrows ==
  ASSUME TypeOK, [Next]_vars
  PROVE  \E E \in SUBSET Events :
           /\ Grown(relay, relay', E)
           /\ \/ E = {}
              \/ PushSend /\ E = On(push.rows)
              \/ Peer /\ \A e \in E : e \notin Known
<1>1. relay \in Orders
  BY DEF TypeOK
<1>2. CASE UNCHANGED relay
  BY <1>1, <1>2 DEF Grown
<1>3. CASE PushSend
  BY <1>3, PushSendFacts DEF On
<1>4. CASE Peer
  BY <1>4, PeerFacts
<1>5. UNCHANGED relay \/ PushSend \/ Peer
  BY DEF Next, vars, syncing, Capture, Retract, BoundaryRead, BoundaryAppend,
         BoundaryMark, PushRead, PushMark, Pull, GcRead, GcDelete, GcRepair,
         GcKilled
<1> QED BY <1>2, <1>3, <1>4, <1>5

\* A pull brings all the relay has.
LEMMA PullFacts ==
  ASSUME TypeOK, Pull, Kept
  PROVE  On(relay) \subseteq On(log')
<1>1. log \in Orders /\ relay \in Orders /\ relay \in [Events -> Nat] /\ pulled \in Nat
  BY TopFacts DEF TypeOK, Orders
<1>2. /\ After(pulled, relay) \in Orders
      /\ On(After(pulled, relay)) = {e \in On(relay) : relay[e] > pulled}
  BY <1>1, AfterFacts
<1>3. On(log') = On(log) \cup On(After(pulled, relay))
  BY <1>1, <1>2, ExtendedGrows DEF Pull, Grown
<1>4. \A e \in On(relay) : relay[e] <= pulled \/ relay[e] > pulled
  BY <1>1 DEF On
<1> QED BY <1>2, <1>3, <1>4 DEF Kept

\* How a memory, or a retraction, comes to the log.
LEMMA Arrival ==
  ASSUME TypeOK, [Next]_vars, Kept, NEW m \in Memories
  PROVE  /\ Mem(m) \in On(log') \ On(log) =>
              \/ Mem(m) \in On(relay) /\ On(relay) \subseteq On(log')
              \/ /\ BoundaryAppend /\ boundary.pc = "extract"
                 /\ boundary'.pc # "extract"
                 /\ Mem(m) \notin Known /\ sources'[m] = boundary.window
         /\ Ret(m) \in On(log') \ On(log) =>
              Ret(m) \in On(relay) \/ Mem(m) \in On(log)
<1>1. log \in Orders
  BY DEF TypeOK
<1>2. CASE UNCHANGED log
  BY <1>2
<1>3. ASSUME NEW o \in Observations, Capture(o) PROVE On(log') = On(log) \cup {Obs(o)}
  BY <1>1, <1>3, WithGrows, Names DEF Capture, Known, Grown
<1>4. ASSUME NEW n \in Memories, Retract(n) PROVE On(log') = On(log) \cup {Ret(n)}
  BY <1>1, <1>4, WithGrows, Names DEF Retract, Known, Grown
<1>5. CASE \E o \in Observations : Capture(o)
  BY <1>3, <1>5, Names
<1>6. CASE \E n \in Memories : Retract(n)
  BY <1>4, <1>6, Names DEF Retract
<1>7. CASE BoundaryAppend /\ log' # log
  <2>1. PICK M \in SUBSET {n \in Memories : Mem(n) \notin Known} :
          /\ \E place \in Bijection(M, 1 .. Cardinality(M)) :
               log' = Extended(log, Placed(M, place))
          /\ sources' = [n \in Memories |->
                           IF n \in M THEN boundary.window ELSE sources[n]]
          /\ boundary' = [boundary EXCEPT !.pc = "mark"]
    BY <1>7 DEF BoundaryAppend
  <2>2. On(log') = On(log) \cup {Mem(n) : n \in M}
    <3>1. PICK place \in Bijection(M, 1 .. Cardinality(M)) :
            log' = Extended(log, Placed(M, place))
      BY <2>1
    <3>2. Placed(M, place) \in Orders /\ On(Placed(M, place)) = {Mem(n) : n \in M}
      BY PlacedFacts
    <3> QED BY <1>1, <3>1, <3>2, ExtendedGrows DEF Grown
  <2>3. boundary'.pc # "extract" /\ boundary.pc = "extract"
    BY <1>7, <2>1 DEF TypeOK, BoundaryAppend
  <2>4. ASSUME Mem(m) \in On(log') \ On(log)
        PROVE  Mem(m) \notin Known /\ sources'[m] = boundary.window
    BY <2>1, <2>2, <2>4, Names
  <2>5. Ret(m) \notin On(log') \ On(log)
    BY <2>2, Names
  <2> QED BY <1>7, <2>3, <2>4, <2>5
<1>8. CASE Pull
  <2>1. On(relay) \subseteq On(log')
    BY <1>8, PullFacts
  <2>2. On(log') \subseteq On(log) \cup On(relay)
    <3>1. pulled \in Nat /\ relay \in Orders
      BY TopFacts DEF TypeOK, Orders
    <3> QED BY <1>1, <1>8, <3>1, AfterFacts, ExtendedGrows DEF Pull, Grown
  <2> QED BY <2>1, <2>2
<1>9. CASE GcDelete /\ Doomed # {}
  <2>1. On(log') \subseteq On(log)
    BY <1>1, <1>9 DEF GcDelete, On, Orders
  <2> QED BY <2>1
<1>10. \/ UNCHANGED log
       \/ \E o \in Observations : Capture(o)
       \/ \E n \in Memories : Retract(n)
       \/ BoundaryAppend \/ Pull \/ (GcDelete /\ Doomed # {})
  <2>1. GcDelete /\ Doomed = {} => UNCHANGED log
    BY DEF GcDelete
  <2> QED BY <2>1 DEF Next, vars, BoundaryRead, BoundaryMark, PushRead, PushSend,
                      PushMark, Peer, GcRead, GcRepair, GcKilled
<1> QED BY <1>2, <1>5, <1>6, <1>7, <1>8, <1>9, <1>10

\* What a sweep deletes under its premise is on this machine alone.
LEMMA DeleteFacts ==
  ASSUME TypeOK, Grounded, Sweeping, GcDelete, Doomed # {}, Assumed
  PROVE  /\ Doomed \subseteq On(log)
         /\ Doomed \cap On(relay) = {}
         /\ On(log') = On(log) \ Doomed
         /\ \A e \in On(log') : log'[e] = log[e]
<1>1. sweep.pc = "delete" /\ log' = [e \in Events |-> IF e \in Doomed THEN 0 ELSE log[e]]
  BY DEF GcDelete
<1>2. \A e \in On(sweep.rows) : e \in On(log) /\ log[e] = sweep.rows[e]
  BY <1>1 DEF Sweeping
<1>3. ASSUME NEW e \in On(sweep.rows), Unpushed(e) PROVE e \notin On(relay)
  <2>1. log[e] > RowOf(pushed, log) /\ e \in On(log)
    BY <1>2, <1>3 DEF Unpushed, RowOf, On
  <2>2. log[e] \in Nat /\ RowOf(pushed, log) \in Nat
    BY <2>1, RowFacts DEF TypeOK, Orders, On
  <2>3. RowOf(e, log) = log[e]
    BY <2>1 DEF RowOf, On
  <2> QED BY <2>1, <2>2, <2>3 DEF Assumed
<1>4. ASSUME NEW e \in Doomed PROVE e \notin On(relay)
  <2>1. e \in On(sweep.rows)
    BY DoomedFacts
  <2>2. PICK m \in Eligible :
          \/ e = Mem(m) \/ e = Ret(m)
          \/ \E o \in Observations : e = Obs(o) /\ o \in sources[m] /\ o \notin Needed
    BY DoomedFacts
  <2>3. m \in Memories /\ Mem(m) \in On(sweep.rows) /\ Unpushed(Mem(m))
    BY DEF Eligible, MemoriesOn
  <2>4. Mem(m) \notin On(relay)
    BY <1>3, <2>3
  <2>5. CASE e = Ret(m)
    BY <2>3, <2>4, <2>5 DEF Grounded
  <2>6. CASE \E o \in Observations : e = Obs(o) /\ o \in sources[m]
    <3>1. Unpushed(e)
      BY <2>1, <2>6 DEF Eligible
    <3> QED BY <1>3, <2>1, <3>1
  <2> QED BY <2>2, <2>4, <2>5, <2>6
<1>5. Doomed \subseteq On(log)
  BY <1>2, DoomedFacts
<1>6. On(log') = On(log) \ Doomed /\ \A e \in On(log') : log'[e] = log[e]
  BY <1>1 DEF On
<1> QED BY <1>4, <1>5, <1>6

\* The log of a step that deletes nothing, and of one that does.
Adds ==
  /\ gone' = gone
  /\ On(log) \subseteq On(log')
  /\ \A e \in On(log) : log'[e] = log[e]
  /\ \A e \in On(log') \ On(log) :
       /\ \A x \in Events : log[x] < log'[e]
       /\ e \notin Known \/ e \in On(relay)

Deletes ==
  /\ GcDelete /\ Doomed # {} /\ Assumed
  /\ gone' = gone \cup Doomed
  /\ On(log') = On(log) \ Doomed
  /\ \A e \in On(log') : log'[e] = log[e]
  /\ Doomed \cap On(relay) = {} /\ Doomed \subseteq On(log)
  /\ UNCHANGED <<sources, pushed, pulled, push, relay, boundary, mark>>

LEMMA LogStep ==
  ASSUME TypeOK, Sound, [Next]_vars, premise'
  PROVE  Adds \/ Deletes
<1>1. CASE Appends /\ gone' = gone
  BY <1>1 DEF Appends, Grown, Adds
<1>2. CASE GcDelete /\ Doomed # {}
  <2>1. Assumed
    BY <1>2, PremiseStep
  <2>2. /\ Doomed \subseteq On(log)
        /\ Doomed \cap On(relay) = {}
        /\ On(log') = On(log) \ Doomed
        /\ \A e \in On(log') : log'[e] = log[e]
    BY <1>2, <2>1, DeleteFacts DEF Sound
  <2>3. /\ gone' = gone \cup Doomed
        /\ UNCHANGED <<sources, pushed, pulled, push, relay, boundary, mark>>
    BY <1>2 DEF GcDelete, boundaries, syncing
  <2> QED BY <1>2, <2>1, <2>2, <2>3 DEF Deletes
<1> QED BY <1>1, <1>2, Appending

LEMMA RelayStep ==
  ASSUME TypeOK, Sound, [Next]_vars
  PROVE  /\ On(relay) \subseteq On(relay')
         /\ \A e \in On(relay) : relay'[e] = relay[e]
         /\ \A e \in On(relay') \ On(relay) :
              /\ \A x \in Events : relay[x] < relay'[e]
              /\ \/ e \in On(log) /\ e \in On(push.rows) /\ PushSend
                 \/ e \notin Known /\ Peer
<1>1. PICK E \in SUBSET Events :
           /\ Grown(relay, relay', E)
           /\ \/ E = {}
              \/ PushSend /\ E = On(push.rows)
              \/ Peer /\ \A e \in E : e \notin Known
  BY RelayGrows
<1>2. PushSend => On(push.rows) \subseteq On(log)
  BY DEF PushSend, Sound, Pushing
<1> QED BY <1>1, <1>2 DEF Grown

\* A memory is deleted with its retraction.
LEMMA DoomedMemory ==
  ASSUME TypeOK, NEW m \in Memories, Mem(m) \in Doomed
  PROVE  /\ m \in Eligible /\ Ret(m) \in Doomed
         /\ \A o \in sources[m] :
              Obs(o) \in On(sweep.rows) => Obs(o) \in Doomed \/ o \in Needed
<1>1. PICK k \in Eligible :
        \/ Mem(m) = Mem(k) \/ Mem(m) = Ret(k)
        \/ \E o \in Observations : Mem(m) = Obs(o)
  BY DoomedFacts
<1>2. Eligible \subseteq Memories
  BY DEF Eligible, MemoriesOn
<1>3. m = k
  BY <1>1, <1>2, Names
<1>4. m \in Eligible /\ Ret(m) \in On(sweep.rows)
  BY <1>1, <1>3, DoomedFacts DEF RetractedOn
<1> QED BY <1>4 DEF Doomed

-----------------------------------------------------------------------------
(* Each part of the invariant is kept *)

LEMMA KeptStep ==
  ASSUME TypeOK, TypeOK', Sound, [Next]_vars, premise'
  PROVE  Kept'
<1> USE DEF Sound
<1>1. gone' \cap (On(log') \cup On(relay')) = {}
  <2>1. gone \cap (On(log) \cup On(relay)) = {}
    BY DEF Kept
  <2>2. \A e \in On(relay') : e \in On(relay) \/ e \in On(log) \/ e \notin Known
    BY RelayStep
  <2>3. CASE Adds
    BY <2>1, <2>2, <2>3 DEF Adds, Known
  <2>4. CASE Deletes
    BY <2>1, <2>4 DEF Deletes
  <2> QED BY <2>3, <2>4, LogStep
<1>2. pushed' # None => pushed' \in On(log') \cap On(relay')
  <2>1. CASE PushMark
    <3>1. pushed' = push.last /\ push.pc = "mark" /\ log' = log /\ relay' = relay
      BY <2>1 DEF PushMark
    <3> QED BY <3>1 DEF Pushing
  <2>2. CASE UNCHANGED pushed
    <3>1. On(relay) \subseteq On(relay')
      BY RelayStep
    <3>2. \A e \in On(log) \cap On(relay) : e \in On(log')
      BY LogStep DEF Adds, Deletes
    <3> QED BY <2>2, <3>1, <3>2 DEF Kept
  <2>3. PushMark \/ UNCHANGED pushed
    BY DEF Next, vars, syncing, Capture, Retract, BoundaryRead, BoundaryAppend,
           BoundaryMark, PushRead, PushSend, Pull, Peer, GcRead, GcDelete, GcRepair,
           GcKilled
  <2> QED BY <2>1, <2>2, <2>3
<1>3. ASSUME NEW e \in On(relay'), relay'[e] <= pulled' PROVE e \in On(log')
  <2>1. CASE Pull
    <3>1. relay' = relay
      BY <2>1 DEF Pull
    <3> QED BY <2>1, <3>1, PullFacts
  <2>2. CASE UNCHANGED pulled
    <3>1. relay \in [Events -> Nat] /\ pulled \in Nat /\ pulled <= Top(relay)
      BY TopFacts DEF TypeOK, Orders
    <3>2. e \in On(relay)
      <4>1. SUFFICES ASSUME e \notin On(relay) PROVE FALSE
        OBVIOUS
      <4>2. \A x \in Events : relay[x] < relay'[e]
        BY <4>1, RelayStep
      <4>3. PICK x \in Events : relay[x] = Top(relay)
        BY <3>1, TopFacts
      <4>4. relay'[e] \in Nat
        BY DEF TypeOK, Orders, On
      <4> QED BY <1>3, <2>2, <3>1, <4>2, <4>3, <4>4
    <3>3. relay'[e] = relay[e]
      BY <3>2, RelayStep
    <3>4. e \in On(log)
      BY <1>3, <2>2, <3>2, <3>3 DEF Kept
    <3> QED BY <3>2, <3>4, LogStep DEF Adds, Deletes
  <2>3. Pull \/ UNCHANGED pulled
    BY DEF Next, vars, syncing, Capture, Retract, BoundaryRead, BoundaryAppend,
           BoundaryMark, PushRead, PushSend, PushMark, Peer, GcRead, GcDelete,
           GcRepair, GcKilled
  <2> QED BY <2>1, <2>2, <2>3
<1> QED BY <1>1, <1>2, <1>3 DEF Kept

LEMMA GroundedStep ==
  ASSUME TypeOK, TypeOK', Sound, Sourced', [Next]_vars, premise'
  PROVE  Grounded'
<1> USE DEF Sound
<1> SUFFICES ASSUME NEW m \in Memories
             PROVE  /\ Mem(m) \in On(relay') =>
                         \A o \in sources'[m] : Obs(o) \in On(relay')
                    /\ Ret(m) \in On(relay') => Mem(m) \in On(relay')
                    /\ Mem(m) \in On(log') \ On(relay') => \A o \in sources'[m] :
                         Obs(o) \in On(log') /\ log'[Obs(o)] <= log'[Mem(m)]
                    /\ Ret(m) \in On(log') \ On(relay') =>
                         Mem(m) \in On(log') /\ log'[Mem(m)] <= log'[Ret(m)]
  BY DEF Grounded
<1>1. Mem(m) \in Known => sources'[m] = sources[m]
  BY SourcesKept
<1>2. On(relay) \subseteq On(relay')
  BY RelayStep
\* What a push sends brings what it stands on
<1>3. ASSUME PushSend, NEW e \in On(push.rows), NEW x \in On(log), log[x] <= log[e]
      PROVE  x \in On(relay')
  <2>1. x \in On(relay) \cup On(push.rows)
    BY <1>3 DEF PushSend, Pushing
  <2>2. On(relay') = On(relay) \cup On(push.rows)
    BY <1>3, PushSendFacts DEF Grown
  <2> QED BY <2>1, <2>2
<1>4. ASSUME Mem(m) \in On(relay') PROVE \A o \in sources'[m] : Obs(o) \in On(relay')
  <2>1. CASE Mem(m) \in On(relay)
    BY <1>1, <1>2, <2>1 DEF Grounded, Known
  <2>2. CASE Mem(m) \notin On(relay) /\ PushSend /\ Mem(m) \in On(push.rows) /\ Mem(m) \in On(log)
    BY <1>1, <1>3, <2>2 DEF Grounded, Known
  <2>3. CASE Mem(m) \notin Known /\ Peer
    <3>1. PICK e \in Events :
            /\ Grown(relay, relay', {e})
            /\ e = Mem(m) => \A o \in sources'[m] : Obs(o) \in On(relay)
      BY <2>3, PeerFacts
    <3>2. e = Mem(m)
      BY <1>4, <2>3, <3>1 DEF Grown, Known
    <3> QED BY <1>2, <3>1, <3>2
  <2> QED BY <1>4, <2>1, <2>2, <2>3, RelayStep
<1>5. ASSUME Ret(m) \in On(relay') PROVE Mem(m) \in On(relay')
  <2>1. CASE Ret(m) \in On(relay)
    BY <1>2, <2>1 DEF Grounded
  <2>2. CASE Ret(m) \notin On(relay) /\ PushSend /\ Ret(m) \in On(push.rows) /\ Ret(m) \in On(log)
    BY <1>3, <2>2 DEF Grounded
  <2>3. CASE Ret(m) \notin Known /\ Peer
    <3>1. PICK e \in Events :
            /\ Grown(relay, relay', {e})
            /\ e = Ret(m) => Mem(m) \in On(relay)
      BY <2>3, PeerFacts
    <3>2. e = Ret(m)
      BY <1>5, <2>3, <3>1 DEF Grown, Known
    <3> QED BY <1>2, <3>1, <3>2
  <2> QED BY <1>5, <2>1, <2>2, <2>3, RelayStep
<1>6. log \in [Events -> Nat] /\ On(log) \subseteq Events
  BY OrderFacts DEF TypeOK
<1>7. ASSUME Mem(m) \in On(log'), Mem(m) \notin On(relay'), NEW o \in sources'[m]
      PROVE  Obs(o) \in On(log') /\ log'[Obs(o)] <= log'[Mem(m)]
  <2>1. Obs(o) \in On(log')
    BY <1>7 DEF Sourced
  <2>2. CASE Mem(m) \in On(log)
    <3>1. Obs(o) \in On(log) /\ log[Obs(o)] <= log[Mem(m)]
      BY <1>1, <1>2, <1>7, <2>2 DEF Grounded, Known
    <3>2. log'[Obs(o)] = log[Obs(o)] /\ log'[Mem(m)] = log[Mem(m)]
      BY <1>7, <2>1, <2>2, <3>1, LogStep DEF Adds, Deletes
    <3> QED BY <2>1, <3>1, <3>2
  <2>3. CASE Mem(m) \notin On(log)
    <3>1. Adds /\ sources'[m] = boundary.window /\ boundary.pc = "extract"
      BY <1>2, <1>7, <2>3, LogStep, Arrival DEF Deletes
    <3>2. Obs(o) \in On(log)
      BY <1>7, <3>1 DEF Distilling
    <3>3. log'[Obs(o)] = log[Obs(o)] /\ log[Obs(o)] < log'[Mem(m)]
      BY <1>6, <1>7, <2>3, <3>1, <3>2 DEF Adds
    <3>4. log[Obs(o)] \in Nat /\ log'[Mem(m)] \in Nat
      BY <1>6, <1>7, <3>2 DEF TypeOK, Orders, On
    <3> QED BY <2>1, <3>3, <3>4
  <2> QED BY <2>2, <2>3
<1>8. ASSUME Ret(m) \in On(log'), Ret(m) \notin On(relay')
      PROVE  Mem(m) \in On(log') /\ log'[Mem(m)] <= log'[Ret(m)]
  <2>1. CASE Ret(m) \in On(log)
    <3>1. Mem(m) \in On(log) /\ log[Mem(m)] <= log[Ret(m)]
      BY <1>2, <1>8, <2>1 DEF Grounded
    <3>2. Mem(m) \in On(log')
      <4>1. CASE Adds
        BY <3>1, <4>1 DEF Adds
      <4>2. CASE Deletes
        <5>1. Ret(m) \notin Doomed
          BY <1>8, <4>2 DEF Deletes
        <5>2. Mem(m) \notin Doomed
          BY <5>1, DoomedMemory
        <5> QED BY <3>1, <4>2, <5>2 DEF Deletes
      <4> QED BY <4>1, <4>2, LogStep
    <3>3. log'[Ret(m)] = log[Ret(m)] /\ log'[Mem(m)] = log[Mem(m)]
      BY <1>8, <2>1, <3>1, <3>2, LogStep DEF Adds, Deletes
    <3> QED BY <3>1, <3>2, <3>3
  <2>2. CASE Ret(m) \notin On(log)
    <3>1. Adds /\ Mem(m) \in On(log)
      BY <1>2, <1>8, <2>2, LogStep, Arrival DEF Deletes
    <3>2. log'[Mem(m)] = log[Mem(m)] /\ log[Mem(m)] < log'[Ret(m)]
      BY <1>6, <1>8, <2>2, <3>1 DEF Adds
    <3>3. log[Mem(m)] \in Nat /\ log'[Ret(m)] \in Nat
      BY <1>6, <1>8, <3>1 DEF TypeOK, Orders, On
    <3> QED BY <3>1, <3>2, <3>3 DEF Adds
  <2> QED BY <2>1, <2>2
<1> QED BY <1>4, <1>5, <1>7, <1>8

LEMMA PushingStep ==
  ASSUME TypeOK, TypeOK', Sound, [Next]_vars, premise'
  PROVE  Pushing'
<1> USE DEF Sound
<1>1. /\ log \in [Events -> Nat] /\ log' \in [Events -> Nat]
      /\ On(log) \subseteq Events /\ On(log') \subseteq Events
  BY DEF TypeOK, Orders, On
<1>2. On(relay) \subseteq On(relay')
  BY RelayStep
\* An old row keeps its place, and a new one is behind it
<1>3. ASSUME NEW e \in On(log), e \in On(log'), NEW x \in On(log'), log'[x] <= log'[e]
      PROVE  x \in On(log) /\ log'[x] = log[x] /\ log'[e] = log[e]
  <2>1. log'[e] = log[e]
    BY <1>3, LogStep DEF Adds, Deletes
  <2>2. CASE x \in On(log)
    BY <1>3, <2>1, <2>2, LogStep DEF Adds, Deletes
  <2>3. CASE x \notin On(log)
    <3>1. log[e] < log'[x]
      BY <1>1, <1>3, <2>3, LogStep DEF Adds, Deletes
    <3>2. log[e] \in Nat /\ log'[x] \in Nat
      BY <1>1, <1>3
    <3> QED BY <1>3, <2>1, <3>1, <3>2
  <2> QED BY <2>2, <2>3
<1>4. ASSUME NEW e \in On(log'), log'[e] <= RowOf(pushed', log')
      PROVE  e \in On(relay')
  <2>1. CASE PushMark
    <3>1. /\ pushed' = push.last /\ push.pc = "mark" /\ log' = log /\ relay' = relay
          /\ push.last \in On(log)
      BY <2>1 DEF PushMark, Pushing
    <3>2. log[e] <= log[push.last]
      BY <1>1, <1>4, <3>1 DEF RowOf
    <3> QED BY <1>4, <3>1, <3>2 DEF Pushing
  <2>2. CASE UNCHANGED pushed /\ pushed = None
    <3>1. RowOf(pushed', log') = 0
      BY <2>2, Names DEF RowOf
    <3> QED BY <1>1, <1>4, <3>1 DEF On
  <2>3. CASE UNCHANGED pushed /\ pushed # None
    <3>1. pushed \in On(log) /\ pushed \in On(log')
      BY <2>3, LogStep DEF Kept, Adds, Deletes
    <3>2. RowOf(pushed', log') = log'[pushed] /\ RowOf(pushed, log) = log[pushed]
      BY <1>1, <2>3, <3>1 DEF RowOf
    <3>3. e \in On(log) /\ log[e] <= log[pushed]
      BY <1>3, <1>4, <3>1, <3>2
    <3> QED BY <1>2, <3>2, <3>3 DEF Pushing
  <2>4. PushMark \/ UNCHANGED pushed
    BY DEF Next, vars, syncing, Capture, Retract, BoundaryRead, BoundaryAppend,
           BoundaryMark, PushRead, PushSend, Pull, Peer, GcRead, GcDelete, GcRepair,
           GcKilled
  <2> QED BY <2>1, <2>2, <2>3, <2>4
\* A push under way: nothing is deleted, and what is appended comes after
<1>5. ASSUME UNCHANGED push, push.pc # "idle" PROVE Adds
  BY <1>5, LogStep DEF Deletes, Assumed
<1>6. ASSUME NEW e \in On(push'.rows), push'.pc = "send"
      PROVE  /\ e \in On(log') /\ log'[e] = push'.rows[e]
             /\ \A x \in On(log') :
                  log'[x] <= log'[e] => x \in On(relay') \cup On(push'.rows)
  <2>1. CASE PushRead
    <3>1. push'.rows = Since(pushed) /\ log' = log /\ relay' = relay
      BY <2>1 DEF PushRead, NoPush
    <3>2. e \in On(log) /\ log[e] = push'.rows[e] /\ log[e] > RowOf(pushed, log)
      BY <1>6, <3>1, SinceFacts
    <3>3. ASSUME NEW x \in On(log), log[x] <= log[e], x \notin On(relay)
          PROVE  x \in On(push'.rows)
      <4>1. RowOf(pushed, log) \in Nat
        BY RowFacts DEF TypeOK
      <4>2. log[x] > RowOf(pushed, log)
        BY <1>1, <3>3, <4>1 DEF Pushing
      <4> QED BY <3>1, <4>2, SinceFacts
    <3> QED BY <3>1, <3>2, <3>3
  <2>2. CASE UNCHANGED push
    <3>1. Adds
      BY <1>5, <1>6, <2>2
    <3>2. e \in On(log) /\ log[e] = push.rows[e]
      BY <1>6, <2>2 DEF Pushing
    <3>3. e \in On(log') /\ log'[e] = push.rows[e]
      BY <3>1, <3>2 DEF Adds
    <3>4. \A x \in On(log') : log'[x] <= log'[e] =>
             x \in On(log) /\ log[x] <= log[e]
      BY <1>3, <3>2, <3>3
    <3> QED BY <1>2, <1>6, <2>2, <3>3, <3>4 DEF Pushing
  <2>3. CASE PushSend
    BY <1>6, <2>3, PushSendFacts
  <2>4. CASE PushMark
    <3>1. push'.pc = "idle"
      BY <2>4 DEF PushMark, NoPush
    <3> QED BY <1>6, <3>1
  <2>5. PushRead \/ UNCHANGED push \/ PushSend \/ PushMark
    BY DEF Next, vars, syncing, Capture, Retract, BoundaryRead, BoundaryAppend,
           BoundaryMark, Pull, Peer, GcRead, GcDelete, GcRepair, GcKilled
  <2> QED BY <2>1, <2>2, <2>3, <2>4, <2>5
<1>7. ASSUME push'.pc = "mark"
      PROVE  /\ push'.last \in On(log') \cap On(relay')
             /\ \A x \in On(log') : log'[x] <= log'[push'.last] => x \in On(relay')
  <2>1. CASE PushSend
    <3>1. push'.last \in On(push.rows) /\ log' = log
      BY <1>7, <2>1, PushSendFacts DEF PushSend
    <3>2. On(relay') = On(relay) \cup On(push.rows)
      BY <2>1, PushSendFacts DEF Grown
    <3> QED BY <2>1, <3>1, <3>2 DEF PushSend, Pushing
  <2>2. CASE UNCHANGED push
    <3>1. Adds /\ push.pc = "mark"
      BY <1>5, <1>7, <2>2
    <3>2. push.last \in On(log) \cap On(relay)
      BY <3>1 DEF Pushing
    <3>3. push.last \in On(log') \cap On(relay')
      BY <1>2, <3>1, <3>2 DEF Adds
    <3>4. \A x \in On(log') : log'[x] <= log'[push.last] =>
             x \in On(log) /\ log[x] <= log[push.last]
      BY <1>3, <3>2, <3>3
    <3> QED BY <1>2, <2>2, <3>1, <3>3, <3>4 DEF Pushing
  <2>3. CASE PushRead \/ PushMark
    <3>1. PushRead => push'.pc = "send"
      BY DEF PushRead, NoPush
    <3>2. PushMark => push'.pc = "idle"
      BY DEF PushMark, NoPush
    <3> QED BY <1>7, <2>3, <3>1, <3>2
  <2>4. PushRead \/ UNCHANGED push \/ PushSend \/ PushMark
    BY DEF Next, vars, syncing, Capture, Retract, BoundaryRead, BoundaryAppend,
           BoundaryMark, Pull, Peer, GcRead, GcDelete, GcRepair, GcKilled
  <2> QED BY <2>1, <2>2, <2>3, <2>4
<1> QED BY <1>4, <1>6, <1>7 DEF Pushing

\* A sweep spares the observations of the memories it leaves, those that came
\* while it was deciding included.
LEMMA SourcedDelete ==
  ASSUME TypeOK, Sound, Deletes PROVE Sourced'
<1> USE DEF Sound
<1>1. sweep.pc = "delete" /\ sources' = sources
  BY DEF Deletes, GcDelete
<1>2. /\ \A e \in On(sweep.rows) : e \in On(log)
      /\ \A m \in MemoriesOn(sweep.rows) : \A o \in sources[m] :
           /\ Obs(o) \in On(sweep.rows)
           /\ \A n \in MemoriesOn(log) \ MemoriesOn(sweep.rows) :
                o \in sources[n] => Obs(o) \in On(relay)
  BY <1>1 DEF Sweeping
<1>3. \A m \in Memories : sources[m] \subseteq Observations
  BY DEF TypeOK
<1>4. ASSUME NEW m \in Memories, Mem(m) \in On(log'), NEW o \in sources[m]
      PROVE  Obs(o) \in On(log')
  <2>1. Mem(m) \in On(log) /\ Mem(m) \notin Doomed
    BY <1>4 DEF Deletes
  <2>2. SUFFICES ASSUME Obs(o) \in Doomed PROVE FALSE
    BY <1>4, <2>1 DEF Sourced, Deletes
  <2>3. PICK k \in Eligible : o \in sources[k] /\ o \notin Needed
    BY <1>3, <2>2, DoomedFacts, Names DEF MemoriesOn
  <2>4. k \in MemoriesOn(sweep.rows)
    BY DoomedFacts
  <2>5. CASE m \in MemoriesOn(sweep.rows)
    <3>1. m \notin Eligible
      <4>1. m \in Eligible => Mem(m) \in Doomed
        BY <2>5 DEF Doomed, MemoriesOn
      <4> QED BY <2>1, <4>1
    <3> QED BY <1>4, <2>3, <2>5, <3>1 DEF Needed
  <2>6. CASE m \notin MemoriesOn(sweep.rows)
    <3>1. m \in MemoriesOn(log)
      BY <2>1 DEF MemoriesOn
    <3>2. Obs(o) \in On(relay)
      BY <1>2, <1>4, <2>3, <2>4, <2>6, <3>1
    <3> QED BY <2>2, <3>2 DEF Deletes
  <2> QED BY <2>5, <2>6
<1>5. ASSUME NEW m \in Eligible, NEW o \in sources[m], Obs(o) \notin Doomed
      PROVE  \E n \in MemoriesOn(log') : o \in sources[n]
  <2>1. m \in MemoriesOn(sweep.rows) /\ Obs(o) \in On(sweep.rows)
    BY <1>2, DoomedFacts
  <2>2. o \in Needed
    BY <1>5, <2>1 DEF Doomed
  <2>3. PICK n \in MemoriesOn(sweep.rows) \ Eligible : o \in sources[n]
    BY <2>2 DEF Needed
  <2>4. n \in Memories /\ Mem(n) \in On(sweep.rows)
    BY <2>3 DEF MemoriesOn
  <2>5. Mem(n) \notin Doomed
    BY <2>3, <2>4, DoomedMemory
  <2>6. Mem(n) \in On(log')
    BY <1>2, <2>4, <2>5 DEF Deletes
  <2> QED BY <2>3, <2>4, <2>6 DEF MemoriesOn
<1>6. ASSUME NEW m \in Memories, Mem(m) \in gone', NEW o \in sources[m]
      PROVE  /\ Obs(o) \in On(log') \cup gone'
             /\ Obs(o) \in On(log') => \E n \in MemoriesOn(log') : o \in sources[n]
  <2>1. CASE Mem(m) \in gone
    <3>1. Obs(o) \in On(log') \cup gone'
      BY <1>6, <2>1 DEF Sourced, Deletes
    <3>2. ASSUME Obs(o) \in On(log')
          PROVE  \E n \in MemoriesOn(log') : o \in sources[n]
      <4>1. Obs(o) \in On(log) /\ Obs(o) \notin Doomed
        BY <3>2 DEF Deletes
      <4>2. PICK n \in MemoriesOn(log) : o \in sources[n]
        BY <1>6, <2>1, <4>1 DEF Sourced
      <4>3. n \in Memories /\ Mem(n) \in On(log)
        BY <4>2 DEF MemoriesOn
      <4>4. CASE Mem(n) \in Doomed
        <5>1. n \in Eligible
          BY <4>3, <4>4, DoomedMemory
        <5> QED BY <1>5, <4>1, <4>2, <5>1
      <4>5. CASE Mem(n) \notin Doomed
        <5>1. n \in MemoriesOn(log')
          BY <4>3, <4>5 DEF Deletes, MemoriesOn
        <5> QED BY <4>2, <5>1
      <4> QED BY <4>4, <4>5
    <3> QED BY <3>1, <3>2
  <2>2. CASE Mem(m) \in Doomed
    <3>1. m \in Eligible /\ m \in MemoriesOn(sweep.rows)
      BY <2>2, DoomedMemory, DoomedFacts
    <3>2. Obs(o) \in On(log)
      BY <1>2, <1>6, <3>1
    <3>3. Obs(o) \in On(log') \cup gone'
      BY <3>2 DEF Deletes
    <3>4. Obs(o) \in On(log') => Obs(o) \notin Doomed
      BY DEF Deletes
    <3> QED BY <1>5, <1>6, <3>1, <3>3, <3>4
  <2> QED BY <1>6, <2>1, <2>2 DEF Deletes
<1> QED BY <1>1, <1>4, <1>6 DEF Sourced

LEMMA SourcedStep ==
  ASSUME TypeOK, Sound, Kept', [Next]_vars, premise'
  PROVE  Sourced'
<1> USE DEF Sound
<1>1. CASE Deletes
  BY <1>1, SourcedDelete
<1>2. CASE Adds
  <2>1. ASSUME NEW m \in Memories, Mem(m) \in On(log'), NEW o \in sources'[m]
        PROVE  Obs(o) \in On(log')
    <3>1. Mem(m) \in Known => sources'[m] = sources[m]
      BY SourcesKept
    <3>2. CASE Mem(m) \in On(log)
      BY <1>2, <2>1, <3>1, <3>2 DEF Sourced, Adds, Known
    <3>3. CASE Mem(m) \notin On(log) /\ Mem(m) \in On(relay)
      <4>1. On(relay) \subseteq On(log')
        BY <2>1, <3>3, Arrival DEF Known
      <4> QED BY <2>1, <3>1, <3>3, <4>1 DEF Grounded, Known
    <3>4. CASE Mem(m) \notin On(log) /\ Mem(m) \notin On(relay)
      <4>1. sources'[m] = boundary.window /\ boundary.pc = "extract"
        BY <2>1, <3>4, Arrival
      <4> QED BY <1>2, <2>1, <4>1 DEF Distilling, Adds
    <3> QED BY <3>2, <3>3, <3>4
  <2>2. ASSUME NEW m \in Memories, Mem(m) \in gone', NEW o \in sources'[m]
        PROVE  /\ Obs(o) \in On(log') \cup gone'
               /\ Obs(o) \in On(log') =>
                    \E n \in MemoriesOn(log') : o \in sources'[n]
    <3>1. Mem(m) \in gone /\ sources'[m] = sources[m]
      BY <1>2, <2>2, SourcesKept DEF Adds, Known
    <3>2. Obs(o) \in On(log) \cup gone
      BY <2>2, <3>1 DEF Sourced
    <3>3. ASSUME Obs(o) \in On(log')
          PROVE  \E n \in MemoriesOn(log') : o \in sources'[n]
      <4>1. Obs(o) \in On(log)
        BY <1>2, <3>2, <3>3 DEF Kept, Adds
      <4>2. PICK n \in MemoriesOn(log) : o \in sources[n]
        BY <2>2, <3>1, <4>1 DEF Sourced
      <4>3. n \in Memories /\ Mem(n) \in On(log)
        BY <4>2 DEF MemoriesOn
      <4>4. sources'[n] = sources[n]
        BY <4>3, SourcesKept DEF Known
      <4>5. n \in MemoriesOn(log')
        BY <1>2, <4>3 DEF Adds, MemoriesOn
      <4> QED BY <4>2, <4>4, <4>5
    <3> QED BY <1>2, <3>2, <3>3 DEF Adds
  <2> QED BY <2>1, <2>2 DEF Sourced
<1> QED BY <1>1, <1>2, LogStep

LEMMA DistillingStep ==
  ASSUME TypeOK, Sound, [Next]_vars, premise'
  PROVE  Distilling'
<1> USE DEF Sound
<1>1. boundary.pc # "idle" => Adds
  BY LogStep DEF Deletes, Assumed
<1>2. On(relay) \subseteq On(relay')
  BY RelayStep
<1>3. CASE BoundaryRead
  <2>1. log' = log /\ sources' = sources /\ relay' = relay
    BY <1>3 DEF BoundaryRead, syncing
  <2>2. CASE UNCHANGED boundary /\ boundary.pc = "idle"
    BY <2>2 DEF Distilling
  <2>3. CASE boundary' = [pc |-> "extract", window |-> Fresh,
                          last |-> LastOf(Pending, log)]
    <3>1. log \in [Events -> Nat]
      BY DEF TypeOK, Orders
    <3>2. LastOf(Pending, log) \in On(log)
      BY <1>3, <3>1, PendingFacts, LastOfFacts DEF BoundaryRead
    <3>3. \A o \in Fresh : Obs(o) \in On(log)
      BY PendingFacts
    <3>4. \A o \in Fresh : \A m \in MemoriesOn(log) : o \notin sources[m]
      BY DEF Fresh
    <3>5. boundary'.last = LastOf(Pending, log) /\ boundary'.window = Fresh
      BY <2>3
    <3> QED BY <2>1, <3>2, <3>3, <3>4, <3>5 DEF Distilling
  <2> QED BY <1>3, <2>2, <2>3 DEF BoundaryRead
<1>4. CASE BoundaryAppend
  <2>1. CASE boundary' = NoBoundary
    <3>1. boundary'.pc = "idle"
      BY <2>1 DEF NoBoundary
    <3> QED BY <3>1 DEF Distilling
  <2>2. CASE boundary' = [boundary EXCEPT !.pc = "mark"]
    <3>1. boundary'.pc = "mark" /\ boundary'.last = boundary.last
      BY <2>2 DEF TypeOK
    <3>2. boundary.last \in On(log) /\ Adds
      BY <1>1, <1>4 DEF BoundaryAppend, Distilling
    <3> QED BY <3>1, <3>2 DEF Distilling, Adds
  <2> QED BY <1>4, <2>1, <2>2 DEF BoundaryAppend
<1>5. CASE BoundaryMark
  <2>1. boundary'.pc = "idle"
    BY <1>5 DEF BoundaryMark, NoBoundary
  <2> QED BY <2>1 DEF Distilling
<1>6. CASE UNCHANGED boundary /\ ~ BoundaryAppend
  <2>1. CASE boundary.pc = "idle"
    BY <1>6, <2>1 DEF Distilling
  <2>2. CASE boundary.pc # "idle"
    <3>1. Adds
      BY <1>1, <2>2
    <3>2. boundary.last \in On(log')
      BY <2>2, <3>1 DEF Distilling, Adds
    <3>3. ASSUME boundary.pc = "extract", NEW o \in boundary.window
          PROVE  /\ Obs(o) \in On(log')
                 /\ \A m \in MemoriesOn(log') :
                      o \in sources'[m] => Obs(o) \in On(relay')
      <4>1. Obs(o) \in On(log')
        BY <3>1, <3>3 DEF Distilling, Adds
      <4>2. ASSUME NEW m \in MemoriesOn(log'), o \in sources'[m]
            PROVE  Obs(o) \in On(relay')
        <5>1. m \in Memories /\ Mem(m) \in On(log')
          BY DEF MemoriesOn
        <5>2. Mem(m) \in On(log) \/ Mem(m) \in On(relay)
          BY <1>6, <5>1, Arrival
        <5>3. sources'[m] = sources[m]
          BY <5>1, <5>2, SourcesKept DEF Known
        <5>4. CASE Mem(m) \in On(log)
          BY <1>2, <3>3, <4>2, <5>1, <5>3, <5>4 DEF Distilling, MemoriesOn
        <5>5. CASE Mem(m) \in On(relay)
          BY <1>2, <4>2, <5>1, <5>3, <5>5 DEF Grounded
        <5> QED BY <5>2, <5>4, <5>5
      <4> QED BY <4>1, <4>2
    <3> QED BY <1>6, <3>2, <3>3 DEF Distilling
  <2> QED BY <2>1, <2>2
<1>7. BoundaryRead \/ BoundaryAppend \/ BoundaryMark \/ UNCHANGED boundary
  BY DEF Next, vars, boundaries, Capture, Retract, PushRead, PushSend, PushMark,
         Pull, Peer, GcRead, GcDelete, GcRepair, GcKilled
<1> QED BY <1>3, <1>4, <1>5, <1>6, <1>7

LEMMA DeletedSome ==
  ASSUME TypeOK, Sound, [Next]_vars, premise', GcDelete, Doomed # {}
  PROVE  Deletes
<1>1. Doomed \subseteq On(log) /\ Doomed \cap On(log') = {}
  <2>1. sweep.pc = "delete"
        /\ log' = [e \in Events |-> IF e \in Doomed THEN 0 ELSE log[e]]
    BY DEF GcDelete
  <2>2. Doomed \subseteq On(log)
    BY <2>1, DoomedFacts DEF Sound, Sweeping
  <2> QED BY <2>1, <2>2 DEF On
<1> QED BY <1>1, LogStep DEF Adds

LEMMA SweepingStep ==
  ASSUME TypeOK, Rooted, Sound, [Next]_vars, premise'
  PROVE  Sweeping'
<1> USE DEF Sound
<1>1. CASE GcRead
  <2>1. /\ sweep'.pc = "delete" /\ sweep'.rows = log
        /\ log' = log /\ sources' = sources
    BY <1>1 DEF GcRead, NoSweep
  <2>2. \A m \in MemoriesOn(log) : \A o \in sources[m] : Obs(o) \in On(log)
    BY DEF Sourced, MemoriesOn
  <2> QED BY <2>1, <2>2 DEF Sweeping
<1>2. CASE (GcDelete /\ sweep' = NoSweep) \/ GcRepair \/ GcKilled
  <2>1. sweep' = NoSweep
    BY <1>2 DEF GcRepair, GcKilled
  <2>2. sweep'.pc = "idle"
    BY <2>1 DEF NoSweep
  <2> QED BY <2>2 DEF Sweeping
<1>3. CASE GcDelete /\ sweep' # NoSweep
  <2>1. /\ Doomed # {} /\ mark \in Doomed /\ sweep.pc = "delete"
        /\ sweep' = [NoSweep EXCEPT !.pc = "repair", !.target = Target]
    BY <1>3 DEF GcDelete
  <2>2. sweep'.pc = "repair" /\ sweep'.target = Target
    BY <2>1 DEF NoSweep
  <2>3. Target \in On(sweep.rows) \ Doomed
    BY <2>1, TargetFacts DEF Rooted
  <2>4. Deletes
    BY <1>3, <2>1, DeletedSome
  <2>5. Target \in On(log')
    BY <2>1, <2>3, <2>4 DEF Sweeping, Deletes
  <2> QED BY <2>2, <2>5 DEF Sweeping
<1>4. CASE UNCHANGED sweep /\ ~ GcDelete
  <2>1. Adds
    BY <1>4, LogStep DEF Deletes
  <2>2. On(relay) \subseteq On(relay')
    BY RelayStep
  <2>3. sweep.pc = "repair" => sweep.target \in On(log')
    BY <2>1 DEF Sweeping, Adds
  <2>4. ASSUME sweep.pc = "delete", NEW e \in On(sweep.rows)
        PROVE  e \in On(log') /\ log'[e] = sweep.rows[e]
    BY <2>1, <2>4 DEF Sweeping, Adds
  <2>5. ASSUME sweep.pc = "delete", NEW m \in MemoriesOn(sweep.rows),
               NEW o \in sources'[m]
        PROVE  /\ Obs(o) \in On(sweep.rows)
               /\ \A n \in MemoriesOn(log') \ MemoriesOn(sweep.rows) :
                    o \in sources'[n] => Obs(o) \in On(relay')
    <3>1. m \in Memories /\ Mem(m) \in On(log)
      BY <2>5 DEF MemoriesOn, Sweeping
    <3>2. o \in sources[m]
      BY <2>5, <3>1, SourcesKept DEF Known
    <3>3. ASSUME NEW n \in MemoriesOn(log') \ MemoriesOn(sweep.rows),
                 o \in sources'[n]
          PROVE  Obs(o) \in On(relay')
      <4>1. n \in Memories /\ Mem(n) \in On(log')
        BY DEF MemoriesOn
      <4>2. CASE Mem(n) \in On(log)
        <5>1. sources'[n] = sources[n] /\ n \in MemoriesOn(log)
          BY <4>1, <4>2, SourcesKept DEF Known, MemoriesOn
        <5> QED BY <2>2, <2>5, <3>2, <3>3, <5>1 DEF Sweeping
      <4>3. CASE Mem(n) \notin On(log) /\ Mem(n) \in On(relay)
        <5>1. sources'[n] = sources[n]
          BY <4>1, <4>3, SourcesKept DEF Known
        <5> QED BY <2>2, <3>3, <4>1, <4>3, <5>1 DEF Grounded
      <4>4. CASE Mem(n) \notin On(log) /\ Mem(n) \notin On(relay)
        <5>1. boundary.pc = "extract" /\ o \in boundary.window
          BY <3>3, <4>1, <4>4, Arrival
        <5>2. m \in MemoriesOn(log)
          BY <3>1 DEF MemoriesOn
        <5> QED BY <2>2, <3>2, <5>1, <5>2 DEF Distilling
      <4> QED BY <4>2, <4>3, <4>4
    <3> QED BY <2>5, <3>2, <3>3 DEF Sweeping
  <2> QED BY <1>4, <2>3, <2>4, <2>5 DEF Sweeping
<1>5. GcRead \/ GcDelete \/ GcRepair \/ GcKilled \/ UNCHANGED sweep
  BY DEF Next, vars, sweeping, Capture, Retract, BoundaryRead, BoundaryAppend,
         BoundaryMark, PushRead, PushSend, PushMark, Pull, Peer
<1> QED BY <1>1, <1>2, <1>3, <1>4, <1>5

LEMMA MarkedStep ==
  ASSUME TypeOK, Sound, [Next]_vars, premise'
  PROVE  Marked'
<1> USE DEF Sound
<1>1. CASE GcDelete /\ Doomed # {}
  <2>1. Deletes
    BY <1>1, DeletedSome
  <2>2. CASE mark \in Doomed
    <3>1. sweep' = [NoSweep EXCEPT !.pc = "repair", !.target = Target]
      BY <1>1, <2>2 DEF GcDelete
    <3>2. sweep'.pc = "repair"
      BY <3>1 DEF NoSweep
    <3> QED BY <3>2 DEF Marked
  <2>3. CASE mark \notin Doomed
    <3>1. sweep.pc # "repair"
      BY <1>1 DEF GcDelete
    <3> QED BY <2>1, <2>3, <3>1 DEF Marked, Deletes
  <2> QED BY <2>2, <2>3
<1>2. CASE ~ (GcDelete /\ Doomed # {})
  <2>1. Adds
    BY <1>2, LogStep DEF Deletes
  <2>2. On(log) \subseteq On(log')
    BY <2>1 DEF Adds
  <2>3. CASE BoundaryRead
    <3>1. log \in [Events -> Nat]
      BY DEF TypeOK, Orders
    <3>2. LastOf(Pending, log) \in On(log)
      BY <2>3, <3>1, PendingFacts, LastOfFacts DEF BoundaryRead
    <3>3. sweep' = sweep /\ (mark' = mark \/ mark' = LastOf(Pending, log))
      BY <2>3 DEF BoundaryRead, sweeping
    <3> QED BY <2>2, <3>2, <3>3 DEF Marked
  <2>4. CASE BoundaryMark
    <3>1. mark' = boundary.last /\ boundary.pc = "mark"
      BY <2>4 DEF BoundaryMark
    <3> QED BY <2>2, <3>1 DEF Marked, Distilling
  <2>5. CASE GcRepair
    <3>1. mark' = sweep.target /\ sweep.pc = "repair"
      BY <2>5 DEF GcRepair
    <3> QED BY <2>2, <3>1 DEF Marked, Sweeping
  <2>6. CASE (GcRead \/ GcDelete) /\ UNCHANGED mark
    <3>1. sweep.pc # "repair"
      BY <2>6 DEF GcRead, GcDelete
    <3> QED BY <2>2, <2>6, <3>1 DEF Marked
  <2>7. CASE UNCHANGED <<mark, sweep>>
    BY <2>2, <2>7 DEF Marked
  <2>8. \/ BoundaryRead \/ BoundaryMark \/ GcRepair
        \/ (GcRead \/ GcDelete) /\ UNCHANGED mark
        \/ UNCHANGED <<mark, sweep>>
    <3>1. ~ GcKilled
      BY PremiseStep
    <3> QED BY <3>1 DEF Next, vars, boundaries, sweeping, Capture, Retract,
               BoundaryAppend, PushRead, PushSend, PushMark, Pull, Peer, GcRead,
               GcDelete
  <2> QED BY <2>3, <2>4, <2>5, <2>6, <2>7, <2>8
<1> QED BY <1>1, <1>2

-----------------------------------------------------------------------------
(* Theorems *)

LEMMA GcInit == Init => GcInv
<1> SUFFICES ASSUME Init PROVE GcInv
  OBVIOUS
<1>1. /\ Nowhere \in Orders /\ On(Nowhere) = {} /\ Nowhere \in [Events -> Nat]
      /\ \A e \in Events : Nowhere[e] = 0
  BY NowhereFacts DEF Nowhere, Orders
<1>2. log \in Orders /\ On(log) = {Root} /\ log[Root] = 1
  <2>1. log \in [Events -> Nat] /\ \A e \in Events : log[e] = IF e = Root THEN 1 ELSE 0
    BY <1>1, Names DEF Init
  <2> QED BY <2>1, Names DEF On, Orders
<1>3. Top(relay) \in Nat
  BY <1>1, TopFacts DEF Init
<1>4. TypeOK
  BY <1>1, <1>2, <1>3, GcAssumption
     DEF Init, TypeOK, NoBoundary, NoPush, NoSweep
<1>5. Rooted
  BY <1>2 DEF Init, Rooted, NoSweep
<1>6. Kept /\ Pushing
  <2>1. RowOf(None, log) = 0
    BY Names DEF RowOf
  <2>2. ~ (log[Root] <= RowOf(pushed, log))
    BY <1>2, <2>1 DEF Init
  <2>3. push.pc = "idle"
    BY DEF Init, NoPush
  <2>4. Pushing
    BY <1>2, <2>2, <2>3 DEF Pushing
  <2>5. Kept
    BY <1>1 DEF Init, Kept
  <2> QED BY <2>4, <2>5
<1>7. Grounded /\ Sourced
  BY <1>1, <1>2, Names DEF Init, Grounded, Sourced
<1>8. Distilling /\ Sweeping /\ Marked
  BY DEF Init, Distilling, Sweeping, Marked, NoBoundary, NoSweep
<1> QED BY <1>4, <1>5, <1>6, <1>7, <1>8 DEF GcInv, Sound

LEMMA GcStep == GcInv /\ [Next]_vars => GcInv'
<1> SUFFICES ASSUME GcInv, [Next]_vars PROVE GcInv'
  OBVIOUS
<1> USE DEF GcInv
<1>1. TypeOK' /\ Rooted'
  BY TypeStep, RootedStep
<1>2. ASSUME premise' PROVE Sound'
  <2>1. Sound
    BY <1>2, PremiseStep
  <2>2. Kept' /\ Pushing'
    BY <1>1, <1>2, <2>1, KeptStep, PushingStep
  <2>3. Sourced'
    BY <1>2, <2>1, <2>2, SourcedStep
  <2>4. Grounded'
    BY <1>1, <1>2, <2>1, <2>3, GroundedStep
  <2>5. Distilling' /\ Sweeping' /\ Marked'
    BY <1>2, <2>1, DistillingStep, SweepingStep, MarkedStep
  <2> QED BY <2>2, <2>3, <2>4, <2>5 DEF Sound
<1> QED BY <1>1, <1>2

\* The state a store is in, whatever the premise, and what the sweeps keep as
\* long as it holds.
THEOREM GcInvHolds == Spec => []GcInv
BY GcInit, GcStep, PTL DEF Spec

\* A surviving memory keeps every observation it was distilled from, however
\* the sweep's reading and deleting interleave with boundaries and pulls
\* (gcUnpushedRetracted, survivorObs).
THEOREM ProvenanceKeptHolds == Spec => []ProvenanceKept
<1>1. GcInv => ProvenanceKept
  BY DEF GcInv, Sound, Sourced, ProvenanceKept, MemoriesOn
<1> QED BY <1>1, GcInvHolds, PTL

\* An observation of a reclaimed memory that is still on the log is one of
\* another memory on the log, so no boundary distils it again
\* (gcUnpushedRetracted, consolidate's dedup guard).
THEOREM NoRevivalHolds == Spec => []NoRevival
<1>1. GcInv => NoRevival
  BY DEF GcInv, Sound, Sourced, NoRevival
<1> QED BY <1>1, GcInvHolds, PTL

\* Outside the two transactions of a sweep the consolidation watermark names a
\* row (repairWatermarkTo).
THEOREM MarkOnLogHolds == Spec => []MarkOnLog
<1>1. GcInv => MarkOnLog
  BY DEF GcInv, Sound, Marked, MarkOnLog
<1> QED BY <1>1, GcInvHolds, PTL

\* No sweep takes away the row the push watermark names, or an event that
\* neither a pull nor a push would bring back (isUnpushed, markPushed).
THEOREM SharedKeptHolds == Spec => []SharedKept
<1>1. GcInv => SharedKept
  BY DEF GcInv, Sound, Kept, SharedKept
<1> QED BY <1>1, GcInvHolds, PTL
=============================================================================
