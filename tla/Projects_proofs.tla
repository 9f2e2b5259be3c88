---------------------------- MODULE Projects_proofs ----------------------------
(***************************************************************************)
(* Proofs about Projects, for any number of folders, checkouts, processes  *)
(* and projects.                                                           *)
(*                                                                         *)
(* A command is a list of steps, and what a step does is right only if the *)
(* steps before it were done, or some command did them long ago: a folder  *)
(* is bound to a project that is complete, a file is moved when its events *)
(* are in the log.  The invariant says of each list what its steps rely on *)
(* (Waiting), and of the lists that are to establish something for their   *)
(* later steps how they go on (Creating, Backing, Judging, Importing).     *)
(***************************************************************************)
EXTENDS Projects, SequenceTheorems, FiniteSetTheorems, WellFoundedInduction,
        TLAPS

-----------------------------------------------------------------------------
(* The inductive invariant: logs and lists of steps *)

Checkouts == Repos \cup {NoRepo, SharedRepo}

Event ==
  {"created", "backfilled", "foreign", "updated", "workstream", "captured",
   "rule", "legacy"} \X Paths \X Checkouts

\* Steps that rely on no more than that their project has a log.
Free ==
  {"workstream", "rebuild", "refresh", "sync", "bind", "unbind", "updated",
   "remote", "relocate", "push", "pull", "autopull", "heal", "observe", "read"}

Names ==
  Free \cup {"created", "import", "judge", "insert", "verify", "move", "mark",
             "backfilled"}

Step == Names \X (0 .. MaxProjects) \X Paths

Born(id) == id \in {Old, Shared} \/ log[id] # <<>>

InLog(f) == \E i \in 1 .. Len(log[Old]) : log[Old][i] = LegacyEvent(f)

\* Steps whose preconditions hold whatever is done before them.
Waiting ==
  {e \in Step :
     /\ e[2] \in Ids /\ Born(e[2])
     /\ \/ e[1] \in Free
        \/ e[1] = "import" /\ HasGenesis(e[2])
        \/ e[1] = "move" /\ e[2] \in Legacy /\ InLog(e[2])
        \/ e[1] = "mark" /\ \A f \in Legacy : InLog(f)}

\* The steps of a project that the first one is to create.
Sequel(id) ==
  {e \in Step : e[1] \in {"workstream", "rebuild", "sync", "bind", "import",
                          "remote"} /\ e[2] = id}

Unborn(id) == id \in Ids \ {Old, Shared} /\ id <= minted /\ log[id] = <<>>

Starts(s, name, id) == s # <<>> /\ Head(s)[1] = name /\ Head(s)[2] = id

Creating(s, id) ==
  /\ s \in Seq(Step) /\ Starts(s, "created", id) /\ Unborn(id)
  /\ Tail(s) \in Seq(Sequel(id))

Backing(s, id) ==
  /\ s \in Seq(Step) /\ Starts(s, "backfilled", id)
  /\ id \in Ids /\ Born(id) /\ Tail(s) \in Seq(Waiting)
  /\ Has(id, "created") => id \in overtaken

Judging(s) == \E p \in Paths : s = <<<<"judge", 0, p>>, <<"import", 0, p>>>>

\* What was read from the files that are still there, and maybe from others.
LinesOk(l) ==
  \E files \in SUBSET Legacy : ndjson \subseteq files /\ l = LegacyEvents(files)

Verifying(s) == \E p \in Paths :
  s = <<<<"verify", Old, p>>, <<"mark", Old, p>>, <<"rebuild", Old, p>>>>

Inserting(s) == \E p \in Paths :
  s = <<<<"insert", Old, p>>, <<"verify", Old, p>>, <<"mark", Old, p>>,
        <<"rebuild", Old, p>>>>

ListOk(s, l) ==
  \/ s \in Seq(Waiting)
  \/ \E id \in Ids : Creating(s, id)
  \/ \E id \in Ids : Backing(s, id)
  \/ Judging(s)
  \/ (Inserting(s) \/ Verifying(s)) /\ LinesOk(l)

Bindings == [Paths -> 0 .. MaxProjects]

Seen == {<<>>} \cup {<<b>> : b \in Bindings}

Row == [root : Paths, repo : Checkouts, kind : {"created", "backfilled", "foreign"}]

TypeOK ==
  /\ bindings \in Bindings
  /\ log \in [Ids -> Seq(Event)]
  /\ row \in [Ids -> {<<>>} \cup {<<r>> : r \in Row}]
  /\ ndjson \subseteq Legacy
  /\ migrated \in BOOLEAN
  /\ minted \in 2 .. MaxProjects
  /\ todo \in [Commands -> Seq(Step)]
  /\ seen \in [Commands -> Seen]
  /\ lines \in [Commands -> Seq(Event)]
  /\ identity \in [Commands -> Checkouts]
  /\ bound \subseteq Ids

Lists == \A c \in Commands : ListOk(todo[c], lines[c])

Apart == \A c, d \in Commands, id \in Ids :
  Creating(todo[c], id) /\ Creating(todo[d], id) => c = d

\* What a copy b of the file of bindings, or bound, says is of born projects.
BornIn(b) == \A p \in Paths : b[p] # Unbound => Born(b[p])

Births ==
  /\ BornIn(bindings)
  /\ \A c \in Commands : seen[c] # <<>> => BornIn(seen[c][1])
  /\ \A id \in bound : Born(id)
  /\ \A id \in Ids : Born(id) => id <= minted

\* A row is what the reducer made of some genesis of the log.
RowFrom(id) ==
  \E i \in 1 .. Len(log[id]) : IsGenesis(log[id][i]) /\ RepoOf(id) = log[id][i][3]

Rows == \A id \in Readable : RowFrom(id)

ListInv ==
  TypeOK /\ Lists /\ Apart /\ Births /\ Rows /\ LegacyKept

-----------------------------------------------------------------------------
(* Lists *)

LEMMA SetSeq ==
  ASSUME NEW S, IsFiniteSet(S)
  PROVE  SetToSeq(S) \in [1 .. Cardinality(S) -> S] /\ Cardinality(S) \in Nat
<1>1. PICK n \in Nat : ExistsBijection(1 .. n, S)
  BY FS_NatBijection
<1>2. Cardinality(S) = n
  BY <1>1, FS_CountingElements
<1>3. \E f \in [1 .. Cardinality(S) -> S] : IsInjective(f)
  BY <1>1, <1>2 DEF ExistsBijection, Bijection, Injection, IsInjective
<1>4. SetToSeq(S) \in [1 .. Cardinality(S) -> S]
  BY <1>3 DEF SetToSeq
<1> QED BY <1>2, <1>4

LEMMA FunctionSeq ==
  ASSUME NEW n \in Nat, NEW S, NEW f \in [1 .. n -> S]
  PROVE  f \in Seq(S) /\ Len(f) = n
<1>1. f \in UNION {[1 .. m -> S] : m \in Nat}
  OBVIOUS
<1>2. f \in Seq(S)
  BY <1>1, SeqDef
<1>3. Len(f) \in Nat /\ DOMAIN f = 1 .. Len(f)
  BY <1>2, LenProperties
<1>4. \A i : i \in 1 .. Len(f) <=> i \in 1 .. n
  BY <1>3
<1>5. n \in 1 .. n \/ n = 0
  OBVIOUS
<1>6. Len(f) \in 1 .. Len(f) \/ Len(f) = 0
  BY <1>3
<1>7. (n \in 1 .. Len(f) \/ n = 0) /\ (Len(f) \in 1 .. n \/ Len(f) = 0)
  BY <1>4, <1>5, <1>6
<1>8. Len(f) = n
  BY <1>3, <1>7
<1> QED BY <1>2, <1>8

\* The steps of one project, given by their names
LEMMA StepsAre ==
  ASSUME NEW names \in Seq(Names), NEW id \in 0 .. MaxProjects, NEW p \in Paths
  PROVE  /\ Steps(names, id, p) \in Seq(Step)
         /\ Len(Steps(names, id, p)) = Len(names)
         /\ \A i \in 1 .. Len(names) : Steps(names, id, p)[i] = <<names[i], id, p>>
<1>1. Len(names) \in Nat /\ \A i \in 1 .. Len(names) : names[i] \in Names
  BY LenProperties
<1>2. Steps(names, id, p) \in [1 .. Len(names) -> Step]
  BY <1>1 DEF Steps, Step
<1> QED BY <1>1, <1>2, FunctionSeq DEF Steps

LEMMA RestSeq ==
  ASSUME NEW S, NEW s \in Seq(S), s # <<>>
  PROVE  Tail(s) \in Seq(S) /\ Head(s) \in S
BY HeadTailProperties

LEMMA OneSeq ==
  ASSUME NEW S, NEW x \in S PROVE <<x>> \in Seq(S)
OBVIOUS

LEMMA WaitingSteps ==
  ASSUME NEW names \in Seq(Free), NEW id \in Ids, Born(id), NEW p \in Paths,
         MaxProjects \in Nat
  PROVE  Steps(names, id, p) \in Seq(Waiting)
<1>1. Free \subseteq Names /\ id \in 0 .. MaxProjects
  BY DEF Names, Ids
<1>2. names \in Seq(Names)
  BY <1>1, SeqMonotonic
<1>3. /\ Len(Steps(names, id, p)) = Len(names)
      /\ \A i \in 1 .. Len(names) : Steps(names, id, p)[i] = <<names[i], id, p>>
  BY <1>1, <1>2, StepsAre
<1>4. \A i \in 1 .. Len(names) : names[i] \in Free
  BY ElementOfSeq
<1>5. \A n \in Free : <<n, id, p>> \in Waiting
  BY <1>1 DEF Waiting, Step
<1>6. Len(names) \in Nat
  BY LenProperties
<1>7. Steps(names, id, p) \in [1 .. Len(names) -> Waiting]
  BY <1>4, <1>5 DEF Steps
<1> QED BY <1>6, <1>7, FunctionSeq

\* A non-empty set of positions has a last one.
LEMMA LastOne ==
  ASSUME NEW n \in Nat, NEW T, T \subseteq 1 .. n, T # {}
  PROVE  \E i \in T : \A j \in i + 1 .. n : j \notin T
<1> DEFINE S == 1 .. n
           F == {i .. n : i \in T}
           R == StrictSubsetOrdering(S)
<1>1. IsFiniteSet(S)
  BY FS_Interval
<1>2. IsWellFoundedOn(R, SUBSET S)
  <2>1. IsWellFoundedOn(R, FiniteSubsetsOf(S))
    BY FS_StrictSubsetOrderingWellFounded
  <2>2. FiniteSubsetsOf(S) = SUBSET S
    BY <1>1, FS_FiniteSubsetsOfFinite
  <2> QED BY <2>1, <2>2
<1>3. F \subseteq SUBSET S /\ F # {}
  <2>1. \A i \in T : i .. n \subseteq S
    OBVIOUS
  <2>2. F \subseteq SUBSET S
    BY <2>1
  <2>3. PICK i \in T : TRUE
    OBVIOUS
  <2>4. i .. n \in F
    BY <2>3
  <2> QED BY <2>2, <2>4
<1>4. ASSUME NEW i \in T, NEW j \in T, i < j PROVE <<j .. n, i .. n>> \in R
  <2>1. j .. n \subseteq i .. n /\ i \in i .. n /\ i \notin j .. n
    BY <1>4
  <2>2. j .. n \in SUBSET S /\ i .. n \in SUBSET S
    OBVIOUS
  <2> QED BY <2>1, <2>2 DEF StrictSubsetOrdering
<1> HIDE DEF R
<1>5. PICK x \in F : \A y \in F : <<y, x>> \notin R
  BY <1>2, <1>3, WFMin
<1>6. PICK i \in T : x = i .. n
  BY <1>5
<1>7. \A j \in T : ~ i < j
  BY <1>4, <1>5, <1>6
<1> QED BY <1>7

\* What the reducer makes of a log that has a genesis
LEMMA FoldFrom ==
  ASSUME NEW s \in Seq(Event), \E i \in 1 .. Len(s) : IsGenesis(s[i])
  PROVE  /\ Fold(s) \in Row
         /\ \E i \in 1 .. Len(s) :
              /\ IsGenesis(s[i]) /\ \A j \in i + 1 .. Len(s) : ~ IsGenesis(s[j])
              /\ Fold(s).repo = s[i][3] /\ Fold(s).kind = s[i][1]
<1>0. Len(s) \in Nat /\ \A i \in 1 .. Len(s) : s[i] \in Event
  BY LenProperties, ElementOfSeq
<1> DEFINE T == {i \in 1 .. Len(s) : IsGenesis(s[i])}
           U == {i \in 1 .. Len(s) : IsGenesis(s[i]) \/ s[i][1] = "updated"}
           last(i) == IsGenesis(s[i]) /\ \A j \in i + 1 .. Len(s) : ~ IsGenesis(s[j])
           root(i) == /\ IsGenesis(s[i]) \/ s[i][1] = "updated"
                      /\ \A j \in i + 1 .. Len(s) :
                           ~ (IsGenesis(s[j]) \/ s[j][1] = "updated")
           t == CHOOSE i \in 1 .. Len(s) : last(i)
           u == CHOOSE i \in 1 .. Len(s) : root(i)
<1>1. \E i \in T : \A j \in i + 1 .. Len(s) : j \notin T
  BY <1>0, LastOne
<1>2. \E i \in 1 .. Len(s) : last(i)
  BY <1>0, <1>1
<1>3. t \in 1 .. Len(s) /\ last(t)
  BY <1>2
<1>4. \E i \in U : \A j \in i + 1 .. Len(s) : j \notin U
  BY <1>0, LastOne
<1>5. \E i \in 1 .. Len(s) : root(i)
  BY <1>0, <1>4
<1>6. u \in 1 .. Len(s)
  BY <1>5
<1>7. Fold(s) = [root |-> s[u][2], repo |-> s[t][3], kind |-> s[t][1]]
  BY DEF Fold, LastOf
<1> HIDE DEF t, u
<1>8. s[t] \in Event /\ s[u] \in Event
  BY <1>0, <1>3, <1>6
<1>9. Fold(s) \in Row
  BY <1>3, <1>7, <1>8 DEF Row, Event, IsGenesis
<1> QED BY <1>3, <1>7, <1>9

-----------------------------------------------------------------------------
(* What no step undoes *)

Grows ==
  /\ log' \in [Ids -> Seq(Event)]
  /\ \A id \in Ids :
       /\ Len(log[id]) <= Len(log'[id])
       /\ \A i \in 1 .. Len(log[id]) : log'[id][i] = log[id][i]

LEMMA Bounds ==
  TypeOK => /\ MaxProjects \in Nat /\ Old \in Ids /\ Shared \in Ids
            /\ \A id \in Ids : Len(log[id]) \in Nat
<1> SUFFICES ASSUME TypeOK
             PROVE  /\ MaxProjects \in Nat /\ Old \in Ids /\ Shared \in Ids
                    /\ \A id \in Ids : Len(log[id]) \in Nat
  OBVIOUS
<1>1. MaxProjects \in Nat /\ MaxProjects >= 2
  BY ProjectsAssumption
<1>2. Old \in Ids /\ Shared \in Ids
  BY <1>1 DEF Ids, Old, Shared
<1>3. \A id \in Ids : Len(log[id]) \in Nat
  BY LenProperties DEF TypeOK
<1> QED BY <1>1, <1>2, <1>3

\* What was in a log stays there.
LEMMA GrowsKeeps ==
  ASSUME TypeOK, Grows
  PROVE  /\ \A id \in Ids : Born(id) => Born(id)'
         /\ \A id \in Ids : HasGenesis(id) => HasGenesis(id)'
         /\ \A id \in Ids : \A type : Has(id, type) => Has(id, type)'
         /\ \A f \in Legacy : InLog(f) => InLog(f)'
         /\ Waiting \subseteq Waiting'
<1>1. \A id \in Ids : Len(log[id]) \in Nat /\ Len(log'[id]) \in Nat
  BY LenProperties DEF TypeOK, Grows
<1>2. \A id \in Ids : \A i \in 1 .. Len(log[id]) :
        i \in 1 .. Len(log'[id]) /\ log'[id][i] = log[id][i]
  BY <1>1 DEF Grows
<1>3. ASSUME NEW id \in Ids, log[id] # <<>> PROVE log'[id] # <<>>
  BY <1>1, <1>2, <1>3, EmptySeq DEF TypeOK, Grows
<1>4. \A id \in Ids : Born(id) => Born(id)'
  BY <1>3 DEF Born
<1>5. \A id \in Ids : HasGenesis(id) => HasGenesis(id)'
  BY <1>2 DEF HasGenesis, IsGenesis
<1>6. \A id \in Ids : \A type : Has(id, type) => Has(id, type)'
  BY <1>2 DEF Has
<1>7. \A f \in Legacy : InLog(f) => InLog(f)'
  BY <1>2, Bounds DEF InLog
<1>8. Waiting \subseteq Waiting'
  BY <1>4, <1>5, <1>7 DEF Waiting
<1> QED BY <1>4, <1>5, <1>6, <1>7, <1>8

\* What a step of command c does to the others.
Effect(c) ==
  /\ Grows
  /\ \A d \in Commands \ {c} : todo'[d] = todo[d] /\ lines'[d] = lines[d]
  /\ ndjson' \subseteq ndjson
  /\ overtaken \subseteq overtaken'
  /\ minted <= minted' /\ minted' \in Nat
  /\ \A id \in Ids : log'[id] = log[id] \/ Born(id) \/ Creating(todo[c], id)
  /\ \A id \in Ids : Has(id, "created")' =>
       \/ Has(id, "created") \/ Creating(todo[c], id)
       \/ \A d \in Commands : Starts(todo[d], "backfilled", id) => id \in overtaken'

\* Nothing else starts with a creation.
LEMMA CreatingOnly ==
  ASSUME NEW s, NEW l, ListOk(s, l), NEW id \in Ids, Starts(s, "created", id)
  PROVE  Creating(s, id)
<1>1. s # <<>> /\ Head(s)[1] = "created" /\ Head(s)[2] = id
  BY DEF Starts
<1>2. s \notin Seq(Waiting)
  <2> SUFFICES ASSUME s \in Seq(Waiting) PROVE FALSE
    OBVIOUS
  <2>1. Head(s) \in Waiting
    BY <1>1, RestSeq
  <2> QED BY <1>1, <2>1 DEF Waiting, Free
<1>3. ~ Judging(s) /\ ~ Inserting(s) /\ ~ Verifying(s)
  BY <1>1 DEF Judging, Inserting, Verifying
<1>4. \A k \in Ids : ~ Backing(s, k)
  BY <1>1 DEF Backing, Starts
<1> QED BY <1>1, <1>2, <1>3, <1>4 DEF ListOk, Creating, Starts

LEMMA OthersOk ==
  ASSUME ListInv, NEW c \in Commands, Effect(c), NEW d \in Commands \ {c}
  PROVE  /\ ListOk(todo[d], lines[d])'
         /\ \A id \in Ids : Creating(todo[d], id)' => Creating(todo[d], id)
<1>1. TypeOK /\ ListOk(todo[d], lines[d]) /\ Apart /\ Grows
  BY DEF ListInv, Lists, Effect
<1> DEFINE s == todo[d]
           l == lines[d]
<1>2. todo'[d] = s /\ lines'[d] = l
  BY DEF Effect
<1>k. /\ \A id \in Ids : Born(id) => Born(id)'
      /\ Waiting \subseteq Waiting'
  BY <1>1, GrowsKeeps
<1>3. ASSUME NEW t \in Seq(Waiting) PROVE t \in Seq(Waiting')
  BY <1>3, <1>k, SeqMonotonic
<1>4. ASSUME NEW id \in Ids, Creating(s, id) PROVE Creating(s, id)'
  <2>1. ~ Born(id) /\ id <= minted
    BY <1>4 DEF Creating, Unborn, Born
  <2>2. ~ Creating(todo[c], id)
    BY <1>1, <1>4 DEF Apart
  <2>3. log'[id] = log[id]
    BY <2>1, <2>2 DEF Effect
  <2>4. minted \in Nat /\ minted' \in Nat /\ minted <= minted' /\ id \in Nat
    BY <1>1 DEF Effect, TypeOK, Ids
  <2>5. Unborn(id)'
    BY <1>4, <2>1, <2>3, <2>4 DEF Creating, Unborn
  <2> QED BY <1>2, <1>4, <2>5 DEF Creating, Starts, Sequel, Step
<1>5. ASSUME NEW id \in Ids, Backing(s, id) PROVE Backing(s, id)'
  <2>1. Born(id) /\ Starts(s, "backfilled", id) /\ (Has(id, "created") => id \in overtaken)
    BY <1>5 DEF Backing
  <2>2. ~ Creating(todo[c], id)
    BY <2>1 DEF Creating, Unborn, Born
  <2>3. Has(id, "created")' => id \in overtaken'
    BY <2>1, <2>2 DEF Effect
  <2>4. Tail(s) \in Seq(Waiting')
    BY <1>3, <1>5 DEF Backing
  <2> QED BY <1>2, <1>5, <1>k, <2>1, <2>3, <2>4 DEF Backing, Starts, Step
<1>6. LinesOk(l) => LinesOk(l)'
  BY <1>2 DEF LinesOk, Effect, LegacyEvents, LegacyEvent
<1>7. s \in Seq(Waiting) => s \in Seq(Waiting')
  BY <1>3
<1>8. ListOk(todo[d], lines[d])'
  BY <1>1, <1>2, <1>4, <1>5, <1>6, <1>7 DEF ListOk, Judging, Verifying, Inserting
<1>9. ASSUME NEW id \in Ids, Creating(todo[d], id)' PROVE Creating(todo[d], id)
  <2>1. Starts(s, "created", id)
    BY <1>2, <1>9 DEF Creating, Starts
  <2> QED BY <1>1, <2>1, CreatingOnly
<1> QED BY <1>8, <1>9

-----------------------------------------------------------------------------
(* The list of the command that takes a step *)

\* Its list is in order again, and it creates no project but a new one.
Own(c) ==
  /\ todo'[c] \in Seq(Step)
  /\ ListOk(todo[c], lines[c])'
  /\ \A id \in Ids : Creating(todo[c], id)' => id > minted

LEMMA WaitingOwn ==
  ASSUME NEW c \in Commands, todo'[c] \in Seq(Waiting')
  PROVE  Own(c)
<1>1. Waiting' \subseteq Step
  BY DEF Waiting, Step
<1>2. todo'[c] \in Seq(Step)
  BY <1>1, SeqMonotonic
<1>3. \A id \in Ids : ~ Creating(todo[c], id)'
  <2> SUFFICES ASSUME NEW id \in Ids, Creating(todo[c], id)' PROVE FALSE
    OBVIOUS
  <2>1. todo'[c] # <<>> /\ Head(todo'[c])[1] = "created"
    BY DEF Creating, Starts
  <2>2. Head(todo'[c]) \in Waiting'
    BY <2>1, RestSeq
  <2> QED BY <2>1, <2>2 DEF Waiting, Free
<1> QED BY <1>2, <1>3 DEF Own, ListOk

\* What a command is about to do tells what its list is.
LEMMA HeadWaits ==
  ASSUME ListInv, NEW c \in Commands, todo[c] # <<>>,
         Head(todo[c])[1] \notin {"created", "backfilled", "judge", "insert", "verify"}
  PROVE  /\ todo[c] \in Seq(Waiting) /\ Head(todo[c]) \in Waiting
         /\ Tail(todo[c]) \in Seq(Waiting)
<1>1. ListOk(todo[c], lines[c])
  BY DEF ListInv, Lists
<1>2. todo[c] \in Seq(Waiting)
  BY <1>1 DEF ListOk, Creating, Backing, Starts, Judging, Verifying, Inserting
<1> QED BY <1>2, RestSeq

LEMMA HeadSpecial ==
  ASSUME ListInv, NEW c \in Commands, todo[c] # <<>>
  PROVE  /\ Head(todo[c])[1] = "created" => Id(c) \in Ids /\ Creating(todo[c], Id(c))
         /\ Head(todo[c])[1] = "backfilled" => Id(c) \in Ids /\ Backing(todo[c], Id(c))
         /\ Head(todo[c])[1] = "judge" => Judging(todo[c])
         /\ Head(todo[c])[1] = "insert" => Inserting(todo[c]) /\ LinesOk(lines[c])
         /\ Head(todo[c])[1] = "verify" => Verifying(todo[c]) /\ LinesOk(lines[c])
<1>1. ListOk(todo[c], lines[c])
  BY DEF ListInv, Lists
<1>2. todo[c] \in Seq(Waiting) =>
        Head(todo[c])[1] \notin {"created", "backfilled", "judge", "insert", "verify"}
  <2>1. todo[c] \in Seq(Waiting) => Head(todo[c]) \in Waiting
    BY RestSeq
  <2> QED BY <2>1 DEF Waiting, Free
<1>3. \A id \in Ids : /\ Creating(todo[c], id) => Head(todo[c])[1] = "created" /\ id = Id(c)
                      /\ Backing(todo[c], id) => Head(todo[c])[1] = "backfilled" /\ id = Id(c)
  BY DEF Creating, Backing, Starts, Id
<1>4. /\ Judging(todo[c]) => Head(todo[c])[1] = "judge"
      /\ Inserting(todo[c]) => Head(todo[c])[1] = "insert"
      /\ Verifying(todo[c]) => Head(todo[c])[1] = "verify"
  BY DEF Judging, Verifying, Inserting
<1> QED BY <1>1, <1>2, <1>3, <1>4 DEF ListOk

\* Its first step is done, and nothing it relied on undone.
LEMMA RestOwn ==
  ASSUME ListInv, Grows, NEW c \in Commands, Tail(todo[c]) \in Seq(Waiting),
         todo' = [todo EXCEPT ![c] = Tail(todo[c])]
  PROVE  Own(c)
<1>1. TypeOK
  BY DEF ListInv
<1>2. Tail(todo[c]) \in Seq(Waiting')
  BY <1>1, GrowsKeeps, SeqMonotonic
<1>3. todo'[c] \in Seq(Waiting')
  BY <1>1, <1>2 DEF TypeOK
<1> QED BY <1>3, WaitingOwn

LEMMA EmptyOwn ==
  ASSUME TypeOK, NEW c \in Commands, todo' = [todo EXCEPT ![c] = <<>>]
  PROVE  Own(c)
<1>1. todo'[c] = <<>> /\ <<>> \in Seq(Waiting')
  BY EmptySeq DEF TypeOK
<1> QED BY <1>1, WaitingOwn

-----------------------------------------------------------------------------
(* The rest of the state *)

LEMMA StateKept ==
  ASSUME ListInv, NEW c \in Commands, Effect(c)
  PROVE  /\ UNCHANGED <<bindings, bound>>
              /\ (\A d \in Commands : seen'[d] = seen[d] \/ seen'[d] = <<>>)
            => Births'
         /\ UNCHANGED row => Rows'
         /\ UNCHANGED <<ndjson, migrated>> => LegacyKept'
<1>1. TypeOK /\ Grows /\ Births /\ Rows /\ LegacyKept
  BY DEF ListInv, Effect
<1>2. \A id \in Ids : Born(id) => Born(id)'
  BY <1>1, GrowsKeeps
<1>3. \A id \in Ids : Born(id)' => id <= minted'
  <2> SUFFICES ASSUME NEW id \in Ids, Born(id)' PROVE id <= minted'
    OBVIOUS
  <2>1. Born(id) \/ Creating(todo[c], id)
    BY DEF Effect, Born
  <2>2. id <= minted
    BY <1>1, <2>1 DEF Births, Creating, Unborn
  <2> QED BY <1>1, <2>2 DEF Effect, TypeOK, Ids
<1>5. ASSUME UNCHANGED <<bindings, bound>>,
             \A d \in Commands : seen'[d] = seen[d] \/ seen'[d] = <<>>
      PROVE  Births'
  <2>1. BornIn(bindings)'
    <3>1. bindings \in Bindings /\ BornIn(bindings)
      BY <1>1 DEF TypeOK, Births
    <3> DEFINE b == bindings
    <3>2. b \in Bindings /\ BornIn(b)
      BY <3>1
    <3> HIDE DEF b
    <3>3. BornIn(b)'
      BY <1>2, <3>2, <1>5 DEF BornIn, Bindings, Ids, Unbound, b
    <3> QED BY <3>3 DEF b
  <2>2. ASSUME NEW d \in Commands, seen'[d] # <<>> PROVE BornIn(seen[d][1])'
    <3>1. seen'[d] = seen[d] /\ BornIn(seen[d][1]) /\ seen[d][1] \in Bindings
      BY <1>1, <1>5, <2>2 DEF Births, TypeOK, Seen
    <3> QED BY <1>2, <3>1 DEF BornIn, Bindings, Ids, Unbound
  <2>3. \A id \in bound' : Born(id)'
    BY <1>1, <1>2, <1>5 DEF Births, TypeOK
  <2> QED BY <1>3, <2>1, <2>2, <2>3 DEF Births
<1>6. ASSUME UNCHANGED row PROVE Rows'
  <2> SUFFICES ASSUME NEW id \in Readable PROVE RowFrom(id)'
    BY <1>6 DEF Rows, Readable
  <2>1. PICK i \in 1 .. Len(log[id]) : IsGenesis(log[id][i]) /\ RepoOf(id) = log[id][i][3]
    BY <1>1 DEF Rows, RowFrom
  <2>2. id \in Ids /\ Len(log[id]) \in Nat /\ Len(log'[id]) \in Nat
    BY <1>1, LenProperties DEF Readable, TypeOK, Grows
  <2>3. i \in 1 .. Len(log'[id]) /\ log'[id][i] = log[id][i]
    BY <1>1, <2>2 DEF Grows
  <2> QED BY <1>6, <2>1, <2>3 DEF RowFrom, IsGenesis, RepoOf
<1>7. UNCHANGED <<ndjson, migrated>> => LegacyKept'
  <2>1. \A f \in Legacy : InLog(f) => InLog(f)'
    BY <1>1, GrowsKeeps
  <2> QED BY <1>1, <2>1 DEF LegacyKept, InLog
<1> QED BY <1>5, <1>6, <1>7

\* A step is proved by what it does to the others, to its own list, and to
\* the rest.
LEMMA CommandStep ==
  ASSUME ListInv, TypeOK', NEW c \in Commands, Effect(c), Own(c),
         Births', Rows', LegacyKept'
  PROVE  ListInv'
<1>1. Lists'
  <2> SUFFICES ASSUME NEW d \in Commands PROVE ListOk(todo[d], lines[d])'
    BY DEF Lists
  <2> QED BY OthersOk DEF Own
<1>2. Apart'
  <2> SUFFICES ASSUME NEW d \in Commands, NEW e \in Commands, NEW id \in Ids,
                      Creating(todo[d], id)', Creating(todo[e], id)', d # e
               PROVE  FALSE
    BY DEF Apart
  <2>1. CASE d # c /\ e # c
    <3>1. Creating(todo[d], id) /\ Creating(todo[e], id)
      BY <2>1, OthersOk
    <3> QED BY <3>1 DEF ListInv, Apart
  <2>2. CASE d = c
    <3>1. id > minted /\ Creating(todo[e], id)
      BY <2>2, OthersOk DEF Own
    <3> QED BY <3>1 DEF Creating, Unborn, ListInv, TypeOK, Ids
  <2>3. CASE e = c
    <3>1. id > minted /\ Creating(todo[d], id)
      BY <2>3, OthersOk DEF Own
    <3> QED BY <3>1 DEF Creating, Unborn, ListInv, TypeOK, Ids
  <2> QED BY <2>1, <2>2, <2>3
<1> QED BY <1>1, <1>2 DEF ListInv

\* A step that writes no more than its list.
LEMMA QuietStep ==
  ASSUME ListInv, NEW c \in Commands,
         UNCHANGED <<bindings, log, row, ndjson, migrated, bound, overtaken>>,
         minted' \in minted .. MaxProjects,
         identity' \in [Commands -> Checkouts],
         \A d \in Commands : seen'[d] = seen[d] \/ seen'[d] = <<>>,
         seen' \in [Commands -> Seen], lines' \in [Commands -> Seq(Event)],
         \A d \in Commands \ {c} : lines'[d] = lines[d],
         NEW t \in Seq(Step), todo' = [todo EXCEPT ![c] = t], Own(c)
  PROVE  ListInv'
<1>1. TypeOK
  BY DEF ListInv
<1>2. TypeOK'
  BY <1>1 DEF TypeOK
<1>3. Grows
  BY <1>1, Bounds DEF Grows, TypeOK
<1>4. minted \in Nat /\ minted' \in Nat /\ minted <= minted'
  BY <1>1, Bounds DEF TypeOK
<1>5. Effect(c)
  BY <1>1, <1>3, <1>4 DEF Effect, TypeOK, Has
<1> QED BY <1>2, <1>5, StateKept, CommandStep

-----------------------------------------------------------------------------
(* New lists *)

LEMMA RepoAtType == \A p \in Paths : RepoAt(p) \in Checkouts
BY DEF RepoAt, There, Checkouts

LEMMA ReadableBorn ==
  ASSUME ListInv, NEW id \in Readable
  PROVE  id \in Ids /\ Born(id) /\ HasGenesis(id)
<1>1. PICK i \in 1 .. Len(log[id]) : IsGenesis(log[id][i])
  BY DEF ListInv, Rows, RowFrom
<1>2. id \in Ids /\ log[id] \in Seq(Event)
  BY DEF Readable, ListInv, TypeOK
<1>3. log[id] # <<>>
  BY <1>1, <1>2
<1> QED BY <1>1, <1>2, <1>3 DEF Born, HasGenesis

LEMMA ResolvedBorn ==
  ASSUME ListInv, NEW p \in Paths
  PROVE  /\ bindings[p] # Unbound => bindings[p] \in Ids /\ Born(bindings[p])
         /\ Resolved(p) # Unbound => Resolved(p) \in Ids /\ Born(Resolved(p))
<1>1. Parent[p] \in Paths
  BY ProjectsAssumption
<1>2. bindings \in Bindings /\ BornIn(bindings)
  BY DEF ListInv, TypeOK, Births
<1>3. \A q \in Paths : bindings[q] # Unbound => bindings[q] \in Ids /\ Born(bindings[q])
  <2> SUFFICES ASSUME NEW q \in Paths, bindings[q] # Unbound
               PROVE  bindings[q] \in Ids /\ Born(bindings[q])
    OBVIOUS
  <2>1. bindings[q] \in 0 .. MaxProjects /\ bindings[q] # 0
    BY <1>2 DEF Bindings, Unbound
  <2>2. MaxProjects \in Nat
    BY ProjectsAssumption
  <2> QED BY <1>2, <2>1, <2>2 DEF BornIn, Ids
<1> QED BY <1>1, <1>3 DEF Resolved

\* The steps that create project id, and others of its own after them.
LEMMA CreatedIs ==
  ASSUME TypeOK, NEW id \in Ids, NEW p \in Paths, NEW names \in Seq({"import", "remote"})
  PROVE  LET s == Created(id, p) \o Steps(names, id, p)
         IN  /\ s \in Seq(Step) /\ Starts(s, "created", id)
             /\ Tail(s) \in Seq(Sequel(id))
<1> DEFINE first == <<"created", "workstream", "rebuild", "sync", "bind">>
           u == Created(id, p)
           v == Steps(names, id, p)
           s == u \o v
<1>1. id \in 0 .. MaxProjects
  BY Bounds DEF Ids
<1>2. first \in Seq(Names) /\ Len(first) = 5
  BY DEF Names, Free
<1>3. /\ u \in Seq(Step) /\ Len(u) = 5
      /\ \A i \in 1 .. 5 : u[i] = <<first[i], id, p>>
  BY <1>1, <1>2, StepsAre DEF Created
<1>4. names \in Seq(Names)
  <2>1. {"import", "remote"} \subseteq Names
    BY DEF Names, Free
  <2> QED BY <2>1, SeqMonotonic
<1>5. /\ v \in Seq(Step) /\ Len(v) = Len(names) /\ Len(names) \in Nat
      /\ \A i \in 1 .. Len(names) : v[i] = <<names[i], id, p>>
  BY <1>1, <1>4, StepsAre, LenProperties
<1> HIDE DEF u, v
<1>6. /\ s \in Seq(Step) /\ Len(s) = 5 + Len(v)
      /\ \A i \in 1 .. 5 + Len(v) : s[i] = IF i <= 5 THEN u[i] ELSE v[i - 5]
  <2>1. /\ s \in Seq(Step) /\ Len(s) = Len(u) + Len(v)
        /\ \A i \in 1 .. Len(u) + Len(v) :
             s[i] = IF i <= Len(u) THEN u[i] ELSE v[i - Len(u)]
    BY <1>3, <1>5, ConcatProperties
  <2>2. Len(u) = 5
    BY <1>3
  <2> QED BY <2>1, <2>2
<1> HIDE DEF s
<1>7. s # <<>> /\ Head(s) = s[1] /\ s[1] = <<"created", id, p>>
  BY <1>3, <1>5, <1>6
<1>8. ASSUME NEW i \in 1 .. Len(s), i # 1 PROVE s[i] \in Sequel(id)
  <2>1. CASE i <= 5
    <3>1. i = 2 \/ i = 3 \/ i = 4 \/ i = 5
      BY <1>5, <1>6, <1>8, <2>1
    <3>2. first[i] \in {"workstream", "rebuild", "sync", "bind"}
      BY <3>1
    <3>3. s[i] = <<first[i], id, p>>
      BY <1>3, <1>5, <1>6, <2>1, <3>1
    <3> HIDE DEF first
    <3> QED BY <1>1, <3>2, <3>3 DEF Sequel, Step, Names, Free
  <2>2. CASE ~ i <= 5
    <3>1. i - 5 \in 1 .. Len(names)
      BY <1>5, <1>6, <2>2
    <3>2. s[i] = <<names[i - 5], id, p>>
      BY <1>5, <1>6, <2>2, <3>1
    <3>3. names[i - 5] \in {"import", "remote"}
      BY <3>1, ElementOfSeq
    <3> QED BY <1>1, <3>2, <3>3 DEF Sequel, Step, Names, Free
  <2> QED BY <2>1, <2>2
<1>9. Tail(s) \in Seq(Sequel(id))
  <2>1. /\ Tail(s) \in Seq(Step) /\ Len(Tail(s)) = Len(s) - 1 /\ Len(s) \in Nat
        /\ \A i \in 1 .. Len(Tail(s)) : Tail(s)[i] = s[i + 1]
        /\ Len(Tail(s)) \in Nat
    BY <1>6, <1>7, HeadTailProperties, LenProperties
  <2>2. \A i \in 1 .. Len(Tail(s)) : i + 1 \in 1 .. Len(s) /\ i + 1 # 1
    BY <2>1
  <2>3. \A i \in 1 .. Len(Tail(s)) : Tail(s)[i] \in Sequel(id)
    BY <1>8, <2>1, <2>2
  <2>4. Tail(s) \in [1 .. Len(Tail(s)) -> Sequel(id)]
    BY <2>1, <2>3, LenProperties
  <2> QED BY <2>1, <2>4, FunctionSeq
<1> QED BY <1>6, <1>7, <1>9 DEF s, u, v, Starts

-----------------------------------------------------------------------------
(* Commands start *)

\* A command whose steps rely on what is there already
LEMMA RunWaiting ==
  ASSUME ListInv, NEW c \in Commands, NEW p \in Paths, NEW t \in Seq(Waiting),
         Plain(c), Run(c, p, t)
  PROVE  ListInv'
<1>1. /\ UNCHANGED <<bindings, log, row, ndjson, migrated, bound, overtaken,
                     minted, identity, seen, lines>>
      /\ todo' = [todo EXCEPT ![c] = t]
  BY DEF Run, Plain, disk, past
<1>2. TypeOK /\ minted' \in minted .. MaxProjects
  BY <1>1, Bounds DEF ListInv, TypeOK
<1>3. Waiting' = Waiting
  BY <1>1 DEF Waiting, Born, HasGenesis, InLog
<1>4. Own(c)
  BY <1>1, <1>2, <1>3, WaitingOwn DEF TypeOK
<1>5. t \in Seq(Step)
  <2>1. Waiting \subseteq Step
    BY DEF Waiting
  <2> QED BY <2>1, SeqMonotonic
<1> QED BY <1>1, <1>2, <1>4, <1>5, QuietStep DEF TypeOK

\* A list that creates a new project is in order.
LEMMA NewOwn ==
  ASSUME TypeOK, Births, NEW c \in Commands, minted < MaxProjects, minted' = minted + 1,
         NEW p \in Paths, NEW names \in Seq({"import", "remote"}), UNCHANGED log,
         todo' = [todo EXCEPT ![c] =
                    Created(minted + 1, p) \o Steps(names, minted + 1, p)]
  PROVE  Own(c) /\ todo'[c] \in Seq(Step)
<1> DEFINE id == minted + 1
           s == Created(id, p) \o Steps(names, id, p)
<1>1. id \in Ids \ {Old, Shared} /\ minted \in Nat
  <2>1. minted \in 2 .. MaxProjects /\ MaxProjects \in Nat
    BY Bounds DEF TypeOK
  <2> QED BY <2>1 DEF Ids, Old, Shared
<1>2. s \in Seq(Step) /\ Starts(s, "created", id) /\ Tail(s) \in Seq(Sequel(id))
  BY <1>1, CreatedIs
<1>3. todo'[c] = s
  BY DEF TypeOK
<1>4. ~ Born(id)
  BY <1>1 DEF Births
<1> HIDE DEF s
<1>5. PICK k \in Ids \ {Old, Shared} : k = id
  BY <1>1
<1>6. Unborn(k)'
  BY <1>1, <1>4, <1>5 DEF Unborn, Born
<1>7. Creating(todo[c], k)'
  <2>1. Starts(s, "created", k) /\ Tail(s) \in Seq(Sequel(k))
    BY <1>2, <1>5
  <2> QED BY <1>2, <1>3, <1>6, <2>1 DEF Creating, Starts, Step, Sequel
<1>8. \A j \in Ids : Creating(todo[c], j)' => j = k
  BY <1>7 DEF Creating, Starts
<1>9. k > minted
  BY <1>1, <1>5
<1>10. ListOk(todo[c], lines[c])'
  BY <1>7 DEF ListOk
<1>11. todo'[c] \in Seq(Step)
  BY <1>2, <1>3
<1> QED BY <1>8, <1>9, <1>10, <1>11 DEF Own

LEMMA RunCreating ==
  ASSUME ListInv, NEW c \in Commands, NEW p \in Paths, NEW r \in Checkouts, Mint(c, r),
         NEW names \in Seq({"import", "remote"}),
         Run(c, p, Created(minted + 1, p) \o Steps(names, minted + 1, p))
  PROVE  ListInv'
<1>1. /\ UNCHANGED <<bindings, log, row, ndjson, migrated, bound, overtaken,
                     seen, lines>>
      /\ todo' = [todo EXCEPT ![c] =
                    Created(minted + 1, p) \o Steps(names, minted + 1, p)]
      /\ minted < MaxProjects /\ minted' = minted + 1
      /\ identity' = [identity EXCEPT ![c] = r]
  BY DEF Run, Mint, disk, past
<1>2. TypeOK /\ Births /\ minted' \in minted .. MaxProjects
  BY <1>1, Bounds DEF ListInv, TypeOK
<1>3. Own(c) /\ todo'[c] \in Seq(Step)
  BY <1>1, <1>2, NewOwn
<1> DEFINE s == Created(minted + 1, p) \o Steps(names, minted + 1, p)
<1>4. s \in Seq(Step) /\ todo' = [todo EXCEPT ![c] = s]
  BY <1>1, <1>2, <1>3 DEF TypeOK
<1>5. identity' \in [Commands -> Checkouts] /\ seen' \in [Commands -> Seen]
        /\ lines' \in [Commands -> Seq(Event)]
  BY <1>1, <1>2 DEF TypeOK
<1> HIDE DEF s
<1> QED BY <1>1, <1>2, <1>3, <1>4, <1>5, QuietStep

\* With nothing after the creation
LEMMA NoMore ==
  ASSUME TypeOK, NEW id \in Ids, NEW p \in Paths
  PROVE  /\ <<>> \in Seq({"import", "remote"})
         /\ Created(id, p) \o Steps(<<>>, id, p) = Created(id, p)
<1> DEFINE first == <<"created", "workstream", "rebuild", "sync", "bind">>
<1>1. first \in Seq(Names)
  BY DEF Names, Free
<1>2. id \in 0 .. MaxProjects
  BY Bounds DEF Ids
<1>3. Created(id, p) \in Seq(Step)
  BY <1>1, <1>2, StepsAre DEF Created
<1>4. Steps(<<>>, id, p) = <<>>
  BY DEF Steps
<1> QED BY <1>3, <1>4, ConcatEmptySeq

LEMMA CommandsStart ==
  ASSUME ListInv, NEW c \in Commands, NEW p \in Paths,
         \/ \E force \in BOOLEAN : CliInit(c, p, force)
         \/ SetupBound(c, p) \/ SetupNested(c, p) \/ SetupUnbound(c, p)
         \/ \E id \in Ids : CliRelocate(c, p, id)
         \/ CloneWorkspace(c, p) \/ CloneShared(c, p) \/ CliSync(c, p) \/ SessionStart(c, p)
         \/ CliMigrate(c, p)
  PROVE  ListInv'
<1>0. TypeOK /\ Births /\ MaxProjects \in Nat
  BY Bounds DEF ListInv
<1>1. ASSUME NEW force \in BOOLEAN, CliInit(c, p, force) PROVE ListInv'
  <2>1. minted + 1 \in Ids
    BY <1>0, <1>1 DEF CliInit, Mint, TypeOK, Ids
  <2>2. Run(c, p, Created(minted + 1, p) \o Steps(<<>>, minted + 1, p))
    BY <1>0, <1>1, <2>1, NoMore DEF CliInit
  <2> QED BY <1>0, <1>1, <2>1, <2>2, NoMore, RunCreating, RepoAtType DEF CliInit
<1>2. CASE SetupBound(c, p)
  <2>1. bindings[p] \in Ids /\ Born(bindings[p]) /\ HasGenesis(bindings[p])
    BY <1>2, ReadableBorn DEF SetupBound
  <2>2. Steps(<<"import">>, bindings[p], p) = <<<<"import", bindings[p], p>>>>
    BY DEF Steps
  <2>3. <<"import", bindings[p], p>> \in Waiting
    BY <1>0, <2>1 DEF Waiting, Step, Names, Free, Ids
  <2>4. Steps(<<"import">>, bindings[p], p) \in Seq(Waiting)
    BY <2>2, <2>3, OneSeq
  <2> QED BY <1>2, <2>4, RunWaiting DEF SetupBound
<1>3. CASE SetupNested(c, p)
  <2>1. <<"import">> \in Seq({"import", "remote"})
    OBVIOUS
  <2> QED BY <1>3, <2>1, RunCreating, RepoAtType DEF SetupNested
<1>4. CASE SetupUnbound(c, p)
  <2> DEFINE s == <<<<"judge", 0, p>>, <<"import", 0, p>>>>
  <2>1. Steps(<<"judge", "import">>, 0, p) = s
    BY DEF Steps
  <2>2. s \in Seq(Step)
    BY <1>0 DEF Step, Names, Free
  <2>3. /\ UNCHANGED <<bindings, log, row, ndjson, migrated, bound, overtaken,
                       minted, identity, seen, lines>>
        /\ todo' = [todo EXCEPT ![c] = s]
    BY <1>4, <2>1 DEF SetupUnbound, Run, Plain, disk, past
  <2>4. todo'[c] = s
    BY <1>0, <2>3 DEF TypeOK
  <2>5. Judging(s)
    BY DEF Judging
  <2>6. \A id \in Ids : ~ Creating(s, id)'
    BY DEF Creating, Starts
  <2>7. Own(c)
    BY <2>2, <2>4, <2>5, <2>6 DEF Own, ListOk, Judging, Creating
  <2> HIDE DEF s
  <2>8. minted' \in minted .. MaxProjects
    BY <1>0, <2>3 DEF TypeOK
  <2> QED BY <1>0, <2>2, <2>3, <2>7, <2>8, QuietStep DEF TypeOK
<1>5. ASSUME NEW id \in Ids, CliRelocate(c, p, id) PROVE ListInv'
  <2>1. <<"relocate">> \in Seq(Free)
    BY DEF Free
  <2>2. Born(id)
    BY <1>0, <1>5 DEF CliRelocate, Births
  <2> QED BY <1>0, <1>5, <2>1, <2>2, WaitingSteps, RunWaiting DEF CliRelocate
<1>6. CASE CloneWorkspace(c, p)
  <2>1. <<"remote">> \in Seq({"import", "remote"})
    OBVIOUS
  <2>2. NoRepo \in Checkouts
    BY DEF Checkouts
  <2> QED BY <1>6, <2>1, <2>2, RunCreating DEF CloneWorkspace
<1>7. CASE CloneShared(c, p)
  <2>1. <<"remote", "bind">> \in Seq(Free) /\ <<"pull">> \in Seq(Free)
    BY DEF Free
  <2>2. Shared \in Ids /\ Born(Shared)
    BY <1>0, Bounds DEF Born
  <2>3. /\ Steps(<<"remote", "bind">>, Shared, p) \in Seq(Waiting)
        /\ Steps(<<"pull">>, Shared, p) \in Seq(Waiting)
    BY <1>0, <2>1, <2>2, WaitingSteps
  <2>4. <<>> \in Seq(Waiting)
    BY EmptySeq
  <2> DEFINE u == IF Resolved(p) = Unbound THEN Steps(<<"remote", "bind">>, Shared, p)
                                           ELSE <<>>
  <2>5. u \in Seq(Waiting)
    BY <2>3, <2>4
  <2>6. u \o Steps(<<"pull">>, Shared, p) \in Seq(Waiting)
    BY <2>3, <2>5, ConcatProperties
  <2> QED BY <1>7, <2>6, RunWaiting DEF CloneShared
<1>8. CASE SessionStart(c, p) \/ CliSync(c, p)
  <2>1. /\ <<"autopull", "heal", "observe">> \in Seq(Free)
        /\ <<"observe", "push", "pull">> \in Seq(Free)
    BY DEF Free
  <2>2. Resolved(p) \in Ids /\ Born(Resolved(p))
    BY <1>8, ResolvedBorn DEF SessionStart, CliSync
  <2>3. /\ Steps(<<"autopull", "heal", "observe">>, Resolved(p), p) \in Seq(Waiting)
        /\ Steps(<<"observe", "push", "pull">>, Resolved(p), p) \in Seq(Waiting)
    BY <1>0, <2>1, <2>2, WaitingSteps
  <2> QED BY <1>8, <2>3, RunWaiting DEF SessionStart, CliSync
<1>9. CASE CliMigrate(c, p)
  <2>1. <<"read">> \in Seq(Free)
    BY DEF Free
  <2>2. Old \in Ids /\ Born(Old)
    BY <1>0, Bounds DEF Born
  <2> QED BY <1>0, <1>9, <2>1, <2>2, WaitingSteps, RunWaiting DEF CliMigrate
<1> QED BY <1>1, <1>2, <1>3, <1>4, <1>5, <1>6, <1>7, <1>8, <1>9

-----------------------------------------------------------------------------
(* Steps that decide how a command goes on *)

\* A command that goes on with steps in order, or with none
LEMMA QuietGoto ==
  ASSUME ListInv, NEW c \in Commands, NEW t \in Seq(Waiting), Goto(c, t),
         UNCHANGED <<bindings, log, row, ndjson, migrated, bound, overtaken, minted>>,
         identity' \in [Commands -> Checkouts], seen' \in [Commands -> Seen],
         \A d \in Commands : seen'[d] = seen[d] \/ seen'[d] = <<>>,
         \A d \in Commands \ {c} : lines'[d] = lines[d],
         lines' \in [Commands -> Seq(Event)]
  PROVE  ListInv'
<1>1. TypeOK /\ minted' \in minted .. MaxProjects
  BY Bounds DEF ListInv, TypeOK
<1>2. Waiting' = Waiting
  BY DEF Waiting, Born, HasGenesis, InLog
<1>3. todo'[c] = t
  BY <1>1 DEF Goto, TypeOK
<1>4. Own(c)
  BY <1>2, <1>3, WaitingOwn
<1>5. t \in Seq(Step)
  <2>1. Waiting \subseteq Step
    BY DEF Waiting
  <2> QED BY <2>1, SeqMonotonic
<1> QED BY <1>1, <1>4, <1>5, QuietStep DEF Goto

\* Setup relocates a project that has a row, or creates one.
LEMMA JudgeGoes ==
  ASSUME NEW c \in Commands, Judge(c)
  PROVE  LET p == Folder(c)
         IN  \/ \E id \in Readable :
                  /\ Goto(c, <<<<"relocate", id, p>>>> \o Named(Rest(c), id))
                  /\ UNCHANGED <<minted, identity>>
             \/ /\ Mint(c, RepoAt(p))
                /\ Goto(c, Created(minted + 1, p) \o Named(Rest(c), minted + 1))
<1> DEFINE q == Folder(c)
           r == RepoAt(q)
           moved == IF Captured(r)
                    THEN Gone({id \in Readable : SameIdentity(r, RepoOf(id))})
                    ELSE {}
           alike == Alike(moved, q)
           sure == IF Cardinality(alike) = 1 THEN alike
                   ELSE IF Cardinality(moved) = 1 THEN moved ELSE {}
<1>1. moved \subseteq Readable /\ alike \subseteq moved
  BY DEF Gone, Alike
<1>2. sure \subseteq Readable
  BY <1>1
<1>3. \/ \E id \in sure :
           /\ Goto(c, <<<<"relocate", id, q>>>> \o Named(Rest(c), id))
           /\ UNCHANGED <<minted, identity>>
      \/ /\ Mint(c, r)
         /\ Goto(c, Created(minted + 1, q) \o Named(Rest(c), minted + 1))
  BY Zenon DEF Judge
<1> HIDE DEF sure
<1> QED BY <1>2, <1>3

LEMMA JudgeStep ==
  ASSUME ListInv, NEW c \in Commands, Judge(c)
  PROVE  ListInv'
<1>0. TypeOK /\ Births /\ MaxProjects \in Nat
  BY Bounds DEF ListInv
<1>1. todo[c] # <<>> /\ Head(todo[c])[1] = "judge"
  BY DEF Judge, At
<1>2. Judging(todo[c])
  BY <1>1, HeadSpecial
<1>3. PICK p \in Paths : todo[c] = <<<<"judge", 0, p>>, <<"import", 0, p>>>>
  BY <1>2 DEF Judging
<1>4. Folder(c) = p /\ Rest(c) = <<<<"import", 0, p>>>>
  BY <1>3 DEF Folder, Rest
<1>5. \A id : Named(Rest(c), id) = <<<<"import", id, p>>>>
  BY <1>4 DEF Named
<1>6. /\ UNCHANGED <<bindings, log, row, ndjson, migrated, bound, overtaken,
                     seen, lines>>
  BY DEF Judge, disk
<1>7. \/ \E id \in Readable :
           /\ Goto(c, <<<<"relocate", id, p>>>> \o Named(Rest(c), id))
           /\ UNCHANGED <<minted, identity>>
      \/ /\ Mint(c, RepoAt(p))
         /\ Goto(c, Created(minted + 1, p) \o Named(Rest(c), minted + 1))
  BY <1>4, JudgeGoes
<1>8. CASE \E id \in Readable :
             /\ Goto(c, <<<<"relocate", id, p>>>> \o Named(Rest(c), id))
             /\ UNCHANGED <<minted, identity>>
  <2>1. PICK id \in Readable :
          /\ Goto(c, <<<<"relocate", id, p>>>> \o Named(Rest(c), id))
          /\ UNCHANGED <<minted, identity>>
    BY <1>8
  <2>2. id \in Ids /\ Born(id) /\ HasGenesis(id)
    BY ReadableBorn
  <2>3. id \in 0 .. MaxProjects
    BY <1>0, <2>2 DEF Ids
  <2>4. <<"relocate", id, p>> \in Waiting /\ <<"import", id, p>> \in Waiting
    BY <2>2, <2>3 DEF Waiting, Step, Names, Free
  <2> DEFINE x == <<"relocate", id, p>>
             y == <<"import", id, p>>
  <2>5. x \in Waiting /\ y \in Waiting
    BY <2>4
  <2> HIDE DEF x, y
  <2>6. <<x>> \o <<y>> \in Seq(Waiting)
    BY <2>5, OneSeq, ConcatProperties
  <2>7. Goto(c, <<x>> \o <<y>>)
    BY <1>5, <2>1 DEF x, y
  <2>8. identity' \in [Commands -> Checkouts] /\ seen' \in [Commands -> Seen]
        /\ lines' \in [Commands -> Seq(Event)]
    BY <1>0, <1>6, <2>1 DEF TypeOK
  <2> QED BY <1>6, <2>1, <2>6, <2>7, <2>8, QuietGoto
<1>9. CASE /\ Mint(c, RepoAt(p))
           /\ Goto(c, Created(minted + 1, p) \o Named(Rest(c), minted + 1))
  <2>1. Steps(<<"import">>, minted + 1, p) = <<<<"import", minted + 1, p>>>>
    BY DEF Steps
  <2> DEFINE s == Created(minted + 1, p) \o Steps(<<"import">>, minted + 1, p)
  <2>2. todo' = [todo EXCEPT ![c] = s]
    BY <1>5, <1>9, <2>1 DEF Goto
  <2>3. minted < MaxProjects /\ minted' = minted + 1
        /\ identity' = [identity EXCEPT ![c] = RepoAt(p)]
    BY <1>9 DEF Mint
  <2>4. <<"import">> \in Seq({"import", "remote"})
    OBVIOUS
  <2>5. Own(c) /\ todo'[c] \in Seq(Step)
    BY <1>0, <1>6, <2>2, <2>3, <2>4, NewOwn
  <2>6. s \in Seq(Step)
    BY <1>0, <2>2, <2>5 DEF TypeOK
  <2>7. identity' \in [Commands -> Checkouts] /\ seen' \in [Commands -> Seen]
        /\ lines' \in [Commands -> Seq(Event)]
    BY <1>0, <1>6, <2>3, RepoAtType DEF TypeOK
  <2>8. minted' \in minted .. MaxProjects
    BY <1>0, <2>3 DEF TypeOK
  <2> HIDE DEF s
  <2> QED BY <1>6, <2>2, <2>5, <2>6, <2>7, <2>8, QuietStep
<1> QED BY <1>7, <1>8, <1>9

LEMMA RelocatedWaits ==
  ASSUME TypeOK, NEW id \in Ids, Born(id), NEW p \in Paths
  PROVE  Relocated(id, p) \in Seq(Waiting)
<1> DEFINE others == {q \in Paths : bindings[q] = id /\ q # p}
           x == <<"bind", id, p>>
           u == [i \in 1 .. Cardinality(others) |-> <<"unbind", id, SetToSeq(others)[i]>>]
           v == IF RootOf(id) = p THEN <<>> ELSE Steps(<<"updated", "rebuild">>, id, p)
<1>0. MaxProjects \in Nat /\ id \in 0 .. MaxProjects
  BY Bounds DEF Ids
<1>1. IsFiniteSet(others)
  BY FS_Subset, ProjectsAssumption
<1>2. SetToSeq(others) \in [1 .. Cardinality(others) -> others] /\ Cardinality(others) \in Nat
  BY <1>1, SetSeq
<1>3. \A q \in Paths : <<"unbind", id, q>> \in Waiting
  BY <1>0 DEF Waiting, Step, Names, Free
<1>4. u \in [1 .. Cardinality(others) -> Waiting]
  BY <1>2, <1>3
<1>5. u \in Seq(Waiting)
  BY <1>2, <1>4, FunctionSeq
<1>6. x \in Waiting
  BY <1>0 DEF Waiting, Step, Names, Free
<1>7. v \in Seq(Waiting)
  <2>1. <<"updated", "rebuild">> \in Seq(Free)
    BY DEF Free
  <2>2. Steps(<<"updated", "rebuild">>, id, p) \in Seq(Waiting)
    BY <1>0, <2>1, WaitingSteps
  <2> QED BY <2>2, EmptySeq
<1>8. Relocated(id, p) = <<x>> \o u \o v
  BY DEF Relocated
<1> HIDE DEF x, u, v
<1>9. <<x>> \o u \in Seq(Waiting)
  BY <1>5, <1>6, OneSeq, ConcatProperties
<1> QED BY <1>7, <1>8, <1>9, ConcatProperties

LEMMA RelocatingStep ==
  ASSUME ListInv, NEW c \in Commands, Relocating(c)
  PROVE  ListInv'
<1>0. TypeOK
  BY DEF ListInv
<1>1. todo[c] # <<>> /\ Head(todo[c])[1] = "relocate"
  BY DEF Relocating, At
<1>2. Head(todo[c]) \in Waiting /\ Tail(todo[c]) \in Seq(Waiting)
  BY <1>1, HeadWaits
<1>3. Id(c) \in Ids /\ Born(Id(c)) /\ Folder(c) \in Paths
  BY <1>2 DEF Waiting, Step, Id, Folder
<1>4. Relocated(Id(c), Folder(c)) \o Rest(c) \in Seq(Waiting)
  BY <1>0, <1>2, <1>3, RelocatedWaits, ConcatProperties DEF Rest
<1>5. <<>> \in Seq(Waiting)
  BY EmptySeq
<1>6. \E t \in Seq(Waiting) : Goto(c, t)
  BY <1>4, <1>5 DEF Relocating
<1>7. UNCHANGED <<bindings, log, row, ndjson, migrated, bound, overtaken, minted,
                  identity, seen, lines>>
  BY DEF Relocating, disk
<1> QED BY <1>0, <1>6, <1>7, QuietGoto DEF TypeOK

LEMMA HealStep ==
  ASSUME ListInv, NEW c \in Commands, Heal(c)
  PROVE  ListInv'
<1>0. TypeOK /\ MaxProjects \in Nat
  BY Bounds DEF ListInv
<1>1. todo[c] # <<>> /\ Head(todo[c])[1] = "heal"
  BY DEF Heal, At
<1>2. Head(todo[c]) \in Waiting /\ Tail(todo[c]) \in Seq(Waiting)
  BY <1>1, HeadWaits
<1>3. Id(c) \in Ids /\ Born(Id(c))
  BY <1>2 DEF Waiting, Step, Id
<1>4. UNCHANGED <<bindings, log, row, ndjson, migrated, bound, overtaken, minted,
                  identity, seen, lines>>
  BY DEF Heal, disk, past
<1>5. PICK root \in Paths : Goto(c, Healing(Id(c), root) \o Rest(c))
  <2>1. Afar \in Paths
    BY ProjectsAssumption
  <2> DEFINE folders == {p \in Paths : bindings[p] = Id(c)}
             root == CHOOSE p \in Paths : p \in folders \/ (folders = {} /\ p = Afar)
  <2>2. \E p \in Paths : p \in folders \/ (folders = {} /\ p = Afar)
    BY <2>1
  <2>3. root \in Paths
    BY <2>2
  <2> QED BY <2>3 DEF Heal
<1>6. CASE Healing(Id(c), root) \in Seq(Waiting)
  <2>1. Healing(Id(c), root) \o Rest(c) \in Seq(Waiting)
    BY <1>2, <1>6, ConcatProperties DEF Rest
  <2> QED BY <1>0, <1>4, <1>5, <2>1, QuietGoto DEF TypeOK
<1>7. CASE /\ Healing(Id(c), root) = Steps(<<"backfilled", "workstream", "rebuild">>, Id(c), root)
           /\ ~ HasGenesis(Id(c))
  <2> DEFINE x == <<"backfilled", Id(c), root>>
             u == Steps(<<"workstream", "rebuild">>, Id(c), root)
             s == <<x>> \o (u \o Rest(c))
  <2>1. Id(c) \in 0 .. MaxProjects
    BY <1>0, <1>3 DEF Ids
  <2>2. x \in Step
    BY <2>1 DEF Step, Names
  <2>3. <<"workstream", "rebuild">> \in Seq(Free)
    BY DEF Free
  <2>4. u \in Seq(Waiting)
    BY <1>0, <1>3, <2>3, WaitingSteps
  <2>5. u \o Rest(c) \in Seq(Waiting)
    BY <1>2, <2>4, ConcatProperties DEF Rest
  <2>a. Waiting \subseteq Step
    BY DEF Waiting
  <2>6. /\ u \in Seq(Step) /\ Rest(c) \in Seq(Step) /\ u \o Rest(c) \in Seq(Step)
    BY <1>2, <2>4, <2>5, <2>a, SeqMonotonic DEF Rest
  <2>7. Steps(<<"backfilled", "workstream", "rebuild">>, Id(c), root) = <<x>> \o u
    BY DEF Steps
  <2>8. <<x>> \in Seq(Step)
    BY <2>2, OneSeq
  <2>b. x[1] = "backfilled" /\ x[2] = Id(c)
    OBVIOUS
  <2> HIDE DEF x, u
  <2>9. Steps(<<"backfilled", "workstream", "rebuild">>, Id(c), root) \o Rest(c) = s
    <3>1. (<<x>> \o u) \o Rest(c) = <<x>> \o (u \o Rest(c))
      BY <2>6, <2>8, ConcatAssociative
    <3> QED BY <2>7, <3>1
  <2>10. s \in Seq(Step) /\ s # <<>> /\ Head(s) = x /\ Tail(s) = u \o Rest(c)
    BY <2>6, <2>8
  <2>11. todo' = [todo EXCEPT ![c] = s]
    BY <1>5, <1>7, <2>9 DEF Goto
  <2> HIDE DEF s
  <2>12. todo'[c] = s
    BY <1>0, <2>11 DEF TypeOK
  <2>13. Waiting' = Waiting /\ \A id : Born(id)' <=> Born(id)
    BY <1>4 DEF Waiting, Born, HasGenesis, InLog
  <2>14. PICK id \in Ids : id = Id(c)
    BY <1>3
  <2>15. ~ Has(id, "created")'
    BY <1>4, <1>7, <2>14 DEF Has, HasGenesis, IsGenesis
  <2>16. Backing(todo[c], id)'
    BY <1>3, <2>b, <2>5, <2>10, <2>12, <2>13, <2>14, <2>15 DEF Backing, Starts, Step
  <2>17. \A k \in Ids : ~ Creating(todo[c], k)'
    BY <2>b, <2>10, <2>12 DEF Creating, Starts
  <2>18. Own(c)
    BY <2>10, <2>12, <2>16, <2>17 DEF Own, ListOk
  <2>19. minted' \in minted .. MaxProjects
    BY <1>0, <1>4 DEF TypeOK
  <2> QED BY <1>0, <1>4, <2>10, <2>11, <2>18, <2>19, QuietStep DEF TypeOK
<1> QED
  <2>1. <<"rebuild">> \in Seq(Free)
    BY DEF Free
  <2>2. Steps(<<"rebuild">>, Id(c), root) \in Seq(Waiting) /\ <<>> \in Seq(Waiting)
    BY <1>0, <1>3, <2>1, WaitingSteps, EmptySeq
  <2> QED BY <1>6, <1>7, <2>2 DEF Healing

-----------------------------------------------------------------------------
(* Steps that add to a log *)

LEMMA AppendGrows ==
  ASSUME TypeOK, NEW id \in Ids, NEW e \in Event,
         log' = [log EXCEPT ![id] = Append(@, e)]
  PROVE  /\ Grows
         /\ log'[id] = Append(log[id], e)
         /\ \A k \in Ids \ {id} : log'[k] = log[k]
         /\ log'[id] # <<>>
         /\ \E i \in 1 .. Len(log'[id]) : log'[id][i] = e
         /\ \A i \in 1 .. Len(log'[id]) :
              (i \in 1 .. Len(log[id]) /\ log'[id][i] = log[id][i]) \/ log'[id][i] = e
<1>1. log \in [Ids -> Seq(Event)] /\ log[id] \in Seq(Event) /\ Len(log[id]) \in Nat
  BY Bounds DEF TypeOK
<1>2. log'[id] = Append(log[id], e) /\ \A k \in Ids \ {id} : log'[k] = log[k]
  BY <1>1
<1>3. /\ Append(log[id], e) \in Seq(Event)
      /\ Len(Append(log[id], e)) = Len(log[id]) + 1
      /\ \A i \in 1 .. Len(log[id]) : Append(log[id], e)[i] = log[id][i]
      /\ Append(log[id], e)[Len(log[id]) + 1] = e
  BY <1>1, AppendProperties
<1>4. log' \in [Ids -> Seq(Event)]
  BY <1>1, <1>3
<1>5. Grows
  <2> SUFFICES ASSUME NEW k \in Ids
               PROVE  /\ Len(log[k]) <= Len(log'[k])
                      /\ \A i \in 1 .. Len(log[k]) : log'[k][i] = log[k][i]
    BY <1>4 DEF Grows
  <2>1. Len(log[k]) \in Nat
    BY Bounds
  <2> QED BY <1>1, <1>2, <1>3, <2>1
<1>6. log'[id] # <<>>
  BY <1>1, <1>2, <1>3, EmptySeq
<1>7. Len(log[id]) + 1 \in 1 .. Len(log'[id])
  BY <1>1, <1>2, <1>3
<1>8. ASSUME NEW i \in 1 .. Len(log'[id])
      PROVE  (i \in 1 .. Len(log[id]) /\ log'[id][i] = log[id][i]) \/ log'[id][i] = e
  <2>1. i \in 1 .. Len(log[id]) \/ i = Len(log[id]) + 1
    BY <1>1, <1>2, <1>3, <1>8
  <2> QED BY <1>2, <1>3, <2>1
<1>9. \E i \in 1 .. Len(log'[id]) : log'[id][i] = e
  BY <1>2, <1>3, <1>7
<1> QED BY <1>2, <1>5, <1>6, <1>8, <1>9

\* The event goes to a log that has begun, or that the command begins, and a
\* real genesis is not added behind the back of a command that makes one up.
LEMMA AppendEffect ==
  ASSUME ListInv, NEW c \in Commands, NEW id \in Ids, NEW e \in Event,
         log' = [log EXCEPT ![id] = Append(@, e)],
         Born(id) \/ Creating(todo[c], id),
         e[1] = "created" =>
           \/ Creating(todo[c], id)
           \/ \A d \in Commands : Starts(todo[d], "backfilled", id) => id \in overtaken',
         NEW t, todo' = [todo EXCEPT ![c] = t],
         UNCHANGED <<ndjson, minted, lines>>, overtaken \subseteq overtaken'
  PROVE  Effect(c) /\ todo'[c] = t
<1>1. TypeOK /\ minted \in Nat
  BY Bounds DEF ListInv, TypeOK
<1>2. /\ Grows
      /\ \A k \in Ids \ {id} : log'[k] = log[k]
      /\ \A i \in 1 .. Len(log'[id]) :
              (i \in 1 .. Len(log[id]) /\ log'[id][i] = log[id][i]) \/ log'[id][i] = e
  BY <1>1, AppendGrows
<1>3. \A d \in Commands \ {c} : todo'[d] = todo[d] /\ lines'[d] = lines[d]
  BY <1>1 DEF TypeOK
<1>4. todo'[c] = t
  BY <1>1 DEF TypeOK
<1>5. ASSUME NEW k \in Ids, Has(k, "created")'
      PROVE  \/ Has(k, "created") \/ Creating(todo[c], k)
             \/ \A d \in Commands : Starts(todo[d], "backfilled", k) => k \in overtaken'
  BY <1>2, <1>5 DEF Has
<1>6. \A k \in Ids : log'[k] = log[k] \/ Born(k) \/ Creating(todo[c], k)
  BY <1>2
<1> QED BY <1>1, <1>2, <1>3, <1>4, <1>5, <1>6 DEF Effect

\* Events from elsewhere go to a log that has begun.
LEMMA ConcatEffect ==
  ASSUME ListInv, NEW c \in Commands, NEW id \in Ids, NEW u \in Seq(Event),
         log' = [log EXCEPT ![id] = @ \o u], Born(id),
         \A d \in Commands : Starts(todo[d], "backfilled", id) => id \in overtaken',
         NEW t, todo' = [todo EXCEPT ![c] = t],
         UNCHANGED <<ndjson, minted, lines>>, overtaken \subseteq overtaken'
  PROVE  Effect(c) /\ todo'[c] = t
<1>0. TypeOK /\ minted \in Nat
  BY Bounds DEF ListInv, TypeOK
<1>1. /\ log'[id] = log[id] \o u /\ \A k \in Ids \ {id} : log'[k] = log[k]
      /\ log[id] \in Seq(Event) /\ log' \in [Ids -> Seq(Event)]
  <2>1. log[id] \in Seq(Event) /\ log \in [Ids -> Seq(Event)]
    BY <1>0 DEF TypeOK
  <2>2. log[id] \o u \in Seq(Event)
    BY <2>1, ConcatProperties
  <2> QED BY <2>1, <2>2
<1>2. Grows
  <2> SUFFICES ASSUME NEW k \in Ids
               PROVE  /\ Len(log[k]) <= Len(log'[k])
                      /\ \A i \in 1 .. Len(log[k]) : log'[k][i] = log[k][i]
    BY <1>1 DEF Grows
  <2>1. Len(log[k]) \in Nat /\ Len(u) \in Nat
    BY <1>0, Bounds, LenProperties
  <2>2. /\ Len(log[id] \o u) = Len(log[id]) + Len(u)
        /\ \A i \in 1 .. Len(log[id]) + Len(u) :
             (log[id] \o u)[i] =
               IF i <= Len(log[id]) THEN log[id][i] ELSE u[i - Len(log[id])]
    BY <1>1, ConcatProperties
  <2>3. CASE k = id
    BY <1>1, <2>1, <2>2, <2>3
  <2>4. CASE k # id
    BY <1>1, <2>1, <2>4
  <2> QED BY <2>3, <2>4
<1>3. todo'[c] = t /\ \A d \in Commands \ {c} : todo'[d] = todo[d]
  BY <1>0 DEF TypeOK
<1>4. \A k \in Ids : log'[k] = log[k] \/ Born(k)
  BY <1>1
<1>5. ASSUME NEW k \in Ids, Has(k, "created")'
      PROVE  \/ Has(k, "created")
             \/ \A d \in Commands : Starts(todo[d], "backfilled", k) => k \in overtaken'
  <2>1. CASE k = id
    BY <2>1
  <2>2. CASE k # id
    BY <1>1, <1>5, <2>2 DEF Has
  <2> QED BY <2>1, <2>2
<1> QED BY <1>0, <1>2, <1>3, <1>4, <1>5 DEF Effect

\* Nothing but the log and the list changes.
LEMMA LoggedStep ==
  ASSUME ListInv, NEW c \in Commands, NEW id \in Ids, NEW e \in Event,
         Append1(id, e), Done(c), Born(id) \/ Creating(todo[c], id),
         e[1] = "created" => Creating(todo[c], id),
         Tail(todo[c]) \in Seq(Waiting'), identity' \in [Commands -> Checkouts],
         UNCHANGED <<bindings, row, ndjson, migrated, minted, seen, lines, past>>
  PROVE  ListInv'
<1>1. TypeOK
  BY DEF ListInv
<1>2. Effect(c) /\ todo'[c] = Tail(todo[c])
  BY AppendEffect DEF Append1, Done, Goto, Rest, past
<1>3. Own(c)
  BY <1>2, WaitingOwn
<1>4. Grows /\ UNCHANGED bound
  BY <1>2 DEF Effect, past
<1>5. TypeOK'
  <2>1. todo' \in [Commands -> Seq(Step)]
    <3>1. Tail(todo[c]) \in Seq(Step)
      BY <1>2, <1>3 DEF Own
    <3> QED BY <1>1, <3>1 DEF TypeOK, Done, Goto, Rest
  <2> QED BY <1>1, <1>4, <2>1 DEF TypeOK, Grows
<1> QED BY <1>2, <1>3, <1>4, <1>5, StateKept, CommandStep

LEMMA HeadStep ==
  ASSUME TypeOK, NEW c \in Commands, todo[c] # <<>>
  PROVE  /\ Head(todo[c]) \in Step /\ Tail(todo[c]) \in Seq(Step)
         /\ Folder(c) \in Paths
<1>1. Head(todo[c]) \in Step /\ Tail(todo[c]) \in Seq(Step)
  BY RestSeq DEF TypeOK
<1> QED BY <1>1 DEF Step, Folder

LEMMA LogCreatedStep ==
  ASSUME ListInv, NEW c \in Commands, LogCreated(c)
  PROVE  ListInv'
<1>0. TypeOK /\ MaxProjects \in Nat
  BY Bounds DEF ListInv
<1>1. todo[c] # <<>> /\ Head(todo[c])[1] = "created"
  BY DEF LogCreated, Logged, At
<1>2. PICK id \in Ids : id = Id(c) /\ Creating(todo[c], id)
  BY <1>1, HeadSpecial
<1> DEFINE e == <<"created", Folder(c), identity[c]>>
<1>3. e \in Event /\ e[1] = "created"
  BY <1>0, <1>1, HeadStep DEF Event, TypeOK
<1>4. IsGenesis(e)
  BY DEF IsGenesis
<1> HIDE DEF e
<1>5. Append1(id, e) /\ Done(c) /\ log' = [log EXCEPT ![id] = Append(@, e)]
  BY <1>2 DEF LogCreated, Logged, Append1, e
<1>6. log'[id] # <<>> /\ \E i \in 1 .. Len(log'[id]) : log'[id][i] = e
  BY <1>0, <1>3, <1>5, AppendGrows
<1>7. Born(id)' /\ HasGenesis(id)'
  BY <1>4, <1>6 DEF Born, HasGenesis, IsGenesis
<1>8. Sequel(id) \subseteq Waiting'
  BY <1>7 DEF Sequel, Waiting, Free
<1>9. Tail(todo[c]) \in Seq(Waiting')
  BY <1>2, <1>8, SeqMonotonic DEF Creating
<1>10. identity' \in [Commands -> Checkouts]
  BY <1>0 DEF LogCreated, TypeOK, Checkouts
<1>11. UNCHANGED <<bindings, row, ndjson, migrated, minted, seen, lines, past>>
  BY DEF LogCreated, Logged
<1> QED BY <1>2, <1>3, <1>5, <1>9, <1>10, <1>11, LoggedStep

LEMMA LogBackfilledStep ==
  ASSUME ListInv, NEW c \in Commands, LogBackfilled(c)
  PROVE  ListInv'
<1>0. TypeOK
  BY DEF ListInv
<1>1. todo[c] # <<>> /\ Head(todo[c])[1] = "backfilled"
  BY DEF LogBackfilled, Logged, At
<1>2. PICK id \in Ids : id = Id(c) /\ Backing(todo[c], id)
  BY <1>1, HeadSpecial
<1> DEFINE e == <<"backfilled", Folder(c), NoRepo>>
<1>3. e \in Event /\ e[1] # "created"
  BY <1>0, <1>1, HeadStep DEF Event, Checkouts
<1> HIDE DEF e
<1>4. Append1(id, e) /\ Done(c) /\ log' = [log EXCEPT ![id] = Append(@, e)]
  BY <1>2 DEF LogBackfilled, Logged, Append1, e
<1>5. Grows
  BY <1>0, <1>3, <1>4, AppendGrows
<1>6. Tail(todo[c]) \in Seq(Waiting')
  BY <1>0, <1>2, <1>5, GrowsKeeps, SeqMonotonic DEF Backing
<1>7. UNCHANGED <<bindings, row, ndjson, migrated, minted, seen, lines, past>>
      /\ identity' \in [Commands -> Checkouts]
  BY <1>0 DEF LogBackfilled, Logged, TypeOK
<1> QED BY <1>2, <1>3, <1>4, <1>6, <1>7, LoggedStep DEF Backing

\* An event that no later step relies on
LEMMA FreeLogged ==
  ASSUME ListInv, NEW c \in Commands, NEW name \in {"workstream", "updated"},
         Logged(c, name, <<name, Folder(c), NoRepo>>), UNCHANGED <<identity, past>>
  PROVE  ListInv'
<1>0. TypeOK
  BY DEF ListInv
<1>1. todo[c] # <<>> /\ Head(todo[c])[1] = name
  BY DEF Logged, At
<1>2. Head(todo[c]) \in Waiting /\ Tail(todo[c]) \in Seq(Waiting)
  BY <1>1, HeadWaits
<1>3. PICK id \in Ids : id = Id(c) /\ Born(id)
  BY <1>2 DEF Waiting, Step, Id
<1> DEFINE e == <<name, Folder(c), NoRepo>>
<1>4. e \in Event /\ e[1] # "created"
  BY <1>0, <1>1, HeadStep DEF Event, Checkouts
<1> HIDE DEF e
<1>5. Append1(id, e) /\ Done(c) /\ log' = [log EXCEPT ![id] = Append(@, e)]
  BY <1>3 DEF Logged, Append1, e
<1>6. Tail(todo[c]) \in Seq(Waiting')
  BY <1>0, <1>2, <1>4, <1>5, AppendGrows, GrowsKeeps, SeqMonotonic
<1>7. UNCHANGED <<bindings, row, ndjson, migrated, minted, seen, lines, past>>
      /\ identity' \in [Commands -> Checkouts]
  BY <1>0 DEF Logged, TypeOK
<1> QED BY <1>3, <1>4, <1>5, <1>6, <1>7, LoggedStep

\* One step of the list is done, and nothing the invariant speaks of changes.
LEMMA QuietDone ==
  ASSUME ListInv, NEW c \in Commands, Tail(todo[c]) \in Seq(Waiting), Done(c),
         UNCHANGED <<bindings, log, row, ndjson, migrated, bound, overtaken, minted,
                     identity, seen, lines>>
  PROVE  ListInv'
BY QuietGoto DEF Done, Goto, Rest, ListInv, TypeOK

LEMMA ObserveStep ==
  ASSUME ListInv, NEW c \in Commands, Observe(c)
  PROVE  ListInv'
<1>0. TypeOK
  BY DEF ListInv
<1>1. todo[c] # <<>> /\ Head(todo[c])[1] = "observe"
  BY DEF Observe, At
<1>2. Head(todo[c]) \in Waiting /\ Tail(todo[c]) \in Seq(Waiting)
  BY <1>1, HeadWaits
<1>3. PICK id \in Ids : id = Id(c) /\ Born(id)
  BY <1>2 DEF Waiting, Step, Id
<1>4. /\ UNCHANGED <<bindings, row, ndjson, migrated, minted, seen, lines, identity, past>>
      /\ Done(c)
  BY DEF Observe
<1>5. CASE log' = log
  BY <1>2, <1>4, <1>5, QuietDone DEF past
<1>6. CASE log' # log
  <2> DEFINE e == <<"captured", Afar, NoRepo>>
  <2>1. Append1(id, e)
    BY <1>3, <1>6 DEF Observe, Append1
  <2>2. e \in Event /\ e[1] # "created"
    BY ProjectsAssumption DEF Event, Checkouts
  <2> HIDE DEF e
  <2>3. Tail(todo[c]) \in Seq(Waiting')
    BY <1>0, <1>2, <2>1, <2>2, AppendGrows, GrowsKeeps, SeqMonotonic DEF Append1
  <2>4. identity' \in [Commands -> Checkouts]
    BY <1>0, <1>4 DEF TypeOK
  <2> QED BY <1>3, <1>4, <2>1, <2>2, <2>3, <2>4, LoggedStep
<1> QED BY <1>5, <1>6

-----------------------------------------------------------------------------
(* Steps that write the row of a project *)

\* A row made of a log with a genesis is in order.
LEMMA RowsStep ==
  ASSUME ListInv, NEW c \in Commands, Effect(c), NEW id \in Ids, HasGenesis(id)',
         row' = [row EXCEPT ![id] = <<Fold(log'[id])>>]
  PROVE  row' \in [Ids -> {<<>>} \cup {<<r>> : r \in Row}] /\ Rows'
<1>0. TypeOK /\ Grows /\ Rows
  BY DEF ListInv, Effect
<1> DEFINE s == log'[id]
           f == Fold(s)
<1>1. s \in Seq(Event)
  BY <1>0 DEF Grows
<1>2. \E i \in 1 .. Len(s) : IsGenesis(s[i])
  BY DEF HasGenesis, IsGenesis
<1> HIDE DEF s
<1>3. f \in Row /\ \E i \in 1 .. Len(s) : IsGenesis(s[i]) /\ f.repo = s[i][3]
  BY <1>1, <1>2, FoldFrom
<1>4. row' = [row EXCEPT ![id] = <<f>>]
  BY DEF s
<1> HIDE DEF f
<1>5. row' \in [Ids -> {<<>>} \cup {<<r>> : r \in Row}]
  BY <1>0, <1>3, <1>4 DEF TypeOK
<1>6. row'[id] = <<f>> /\ \A k \in Ids \ {id} : row'[k] = row[k]
  BY <1>0, <1>4 DEF TypeOK
<1>7. RowFrom(id)'
  <2>1. row'[id][1].repo = f.repo
    BY <1>6
  <2>2. PICK i \in 1 .. Len(s) : IsGenesis(s[i]) /\ f.repo = s[i][3]
    BY <1>3
  <2>3. i \in 1 .. Len(log'[id]) /\ IsGenesis(log'[id][i]) /\ row'[id][1].repo = log'[id][i][3]
    BY <2>1, <2>2 DEF s
  <2> QED BY <2>3 DEF RowFrom, RepoOf, IsGenesis
<1>8. ASSUME NEW k \in Ids \ {id}, row'[k] # <<>> PROVE RowFrom(k)'
  <2>1. RowFrom(k)
    BY <1>0, <1>6, <1>8 DEF Rows, Readable
  <2>2. PICK i \in 1 .. Len(log[k]) : IsGenesis(log[k][i]) /\ RepoOf(k) = log[k][i][3]
    BY <2>1 DEF RowFrom
  <2>3. Len(log[k]) \in Nat /\ Len(log'[k]) \in Nat
    BY <1>0, LenProperties DEF TypeOK, Grows
  <2>4. i \in 1 .. Len(log'[k]) /\ log'[k][i] = log[k][i]
    BY <1>0, <2>3 DEF Grows
  <2> QED BY <1>6, <2>2, <2>4 DEF RowFrom, IsGenesis, RepoOf
<1> QED BY <1>5, <1>7, <1>8 DEF Rows, Readable

\* A step that leaves the logs alone does no harm to the other commands.
LEMMA UnloggedEffect ==
  ASSUME TypeOK, NEW c \in Commands, NEW t, todo' = [todo EXCEPT ![c] = t],
         UNCHANGED <<log, minted, overtaken>>, ndjson' \subseteq ndjson,
         \A d \in Commands \ {c} : lines'[d] = lines[d]
  PROVE  Effect(c) /\ todo'[c] = t
<1>1. Grows
  BY Bounds DEF Grows, TypeOK
<1>2. \A d \in Commands \ {c} : todo'[d] = todo[d]
  BY DEF TypeOK
<1>3. todo'[c] = t
  BY DEF TypeOK
<1>4. minted \in Nat
  BY Bounds DEF TypeOK
<1> QED BY <1>1, <1>2, <1>3, <1>4 DEF Effect, Has

LEMMA ImportStep ==
  ASSUME ListInv, NEW c \in Commands, Import(c)
  PROVE  ListInv'
<1>0. TypeOK
  BY DEF ListInv
<1>1. todo[c] # <<>> /\ Head(todo[c])[1] = "import"
  BY DEF Import, At
<1>2. Head(todo[c]) \in Waiting /\ Tail(todo[c]) \in Seq(Waiting)
  BY <1>1, HeadWaits
<1>3. PICK id \in Ids : id = Id(c) /\ Born(id) /\ HasGenesis(id)
  BY <1>1, <1>2 DEF Waiting, Step, Id, Free
<1>4. /\ UNCHANGED <<bindings, ndjson, migrated, minted, seen, lines, identity, past>>
      /\ todo' = [todo EXCEPT ![c] = Tail(todo[c])]
      /\ row' = [row EXCEPT ![id] = <<Fold(log'[id])>>]
  BY <1>3 DEF Import, Done, Goto, Rest
<1>5. Effect(c) /\ todo'[c] = Tail(todo[c])
  <2>1. CASE log' = log
    BY <1>0, <1>4, <2>1, UnloggedEffect DEF past
  <2>2. CASE log' # log
    <3> DEFINE e == <<"rule", Afar, NoRepo>>
    <3>1. log' = [log EXCEPT ![id] = Append(@, e)]
      BY <1>3, <2>2 DEF Import
    <3>2. e \in Event /\ e[1] # "created"
      BY ProjectsAssumption DEF Event, Checkouts
    <3> HIDE DEF e
    <3> QED BY <1>3, <1>4, <3>1, <3>2, AppendEffect DEF past
  <2> QED BY <2>1, <2>2
<1>6. Grows /\ HasGenesis(id)'
  BY <1>0, <1>3, <1>5, GrowsKeeps DEF Effect
<1>7. row' \in [Ids -> {<<>>} \cup {<<r>> : r \in Row}] /\ Rows'
  BY <1>4, <1>5, <1>6, RowsStep
<1>8. TypeOK'
  <2>1. Tail(todo[c]) \in Seq(Step)
    BY <1>0, <1>1, HeadStep
  <2>2. todo' \in [Commands -> Seq(Step)] /\ log' \in [Ids -> Seq(Event)]
    BY <1>0, <1>4, <1>6, <2>1 DEF TypeOK, Grows
  <2> QED BY <1>0, <1>4, <1>7, <2>2 DEF TypeOK, past
<1>9. Own(c)
  BY <1>2, <1>4, <1>6, RestOwn
<1>10. UNCHANGED <<bindings, bound>> /\ \A d \in Commands : seen'[d] = seen[d]
  BY <1>4 DEF past
<1> QED BY <1>4, <1>5, <1>7, <1>8, <1>9, <1>10, StateKept, CommandStep

LEMMA RebuildStep ==
  ASSUME ListInv, NEW c \in Commands, Rebuild(c)
  PROVE  ListInv'
<1>0. TypeOK
  BY DEF ListInv
<1>1. todo[c] # <<>> /\ Head(todo[c])[1] \in {"rebuild", "refresh"}
  BY DEF Rebuild, At
<1>2. Head(todo[c]) \in Waiting /\ Tail(todo[c]) \in Seq(Waiting)
  BY <1>1, HeadWaits
<1>3. PICK id \in Ids : id = Id(c) /\ Born(id)
  BY <1>2 DEF Waiting, Step, Id
<1>4. UNCHANGED <<bindings, log, ndjson, migrated, minted, seen, lines, identity, past>>
  BY DEF Rebuild
<1>5. CASE HasGenesis(id)
  <2>1. /\ row' = [row EXCEPT ![id] = <<Fold(log[id])>>]
        /\ todo' = [todo EXCEPT ![c] = Tail(todo[c])]
    BY <1>3, <1>5 DEF Rebuild, HasGenesis, Done, Goto, Rest
  <2>2. Effect(c) /\ todo'[c] = Tail(todo[c])
    BY <1>0, <1>4, <2>1, UnloggedEffect DEF past
  <2>3. HasGenesis(id)' /\ row' = [row EXCEPT ![id] = <<Fold(log'[id])>>]
    BY <1>4, <1>5, <2>1 DEF HasGenesis
  <2>4. row' \in [Ids -> {<<>>} \cup {<<r>> : r \in Row}] /\ Rows'
    BY <2>2, <2>3, RowsStep
  <2>5. TypeOK'
    <3>1. Tail(todo[c]) \in Seq(Step)
      BY <1>0, <1>1, HeadStep
    <3>2. todo' \in [Commands -> Seq(Step)]
      BY <1>0, <2>1, <3>1 DEF TypeOK
    <3> QED BY <1>0, <1>4, <2>4, <3>2 DEF TypeOK, past
  <2>6. Own(c)
    BY <1>2, <2>1, <2>2, RestOwn DEF Effect
  <2>7. UNCHANGED <<bindings, bound>> /\ \A d \in Commands : seen'[d] = seen[d]
    BY <1>4 DEF past
  <2> QED BY <1>4, <2>2, <2>4, <2>5, <2>6, <2>7, StateKept, CommandStep
<1>6. CASE ~ HasGenesis(id)
  <2>1. PICK t \in {<<>>, Tail(todo[c])} : Goto(c, t) /\ UNCHANGED row
    BY <1>3, <1>6 DEF Rebuild, Rest
  <2>2. t \in Seq(Waiting)
    BY <1>2, EmptySeq
  <2> QED BY <1>0, <1>4, <2>1, <2>2, QuietGoto DEF TypeOK, past
<1> QED BY <1>5, <1>6

-----------------------------------------------------------------------------
(* The sync file and the pull *)

LEMMA WriteSyncStep ==
  ASSUME ListInv, NEW c \in Commands, WriteSync(c) \/ Push(c)
  PROVE  ListInv'
<1>1. todo[c] # <<>> /\ Head(todo[c])[1] \in {"sync", "remote", "push"}
  BY DEF WriteSync, Push, At
<1>2. Tail(todo[c]) \in Seq(Waiting)
  BY <1>1, HeadWaits
<1> QED BY <1>2, QuietDone DEF WriteSync, Push, past

LEMMA PulledAre ==
  ASSUME NEW id
  PROVE  /\ Pulled(id) \in Seq(Event)
         /\ \A i \in 1 .. Len(Pulled(id)) :
              \/ /\ Pulled(id)[i] = SharedGenesis
                 /\ SharedGenesis \in relay[id] /\ SharedGenesis \notin Range(log[id])
              \/ Pulled(id)[i] \in {MadeUp, Moved}
<1> DEFINE u == Brought(id, SharedGenesis)
           v == Brought(id, MadeUp)
           w == Brought(id, Moved)
           Real == {SharedGenesis} \cap (relay[id] \ Range(log[id]))
           E == Real \cup {MadeUp, Moved}
<1>1. SharedGenesis \in Event /\ MadeUp \in Event /\ Moved \in Event
  BY ProjectsAssumption DEF SharedGenesis, MadeUp, Moved, Event, Checkouts
<1>2. /\ u = <<>> \/ (u = <<SharedGenesis>> /\ SharedGenesis \in E)
      /\ v = <<>> \/ (v = <<MadeUp>> /\ MadeUp \in E)
      /\ w = <<>> \/ (w = <<Moved>> /\ Moved \in E)
  BY DEF Brought
<1>3. E \subseteq Event
  BY <1>1
<1> HIDE DEF u, v, w, E
<1>4. u \in Seq(E) /\ v \in Seq(E) /\ w \in Seq(E)
  BY <1>2, OneSeq, EmptySeq
<1>5. u \o v \in Seq(E)
  BY <1>4, ConcatProperties
<1>6. Pulled(id) = (u \o v) \o w
  BY DEF Pulled, u, v, w
<1>7. Pulled(id) \in Seq(E)
  BY <1>4, <1>5, <1>6, ConcatProperties
<1>8. Pulled(id) \in Seq(Event)
  BY <1>3, <1>7, SeqMonotonic
<1>9. \A i \in 1 .. Len(Pulled(id)) : Pulled(id)[i] \in E
  BY <1>7, ElementOfSeq
<1> QED BY <1>8, <1>9 DEF E

\* What a pull leaves to do: the rebuild, unless nothing came.
LEMMA PullGoes ==
  ASSUME ListInv, NEW c \in Commands, Pull(c)
  PROVE  /\ Id(c) \in Ids /\ Born(Id(c))
         /\ Tail(todo[c]) \in Seq(Waiting)
         /\ \/ todo' = [todo EXCEPT ![c] = Tail(todo[c])]
            \/ \E name \in {"rebuild", "refresh"}, p \in Paths :
                 todo' = [todo EXCEPT ![c] = <<<<name, Id(c), p>>>> \o Tail(todo[c])]
<1>0. TypeOK
  BY DEF ListInv
<1>1. todo[c] # <<>> /\ Head(todo[c])[1] \in {"pull", "autopull"}
  BY DEF Pull, At
<1>2. Tail(todo[c]) \in Seq(Waiting) /\ Head(todo[c]) \in Waiting
  BY <1>1, HeadWaits
<1>3. Id(c) \in Ids /\ Born(Id(c))
  BY <1>2 DEF Waiting, Step, Id
<1>4. Folder(c) \in Paths
  BY <1>0, <1>1, HeadStep
<1>5. \A name : Steps(<<name>>, Id(c), Folder(c)) = <<<<name, Id(c), Folder(c)>>>>
  BY DEF Steps
<1>6. \/ Done(c)
      \/ \E name \in {"rebuild", "refresh"} :
           Goto(c, Steps(<<name>>, Id(c), Folder(c)) \o Rest(c))
  BY DEF Pull
<1> QED BY <1>2, <1>3, <1>4, <1>5, <1>6 DEF Done, Goto, Rest

LEMMA PullStep ==
  ASSUME ListInv, NEW c \in Commands, Pull(c) \/ PullFails(c)
  PROVE  ListInv'
<1>0. TypeOK /\ MaxProjects \in Nat
  BY Bounds DEF ListInv
<1>1. todo[c] # <<>> /\ Head(todo[c])[1] \in {"pull", "autopull"}
  BY DEF Pull, PullFails, At
<1>2. Tail(todo[c]) \in Seq(Waiting)
  BY <1>1, HeadWaits
<1>3. CASE PullFails(c)
  <2>1. PICK t \in {<<>>, Tail(todo[c])} : Goto(c, t)
    BY <1>3 DEF PullFails, Rest
  <2>2. UNCHANGED <<bindings, log, row, ndjson, migrated, bound, overtaken,
                    minted, identity, seen, lines>>
    BY <1>3 DEF PullFails, disk, past
  <2>3. t \in Seq(Waiting)
    BY <1>2, EmptySeq
  <2> QED BY <1>0, <2>1, <2>2, <2>3, QuietGoto DEF TypeOK
<1>4. CASE Pull(c)
  <2>1. PICK id \in Ids : id = Id(c) /\ Born(id)
    BY <1>4, PullGoes
  <2>2. PICK t : /\ todo' = [todo EXCEPT ![c] = t]
                 /\ \/ t = Tail(todo[c])
                    \/ \E name \in {"rebuild", "refresh"}, p \in Paths :
                         t = <<<<name, id, p>>>> \o Tail(todo[c])
    BY <1>4, <2>1, PullGoes
  <2>3. t \in Seq(Waiting)
    <3>1. ASSUME NEW name \in {"rebuild", "refresh"}, NEW p \in Paths
          PROVE  <<<<name, id, p>>>> \o Tail(todo[c]) \in Seq(Waiting)
      <4>1. <<name, id, p>> \in Waiting
        BY <1>0, <2>1 DEF Waiting, Step, Names, Free, Ids
      <4>2. <<<<name, id, p>>>> \in Seq(Waiting)
        BY <4>1, OneSeq
      <4> QED BY <1>2, <4>2, ConcatProperties
    <3> QED BY <1>2, <2>2, <3>1
  <2>4. PICK u \in Seq(Event) : log' = [log EXCEPT ![id] = @ \o u]
    BY <1>4, <2>1, PulledAre DEF Pull
  <2>5. /\ UNCHANGED <<bindings, row, ndjson, migrated, minted, seen, lines, identity, bound>>
        /\ overtaken \subseteq overtaken'
    BY <1>4 DEF Pull, Arrival
  <2>6. ASSUME NEW d \in Commands, Starts(todo[d], "backfilled", id)
        PROVE  id \in overtaken'
    BY <1>4, <2>1, <2>6 DEF Pull, Arrival, Starts, At, Id
  <2>7. Effect(c) /\ todo'[c] = t
    BY <2>1, <2>2, <2>4, <2>5, <2>6, ConcatEffect
  <2>8. Waiting \subseteq Waiting' /\ Waiting \subseteq Step
    BY <1>0, <2>7, GrowsKeeps DEF Effect, Waiting
  <2>9. t \in Seq(Waiting') /\ t \in Seq(Step)
    BY <2>3, <2>8, SeqMonotonic
  <2>10. Own(c)
    BY <2>7, <2>9, WaitingOwn
  <2>11. TypeOK'
    <3>1. todo' \in [Commands -> Seq(Step)] /\ log' \in [Ids -> Seq(Event)]
      BY <1>0, <2>2, <2>7, <2>9 DEF TypeOK, Effect, Grows
    <3> QED BY <1>0, <2>5, <3>1 DEF TypeOK
  <2> QED BY <2>5, <2>7, <2>10, <2>11, StateKept, CommandStep
<1> QED BY <1>3, <1>4

-----------------------------------------------------------------------------
(* The file of bindings *)

LEMMA ReadBindingsStep ==
  ASSUME ListInv, NEW c \in Commands, ReadBindings(c)
  PROVE  ListInv'
<1>0. TypeOK /\ Births
  BY DEF ListInv
<1>1. todo[c] # <<>> /\ Head(todo[c])[1] \in {"bind", "unbind"}
  BY DEF ReadBindings, At
<1>2. todo[c] \in Seq(Waiting)
  BY <1>1, HeadWaits
<1>3. UNCHANGED <<bindings, log, row, ndjson, migrated, minted, todo, lines, identity,
                  bound, overtaken>>
  BY DEF ReadBindings, disk, past
<1>4. seen' = [seen EXCEPT ![c] = <<bindings>>]
  BY DEF ReadBindings
<1>5. TypeOK'
  BY <1>0, <1>3, <1>4 DEF TypeOK, Seen
<1>6. todo' = [todo EXCEPT ![c] = todo[c]]
  BY <1>0, <1>3 DEF TypeOK
<1>7. Effect(c)
  BY <1>0, <1>3, <1>6, UnloggedEffect
<1>8. Waiting' = Waiting
  BY <1>3 DEF Waiting, Born, HasGenesis, InLog
<1>9. Own(c)
  BY <1>2, <1>3, <1>8, WaitingOwn
<1>10. Births'
  <2>1. BornIn(bindings)' /\ (\A id \in bound : Born(id))' /\ (\A id \in Ids : Born(id) => id <= minted)'
    BY <1>0, <1>3 DEF Births, BornIn, Born
  <2>2. ASSUME NEW d \in Commands, seen'[d] # <<>> PROVE BornIn(seen[d][1])'
    <3>1. CASE d = c
      <4>1. seen'[d] = <<bindings>>
        BY <1>0, <1>4, <3>1 DEF TypeOK
      <4> QED BY <1>0, <1>3, <4>1 DEF Births, BornIn, Born
    <3>2. CASE d # c
      <4>1. seen'[d] = seen[d]
        BY <1>0, <1>4, <3>2 DEF TypeOK
      <4>2. BornIn(seen[d][1])
        BY <1>0, <2>2, <4>1 DEF Births
      <4> QED BY <1>3, <4>1, <4>2 DEF BornIn, Born
    <3> QED BY <3>1, <3>2
  <2> QED BY <2>1, <2>2 DEF Births
<1> QED BY <1>3, <1>5, <1>7, <1>9, <1>10, StateKept, CommandStep

\* What goes back to the file is what was read with one folder changed.
LEMMA WriteBindingsStep ==
  ASSUME ListInv, NEW c \in Commands, NEW new,
         todo[c] # <<>>, Head(todo[c])[1] \in {"bind", "unbind"},
         WriteBindings(c, new),
         \/ new = [seen[c][1] EXCEPT ![Folder(c)] = Id(c)]
         \/ new = [seen[c][1] EXCEPT ![Folder(c)] = Unbound]
  PROVE  ListInv'
<1>0. TypeOK /\ Births /\ MaxProjects \in Nat
  BY Bounds DEF ListInv
<1>1. Head(todo[c]) \in Waiting /\ Tail(todo[c]) \in Seq(Waiting)
  BY HeadWaits
<1>2. Id(c) \in Ids /\ Born(Id(c)) /\ Folder(c) \in Paths
  BY <1>1 DEF Waiting, Step, Id, Folder
<1>3. /\ UNCHANGED <<log, row, ndjson, migrated, minted, lines, identity, overtaken>>
      /\ todo' = [todo EXCEPT ![c] = Tail(todo[c])]
      /\ seen' = [seen EXCEPT ![c] = <<>>]
      /\ bindings' = new
      /\ bound' = bound \cup ({new[Folder(c)]} \ {Unbound})
  BY DEF WriteBindings, Done, Goto, Rest
<1>4. seen[c] # <<>> /\ seen[c][1] \in Bindings /\ BornIn(seen[c][1])
  BY <1>0 DEF WriteBindings, TypeOK, Seen, Births
<1>5. new \in Bindings /\ BornIn(new) /\ (new[Folder(c)] = Unbound \/ new[Folder(c)] = Id(c))
  BY <1>0, <1>2, <1>4 DEF Bindings, BornIn, Ids, Unbound
<1>6. TypeOK'
  <2>1. Tail(todo[c]) \in Seq(Step)
    BY <1>0, HeadStep
  <2>2. todo' \in [Commands -> Seq(Step)] /\ seen' \in [Commands -> Seen]
    BY <1>0, <1>3, <2>1 DEF TypeOK, Seen
  <2>3. bound' \subseteq Ids
    BY <1>0, <1>2, <1>3, <1>5 DEF TypeOK
  <2> QED BY <1>0, <1>3, <1>5, <2>2, <2>3 DEF TypeOK
<1>7. Effect(c)
  BY <1>0, <1>3, UnloggedEffect
<1>8. Own(c)
  BY <1>1, <1>3, <1>7, RestOwn DEF Effect
<1>9. Births'
  <2>1. BornIn(bindings)'
    BY <1>3, <1>5 DEF BornIn, Born
  <2>2. ASSUME NEW d \in Commands, seen'[d] # <<>> PROVE BornIn(seen[d][1])'
    <3>1. seen'[d] = seen[d]
      BY <1>0, <1>3, <2>2 DEF TypeOK
    <3>2. BornIn(seen[d][1])
      BY <1>0, <2>2, <3>1 DEF Births
    <3> QED BY <1>3, <3>1, <3>2 DEF BornIn, Born
  <2>3. ASSUME NEW id \in bound' PROVE Born(id)'
    <3>1. Born(id)
      BY <1>0, <1>2, <1>3, <1>5, <2>3 DEF Births
    <3> QED BY <1>3, <3>1 DEF Born
  <2>4. \A id \in Ids : Born(id)' => id <= minted'
    BY <1>0, <1>3 DEF Births, Born
  <2> QED BY <2>1, <2>2, <2>3, <2>4 DEF Births
<1> QED BY <1>3, <1>6, <1>7, <1>8, <1>9, StateKept, CommandStep

LEMMA BindingStep ==
  ASSUME ListInv, NEW c \in Commands, BindFolder(c) \/ UnbindFolder(c)
  PROVE  ListInv'
BY WriteBindingsStep DEF BindFolder, UnbindFolder, At

-----------------------------------------------------------------------------
(* The import of the NDJSON log *)

LEMMA LegacyEventsAre ==
  ASSUME NEW files \in SUBSET Legacy
  PROVE  /\ LegacyEvents(files) \in Seq(Event)
         /\ \A f \in files : \E i \in 1 .. Len(LegacyEvents(files)) :
              LegacyEvents(files)[i] = LegacyEvent(f)
<1>1. LegacyEvent(1) \in Event /\ LegacyEvent(2) \in Event
  BY ProjectsAssumption DEF LegacyEvent, Event, Checkouts
<1> DEFINE a == LegacyEvent(1)
           b == LegacyEvent(2)
           u == IF 1 \in files THEN <<a>> ELSE <<>>
           v == IF 2 \in files THEN <<b>> ELSE <<>>
<1>2. a \in Event /\ b \in Event
  BY <1>1
<1>3. LegacyEvents(files) = u \o v
  BY DEF LegacyEvents
<1>4. files \subseteq {1, 2}
  BY DEF Legacy
<1> HIDE DEF a, b
<1>5. u \o v \in Seq(Event)
  BY <1>2
<1>6. ASSUME NEW f \in files, f = 1
      PROVE  \E i \in 1 .. Len(u \o v) : (u \o v)[i] = a
  <2>1. 1 \in 1 .. Len(u \o v) /\ (u \o v)[1] = a
    BY <1>2, <1>6
  <2> QED BY <2>1
<1>7. ASSUME NEW f \in files, f = 2
      PROVE  \E i \in 1 .. Len(u \o v) : (u \o v)[i] = b
  <2>1. CASE 1 \in files
    <3>1. 2 \in 1 .. Len(u \o v) /\ (u \o v)[2] = b
      BY <1>2, <1>7, <2>1
    <3> QED BY <3>1
  <2>2. CASE 1 \notin files
    <3>1. 1 \in 1 .. Len(u \o v) /\ (u \o v)[1] = b
      BY <1>2, <1>7, <2>2
    <3> QED BY <3>1
  <2> QED BY <2>1, <2>2
<1>8. a = LegacyEvent(1) /\ b = LegacyEvent(2)
  BY DEF a, b
<1> QED BY <1>3, <1>4, <1>5, <1>6, <1>7, <1>8

LEMMA ReadLegacyStep ==
  ASSUME ListInv, NEW c \in Commands, ReadLegacy(c)
  PROVE  ListInv'
<1>0. TypeOK /\ LegacyKept /\ Old \in Ids /\ MaxProjects \in Nat
  BY Bounds DEF ListInv
<1>1. todo[c] # <<>> /\ Head(todo[c])[1] = "read"
  BY DEF ReadLegacy, At
<1>2. PICK p \in Paths : p = Folder(c)
  BY <1>0, <1>1, HeadStep
<1>3. /\ UNCHANGED <<bindings, log, row, ndjson, migrated, bound, overtaken, minted,
                     identity, seen>>
      /\ lines' = [lines EXCEPT ![c] = LegacyEvents(ndjson)]
      /\ todo' = [todo EXCEPT ![c] = Steps(Importing(ndjson), Old, p)]
  BY <1>2 DEF ReadLegacy, disk, past, Goto
<1>4. /\ \A d \in Commands \ {c} : lines'[d] = lines[d]
      /\ lines'[c] = LegacyEvents(ndjson) /\ lines' \in [Commands -> Seq(Event)]
  <2>1. LegacyEvents(ndjson) \in Seq(Event)
    BY <1>0, LegacyEventsAre DEF TypeOK
  <2> QED BY <1>0, <1>3, <2>1 DEF TypeOK
<1>5. CASE ndjson = {}
  <2>1. \A f \in Legacy : InLog(f)
    BY <1>0, <1>5 DEF LegacyKept, InLog
  <2>2. <<"mark", Old, p>> \in Waiting
    BY <1>0, <2>1 DEF Waiting, Step, Names, Ids, Born
  <2>3. Steps(Importing(ndjson), Old, p) = <<<<"mark", Old, p>>>>
    BY <1>5 DEF Steps, Importing
  <2> DEFINE x == <<"mark", Old, p>>
  <2>4. x \in Waiting /\ todo' = [todo EXCEPT ![c] = <<x>>]
    BY <1>3, <2>2, <2>3
  <2> HIDE DEF x
  <2>5. <<x>> \in Seq(Waiting) /\ Goto(c, <<x>>)
    BY <2>4, OneSeq DEF Goto
  <2> QED BY <1>0, <1>3, <1>4, <2>5, QuietGoto DEF TypeOK
<1>6. CASE ndjson # {}
  <2> DEFINE s == <<<<"insert", Old, p>>, <<"verify", Old, p>>, <<"mark", Old, p>>,
                    <<"rebuild", Old, p>>>>
  <2>1. Steps(Importing(ndjson), Old, p) = s
    BY <1>6 DEF Steps, Importing
  <2>2. s \in Seq(Step)
    BY <1>0 DEF Step, Names, Free, Ids
  <2>3. Inserting(s)
    BY DEF Inserting
  <2>4. \A id \in Ids : ~ Starts(s, "created", id)
    BY DEF Starts
  <2>5. todo' = [todo EXCEPT ![c] = s]
    BY <1>3, <2>1
  <2> HIDE DEF s
  <2>6. todo'[c] = s
    BY <1>0, <2>5 DEF TypeOK
  <2>7. lines'[c] = LegacyEvents(ndjson)
    BY <1>4
  <2>8. LinesOk(lines[c])'
    <3>1. ndjson' = ndjson /\ ndjson \in SUBSET Legacy
      BY <1>0, <1>3 DEF TypeOK
    <3> QED BY <2>7, <3>1 DEF LinesOk, LegacyEvents, LegacyEvent
  <2>9. Inserting(todo[c])'
    BY <2>3, <2>6 DEF Inserting
  <2>10. \A id \in Ids : ~ Creating(todo[c], id)'
    BY <2>4, <2>6 DEF Creating, Starts
  <2>11. Own(c)
    BY <2>2, <2>6, <2>8, <2>9, <2>10 DEF Own, ListOk
  <2>12. minted' \in minted .. MaxProjects
    BY <1>0, <1>3 DEF TypeOK
  <2> QED BY <1>0, <1>3, <1>4, <2>2, <2>5, <2>11, <2>12, QuietStep DEF TypeOK
<1> QED BY <1>5, <1>6

\* The events that are new go in at once, and the files are verified next.
LEMMA InsertLegacyStep ==
  ASSUME ListInv, NEW c \in Commands, InsertLegacy(c)
  PROVE  ListInv'
<1>0. TypeOK /\ Old \in Ids /\ MaxProjects \in Nat
  BY Bounds DEF ListInv
<1>1. todo[c] # <<>> /\ Head(todo[c])[1] = "insert"
  BY DEF InsertLegacy, At
<1>2. Inserting(todo[c]) /\ LinesOk(lines[c])
  BY <1>1, HeadSpecial
<1> DEFINE read == {f \in Legacy : LegacyEvent(f) \in Range(lines[c])}
           new == {f \in read : LegacyEvent(f) \notin Range(log[Old])}
           added == LegacyEvents(new)
<1>3. /\ UNCHANGED <<bindings, row, ndjson, migrated, minted, seen, lines, identity, bound>>
      /\ todo' = [todo EXCEPT ![c] = Tail(todo[c])]
      /\ overtaken \subseteq overtaken'
      /\ log' = [log EXCEPT ![Old] = @ \o added]
  BY DEF InsertLegacy, Done, Goto, Rest, Arrival
<1>4. ASSUME NEW d \in Commands, Starts(todo[d], "backfilled", Old)
      PROVE  Old \in overtaken'
  BY <1>4 DEF InsertLegacy, Arrival, Starts, At, Id
<1>5. added \in Seq(Event)
  <2>1. new \in SUBSET Legacy
    OBVIOUS
  <2> HIDE DEF new
  <2> QED BY <2>1, LegacyEventsAre
<1> HIDE DEF added
<1>6. Effect(c) /\ todo'[c] = Tail(todo[c])
  <2>1. Born(Old)
    BY DEF Born
  <2> QED BY <1>0, <1>3, <1>4, <1>5, <2>1, ConcatEffect
<1>7. PICK p \in Paths : todo[c] = <<<<"insert", Old, p>>, <<"verify", Old, p>>,
                                      <<"mark", Old, p>>, <<"rebuild", Old, p>>>>
  BY <1>2 DEF Inserting
<1>8. todo'[c] = <<<<"verify", Old, p>>, <<"mark", Old, p>>, <<"rebuild", Old, p>>>>
  BY <1>6, <1>7
<1>9. Verifying(todo[c])'
  BY <1>8 DEF Verifying
<1>10. LinesOk(lines[c])'
  BY <1>2, <1>3 DEF LinesOk, LegacyEvents, LegacyEvent
<1>11. \A k \in Ids : ~ Creating(todo[c], k)'
  BY <1>8 DEF Creating, Starts
<1>12. todo'[c] \in Seq(Step)
  BY <1>0, <1>1, <1>6, HeadStep
<1>13. Own(c)
  BY <1>9, <1>10, <1>11, <1>12 DEF Own, ListOk
<1>14. TypeOK'
  <2>1. todo' \in [Commands -> Seq(Step)] /\ log' \in [Ids -> Seq(Event)]
    BY <1>0, <1>3, <1>6, <1>12 DEF TypeOK, Effect, Grows
  <2> QED BY <1>0, <1>3, <2>1 DEF TypeOK
<1> QED BY <1>3, <1>6, <1>13, <1>14, StateKept, CommandStep

\* When the log is what was read, every event of a file that is still there
\* is in it, and every other one was before.
LEMMA VerifyLegacyStep ==
  ASSUME ListInv, NEW c \in Commands, VerifyLegacy(c)
  PROVE  ListInv'
<1>0. TypeOK /\ LegacyKept /\ Old \in Ids /\ MaxProjects \in Nat /\ MaxProjects >= 2
  BY Bounds, ProjectsAssumption DEF ListInv
<1>1. todo[c] # <<>> /\ Head(todo[c])[1] = "verify"
  BY DEF VerifyLegacy, At
<1>2. Verifying(todo[c]) /\ LinesOk(lines[c])
  BY <1>1, HeadSpecial
<1>3. PICK p \in Paths :
        todo[c] = <<<<"verify", Old, p>>, <<"mark", Old, p>>, <<"rebuild", Old, p>>>>
  BY <1>2 DEF Verifying
<1>4. PICK files \in SUBSET Legacy : ndjson \subseteq files /\ lines[c] = LegacyEvents(files)
  BY <1>2 DEF LinesOk
<1>5. Folder(c) = p /\ Rest(c) = <<<<"mark", Old, p>>, <<"rebuild", Old, p>>>>
  BY <1>3 DEF Folder, Rest
<1> DEFINE moves == [i \in 1 .. Cardinality(ndjson) |-> <<"move", SetToSeq(ndjson)[i], Folder(c)>>]
<1>6. /\ UNCHANGED <<bindings, log, row, ndjson, migrated, bound, overtaken, minted,
                     identity, seen>>
      /\ lines' = [lines EXCEPT ![c] = <<>>]
      /\ Goto(c, IF log[Old] # lines[c] THEN <<>> ELSE moves \o Rest(c))
  BY DEF VerifyLegacy, disk, past
<1>7. /\ \A d \in Commands \ {c} : lines'[d] = lines[d]
      /\ lines' \in [Commands -> Seq(Event)]
  BY <1>0, <1>6 DEF TypeOK
<1>8. ASSUME log[Old] = lines[c] PROVE moves \o Rest(c) \in Seq(Waiting)
  <2>1. \A f \in files : InLog(f)
    BY <1>4, <1>8, LegacyEventsAre DEF InLog
  <2>2. \A f \in Legacy : InLog(f)
    BY <1>0, <1>4, <2>1 DEF LegacyKept, InLog
  <2>3. IsFiniteSet(ndjson)
    <3>1. IsFiniteSet({1, 2})
      <4>1. PICK n \in Nat : n = 2
        OBVIOUS
      <4>2. IsFiniteSet(1 .. n)
        BY FS_Interval
      <4>3. {1, 2} = 1 .. n
        BY <4>1
      <4> QED BY <4>2, <4>3
    <3> QED BY <1>0, <3>1, FS_Subset DEF TypeOK, Legacy
  <2>4. SetToSeq(ndjson) \in [1 .. Cardinality(ndjson) -> ndjson] /\ Cardinality(ndjson) \in Nat
    BY <2>3, SetSeq
  <2>5. \A f \in ndjson : <<"move", f, p>> \in Waiting
    <3> SUFFICES ASSUME NEW f \in ndjson PROVE <<"move", f, p>> \in Waiting
      OBVIOUS
    <3>1. f \in Legacy /\ InLog(f)
      BY <1>0, <2>2 DEF TypeOK
    <3>2. f \in Ids /\ Born(f) /\ f \in 0 .. MaxProjects
      BY <1>0, <3>1 DEF Legacy, Ids, Born, Old, Shared
    <3> QED BY <3>1, <3>2 DEF Waiting, Step, Names
  <2>6. moves \in [1 .. Cardinality(ndjson) -> Waiting]
    BY <1>5, <2>4, <2>5
  <2>7. moves \in Seq(Waiting)
    BY <2>4, <2>6, FunctionSeq
  <2> HIDE DEF moves
  <2> DEFINE x == <<"mark", Old, p>>
             y == <<"rebuild", Old, p>>
  <2>8. x \in Waiting /\ y \in Waiting
    BY <1>0, <2>2 DEF Waiting, Step, Names, Free, Ids, Born, Old
  <2>9. Rest(c) = <<x, y>>
    BY <1>5
  <2> HIDE DEF x, y
  <2>10. <<x, y>> \in Seq(Waiting)
    BY <2>8
  <2> QED BY <2>7, <2>9, <2>10, ConcatProperties
<1> HIDE DEF moves
<1>9. \E t \in Seq(Waiting) : Goto(c, t)
  BY <1>6, <1>8, EmptySeq
<1> QED BY <1>0, <1>6, <1>7, <1>9, QuietGoto DEF TypeOK

\* A file goes only when its event is in the log.
LEMMA MoveFileStep ==
  ASSUME ListInv, NEW c \in Commands, MoveFile(c)
  PROVE  ListInv'
<1>0. TypeOK /\ LegacyKept
  BY DEF ListInv
<1>1. todo[c] # <<>> /\ Head(todo[c])[1] = "move"
  BY DEF MoveFile, At
<1>2. Head(todo[c]) \in Waiting /\ Tail(todo[c]) \in Seq(Waiting)
  BY <1>1, HeadWaits
<1>3. InLog(Id(c))
  BY <1>1, <1>2 DEF Waiting, Free, Id
<1>4. /\ UNCHANGED <<bindings, log, row, migrated, bound, overtaken, minted, identity, seen, lines>>
      /\ ndjson' = ndjson \ {Id(c)}
  BY DEF MoveFile, past
<1>5. PICK t \in Seq(Waiting) : todo' = [todo EXCEPT ![c] = t]
  BY <1>2, EmptySeq DEF MoveFile, Done, Goto, Rest
<1>6. Effect(c) /\ todo'[c] = t
  BY <1>0, <1>4, <1>5, UnloggedEffect
<1>7. Waiting' = Waiting
  BY <1>4 DEF Waiting, Born, HasGenesis, InLog
<1>8. Own(c)
  BY <1>6, <1>7, WaitingOwn
<1>9. TypeOK'
  <2>1. Waiting \subseteq Step
    BY DEF Waiting
  <2>2. todo' \in [Commands -> Seq(Step)]
    BY <1>0, <1>5, <2>1, SeqMonotonic DEF TypeOK
  <2> QED BY <1>0, <1>4, <2>2 DEF TypeOK
<1>10. LegacyKept'
  BY <1>0, <1>3, <1>4 DEF LegacyKept, InLog, LegacyEvent
<1> QED BY <1>4, <1>6, <1>8, <1>9, <1>10, StateKept, CommandStep

LEMMA MarkMigratedStep ==
  ASSUME ListInv, NEW c \in Commands, MarkMigrated(c)
  PROVE  ListInv'
<1>0. TypeOK /\ LegacyKept
  BY DEF ListInv
<1>1. todo[c] # <<>> /\ Head(todo[c])[1] = "mark"
  BY DEF MarkMigrated, At
<1>2. Head(todo[c]) \in Waiting /\ Tail(todo[c]) \in Seq(Waiting)
  BY <1>1, HeadWaits
<1>3. \A f \in Legacy : InLog(f)
  BY <1>1, <1>2 DEF Waiting, Free
<1>4. /\ UNCHANGED <<bindings, log, row, ndjson, bound, overtaken, minted, identity, seen, lines>>
      /\ migrated' = TRUE
      /\ todo' = [todo EXCEPT ![c] = Tail(todo[c])]
  BY DEF MarkMigrated, past, Done, Goto, Rest
<1>6. Effect(c) /\ todo'[c] = Tail(todo[c])
  BY <1>0, <1>4, UnloggedEffect
<1>8. Own(c)
  BY <1>2, <1>4, <1>6, RestOwn DEF Effect
<1>9. TypeOK'
  <2>1. Tail(todo[c]) \in Seq(Step)
    BY <1>0, <1>1, HeadStep
  <2>2. todo' \in [Commands -> Seq(Step)]
    BY <1>0, <1>4, <2>1 DEF TypeOK
  <2> QED BY <1>0, <1>4, <2>2 DEF TypeOK
<1>10. LegacyKept'
  BY <1>3, <1>4 DEF LegacyKept, InLog, LegacyEvent
<1> QED BY <1>4, <1>6, <1>8, <1>9, <1>10, StateKept, CommandStep

-----------------------------------------------------------------------------
(* Kills, the user, the initial state *)

LEMMA KillStep ==
  ASSUME ListInv, NEW c \in Commands, Kill(c)
  PROVE  ListInv'
<1>0. TypeOK
  BY DEF ListInv
<1>1. /\ UNCHANGED <<bindings, log, row, ndjson, migrated, bound, overtaken, minted>>
      /\ Goto(c, <<>>)
      /\ seen' = [seen EXCEPT ![c] = <<>>]
      /\ lines' = [lines EXCEPT ![c] = <<>>]
      /\ identity' = [identity EXCEPT ![c] = NoRepo]
  BY DEF Kill, disk, Goto
<1>2. /\ identity' \in [Commands -> Checkouts] /\ seen' \in [Commands -> Seen]
      /\ lines' \in [Commands -> Seq(Event)]
      /\ \A d \in Commands : seen'[d] = seen[d] \/ seen'[d] = <<>>
      /\ \A d \in Commands \ {c} : lines'[d] = lines[d]
  BY <1>0, <1>1 DEF TypeOK, Checkouts, Seen
<1> QED BY <1>1, <1>2, EmptySeq, QuietGoto

\* Moved checkouts, removed backups and what other machines push change nothing
\* the invariant speaks of.
LEMMA StillStep ==
  ASSUME ListInv,
         UNCHANGED <<bindings, log, row, ndjson, migrated, minted, todo, seen, lines,
                     identity, bound, overtaken>>
  PROVE  ListInv'
<1>1. TypeOK'
  BY DEF ListInv, TypeOK
<1>2. Waiting' = Waiting
  BY DEF Waiting, Born, HasGenesis, InLog
<1>3. ASSUME NEW c \in Commands
      PROVE  /\ ListOk(todo[c], lines[c])'
             /\ \A id \in Ids : Creating(todo[c], id)' <=> Creating(todo[c], id)
  <2>1. ListOk(todo[c], lines[c])
    BY DEF ListInv, Lists
  <2>2. \A id \in Ids : Creating(todo[c], id)' <=> Creating(todo[c], id)
    BY DEF Creating, Starts, Unborn, Sequel, Step
  <2>3. \A id \in Ids : Backing(todo[c], id) => Backing(todo[c], id)'
    BY <1>2 DEF Backing, Starts, Has, Born, Step
  <2>4. /\ Judging(todo[c]) => Judging(todo[c])'
        /\ Inserting(todo[c]) => Inserting(todo[c])'
        /\ Verifying(todo[c]) => Verifying(todo[c])'
        /\ LinesOk(lines[c]) => LinesOk(lines[c])'
        /\ todo[c] \in Seq(Waiting) => todo'[c] \in Seq(Waiting')
    BY <1>2 DEF Judging, Inserting, Verifying, LinesOk, LegacyEvents, LegacyEvent
  <2> QED BY <2>1, <2>2, <2>3, <2>4 DEF ListOk
<1>4. Births' /\ Rows' /\ LegacyKept'
  <2>1. Births'
    BY DEF ListInv, Births, BornIn, Born
  <2>2. Rows'
    BY DEF ListInv, Rows, Readable, RowFrom, RepoOf, IsGenesis
  <2>3. LegacyKept'
    BY DEF ListInv, LegacyKept, LegacyEvent
  <2> QED BY <2>1, <2>2, <2>3
<1>5. Lists' /\ Apart'
  BY <1>3 DEF ListInv, Lists, Apart
<1> QED BY <1>1, <1>4, <1>5 DEF ListInv

LEMMA ListInvInit == Init => ListInv
<1> SUFFICES ASSUME Init PROVE ListInv
  OBVIOUS
<1>1. MaxProjects \in Nat /\ MaxProjects >= 2 /\ Start[OldRepo] \in Paths
  BY ProjectsAssumption
<1>2. Old \in Ids /\ Old = 1 /\ Shared = 2
  BY <1>1 DEF Old, Shared, Ids
<1>3. TypeOK
  <2>1. bindings \in Bindings
    BY <1>1, <1>2 DEF Init, Bindings, Unbound
  <2>2. /\ log \in [Ids -> Seq(Event)] /\ todo \in [Commands -> Seq(Step)]
        /\ seen \in [Commands -> Seen] /\ lines \in [Commands -> Seq(Event)]
        /\ row \in [Ids -> {<<>>} \cup {<<r>> : r \in Row}]
        /\ identity \in [Commands -> Checkouts]
    BY EmptySeq DEF Init, Seen, Checkouts
  <2>3. minted \in 2 .. MaxProjects /\ bound \subseteq Ids /\ migrated \in BOOLEAN
        /\ ndjson \subseteq Legacy
    <3>1. minted = 2 /\ bound = {Old} /\ migrated = FALSE /\ ndjson = Legacy
      BY DEF Init
    <3>2. migrated \in BOOLEAN
      BY <3>1, Zenon
    <3>3. minted \in 2 .. MaxProjects
      BY <1>1, <3>1
    <3>4. bound \subseteq Ids /\ ndjson \subseteq Legacy
      BY <1>2, <3>1, Zenon
    <3> QED BY <3>2, <3>3, <3>4
  <2> QED BY <2>1, <2>2, <2>3 DEF TypeOK
<1>4. \A c \in Commands : todo[c] = <<>>
  BY DEF Init
<1>5. Lists
  BY <1>4, EmptySeq DEF Lists, ListOk
<1>6. Apart
  BY <1>4 DEF Apart, Creating, Starts
<1>7. Births
  <2>1. \A id : Born(id) => id \in {Old, Shared} \/ id \notin Ids
    BY DEF Born, Init
  <2>2. \A c \in Commands : seen[c] = <<>>
    BY DEF Init
  <2>3. BornIn(bindings)
    BY DEF BornIn, Born, Init
  <2>4. \A id \in bound : Born(id)
    BY DEF Born, Init
  <2>5. \A id \in Ids : Born(id) => id <= minted
    BY <1>2, <2>1 DEF Init
  <2> QED BY <2>2, <2>3, <2>4, <2>5 DEF Births
<1>8. Rows
  BY DEF Rows, Readable, Init
<1>9. LegacyKept
  BY DEF LegacyKept, Init
<1> QED BY <1>3, <1>5, <1>6, <1>7, <1>8, <1>9 DEF ListInv

LEMMA ListInvNext == ListInv /\ [Next]_vars => ListInv'
<1> SUFFICES ASSUME ListInv, [Next]_vars PROVE ListInv'
  OBVIOUS
<1>1. ASSUME NEW r \in Repos, NEW p \in Paths, MoveRepo(r, p) PROVE ListInv'
  BY <1>1, StillStep DEF MoveRepo, disk, work, past
<1>2. ASSUME NEW c \in Commands, NEW p \in Paths, CliCleanup(c, p) PROVE ListInv'
  BY <1>2, StillStep DEF CliCleanup, work, past
<1>3. ASSUME NEW c \in Commands, LogCreated(c) PROVE ListInv'
  BY <1>3, LogCreatedStep
<1>4. ASSUME NEW c \in Commands, LogWorkstream(c) \/ LogUpdated(c) PROVE ListInv'
  BY <1>4, FreeLogged DEF LogWorkstream, LogUpdated
<1>5. ASSUME NEW c \in Commands,
             \/ Judge(c) \/ Relocating(c)
             \/ ReadBindings(c) \/ BindFolder(c) \/ UnbindFolder(c)
             \/ LogBackfilled(c) \/ Observe(c) \/ Import(c) \/ Rebuild(c)
             \/ WriteSync(c) \/ Push(c) \/ Pull(c) \/ PullFails(c) \/ Heal(c)
             \/ ReadLegacy(c) \/ InsertLegacy(c) \/ VerifyLegacy(c)
             \/ MoveFile(c) \/ MarkMigrated(c) \/ Kill(c)
      PROVE ListInv'
  BY <1>5, JudgeStep, RelocatingStep, ReadBindingsStep, BindingStep, LogBackfilledStep,
     ObserveStep, ImportStep, RebuildStep, WriteSyncStep, PullStep, HealStep,
     ReadLegacyStep, InsertLegacyStep, VerifyLegacyStep, MoveFileStep,
     MarkMigratedStep, KillStep
<1>6. CASE UNCHANGED vars
  BY <1>6, StillStep DEF vars, disk, work, past
<1>7. ASSUME NEW id \in Ids, NEW e \in {MadeUp, Moved}, PeerPushes(id, e) PROVE ListInv'
  BY <1>7, StillStep DEF PeerPushes, disk, work, past
<1> QED BY <1>1, <1>2, <1>3, <1>4, <1>5, <1>6, <1>7, CommandsStart DEF Next

\* The lists of steps are in order in every behaviour: each step finds what
\* it relies on, whatever other commands do, and wherever they are killed.
THEOREM ListsHold == Spec => []ListInv
BY ListInvInit, ListInvNext, PTL DEF Spec

\* No event of the NDJSON era is lost by runs of the import that overlap or
\* are killed: it is in the log, or in its file and the marker is not set.
THEOREM LegacyKeptHolds == Spec => []LegacyKept
<1>1. ListInv => LegacyKept
  BY DEF ListInv
<1> QED BY <1>1, ListsHold, PTL

-----------------------------------------------------------------------------
(* Which genesis a log is read through.  A log has real geneses of one     *)
(* checkout only, made-up ones have none, and unless one came amid the     *)
(* other, none is made up here after a real one.  A pull can add one that  *)
(* was made up elsewhere.                                                  *)

Genesis(id, s) ==
  /\ \A i \in 1 .. Len(s) : s[i][1] \in {"backfilled", "foreign"} => s[i][3] = NoRepo
  /\ \A i, j \in 1 .. Len(s) :
       s[i][1] = "created" /\ s[j][1] = "created" => s[i][3] = s[j][3]
  /\ id = Old => \A i \in 1 .. Len(s) : s[i][1] = "created" => s[i] = LegacyEvent(1)
  /\ id = Shared => \A i \in 1 .. Len(s) : s[i][1] = "created" => s[i] = SharedGenesis

Late(s) == \E i, j \in 1 .. Len(s) :
  s[i][1] = "created" /\ s[j][1] = "backfilled" /\ i <= j

\* An automatic relocation agreed with the real genesis of the project.
Agreed(a) ==
  /\ a[1] \in Readable
  /\ \E i \in 1 .. Len(log[a[1]]) :
       LET known == log[a[1]][i][3]
       IN  /\ log[a[1]][i][1] = "created"
           /\ Origin[known] # "" /\ Origin[a[2]] # "" => Origin[known] = Origin[a[2]]

\* The real genesis of another machine is on the remote of Shared alone.
Relayed == \A id \in Ids : SharedGenesis \in relay[id] => id = Shared

Geneses == \A id \in Ids : Genesis(id, log[id])
Ordered == \A id \in Ids \ overtaken : ~ Late(log[id])
Adoptions == \A a \in adopted : Agreed(a)

GenesisInv ==
  ListInv /\ Relayed /\ Geneses /\ Ordered /\ silent = {} /\ Adoptions

\* An event that may come next in the log of id
Next1(id, e) ==
  /\ e[1] = "backfilled" => e[3] = NoRepo /\ (Has(id, "created") => id \in overtaken)
  /\ e[1] = "created" => id \notin {Old, Shared} /\ ~ Has(id, "created")
  /\ e[1] # "foreign"

\* Events that another machine may bring to the log of id
Brings(id, u) ==
  /\ u \in Seq(Event)
  /\ \A i \in 1 .. Len(u) :
       \/ u[i] = SharedGenesis /\ id = Shared
       \/ u[i] \in {MadeUp, Moved}
       \/ id = Old /\ u[i] \in {LegacyEvent(1), LegacyEvent(2)}

\* How a step changes the log of id
LogStep(id) ==
  \/ log'[id] = log[id]
  \/ \E e \in Event : log'[id] = Append(log[id], e) /\ Next1(id, e)
  \/ \E u : Brings(id, u) /\ log'[id] = log[id] \o u

LEMMA LegacyEventsOnly ==
  ASSUME NEW files \in SUBSET Legacy
  PROVE  \A i \in 1 .. Len(LegacyEvents(files)) :
           LegacyEvents(files)[i] \in {LegacyEvent(1), LegacyEvent(2)}
<1> DEFINE a == LegacyEvent(1)
           b == LegacyEvent(2)
           u == IF 1 \in files THEN <<a>> ELSE <<>>
           v == IF 2 \in files THEN <<b>> ELSE <<>>
<1>1. LegacyEvents(files) = u \o v
  BY DEF LegacyEvents
<1> HIDE DEF a, b
<1>2. u \in Seq({a, b}) /\ v \in Seq({a, b})
  <2>1. a \in {a, b} /\ b \in {a, b}
    OBVIOUS
  <2>2. <<a>> \in Seq({a, b}) /\ <<b>> \in Seq({a, b}) /\ <<>> \in Seq({a, b})
    BY <2>1, OneSeq, EmptySeq
  <2> QED BY <2>2
<1> HIDE DEF u, v
<1>3. u \o v \in Seq({a, b})
  BY <1>2, ConcatProperties
<1>4. \A i \in 1 .. Len(u \o v) : (u \o v)[i] \in {a, b}
  BY <1>3, ElementOfSeq
<1> QED BY <1>1, <1>4 DEF a, b

\* A log changes as LogStep says.
LEMMA AppendStep ==
  ASSUME TypeOK, NEW id \in Ids, NEW e \in Event,
         log' = [log EXCEPT ![id] = Append(@, e)], Next1(id, e)
  PROVE  \A k \in Ids : LogStep(k)
BY AppendGrows DEF LogStep

LEMMA LogsChange ==
  ASSUME ListInv, NEW c \in Commands,
         \/ LogCreated(c) \/ LogWorkstream(c) \/ LogUpdated(c) \/ LogBackfilled(c)
         \/ Observe(c) \/ Import(c) \/ InsertLegacy(c)
  PROVE  \A id \in Ids : LogStep(id)
<1>0. TypeOK /\ MaxProjects \in Nat /\ Shared \in Ids /\ Old \in Ids /\ Afar \in Paths
  BY Bounds, ProjectsAssumption DEF ListInv
<1>1. CASE LogCreated(c)
  <2>1. todo[c] # <<>> /\ Head(todo[c])[1] = "created"
    BY <1>1 DEF LogCreated, Logged, At
  <2>2. PICK id \in Ids : id = Id(c) /\ Creating(todo[c], id)
    BY <2>1, HeadSpecial
  <2> DEFINE e == <<"created", Folder(c), identity[c]>>
  <2>3. e \in Event /\ log' = [log EXCEPT ![id] = Append(@, e)]
    BY <1>0, <1>1, <2>1, <2>2, HeadStep DEF Event, TypeOK, LogCreated, Logged, Append1
  <2>4. Next1(id, e)
    BY <2>2 DEF Next1, Creating, Unborn, Has, Old, Shared
  <2> HIDE DEF e
  <2> QED BY <1>0, <2>3, <2>4, AppendStep
<1>2. ASSUME NEW name \in {"workstream", "updated"},
             Logged(c, name, <<name, Folder(c), NoRepo>>)
      PROVE  \A id \in Ids : LogStep(id)
  <2>1. todo[c] # <<>> /\ Head(todo[c])[1] = name
    BY <1>2 DEF Logged, At
  <2>2. PICK id \in Ids : id = Id(c)
    BY <2>1, HeadWaits DEF Waiting, Step, Id
  <2> DEFINE e == <<name, Folder(c), NoRepo>>
  <2>3. e \in Event /\ log' = [log EXCEPT ![id] = Append(@, e)]
    BY <1>0, <1>2, <2>1, <2>2, HeadStep DEF Event, Checkouts, Logged, Append1
  <2>4. Next1(id, e)
    BY DEF Next1
  <2> HIDE DEF e
  <2> QED BY <1>0, <2>3, <2>4, AppendStep
<1>3. CASE LogBackfilled(c)
  <2>1. todo[c] # <<>> /\ Head(todo[c])[1] = "backfilled"
    BY <1>3 DEF LogBackfilled, Logged, At
  <2>2. PICK id \in Ids : id = Id(c) /\ Backing(todo[c], id)
    BY <2>1, HeadSpecial
  <2> DEFINE e == <<"backfilled", Folder(c), NoRepo>>
  <2>3. e \in Event /\ log' = [log EXCEPT ![id] = Append(@, e)]
    BY <1>0, <1>3, <2>1, <2>2, HeadStep DEF Event, Checkouts, LogBackfilled, Logged, Append1
  <2>4. Next1(id, e)
    BY <2>2 DEF Next1, Backing
  <2> HIDE DEF e
  <2> QED BY <1>0, <2>3, <2>4, AppendStep
<1>4. ASSUME NEW name \in {"captured", "rule"}, NEW id \in Ids,
             log' = [log EXCEPT ![id] = Append(@, <<name, Afar, NoRepo>>)]
      PROVE  \A k \in Ids : LogStep(k)
  <2> DEFINE e == <<name, Afar, NoRepo>>
  <2>1. e \in Event /\ Next1(id, e)
    BY <1>0 DEF Event, Checkouts, Next1
  <2>2. log' = [log EXCEPT ![id] = Append(@, e)]
    BY <1>4
  <2> HIDE DEF e
  <2> QED BY <1>0, <2>1, <2>2, AppendStep
<1>5. CASE Observe(c) \/ Import(c)
  <2>1. todo[c] # <<>> /\ Head(todo[c])[1] \in {"observe", "import"}
    BY <1>5 DEF Observe, Import, At
  <2>2. PICK id \in Ids : id = Id(c)
    BY <2>1, HeadWaits DEF Waiting, Step, Id
  <2>3. CASE log' = log
    BY <2>3 DEF LogStep
  <2>4. CASE log' # log
    BY <1>4, <1>5, <2>2, <2>4 DEF Observe, Import
  <2> QED BY <2>3, <2>4
<1>6. CASE InsertLegacy(c)
  <2> DEFINE read == {f \in Legacy : LegacyEvent(f) \in Range(lines[c])}
             new == {f \in read : LegacyEvent(f) \notin Range(log[Old])}
             u == LegacyEvents(new)
  <2>1. log' = [log EXCEPT ![Old] = @ \o u]
    BY <1>6 DEF InsertLegacy
  <2>2. new \in SUBSET Legacy
    OBVIOUS
  <2> HIDE DEF new
  <2>3. Brings(Old, u)
    BY <2>2, LegacyEventsAre, LegacyEventsOnly DEF Brings
  <2> HIDE DEF u
  <2>4. log'[Old] = log[Old] \o u /\ \A k \in Ids \ {Old} : log'[k] = log[k]
    BY <1>0, <2>1 DEF TypeOK
  <2> QED BY <2>3, <2>4 DEF LogStep
<1>7. LogWorkstream(c) \/ LogUpdated(c) => \A id \in Ids : LogStep(id)
  BY <1>2 DEF LogWorkstream, LogUpdated
<1> QED BY <1>1, <1>3, <1>5, <1>6, <1>7

LEMMA PullChanges ==
  ASSUME ListInv, NEW c \in Commands, Pull(c)
  PROVE  /\ \A id \in Ids : log'[id] = log[id] \/ \E u \in Seq(Event) : log'[id] = log[id] \o u
         /\ Relayed => \A id \in Ids : LogStep(id)
<1>0. TypeOK
  BY DEF ListInv
<1>1. PICK id \in Ids : id = Id(c)
  BY PullGoes
<1> DEFINE u == Pulled(id)
<1>2. u \in Seq(Event) /\ (Relayed => Brings(id, u))
  BY <1>1, PulledAre DEF Brings, Relayed
<1>3. log' = [log EXCEPT ![id] = @ \o u]
  BY <1>1 DEF Pull
<1> HIDE DEF u
<1>4. log'[id] = log[id] \o u /\ \A k \in Ids \ {id} : log'[k] = log[k]
  BY <1>0, <1>1, <1>3 DEF TypeOK
<1> QED BY <1>2, <1>4 DEF LogStep

\* What a step adds to a log keeps the geneses in order.
LEMMA GenesisStep ==
  ASSUME TypeOK, NEW id \in Ids, LogStep(id), Genesis(id, log[id]),
         overtaken \subseteq overtaken', id \notin overtaken => ~ Late(log[id])
  PROVE  /\ Genesis(id, log'[id])
         /\ id \notin overtaken' => ~ Late(log'[id])
         /\ \A i \in 1 .. Len(log[id]) :
              i \in 1 .. Len(log'[id]) /\ log'[id][i] = log[id][i]
<1> DEFINE s == log[id]
           t == log'[id]
<1>1. s \in Seq(Event) /\ Len(s) \in Nat /\ Genesis(id, s)
  BY Bounds DEF TypeOK
<1>2. CASE t = s
  BY <1>2
<1>3. ASSUME NEW e \in Event, t = Append(s, e), Next1(id, e)
      PROVE  /\ Genesis(id, t) /\ (id \notin overtaken' => ~ Late(t))
             /\ \A i \in 1 .. Len(s) : i \in 1 .. Len(t) /\ t[i] = s[i]
  <2>1. Len(t) = Len(s) + 1 /\ \A i \in 1 .. Len(s) : t[i] = s[i]
    BY <1>1, <1>3, AppendProperties
  <2>2. t[Len(s) + 1] = e
    BY <1>1, <1>3, AppendProperties
  <2>3. \A i \in 1 .. Len(t) : i \in 1 .. Len(s) \/ i = Len(s) + 1
    BY <1>1, <2>1
  <2>4. Has(id, "created") <=> \E i \in 1 .. Len(s) : s[i][1] = "created"
    BY DEF Has
  <2> HIDE DEF s, t
  <2>5. Genesis(id, t)
    <3>1. \A i \in 1 .. Len(t) : t[i][1] \in {"backfilled", "foreign"} => t[i][3] = NoRepo
      BY <1>1, <1>3, <2>1, <2>2, <2>3 DEF Genesis, Next1
    <3>2. ASSUME NEW i \in 1 .. Len(t), NEW j \in 1 .. Len(t),
                 t[i][1] = "created", t[j][1] = "created"
          PROVE  t[i][3] = t[j][3]
      BY <1>1, <1>3, <2>1, <2>2, <2>3, <2>4, <3>2 DEF Genesis, Next1
    <3>3. id = Old => \A i \in 1 .. Len(t) : t[i][1] = "created" => t[i] = LegacyEvent(1)
      BY <1>1, <1>3, <2>1, <2>2, <2>3 DEF Genesis, Next1
    <3>4. id = Shared => \A i \in 1 .. Len(t) : t[i][1] = "created" => t[i] = SharedGenesis
      BY <1>1, <1>3, <2>1, <2>2, <2>3 DEF Genesis, Next1
    <3> QED BY <3>1, <3>2, <3>3, <3>4 DEF Genesis
  <2>6. ASSUME id \notin overtaken', NEW i \in 1 .. Len(t), NEW j \in 1 .. Len(t),
               t[i][1] = "created", t[j][1] = "backfilled", i <= j
        PROVE  FALSE
    <3>1. id \notin overtaken /\ ~ Late(s)
      BY <2>6 DEF s
    <3>2. CASE j = Len(s) + 1
      <4>1. e[1] = "backfilled" /\ i # Len(s) + 1
        BY <2>2, <2>6, <3>2
      <4> QED BY <1>3, <2>1, <2>3, <2>4, <2>6, <3>1, <4>1 DEF Next1
    <3>3. CASE j \in 1 .. Len(s)
      <4>1. i \in 1 .. Len(s)
        BY <1>1, <2>3, <2>6, <3>3
      <4> QED BY <2>1, <2>6, <3>1, <3>3, <4>1 DEF Late
    <3> QED BY <2>3, <3>2, <3>3
  <2>7. \A i \in 1 .. Len(s) : i \in 1 .. Len(t) /\ t[i] = s[i]
    BY <1>1, <2>1
  <2> QED BY <2>5, <2>6, <2>7 DEF Late
<1>4. ASSUME NEW u, Brings(id, u), t = s \o u
      PROVE  /\ Genesis(id, t) /\ (id \notin overtaken' => ~ Late(t))
             /\ \A i \in 1 .. Len(s) : i \in 1 .. Len(t) /\ t[i] = s[i]
  <2>1. u \in Seq(Event) /\ Len(u) \in Nat
    BY <1>4, LenProperties DEF Brings
  <2>2. /\ Len(t) = Len(s) + Len(u)
        /\ \A i \in 1 .. Len(s) + Len(u) : t[i] = IF i <= Len(s) THEN s[i] ELSE u[i - Len(s)]
    BY <1>1, <1>4, <2>1, ConcatProperties
  <2>3. \A i \in 1 .. Len(t) :
          \/ i \in 1 .. Len(s) /\ t[i] = s[i]
          \/ i > Len(s) /\ i - Len(s) \in 1 .. Len(u) /\ t[i] = u[i - Len(s)]
    BY <1>1, <2>1, <2>2
  <2>4. \A i \in 1 .. Len(u) :
          \/ u[i] = SharedGenesis /\ id = Shared
          \/ u[i] \in {MadeUp, Moved}
          \/ id = Old /\ u[i] \in {LegacyEvent(1), LegacyEvent(2)}
    BY <1>4 DEF Brings
  <2> HIDE DEF s, t
  <2>5. \A i \in 1 .. Len(t) :
          \/ i \in 1 .. Len(s) /\ t[i] = s[i]
          \/ /\ i > Len(s)
             /\ \/ t[i] = SharedGenesis /\ id = Shared
                \/ t[i] \in {MadeUp, Moved}
                \/ id = Old /\ t[i] \in {LegacyEvent(1), LegacyEvent(2)}
    BY <2>3, <2>4
  <2>6. /\ LegacyEvent(1)[1] = "created" /\ LegacyEvent(2)[1] = "legacy"
        /\ SharedGenesis[1] = "created" /\ MadeUp[1] = "foreign" /\ Moved[1] = "updated"
        /\ MadeUp[3] = NoRepo /\ Old # Shared
    BY DEF LegacyEvent, SharedGenesis, MadeUp, Moved, Old, Shared
  <2>7. /\ id = Old => \A i \in 1 .. Len(t) : t[i][1] = "created" => t[i] = LegacyEvent(1)
        /\ id = Shared => \A i \in 1 .. Len(t) : t[i][1] = "created" => t[i] = SharedGenesis
    BY <1>1, <2>5, <2>6 DEF Genesis
  <2>8. \A i \in 1 .. Len(t) : t[i][1] = "backfilled" => i \in 1 .. Len(s) /\ t[i] = s[i]
    BY <2>5, <2>6
  <2>9. Genesis(id, t)
    <3>1. \A i \in 1 .. Len(t) : t[i][1] \in {"backfilled", "foreign"} => t[i][3] = NoRepo
      BY <1>1, <2>5, <2>6 DEF Genesis
    <3>2. id \notin {Old, Shared} =>
            \A i \in 1 .. Len(t) : t[i][1] = "created" => i \in 1 .. Len(s) /\ t[i] = s[i]
      BY <2>5, <2>6
    <3>3. \A i, j \in 1 .. Len(t) :
            t[i][1] = "created" /\ t[j][1] = "created" => t[i][3] = t[j][3]
      BY <1>1, <2>7, <3>2 DEF Genesis
    <3> QED BY <2>7, <3>1, <3>3 DEF Genesis
  <2>10. ASSUME id \notin overtaken', NEW i \in 1 .. Len(t), NEW j \in 1 .. Len(t),
               t[i][1] = "created", t[j][1] = "backfilled", i <= j
        PROVE  FALSE
    <3>1. ~ Late(s)
      BY <2>10 DEF s
    <3>2. j \in 1 .. Len(s) /\ t[j] = s[j]
      BY <2>8, <2>10
    <3>3. i \in 1 .. Len(s) /\ t[i] = s[i]
      BY <1>1, <2>5, <2>10, <3>2
    <3> QED BY <2>10, <3>1, <3>2, <3>3 DEF Late
  <2>11. \A i \in 1 .. Len(s) : i \in 1 .. Len(t) /\ t[i] = s[i]
    BY <1>1, <2>1, <2>2
  <2> QED BY <2>9, <2>10, <2>11 DEF Late
<1> QED BY <1>2, <1>3, <1>4 DEF LogStep

\* The geneses stay in order, and what was relocated stays with its own.
LEMMA GenesesKept ==
  ASSUME GenesisInv, \A id \in Ids : LogStep(id), overtaken \subseteq overtaken',
         Readable \subseteq Readable'
  PROVE  Geneses' /\ Ordered' /\ \A a \in adopted : Agreed(a)'
<1>0. TypeOK
  BY DEF GenesisInv, ListInv
<1>1. ASSUME NEW id \in Ids
      PROVE  /\ Genesis(id, log'[id])
             /\ id \notin overtaken' => ~ Late(log'[id])
             /\ \A i \in 1 .. Len(log[id]) :
                  i \in 1 .. Len(log'[id]) /\ log'[id][i] = log[id][i]
  BY <1>0, GenesisStep DEF GenesisInv, Geneses, Ordered
<1>2. Geneses'
  BY <1>1 DEF Geneses, Genesis, LegacyEvent, SharedGenesis
<1>3. Ordered'
  BY <1>1 DEF Ordered, Late
<1>4. ASSUME NEW a \in adopted PROVE Agreed(a)'
  <2>1. Agreed(a)
    BY DEF GenesisInv, Adoptions
  <2>2. a[1] \in Readable /\ a[1] \in Ids
    BY <2>1 DEF Agreed, Readable
  <2> DEFINE k == a[1]
  <2>3. k \in Ids /\ k \in Readable'
    BY <2>2
  <2>4. PICK i \in 1 .. Len(log[k]) :
          LET known == log[k][i][3]
          IN  /\ log[k][i][1] = "created"
              /\ Origin[known] # "" /\ Origin[a[2]] # "" => Origin[known] = Origin[a[2]]
    BY <2>1 DEF Agreed
  <2>5. i \in 1 .. Len(log'[k]) /\ log'[k][i] = log[k][i]
    BY <1>1, <2>3
  <2> QED BY <2>3, <2>4, <2>5 DEF Agreed
<1> QED BY <1>2, <1>3, <1>4

\* What a genesis says, and a row with it, is the checkout of the real one
\* or none.
LEMMA RowAgrees ==
  ASSUME ListInv, Geneses, NEW id \in Readable
  PROVE  \/ RepoOf(id) = NoRepo
         \/ \E i \in 1 .. Len(log[id]) :
              log[id][i][1] = "created" /\ log[id][i][3] = RepoOf(id)
<1>1. id \in Ids /\ RowFrom(id) /\ Genesis(id, log[id])
  BY DEF ListInv, Rows, Geneses, Readable
<1> QED BY <1>1 DEF RowFrom, IsGenesis, Genesis

\* The two histories that setup writes
LEMMA JudgeAdopts ==
  ASSUME GenesisInv, NEW c \in Commands, Judge(c)
  PROVE  silent' = {} /\ \A a \in adopted' : a \in adopted \/ Agreed(a)
<1>0. ListInv /\ Geneses /\ silent = {}
  BY DEF GenesisInv
<1> DEFINE p == Folder(c)
           r == RepoAt(p)
           kin == {id \in Readable : SameIdentity(r, RepoOf(id))}
           moved == IF Captured(r) THEN Gone(kin) ELSE {}
           alike == Alike(moved, p)
           sure == IF Cardinality(alike) = 1 THEN alike
                   ELSE IF Cardinality(moved) = 1 THEN moved ELSE {}
           warned == Warned(p, moved)
           mine == Gone({id \in Readable : RepoOf(id) = r
                            /\ (Captured(r) \/ Base[RootOf(id)] = Base[p])})
<1>1. \/ \E id \in sure : adopted' = adopted \cup {<<id, r>>} /\ silent' = silent
      \/ silent' = silent \cup (mine \ warned) /\ adopted' = adopted
  BY Zenon DEF Judge
<1>2. ASSUME NEW id \in sure PROVE Agreed(<<id, r>>)
  <2>1. id \in Readable /\ Captured(r) /\ SameIdentity(r, RepoOf(id))
    BY <1>2 DEF Gone, Alike
  <2> DEFINE k == RepoOf(id)
  <2>2. Origin[NoRepo] = "" /\ Commit[NoRepo] = ""
    BY ProjectsAssumption
  <2>3. k # NoRepo /\ (Origin[r] # "" /\ Origin[k] # "" => Origin[r] = Origin[k])
    BY <2>1, <2>2 DEF SameIdentity
  <2>4. PICK i \in 1 .. Len(log[id]) : log[id][i][1] = "created" /\ log[id][i][3] = k
    BY <1>0, <2>1, <2>3, RowAgrees
  <2> DEFINE a == <<id, r>>
  <2>5. a[1] = id /\ a[2] = r
    OBVIOUS
  <2> HIDE DEF a, k, r
  <2>6. Agreed(a)
    BY <2>1, <2>3, <2>4, <2>5 DEF Agreed
  <2> QED BY <2>6 DEF a
<1>3. mine \subseteq warned
  <2>1. CASE Captured(r)
    <3>1. mine \subseteq moved
      BY <2>1 DEF Gone, SameIdentity, Captured
    <3>2. moved # {} => warned = moved
      BY DEF Warned
    <3> HIDE DEF mine, moved, warned
    <3> QED BY <3>1, <3>2
  <2>2. CASE ~ Captured(r)
    <3>1. moved = {}
      BY <2>2
    <3>2. warned = Gone(Alike({id \in Readable : ~Captured(RepoOf(id))}, p))
      BY <3>1 DEF Warned
    <3>3. mine \subseteq Gone(Alike({id \in Readable : ~Captured(RepoOf(id))}, p))
      BY <2>2 DEF Gone, Alike
    <3> HIDE DEF mine, moved, warned
    <3> QED BY <3>2, <3>3
  <2> QED BY <2>1, <2>2
<1> HIDE DEF sure, mine, warned, r
<1> QED BY <1>0, <1>1, <1>2, <1>3

\* Only other machines put on the relay what is not from here.
LEMMA RelayChange ==
  ASSUME [Next]_vars
  PROVE  relay' = relay \/ \E id \in Ids, e \in {MadeUp, Moved} : PeerPushes(id, e)
<1>1. ASSUME NEW r \in Repos, NEW p \in Paths, MoveRepo(r, p) PROVE relay' = relay
  BY <1>1 DEF MoveRepo
<1>2. ASSUME NEW c \in Commands, NEW p \in Paths,
             \/ \E force \in BOOLEAN : CliInit(c, p, force)
             \/ SetupBound(c, p) \/ SetupNested(c, p) \/ SetupUnbound(c, p)
             \/ \E id \in Ids : CliRelocate(c, p, id)
             \/ CloneWorkspace(c, p) \/ CloneShared(c, p) \/ CliSync(c, p)
             \/ SessionStart(c, p) \/ CliMigrate(c, p) \/ CliCleanup(c, p)
      PROVE  relay' = relay
  BY <1>2 DEF CliInit, SetupBound, SetupNested, SetupUnbound, CliRelocate,
     CloneWorkspace, CloneShared, CliSync, SessionStart, CliMigrate, CliCleanup, Run, user
<1>3. ASSUME NEW c \in Commands,
             \/ Judge(c) \/ Relocating(c)
             \/ ReadBindings(c) \/ BindFolder(c) \/ UnbindFolder(c)
             \/ LogCreated(c) \/ LogWorkstream(c) \/ LogUpdated(c) \/ LogBackfilled(c)
             \/ Observe(c) \/ Import(c) \/ Rebuild(c)
      PROVE  relay' = relay
  BY <1>3 DEF Judge, Relocating, ReadBindings, BindFolder, UnbindFolder, WriteBindings,
     LogCreated, LogWorkstream, LogUpdated, LogBackfilled, Logged, Observe, Import,
     Rebuild, user
<1>4. ASSUME NEW c \in Commands,
             \/ WriteSync(c) \/ Push(c) \/ Pull(c) \/ PullFails(c) \/ Heal(c)
             \/ ReadLegacy(c) \/ InsertLegacy(c) \/ VerifyLegacy(c)
             \/ MoveFile(c) \/ MarkMigrated(c) \/ Kill(c)
      PROVE  relay' = relay
  BY <1>4 DEF WriteSync, Push, Pull, PullFails, Heal, ReadLegacy, InsertLegacy,
     VerifyLegacy, MoveFile, MarkMigrated, Kill, user
<1>5. CASE UNCHANGED vars
  BY <1>5 DEF vars, user
<1> QED BY <1>1, <1>2, <1>3, <1>4, <1>5 DEF Next

LEMMA GenesisInvNext == GenesisInv /\ [Next]_vars => GenesisInv'
<1> SUFFICES ASSUME GenesisInv, [Next]_vars PROVE GenesisInv'
  OBVIOUS
<1>0. ListInv /\ ListInv' /\ TypeOK /\ Relayed /\ Relayed'
  <2>1. relay' = relay \/ \E id \in Ids, e \in {MadeUp, Moved} : PeerPushes(id, e)
    BY RelayChange
  <2>2. Relayed
    BY DEF GenesisInv
  <2>3. ASSUME NEW id \in Ids, NEW e \in {MadeUp, Moved}, PeerPushes(id, e)
        PROVE  Relayed'
    <3>1. \A k : SharedGenesis \in relay'[k] /\ k \in Ids => SharedGenesis \in relay[k]
      BY <2>3 DEF PeerPushes, SharedGenesis, MadeUp, Moved
    <3> QED BY <2>2, <3>1 DEF Relayed, SharedGenesis
  <2>4. Relayed'
    BY <2>1, <2>2, <2>3 DEF Relayed, SharedGenesis
  <2> QED BY <2>2, <2>4, ListInvNext DEF GenesisInv, ListInv
<1>1. ASSUME \A id \in Ids : LogStep(id), overtaken \subseteq overtaken',
             Readable \subseteq Readable', UNCHANGED <<adopted, silent>>
      PROVE  GenesisInv'
  <2>1. Geneses' /\ Ordered' /\ \A a \in adopted : Agreed(a)'
    BY <1>1, GenesesKept
  <2> QED BY <1>0, <1>1, <2>1 DEF GenesisInv, Adoptions
<1>2. ASSUME UNCHANGED <<log, row, overtaken, adopted, silent>> PROVE GenesisInv'
  BY <1>1, <1>2 DEF LogStep, Readable
<1>3. ASSUME NEW c \in Commands, Judge(c) PROVE GenesisInv'
  <2>1. UNCHANGED <<log, row, overtaken>>
    BY <1>3 DEF Judge, disk
  <2>2. Geneses' /\ Ordered' /\ \A a \in adopted : Agreed(a)'
    BY <2>1, GenesesKept DEF LogStep, Readable
  <2>3. silent' = {} /\ \A a \in adopted' : a \in adopted \/ Agreed(a)
    BY <1>3, JudgeAdopts
  <2>4. \A a : Agreed(a) => Agreed(a)'
    BY <2>1 DEF Agreed, Readable
  <2>5. Adoptions'
    BY <2>2, <2>3, <2>4 DEF Adoptions
  <2> QED BY <1>0, <2>2, <2>3, <2>5 DEF GenesisInv
<1>4. ASSUME NEW c \in Commands,
             LogCreated(c) \/ LogWorkstream(c) \/ LogUpdated(c) \/ LogBackfilled(c) \/ Observe(c)
      PROVE  GenesisInv'
  <2>1. UNCHANGED <<row, overtaken, adopted, silent>>
    BY <1>4 DEF LogCreated, LogWorkstream, LogUpdated, LogBackfilled, Logged, Observe, past
  <2> QED BY <1>0, <1>1, <1>4, <2>1, LogsChange DEF Readable
<1>5. ASSUME NEW c \in Commands, Pull(c) \/ InsertLegacy(c) PROVE GenesisInv'
  <2>1. UNCHANGED <<row, adopted, silent>> /\ overtaken \subseteq overtaken'
    BY <1>5 DEF Pull, InsertLegacy, Arrival
  <2> QED BY <1>0, <1>1, <1>5, <2>1, LogsChange, PullChanges DEF Readable
<1>6. ASSUME NEW c \in Commands, Import(c) \/ Rebuild(c) PROVE GenesisInv'
  <2>1. UNCHANGED <<overtaken, adopted, silent>>
    BY <1>6 DEF Import, Rebuild, past
  <2>2. row' = row \/ \E f : row' = [row EXCEPT ![Id(c)] = <<f>>]
    BY <1>6 DEF Import, Rebuild
  <2>3. Readable \subseteq Readable'
    BY <1>0, <2>2 DEF TypeOK, Readable
  <2>4. \A id \in Ids : LogStep(id)
    BY <1>0, <1>6, LogsChange DEF LogStep, Rebuild
  <2> QED BY <1>1, <2>1, <2>3, <2>4
<1>7. ASSUME NEW c \in Commands,
             \/ Relocating(c) \/ ReadBindings(c) \/ BindFolder(c) \/ UnbindFolder(c)
             \/ WriteSync(c) \/ Push(c) \/ PullFails(c) \/ Heal(c) \/ ReadLegacy(c)
             \/ VerifyLegacy(c) \/ MoveFile(c) \/ MarkMigrated(c) \/ Kill(c)
      PROVE  GenesisInv'
  BY <1>2, <1>7 DEF Relocating, ReadBindings, BindFolder, UnbindFolder, WriteBindings,
     WriteSync, Push, PullFails, Heal, ReadLegacy, VerifyLegacy, MoveFile, MarkMigrated,
     Kill, disk, past
<1>8. ASSUME NEW c \in Commands, NEW p \in Paths,
             \/ \E force \in BOOLEAN : CliInit(c, p, force)
             \/ SetupBound(c, p) \/ SetupNested(c, p) \/ SetupUnbound(c, p)
             \/ \E id \in Ids : CliRelocate(c, p, id)
             \/ CloneWorkspace(c, p) \/ CloneShared(c, p) \/ CliSync(c, p) \/ SessionStart(c, p)
             \/ CliMigrate(c, p) \/ CliCleanup(c, p)
      PROVE  GenesisInv'
  <2>1. UNCHANGED <<log, row, overtaken, adopted, silent>>
    BY <1>8 DEF CliInit, SetupBound, SetupNested, SetupUnbound, CliRelocate,
       CloneWorkspace, CloneShared, CliSync, SessionStart, CliMigrate, CliCleanup, Run,
       disk, past
  <2> QED BY <1>2, <2>1
<1>9. ASSUME \/ \E r \in Repos, p \in Paths : MoveRepo(r, p)
             \/ \E id \in Ids, e \in {MadeUp, Moved} : PeerPushes(id, e)
      PROVE  GenesisInv'
  BY <1>2, <1>9 DEF MoveRepo, PeerPushes, disk, past
<1>10. CASE UNCHANGED vars
  BY <1>2, <1>10 DEF vars, disk, past
<1> QED BY <1>3, <1>4, <1>5, <1>6, <1>7, <1>8, <1>9, <1>10 DEF Next

\* The geneses of a log stay in order, whatever commands overlap: the invariant
\* of the two properties below.
THEOREM GenesesHold == Spec => []GenesisInv
<1>1. Init => GenesisInv
  <2> SUFFICES ASSUME Init PROVE GenesisInv
    OBVIOUS
  <2>1. \A id \in Ids : Genesis(id, log[id]) /\ ~ Late(log[id])
    BY DEF Init, Genesis, Late
  <2>2. silent = {} /\ adopted = {}
    BY DEF Init
  <2>3. Relayed
    BY DEF Init, Relayed
  <2> QED BY <2>1, <2>2, <2>3, ListInvInit DEF GenesisInv, Geneses, Ordered, Adoptions
<1> QED BY <1>1, GenesisInvNext, PTL DEF Spec

\* A log that holds the real genesis is not read through one made up here,
\* whatever sessions make up before and pulls bring, unless a start overlapped
\* the arrival.  One that another machine made up can come later, and is read.
THEOREM TrueGenesisHolds == Spec => []TrueGenesis
<1>1. GenesisInv => TrueGenesis
  <2> SUFFICES ASSUME GenesisInv, NEW id \in Ids \ overtaken, Has(id, "created")
               PROVE  Fold(log[id]).kind # "backfilled"
    BY DEF TrueGenesis
  <2> DEFINE s == log[id]
  <2>1. s \in Seq(Event) /\ Len(s) \in Nat /\ ~ Late(s)
    BY Bounds DEF GenesisInv, ListInv, TypeOK, Ordered
  <2>2. PICK j \in 1 .. Len(s) : s[j][1] = "created"
    BY DEF Has
  <2>3. \E i \in 1 .. Len(s) : IsGenesis(s[i])
    BY <2>2 DEF IsGenesis
  <2> HIDE DEF s
  <2>4. PICK i \in 1 .. Len(s) :
          /\ IsGenesis(s[i]) /\ \A k \in i + 1 .. Len(s) : ~ IsGenesis(s[k])
          /\ Fold(s).repo = s[i][3] /\ Fold(s).kind = s[i][1]
    BY <2>1, <2>3, FoldFrom
  <2>5. j <= i
    BY <2>1, <2>2, <2>4 DEF IsGenesis
  <2>6. s[i][1] # "backfilled"
    BY <2>1, <2>2, <2>5 DEF Late
  <2>7. Fold(s).kind # "backfilled"
    BY <2>4, <2>6
  <2> QED BY <2>7 DEF s
<1> QED BY <1>1, GenesesHold, PTL

\* No checkout that git or its name could tell is left behind in silence,
\* and what a checkout was given never has another origin than its own.
THEOREM FollowedHolds == Spec => []Followed
<1>1. GenesisInv => Followed
  <2> SUFFICES ASSUME GenesisInv, NEW a \in adopted
               PROVE  LET known == RepoOf(a[1])
                      IN  Origin[known] # "" /\ Origin[a[2]] # ""
                            => Origin[known] = Origin[a[2]]
    BY DEF Followed, GenesisInv
  <2>1. Agreed(a) /\ ListInv /\ Geneses
    BY DEF GenesisInv, Adoptions
  <2>2. PICK i \in 1 .. Len(log[a[1]]) :
          LET known == log[a[1]][i][3]
          IN  /\ log[a[1]][i][1] = "created"
              /\ Origin[known] # "" /\ Origin[a[2]] # "" => Origin[known] = Origin[a[2]]
    BY <2>1 DEF Agreed
  <2>3. a[1] \in Readable /\ a[1] \in Ids
    BY <2>1 DEF Agreed, Readable
  <2>4. \/ RepoOf(a[1]) = NoRepo
        \/ \E j \in 1 .. Len(log[a[1]]) :
             log[a[1]][j][1] = "created" /\ log[a[1]][j][3] = RepoOf(a[1])
    BY <2>1, <2>3, RowAgrees
  <2>5. RepoOf(a[1]) = NoRepo \/ RepoOf(a[1]) = log[a[1]][i][3]
    BY <2>1, <2>2, <2>3, <2>4 DEF Geneses, Genesis
  <2>6. Origin[NoRepo] = ""
    BY ProjectsAssumption
  <2> QED BY <2>2, <2>5, <2>6
<1> QED BY <1>1, GenesesHold, PTL

-----------------------------------------------------------------------------
(* A relocation lets the old folders of a project go.  The list that does  *)
(* has bound the new folder before, or does that first; two such lists of  *)
(* one project are a race.                                                 *)

Settled == {e \in Step : e[1] \notin {"unbind", "relocate"}}

\* What a relocation puts before the rest of its list comes first.
KeptList(s) == s # <<>> => Head(s)[1] # "unbind" /\ Tail(s) \in Seq(Settled)

\* The steps of a relocation of id to t, and what setup does after it
Freed(id, t) == Settled \cup {e \in Step : e[1] = "unbind" /\ e[2] = id /\ e[3] # t}

Upset(id) == id \in raced \cup displaced

FreeList(s) ==
  \/ KeptList(s)
  \/ \E id \in Ids, t \in Paths :
       /\ s \in Seq(Freed(id, t))
       /\ \/ s # <<>> /\ Head(s) = <<"bind", id, t>>
          \/ bindings[t] = id
          \/ Upset(id)

Unbinding(s, id) == \E i \in 1 .. Len(s) : s[i][1] = "unbind" /\ s[i][2] = id

FreeLists == \A c \in Commands : FreeList(todo[c])

OneFrees == \A c, d \in Commands, id \in Ids :
  Unbinding(todo[c], id) /\ Unbinding(todo[d], id) => c = d \/ id \in raced

FreeInv == ListInv /\ FreeLists /\ OneFrees /\ StaysBound

LEMMA SettledKept ==
  ASSUME NEW s \in Seq(Settled)
  PROVE  KeptList(s)
BY RestSeq DEF KeptList, Settled

LEMMA SettledSteps ==
  ASSUME NEW names \in Seq(Names \ {"unbind", "relocate"}),
         NEW id \in 0 .. MaxProjects, NEW p \in Paths
  PROVE  Steps(names, id, p) \in Seq(Settled)
<1>1. names \in Seq(Names)
  BY SeqMonotonic
<1>2. /\ Len(Steps(names, id, p)) = Len(names) /\ Len(names) \in Nat
      /\ \A i \in 1 .. Len(names) : Steps(names, id, p)[i] = <<names[i], id, p>>
  BY <1>1, StepsAre, LenProperties
<1>3. \A i \in 1 .. Len(names) : names[i] \in Names \ {"unbind", "relocate"}
  BY ElementOfSeq
<1>4. \A n \in Names \ {"unbind", "relocate"} : <<n, id, p>> \in Settled
  BY DEF Settled, Step
<1>5. Steps(names, id, p) \in [1 .. Len(names) -> Settled]
  BY <1>3, <1>4 DEF Steps
<1> QED BY <1>2, <1>5, FunctionSeq

LEMMA NoUnbinding ==
  ASSUME NEW s \in Seq(Step), KeptList(s), NEW id
  PROVE  ~ Unbinding(s, id)
<1> SUFFICES ASSUME NEW i \in 1 .. Len(s), s[i][1] = "unbind" PROVE FALSE
  BY DEF Unbinding
<1>1. s # <<>> /\ Len(s) \in Nat
  BY LenProperties
<1>2. Head(s) = s[1] /\ Len(Tail(s)) = Len(s) - 1
      /\ \A j \in 1 .. Len(Tail(s)) : Tail(s)[j] = s[j + 1]
  BY <1>1, HeadTailProperties
<1>3. CASE i = 1
  BY <1>1, <1>2, <1>3 DEF KeptList
<1>4. CASE i # 1
  <2>1. i - 1 \in 1 .. Len(Tail(s)) /\ Tail(s)[i - 1] = s[i]
    BY <1>1, <1>2, <1>4
  <2>2. Tail(s)[i - 1] \in Settled
    BY <1>1, <2>1, ElementOfSeq DEF KeptList
  <2> QED BY <2>1, <2>2 DEF Settled
<1> QED BY <1>3, <1>4

LEMMA RestUnbinding ==
  ASSUME NEW s \in Seq(Step), s # <<>>, NEW id, Unbinding(Tail(s), id)
  PROVE  Unbinding(s, id)
<1>1. PICK i \in 1 .. Len(Tail(s)) : Tail(s)[i][1] = "unbind" /\ Tail(s)[i][2] = id
  BY DEF Unbinding
<1>2. Len(Tail(s)) = Len(s) - 1 /\ Tail(s)[i] = s[i + 1] /\ Len(s) \in Nat
  BY HeadTailProperties, LenProperties
<1>3. i + 1 \in 1 .. Len(s)
  BY <1>2
<1> QED BY <1>1, <1>2, <1>3 DEF Unbinding

LEMMA FreedUnbinding ==
  ASSUME NEW id, NEW t, NEW s \in Seq(Freed(id, t)), NEW k, Unbinding(s, k)
  PROVE  k = id
<1>1. PICK i \in 1 .. Len(s) : s[i][1] = "unbind" /\ s[i][2] = k
  BY DEF Unbinding
<1>2. s[i] \in Freed(id, t)
  BY ElementOfSeq
<1> QED BY <1>1, <1>2 DEF Freed, Settled

\* A list that lets no folder of id go, but would only let those go
LEMMA FreedKept ==
  ASSUME NEW id, NEW t, NEW s \in Seq(Freed(id, t)), ~ Unbinding(s, id)
  PROVE  KeptList(s)
<1>1. Len(s) \in Nat /\ \A i \in 1 .. Len(s) : s[i] \in Freed(id, t)
  BY ElementOfSeq, LenProperties
<1>2. \A i \in 1 .. Len(s) : s[i] \in Settled
  BY <1>1 DEF Unbinding, Freed
<1>3. s \in [1 .. Len(s) -> Settled]
  BY <1>2, LenProperties
<1>4. s \in Seq(Settled)
  BY <1>1, <1>3, FunctionSeq
<1> QED BY <1>4, SettledKept

\* The list of a command that has done a step, and was not binding
LEMMA RestFree ==
  ASSUME NEW s \in Seq(Step), s # <<>>, Head(s)[1] # "bind", FreeList(s)
  PROVE  FreeList(Tail(s))
<1>1. CASE KeptList(s)
  BY <1>1, SettledKept DEF KeptList, FreeList
<1>2. ASSUME NEW id \in Ids, NEW t \in Paths, s \in Seq(Freed(id, t)),
             bindings[t] = id \/ Upset(id)
      PROVE  FreeList(Tail(s))
  <2>1. Tail(s) \in Seq(Freed(id, t))
    BY <1>2, RestSeq
  <2> QED BY <1>2, <2>1 DEF FreeList
<1> QED BY <1>1, <1>2 DEF FreeList

\* The same of one that puts other steps before the rest
LEMMA MoreFree ==
  ASSUME NEW s \in Seq(Step), s # <<>>, Head(s)[1] # "bind", FreeList(s),
         NEW u \in Seq(Settled)
  PROVE  FreeList(u \o Tail(s)) /\ \A id : Unbinding(u \o Tail(s), id) => Unbinding(s, id)
<1>0. Tail(s) \in Seq(Step) /\ u \in Seq(Step)
  <2>1. Settled \subseteq Step
    BY DEF Settled
  <2> QED BY <2>1, RestSeq, SeqMonotonic
<1>1. ASSUME KeptList(s) PROVE FreeList(u \o Tail(s))
  <2>1. Tail(s) \in Seq(Settled)
    BY <1>1 DEF KeptList
  <2>2. u \o Tail(s) \in Seq(Settled)
    BY <2>1, ConcatProperties
  <2> QED BY <2>2, SettledKept DEF FreeList
<1>2. ASSUME NEW id \in Ids, NEW t \in Paths, s \in Seq(Freed(id, t)),
             bindings[t] = id \/ Upset(id)
      PROVE  FreeList(u \o Tail(s))
  <2>1. Tail(s) \in Seq(Freed(id, t))
    BY <1>2, RestSeq
  <2>2. Settled \subseteq Freed(id, t)
    BY DEF Freed
  <2>3. u \in Seq(Freed(id, t))
    BY <2>2, SeqMonotonic
  <2>4. u \o Tail(s) \in Seq(Freed(id, t))
    BY <2>1, <2>3, ConcatProperties
  <2> QED BY <1>2, <2>4 DEF FreeList
<1>3. FreeList(u \o Tail(s))
  BY <1>1, <1>2 DEF FreeList
<1>4. ASSUME NEW id, Unbinding(u \o Tail(s), id) PROVE Unbinding(s, id)
  <2>1. /\ Len(u \o Tail(s)) = Len(u) + Len(Tail(s)) /\ Len(u) \in Nat /\ Len(Tail(s)) \in Nat
        /\ \A i \in 1 .. Len(u) + Len(Tail(s)) :
             (u \o Tail(s))[i] = IF i <= Len(u) THEN u[i] ELSE Tail(s)[i - Len(u)]
    BY <1>0, ConcatProperties, LenProperties
  <2>2. PICK i \in 1 .. Len(u) + Len(Tail(s)) :
          (u \o Tail(s))[i][1] = "unbind" /\ (u \o Tail(s))[i][2] = id
    BY <1>4, <2>1 DEF Unbinding
  <2>3. CASE i <= Len(u)
    <3>1. i \in 1 .. Len(u) /\ (u \o Tail(s))[i] = u[i]
      BY <2>1, <2>3
    <3>2. u[i] \in Settled
      BY <3>1, ElementOfSeq
    <3> QED BY <2>2, <3>1, <3>2 DEF Settled
  <2>4. CASE ~ (i <= Len(u))
    <3>1. i - Len(u) \in 1 .. Len(Tail(s)) /\ (u \o Tail(s))[i] = Tail(s)[i - Len(u)]
      BY <2>1, <2>4
    <3>2. Unbinding(Tail(s), id)
      BY <2>2, <3>1 DEF Unbinding
    <3> QED BY <3>2, RestUnbinding
  <2> QED BY <2>3, <2>4
<1> QED BY <1>3, <1>4

\* A step that leaves the bindings alone
LEMMA FreeQuiet ==
  ASSUME FreeInv, ListInv', UNCHANGED <<bindings, bound, displaced, raced>>,
         NEW c \in Commands, NEW t, todo' = [todo EXCEPT ![c] = t],
         \/ t = todo[c]
         \/ KeptList(t) /\ t \in Seq(Step)
         \/ todo[c] # <<>> /\ Head(todo[c])[1] # "bind" /\ t = Tail(todo[c])
         \/ /\ todo[c] # <<>> /\ Head(todo[c])[1] # "bind"
            /\ \E u \in Seq(Settled) : t = u \o Tail(todo[c])
  PROVE  FreeInv'
<1>1. TypeOK /\ FreeLists /\ OneFrees /\ StaysBound
  BY DEF FreeInv, ListInv
<1>2. todo'[c] = t /\ \A d \in Commands \ {c} : todo'[d] = todo[d]
  BY <1>1 DEF TypeOK
<1>3. todo[c] \in Seq(Step)
  BY <1>1 DEF TypeOK
<1>4. FreeList(t) /\ \A id : Unbinding(t, id) => Unbinding(todo[c], id)
  <2>1. CASE t = todo[c]
    BY <1>1, <2>1 DEF FreeLists
  <2>2. CASE KeptList(t) /\ t \in Seq(Step)
    BY <2>2, NoUnbinding DEF FreeList
  <2>3. CASE todo[c] # <<>> /\ Head(todo[c])[1] # "bind" /\ t = Tail(todo[c])
    BY <1>1, <1>3, <2>3, RestFree, RestUnbinding DEF FreeLists
  <2>4. CASE /\ todo[c] # <<>> /\ Head(todo[c])[1] # "bind"
             /\ \E u \in Seq(Settled) : t = u \o Tail(todo[c])
    BY <1>1, <1>3, <2>4, MoreFree DEF FreeLists
  <2> QED BY <2>1, <2>2, <2>3, <2>4
<1>5. \A d \in Commands : FreeList(todo'[d])
  BY <1>1, <1>2, <1>4 DEF FreeLists
<1>6. FreeLists'
  BY <1>5 DEF FreeLists, FreeList, Upset, KeptList, Settled, Freed, Step
<1>7. OneFrees'
  <2>1. \A d \in Commands, id \in Ids : Unbinding(todo[d], id)' => Unbinding(todo[d], id)
    <3>1. \A d \in Commands, id \in Ids : Unbinding(todo'[d], id) => Unbinding(todo[d], id)
      BY <1>2, <1>4
    <3> QED BY <3>1 DEF Unbinding
  <2> QED BY <1>1, <2>1 DEF OneFrees
<1>8. StaysBound'
  BY <1>1 DEF StaysBound
<1> QED BY <1>6, <1>7, <1>8 DEF FreeInv

\* Relocating finds its folders, and a race with whoever is at work on the
\* project.
LEMMA FreeRelocating ==
  ASSUME FreeInv, ListInv', NEW c \in Commands, Relocating(c)
  PROVE  FreeInv'
<1>0. TypeOK /\ ListInv /\ FreeLists /\ OneFrees /\ StaysBound /\ MaxProjects \in Nat
  BY Bounds DEF FreeInv, ListInv
<1>1. todo[c] # <<>> /\ Head(todo[c])[1] = "relocate"
  BY DEF Relocating, At
<1>2. Head(todo[c]) \in Waiting
  BY <1>0, <1>1, HeadWaits
<1>3. PICK id \in Ids : id = Id(c) /\ Born(id)
  BY <1>2 DEF Waiting, Step, Id
<1>4. PICK p \in Paths : p = Folder(c)
  BY <1>2 DEF Waiting, Step, Folder
<1>5. Tail(todo[c]) \in Seq(Settled)
  <2>1. KeptList(todo[c])
    <3>1. \A k \in Ids, t \in Paths : todo[c] \notin Seq(Freed(k, t))
      BY <1>1, RestSeq DEF Freed, Settled
    <3> QED BY <1>0, <3>1 DEF FreeLists, FreeList
  <2> QED BY <1>1, <2>1 DEF KeptList
<1>6. /\ UNCHANGED <<bindings, bound, displaced>>
      /\ raced' = IF \E d \in Commands \ {c} :
                       \E i \in 1 .. Len(todo[d]) : todo[d][i][2] = id
                  THEN raced \cup {id} ELSE raced
      /\ Goto(c, <<>>) \/ Goto(c, Relocated(id, p) \o Rest(c))
  BY <1>3, <1>4 DEF Relocating, disk
<1>7. PICK t : todo' = [todo EXCEPT ![c] = t] /\ (t = <<>> \/ t = Relocated(id, p) \o Rest(c))
  BY <1>6 DEF Goto
<1>8. todo'[c] = t /\ \A d \in Commands \ {c} : todo'[d] = todo[d]
  BY <1>0, <1>7 DEF TypeOK
<1>9. Relocated(id, p) \o Rest(c) \in Seq(Freed(id, p))
      /\ Relocated(id, p) \o Rest(c) # <<>>
      /\ Head(Relocated(id, p) \o Rest(c)) = <<"bind", id, p>>
  <2> DEFINE others == {q \in Paths : bindings[q] = id /\ q # p}
             x == <<"bind", id, p>>
             u == [i \in 1 .. Cardinality(others) |-> <<"unbind", id, SetToSeq(others)[i]>>]
             v == IF RootOf(id) = p THEN <<>> ELSE Steps(<<"updated", "rebuild">>, id, p)
  <2>1. id \in 0 .. MaxProjects
    BY <1>0 DEF Ids
  <2>2. SetToSeq(others) \in [1 .. Cardinality(others) -> others] /\ Cardinality(others) \in Nat
    BY SetSeq, FS_Subset, ProjectsAssumption
  <2>3. \A q \in others : <<"unbind", id, q>> \in Freed(id, p)
    BY <2>1 DEF Freed, Step, Names, Free
  <2>4. u \in [1 .. Cardinality(others) -> Freed(id, p)]
    BY <2>2, <2>3
  <2>5. u \in Seq(Freed(id, p))
    BY <2>2, <2>4, FunctionSeq
  <2>6. x \in Freed(id, p)
    BY <2>1 DEF Freed, Settled, Step, Names, Free
  <2>7. v \in Seq(Freed(id, p))
    <3>1. <<"updated", "rebuild">> \in Seq(Names \ {"unbind", "relocate"})
      BY DEF Names, Free
    <3>2. Steps(<<"updated", "rebuild">>, id, p) \in Seq(Settled)
      BY <2>1, <3>1, SettledSteps
    <3>3. v \in Seq(Settled)
      BY <3>2, EmptySeq
    <3>4. Settled \subseteq Freed(id, p)
      BY DEF Freed
    <3> HIDE DEF v
    <3> QED BY <3>3, <3>4, SeqMonotonic
  <2>8. Relocated(id, p) = <<x>> \o u \o v
    BY DEF Relocated
  <2>9. Rest(c) \in Seq(Freed(id, p))
    <3>1. Settled \subseteq Freed(id, p)
      BY DEF Freed
    <3> QED BY <1>5, <3>1, SeqMonotonic DEF Rest
  <2> DEFINE w == u \o v \o Rest(c)
  <2> HIDE DEF u, v
  <2>10. w \in Seq(Freed(id, p))
    BY <2>5, <2>7, <2>9, ConcatProperties
  <2> HIDE DEF x
  <2>11. Relocated(id, p) \o Rest(c) = <<x>> \o w
    <3>1. <<x>> \in Seq(Freed(id, p)) /\ u \o v \in Seq(Freed(id, p))
      BY <2>5, <2>6, <2>7, OneSeq, ConcatProperties
    <3>2. (<<x>> \o u) \o v = <<x>> \o (u \o v)
      BY <2>5, <2>7, <3>1, ConcatAssociative
    <3>3. (<<x>> \o (u \o v)) \o Rest(c) = <<x>> \o ((u \o v) \o Rest(c))
      BY <2>9, <3>1, ConcatAssociative
    <3> QED BY <2>8, <3>2, <3>3
  <2> HIDE DEF w
  <2>12. /\ <<x>> \o w \in Seq(Freed(id, p)) /\ <<x>> \o w # <<>>
         /\ Head(<<x>> \o w) = x
    BY <2>6, <2>10
  <2> QED BY <2>11, <2>12 DEF x
<1>10. FreeList(t) /\ \A k : Unbinding(t, k) => k = id
  <2>1. CASE t = <<>>
    BY <2>1 DEF FreeList, KeptList, Unbinding
  <2>2. CASE t = Relocated(id, p) \o Rest(c)
    BY <1>9, <2>2, FreedUnbinding DEF FreeList
  <2> QED BY <1>7, <2>1, <2>2
<1>11. raced \subseteq raced'
  BY <1>6
<1>12. \A d \in Commands : FreeList(todo'[d])
  BY <1>0, <1>8, <1>10 DEF FreeLists
<1>13. FreeLists'
  <2>1. ASSUME NEW s, FreeList(s)
        PROVE  \/ KeptList(s)
               \/ \E k \in Ids, q \in Paths :
                    /\ s \in Seq(Freed(k, q))
                    /\ \/ s # <<>> /\ Head(s) = <<"bind", k, q>>
                       \/ bindings'[q] = k
                       \/ k \in raced' \cup displaced'
    BY <1>6, <1>11, <2>1 DEF FreeList, Upset
  <2>2. \A d \in Commands :
          \/ KeptList(todo'[d])
          \/ \E k \in Ids, q \in Paths :
               /\ todo'[d] \in Seq(Freed(k, q))
               /\ \/ todo'[d] # <<>> /\ Head(todo'[d]) = <<"bind", k, q>>
                  \/ bindings'[q] = k
                  \/ k \in raced' \cup displaced'
    BY <1>12, <2>1
  <2> QED BY <2>2 DEF FreeLists, FreeList, Upset, KeptList, Settled, Freed, Step
<1>14. OneFrees'
  <2> SUFFICES ASSUME NEW d \in Commands, NEW e \in Commands, NEW k \in Ids, d # e,
                      Unbinding(todo'[d], k), Unbinding(todo'[e], k)
               PROVE  k \in raced'
    BY DEF OneFrees, Unbinding
  <2>1. CASE d # c /\ e # c
    BY <1>0, <1>8, <1>11, <2>1 DEF OneFrees
  <2>2. ASSUME NEW f \in Commands \ {c}, Unbinding(todo[f], id) PROVE id \in raced'
    <3>1. \E i \in 1 .. Len(todo[f]) : todo[f][i][2] = id
      BY <2>2 DEF Unbinding
    <3> QED BY <1>6, <3>1
  <2> QED BY <1>8, <1>10, <2>1, <2>2
<1>15. StaysBound'
  BY <1>0, <1>6, <1>11 DEF StaysBound
<1> QED BY <1>13, <1>14, <1>15 DEF FreeInv

\* What WriteBindings does to a folder of a project that no other command is
\* at work on: it stays bound, or it is the one that was to be let go.
LEMMA FolderStays ==
  ASSUME TypeOK, NEW c \in Commands, NEW new, WriteBindings(c, new),
         \/ At(c, "bind") /\ new[Folder(c)] = Id(c)
         \/ At(c, "unbind"),
         NEW id \in Ids, NEW t \in Paths, bindings[t] = id
  PROVE  \/ bindings'[t] = id
         \/ id \in raced' \cup displaced'
         \/ At(c, "unbind") /\ t = Folder(c) /\ id = Id(c)
<1>0. id # Unbound
  BY Bounds DEF Ids, Unbound
<1> DEFINE p == Folder(c)
           lost == {q \in Paths \ {p} : new[q] # bindings[q]}
<1>1. /\ bindings' = new
      /\ raced' = raced \cup {bindings[q] : q \in lost} \cup {new[q] : q \in lost}
                  \cup (IF At(c, "unbind") THEN {bindings[p]} \ {Id(c)} ELSE {})
      /\ displaced' = displaced \cup ({bindings[p]} \ {Unbound, Id(c)})
  BY DEF WriteBindings
<1>2. CASE t # p
  <2>1. CASE new[t] = bindings[t]
    BY <1>1, <2>1
  <2>2. CASE new[t] # bindings[t]
    <3>1. t \in lost
      BY <1>2, <2>2
    <3> QED BY <1>1, <3>1
  <2> QED BY <2>1, <2>2
<1>3. CASE t = p /\ At(c, "unbind")
  BY <1>1, <1>3
<1>4. CASE t = p /\ ~ At(c, "unbind")
  BY <1>0, <1>1, <1>4
<1> QED BY <1>2, <1>3, <1>4

LEMMA FreeBinding ==
  ASSUME FreeInv, ListInv', NEW c \in Commands, NEW new, WriteBindings(c, new),
         \/ At(c, "bind") /\ new = [seen[c][1] EXCEPT ![Folder(c)] = Id(c)]
         \/ At(c, "unbind") /\ new = [seen[c][1] EXCEPT ![Folder(c)] = Unbound]
  PROVE  FreeInv'
<1>0. TypeOK /\ ListInv /\ FreeLists /\ OneFrees /\ StaysBound /\ MaxProjects \in Nat
  BY Bounds DEF FreeInv, ListInv
<1>1. todo[c] # <<>> /\ Head(todo[c])[1] \in {"bind", "unbind"} /\ todo[c] \in Seq(Step)
  BY <1>0 DEF At, TypeOK
<1>2. Head(todo[c]) \in Waiting
  BY <1>0, <1>1, HeadWaits
<1>3. Id(c) \in Ids /\ Folder(c) \in Paths
  BY <1>2 DEF Waiting, Step, Id, Folder
<1>4. seen[c][1] \in Bindings
  BY <1>0 DEF WriteBindings, TypeOK, Seen
<1>5. \/ At(c, "bind") /\ new[Folder(c)] = Id(c)
      \/ At(c, "unbind") /\ new[Folder(c)] = Unbound
  BY <1>3, <1>4 DEF Bindings
<1>6. /\ bindings' = new
      /\ bound' = bound \cup ({new[Folder(c)]} \ {Unbound})
      /\ raced \subseteq raced' /\ displaced \subseteq displaced'
      /\ todo' = [todo EXCEPT ![c] = Tail(todo[c])]
  BY DEF WriteBindings, Done, Goto, Rest
<1>7. todo'[c] = Tail(todo[c]) /\ \A d \in Commands \ {c} : todo'[d] = todo[d]
  BY <1>0, <1>6 DEF TypeOK
<1> DEFINE Stay(k, q) == bindings'[q] = k \/ k \in raced' \cup displaced'
<1>8. ASSUME NEW k \in Ids, NEW q \in Paths, bindings[q] = k \/ Upset(k)
      PROVE  Stay(k, q) \/ (At(c, "unbind") /\ q = Folder(c) /\ k = Id(c))
  BY <1>0, <1>5, <1>6, <1>8, FolderStays DEF Upset
<1> DEFINE Later(s) ==
             \/ KeptList(s)
             \/ \E k \in Ids, q \in Paths :
                  /\ s \in Seq(Freed(k, q))
                  /\ (s # <<>> /\ Head(s) = <<"bind", k, q>>) \/ Stay(k, q)
<1>9. ASSUME NEW d \in Commands \ {c} PROVE Later(todo[d])
  <2>0. FreeList(todo[d])
    BY <1>0 DEF FreeLists
  <2>1. ASSUME NEW k \in Ids, NEW q \in Paths, todo[d] \in Seq(Freed(k, q)),
               bindings[q] = k \/ Upset(k)
        PROVE  Later(todo[d])
    <3>1. CASE Stay(k, q)
      BY <2>1, <3>1
    <3>2. CASE ~ Unbinding(todo[d], k)
      BY <2>1, <3>2, FreedKept
    <3>3. CASE Unbinding(todo[d], k) /\ ~ Stay(k, q)
      <4>1. At(c, "unbind") /\ k = Id(c)
        BY <1>8, <2>1, <3>3
      <4>2. Unbinding(todo[c], k)
        <5>1. 1 \in 1 .. Len(todo[c]) /\ todo[c][1] = Head(todo[c])
          BY <1>1, HeadTailProperties, LenProperties, EmptySeq
        <5> QED BY <4>1, <5>1 DEF Unbinding, At, Id
      <4>3. k \in raced
        BY <1>0, <3>3, <4>2 DEF OneFrees
      <4> QED BY <1>6, <3>3, <4>3
    <3> QED BY <3>1, <3>2, <3>3
  <2> HIDE DEF Stay
  <2> QED BY <2>0, <2>1 DEF FreeList
<1>10. Later(Tail(todo[c]))
  <2>0. FreeList(todo[c])
    BY <1>0 DEF FreeLists
  <2>1. CASE KeptList(todo[c])
    BY <1>1, <2>1, SettledKept DEF KeptList
  <2>2. ASSUME NEW k \in Ids, NEW q \in Paths, todo[c] \in Seq(Freed(k, q)),
               Head(todo[c]) = <<"bind", k, q>>
        PROVE  Later(Tail(todo[c]))
    <3>1. At(c, "bind") /\ k = Id(c) /\ q = Folder(c)
      BY <1>5, <2>2 DEF At, Id, Folder
    <3>2. bindings'[q] = k
      BY <1>5, <1>6, <3>1 DEF At
    <3>3. Tail(todo[c]) \in Seq(Freed(k, q))
      BY <1>1, <2>2, RestSeq
    <3> QED BY <3>2, <3>3
  <2>3. ASSUME NEW k \in Ids, NEW q \in Paths, todo[c] \in Seq(Freed(k, q)),
               bindings[q] = k \/ Upset(k)
        PROVE  Later(Tail(todo[c]))
    <3>1. Head(todo[c]) \in Freed(k, q) /\ Tail(todo[c]) \in Seq(Freed(k, q))
      BY <1>1, <2>3, RestSeq
    <3>2. ~ (At(c, "unbind") /\ q = Folder(c))
      BY <3>1 DEF Freed, Settled, At, Folder
    <3>3. Stay(k, q)
      BY <1>8, <2>3, <3>2
    <3> HIDE DEF Stay
    <3> QED BY <3>1, <3>3
  <2> HIDE DEF Later
  <2> QED BY <2>0, <2>1, <2>2, <2>3 DEF FreeList
<1>11. FreeLists'
  <2>1. \A d \in Commands : Later(todo'[d])
    <3> HIDE DEF Later
    <3> QED BY <1>7, <1>9, <1>10
  <2> QED BY <2>1 DEF FreeLists, FreeList, Upset, KeptList, Settled, Freed, Step
<1>12. OneFrees'
  <2>1. \A d \in Commands, k \in Ids : Unbinding(todo'[d], k) => Unbinding(todo[d], k)
    BY <1>1, <1>7, RestUnbinding
  <2>2. \A d \in Commands, k \in Ids : Unbinding(todo[d], k)' => Unbinding(todo[d], k)
    BY <2>1 DEF Unbinding
  <2> QED BY <1>0, <1>6, <2>2 DEF OneFrees
<1>13. StaysBound'
  <2> SUFFICES ASSUME NEW id \in bound', id \notin displaced' \cup raced'
               PROVE  \E q \in Paths : bindings'[q] = id
    BY DEF StaysBound
  <2>1. CASE id \notin bound
    BY <1>3, <1>5, <1>6, <2>1
  <2>2. CASE id \in bound
    <3>1. id \in Ids /\ \E q \in Paths : bindings[q] = id
      BY <1>0, <1>6, <2>2 DEF StaysBound, TypeOK
    <3>2. CASE ~ (At(c, "unbind") /\ id = Id(c))
      BY <1>8, <3>1, <3>2
    <3>3. CASE At(c, "unbind") /\ id = Id(c)
      <4>1. ~ KeptList(todo[c]) /\ Head(todo[c])[1] = "unbind"
        BY <1>1, <3>3 DEF At, KeptList
      <4>2. PICK k \in Ids, q \in Paths : todo[c] \in Seq(Freed(k, q)) /\ (bindings[q] = k \/ Upset(k))
        BY <1>0, <4>1 DEF FreeLists, FreeList
      <4>3. Head(todo[c]) \in Freed(k, q)
        BY <1>1, <4>2, RestSeq
      <4>4. k = id /\ q # Folder(c)
        BY <3>3, <4>1, <4>3 DEF Freed, Settled, Id, Folder
      <4>5. Stay(k, q)
        BY <1>8, <4>2, <4>4
      <4> QED BY <4>4, <4>5
    <3> QED BY <3>2, <3>3
  <2> QED BY <2>1, <2>2
<1> QED BY <1>11, <1>12, <1>13 DEF FreeInv

LEMMA CreatedSettled ==
  ASSUME NEW id \in 0 .. MaxProjects, NEW p \in Paths
  PROVE  /\ Created(id, p) \in Seq(Settled)
         /\ Created(id, p) \o Steps(<<"import">>, id, p) \in Seq(Settled)
         /\ Created(id, p) \o Steps(<<"remote">>, id, p) \in Seq(Settled)
<1> DEFINE N == Names \ {"unbind", "relocate"}
<1>1. /\ <<"created", "workstream", "rebuild", "sync", "bind">> \in Seq(N)
      /\ <<"import">> \in Seq(N) /\ <<"remote">> \in Seq(N)
  BY DEF Names, Free
<1> HIDE DEF N
<1>2. /\ Created(id, p) \in Seq(Settled)
      /\ Steps(<<"import">>, id, p) \in Seq(Settled)
      /\ Steps(<<"remote">>, id, p) \in Seq(Settled)
  BY <1>1, SettledSteps DEF Created, N
<1> QED BY <1>2, ConcatProperties

LEMMA OneKept ==
  ASSUME NEW x \in Step, x[1] # "unbind", NEW s \in Seq(Settled)
  PROVE  <<x>> \o s \in Seq(Step) /\ KeptList(<<x>> \o s)
<1>1. Settled \subseteq Step
  BY DEF Settled
<1>2. s \in Seq(Step)
  BY <1>1, SeqMonotonic
<1>3. <<x>> \o s \in Seq(Step) /\ Head(<<x>> \o s) = x /\ Tail(<<x>> \o s) = s
  BY <1>2
<1> QED BY <1>3 DEF KeptList

\* The list a command starts with
LEMMA FreeRunKept ==
  ASSUME FreeInv, ListInv', NEW c \in Commands, NEW p \in Paths,
         NEW t \in Seq(Step), KeptList(t), Run(c, p, t)
  PROVE  FreeInv'
<1>1. UNCHANGED <<bindings, bound, displaced, raced>> /\ todo' = [todo EXCEPT ![c] = t]
  BY DEF Run, disk, past
<1> QED BY <1>1, FreeQuiet

LEMMA FreeRun ==
  ASSUME FreeInv, ListInv', NEW c \in Commands, NEW p \in Paths,
         NEW t \in Seq(Settled), Run(c, p, t)
  PROVE  FreeInv'
<1>1. Settled \subseteq Step
  BY DEF Settled
<1>2. KeptList(t) /\ t \in Seq(Step)
  BY <1>1, SettledKept, SeqMonotonic
<1> QED BY <1>2, FreeRunKept

LEMMA FreeCommands ==
  ASSUME FreeInv, ListInv', NEW c \in Commands, NEW p \in Paths,
         \/ \E force \in BOOLEAN : CliInit(c, p, force)
         \/ SetupBound(c, p) \/ SetupNested(c, p) \/ SetupUnbound(c, p)
         \/ \E id \in Ids : CliRelocate(c, p, id)
         \/ CloneWorkspace(c, p) \/ CloneShared(c, p) \/ CliSync(c, p) \/ SessionStart(c, p)
         \/ CliMigrate(c, p)
  PROVE  FreeInv'
<1>0. TypeOK /\ ListInv /\ MaxProjects \in Nat /\ MaxProjects >= 2
  BY Bounds, ProjectsAssumption DEF FreeInv, ListInv
<1> DEFINE N == Names \ {"unbind", "relocate"}
<1>1. minted < MaxProjects => minted + 1 \in 0 .. MaxProjects
  <2>1. minted \in 2 .. MaxProjects
    BY <1>0 DEF TypeOK
  <2> QED BY <1>0, <2>1
<1>2. ASSUME \/ \E force \in BOOLEAN : CliInit(c, p, force)
             \/ SetupNested(c, p) \/ CloneWorkspace(c, p)
      PROVE  FreeInv'
  <2>1. minted + 1 \in 0 .. MaxProjects
    BY <1>1, <1>2 DEF CliInit, SetupNested, CloneWorkspace, Mint
  <2>2. /\ Created(minted + 1, p) \in Seq(Settled)
        /\ Created(minted + 1, p) \o Steps(<<"import">>, minted + 1, p) \in Seq(Settled)
        /\ Created(minted + 1, p) \o Steps(<<"remote">>, minted + 1, p) \in Seq(Settled)
    BY <2>1, CreatedSettled
  <2> QED BY <1>2, <2>2, FreeRun DEF CliInit, SetupNested, CloneWorkspace
<1>3. CASE SetupBound(c, p)
  <2>1. bindings[p] \in 0 .. MaxProjects
    BY <1>0 DEF TypeOK, Bindings
  <2>2. <<"import">> \in Seq(N)
    BY DEF Names, Free
  <2>3. Steps(<<"import">>, bindings[p], p) \in Seq(Settled)
    BY <2>1, <2>2, SettledSteps
  <2> QED BY <1>3, <2>3, FreeRun DEF SetupBound
<1>4. CASE SetupUnbound(c, p)
  <2>1. <<"judge", "import">> \in Seq(N) /\ 0 \in 0 .. MaxProjects
    BY <1>0 DEF Names, Free
  <2>2. Steps(<<"judge", "import">>, 0, p) \in Seq(Settled)
    BY <2>1, SettledSteps
  <2> QED BY <1>4, <2>2, FreeRun DEF SetupUnbound
<1>5. ASSUME NEW id \in Ids, CliRelocate(c, p, id) PROVE FreeInv'
  <2> DEFINE x == <<"relocate", id, p>>
  <2>1. x \in Step /\ x[1] # "unbind"
    BY <1>0 DEF Step, Names, Free, Ids
  <2>2. Steps(<<"relocate">>, id, p) = <<x>>
    BY DEF Steps
  <2> HIDE DEF x
  <2>3. <<x>> \o <<>> \in Seq(Step) /\ KeptList(<<x>> \o <<>>) /\ <<x>> \o <<>> = <<x>>
    BY <2>1, OneKept, EmptySeq, OneSeq, ConcatEmptySeq
  <2> QED BY <1>5, <2>2, <2>3, FreeRunKept DEF CliRelocate
<1>6. CASE CloneShared(c, p)
  <2>1. <<"remote", "bind">> \in Seq(N) /\ <<"pull">> \in Seq(N)
    BY DEF Names, Free
  <2>2. Shared \in 0 .. MaxProjects
    BY <1>0 DEF Shared
  <2>3. /\ Steps(<<"remote", "bind">>, Shared, p) \in Seq(Settled)
        /\ Steps(<<"pull">>, Shared, p) \in Seq(Settled)
    BY <2>1, <2>2, SettledSteps
  <2> DEFINE u == IF Resolved(p) = Unbound THEN Steps(<<"remote", "bind">>, Shared, p)
                                           ELSE <<>>
  <2>4. u \in Seq(Settled)
    BY <2>3, EmptySeq
  <2>5. u \o Steps(<<"pull">>, Shared, p) \in Seq(Settled)
    BY <2>3, <2>4, ConcatProperties
  <2> QED BY <1>6, <2>5, FreeRun DEF CloneShared
<1>7. ASSUME CliSync(c, p) \/ SessionStart(c, p) PROVE FreeInv'
  <2>1. Resolved(p) \in Ids
    BY <1>0, <1>7, ResolvedBorn DEF CliSync, SessionStart
  <2>2. PICK id \in 0 .. MaxProjects : id = Resolved(p)
    BY <1>0, <2>1 DEF Ids
  <2>3. <<"observe", "push", "pull">> \in Seq(N) /\ <<"autopull", "heal", "observe">> \in Seq(N)
    BY DEF Names, Free
  <2>4. /\ Steps(<<"observe", "push", "pull">>, id, p) \in Seq(Settled)
        /\ Steps(<<"autopull", "heal", "observe">>, id, p) \in Seq(Settled)
    BY <2>3, SettledSteps
  <2> QED BY <1>7, <2>2, <2>4, FreeRun DEF CliSync, SessionStart
<1>8. CASE CliMigrate(c, p)
  <2>1. <<"read">> \in Seq(N) /\ Old \in 0 .. MaxProjects
    BY <1>0 DEF Names, Free, Old
  <2>2. Steps(<<"read">>, Old, p) \in Seq(Settled)
    BY <2>1, SettledSteps
  <2> QED BY <1>8, <2>2, FreeRun DEF CliMigrate
<1> QED BY <1>2, <1>3, <1>4, <1>5, <1>6, <1>7, <1>8

\* Steps that decide how a command goes on
LEMMA FreeDecisions ==
  ASSUME FreeInv, ListInv', NEW c \in Commands,
         Judge(c) \/ Heal(c) \/ ReadLegacy(c) \/ VerifyLegacy(c)
  PROVE  FreeInv'
<1>0. TypeOK /\ ListInv /\ MaxProjects \in Nat /\ MaxProjects >= 2 /\ Old \in 0 .. MaxProjects
  <2>1. TypeOK /\ ListInv /\ MaxProjects \in Nat /\ MaxProjects >= 2
    BY Bounds, ProjectsAssumption DEF FreeInv, ListInv
  <2> QED BY <2>1 DEF Old
<1> DEFINE N == Names \ {"unbind", "relocate"}
<1>1. UNCHANGED <<bindings, bound, displaced, raced>>
  BY DEF Judge, Heal, ReadLegacy, VerifyLegacy, disk, past
<1>2. todo[c] # <<>> /\ Head(todo[c])[1] \in {"judge", "heal", "read", "verify"}
  BY DEF Judge, Heal, ReadLegacy, VerifyLegacy, At
<1>3. PICK p \in Paths : p = Folder(c)
  BY <1>0, <1>2, HeadStep
<1>4. ASSUME NEW t \in Seq(Settled), Goto(c, t) PROVE FreeInv'
  <2>1. Settled \subseteq Step
    BY DEF Settled
  <2>2. KeptList(t) /\ t \in Seq(Step)
    BY <2>1, SettledKept, SeqMonotonic
  <2> QED BY <1>1, <1>4, <2>2, FreeQuiet DEF Goto
<1>5. CASE Judge(c)
  <2>1. Judging(todo[c])
    BY <1>0, <1>2, <1>5, HeadSpecial DEF Judge, At
  <2>2. PICK q \in Paths : todo[c] = <<<<"judge", 0, q>>, <<"import", 0, q>>>>
    BY <2>1 DEF Judging
  <2>3. p = q /\ Rest(c) = <<<<"import", 0, p>>>>
    BY <1>3, <2>2 DEF Folder, Rest
  <2>4. \A id : Named(Rest(c), id) = <<<<"import", id, p>>>>
    BY <2>3 DEF Named
  <2>5. \/ \E id \in Readable : Goto(c, <<<<"relocate", id, p>>>> \o Named(Rest(c), id))
        \/ /\ minted < MaxProjects
           /\ Goto(c, Created(minted + 1, p) \o Named(Rest(c), minted + 1))
    BY <1>3, <1>5, JudgeGoes DEF Mint
  <2>6. ASSUME NEW id \in Readable,
               Goto(c, <<<<"relocate", id, p>>>> \o Named(Rest(c), id))
        PROVE  FreeInv'
    <3> DEFINE x == <<"relocate", id, p>>
               y == <<"import", id, p>>
    <3>1. todo' = [todo EXCEPT ![c] = <<x>> \o <<y>>]
      BY <2>4, <2>6 DEF Goto
    <3>2. id \in 0 .. MaxProjects
      BY <1>0 DEF Readable, Ids
    <3>3. x \in Step /\ x[1] # "unbind" /\ y \in Settled
      BY <3>2 DEF Settled, Step, Names, Free
    <3> HIDE DEF x, y
    <3>4. KeptList(<<x>> \o <<y>>) /\ <<x>> \o <<y>> \in Seq(Step)
      BY <3>3, OneSeq, OneKept
    <3> QED BY <1>1, <3>1, <3>4, FreeQuiet
  <2>7. CASE /\ minted < MaxProjects
             /\ Goto(c, Created(minted + 1, p) \o Named(Rest(c), minted + 1))
    <3>1. minted \in 2 .. MaxProjects
      BY <1>0 DEF TypeOK
    <3>2. minted + 1 \in 0 .. MaxProjects
      BY <1>0, <2>7, <3>1
    <3>3. Steps(<<"import">>, minted + 1, p) = <<<<"import", minted + 1, p>>>>
      BY DEF Steps
    <3>4. Created(minted + 1, p) \o Steps(<<"import">>, minted + 1, p) \in Seq(Settled)
      BY <3>2, CreatedSettled
    <3> QED BY <1>4, <2>4, <2>7, <3>3, <3>4
  <2> QED BY <2>5, <2>6, <2>7
<1>6. CASE Heal(c)
  <2>1. Head(todo[c])[1] # "bind"
    BY <1>6 DEF Heal, At
  <2>2. PICK id \in Ids : id = Id(c)
    BY <1>0, <1>2, <1>6, HeadWaits DEF Heal, At, Waiting, Step, Id
  <2>3. PICK root \in Paths : Goto(c, Healing(Id(c), root) \o Rest(c))
    <3>1. Afar \in Paths
      BY ProjectsAssumption
    <3> DEFINE folders == {q \in Paths : bindings[q] = Id(c)}
               root == CHOOSE q \in Paths : q \in folders \/ (folders = {} /\ q = Afar)
    <3>2. \E q \in Paths : q \in folders \/ (folders = {} /\ q = Afar)
      BY <3>1
    <3>3. root \in Paths
      BY <3>2
    <3> QED BY <1>6, <3>3 DEF Heal
  <2>4. <<"rebuild">> \in Seq(N) /\ <<"backfilled", "workstream", "rebuild">> \in Seq(N)
    BY DEF Names, Free
  <2>5. id \in 0 .. MaxProjects
    BY <1>0 DEF Ids
  <2>6. /\ Steps(<<"rebuild">>, id, root) \in Seq(Settled) /\ <<>> \in Seq(Settled)
        /\ Steps(<<"backfilled", "workstream", "rebuild">>, id, root) \in Seq(Settled)
    BY <2>4, <2>5, SettledSteps, EmptySeq
  <2>7. Healing(id, root) \in Seq(Settled)
    BY <2>6 DEF Healing
  <2>8. todo' = [todo EXCEPT ![c] = Healing(id, root) \o Tail(todo[c])]
    BY <2>2, <2>3 DEF Goto, Rest
  <2> QED BY <1>1, <1>2, <2>1, <2>7, <2>8, FreeQuiet
<1>7. CASE ReadLegacy(c)
  <2>1. <<"mark">> \in Seq(N) /\ <<"insert", "verify", "mark", "rebuild">> \in Seq(N)
    BY DEF Names, Free
  <2>2. /\ Steps(<<"mark">>, Old, p) \in Seq(Settled)
        /\ Steps(<<"insert", "verify", "mark", "rebuild">>, Old, p) \in Seq(Settled)
    BY <1>0, <2>1, SettledSteps
  <2> QED BY <1>3, <1>4, <1>7, <2>2 DEF ReadLegacy, Importing
<1>8. CASE VerifyLegacy(c)
  <2> DEFINE moves == [i \in 1 .. Cardinality(ndjson) |->
                         <<"move", SetToSeq(ndjson)[i], Folder(c)>>]
  <2>1. Goto(c, <<>>) \/ (log[Old] = lines[c] /\ Goto(c, moves \o Rest(c)))
    BY <1>8 DEF VerifyLegacy
  <2>2. Rest(c) \in Seq(Settled)
    <3>1. Verifying(todo[c])
      BY <1>0, <1>2, <1>8, HeadSpecial DEF VerifyLegacy, At
    <3>2. PICK q \in Paths :
            todo[c] = <<<<"verify", Old, q>>, <<"mark", Old, q>>, <<"rebuild", Old, q>>>>
      BY <3>1 DEF Verifying
    <3>3. Rest(c) = Steps(<<"mark", "rebuild">>, Old, q)
      BY <3>2 DEF Rest, Steps
    <3>4. <<"mark", "rebuild">> \in Seq(N)
      BY DEF Names, Free
    <3> QED BY <1>0, <3>3, <3>4, SettledSteps
  <2>3. moves \in Seq(Settled)
    <3>1. ndjson \subseteq 1 .. 2
      BY <1>0 DEF TypeOK, Legacy
    <3>2. IsFiniteSet(ndjson)
      <4>1. PICK n \in Nat : n = 2
        OBVIOUS
      <4>2. IsFiniteSet(1 .. n)
        BY FS_Interval
      <4> QED BY <3>1, <4>1, <4>2, FS_Subset
    <3>3. SetToSeq(ndjson) \in [1 .. Cardinality(ndjson) -> ndjson] /\ Cardinality(ndjson) \in Nat
      BY <3>2, SetSeq
    <3>4. \A f \in ndjson : <<"move", f, Folder(c)>> \in Settled
      BY <1>0, <1>3, <3>1 DEF Settled, Step, Names
    <3>5. moves \in [1 .. Cardinality(ndjson) -> Settled]
      BY <3>3, <3>4
    <3> QED BY <3>3, <3>5, FunctionSeq
  <2> HIDE DEF moves
  <2>4. moves \o Rest(c) \in Seq(Settled)
    BY <2>2, <2>3, ConcatProperties
  <2> QED BY <1>4, <2>1, <2>4, EmptySeq
<1> QED BY <1>5, <1>6, <1>7, <1>8

\* Steps that the rest of the list follows, or nothing at all
LEMMA FreeDone ==
  ASSUME FreeInv, ListInv', NEW c \in Commands,
         \/ LogCreated(c) \/ LogWorkstream(c) \/ LogUpdated(c) \/ LogBackfilled(c)
         \/ Observe(c) \/ Import(c) \/ Rebuild(c) \/ WriteSync(c) \/ Push(c)
         \/ PullFails(c) \/ InsertLegacy(c) \/ MoveFile(c) \/ MarkMigrated(c) \/ Kill(c)
  PROVE  FreeInv'
<1>1. UNCHANGED <<bindings, bound, displaced, raced>>
  BY DEF LogCreated, LogWorkstream, LogUpdated, LogBackfilled, Logged, Observe, Import,
     Rebuild, WriteSync, Push, PullFails, Arrival, InsertLegacy, MoveFile, MarkMigrated,
     Kill, disk, past
<1>2. \/ todo' = [todo EXCEPT ![c] = <<>>]
      \/ todo[c] # <<>> /\ Head(todo[c])[1] # "bind" /\ todo' = [todo EXCEPT ![c] = Tail(todo[c])]
  BY DEF LogCreated, LogWorkstream, LogUpdated, LogBackfilled, Logged, Observe, Import,
     Rebuild, WriteSync, Push, PullFails, InsertLegacy, MoveFile, MarkMigrated,
     Kill, Goto, Done, Rest, At
<1>3. KeptList(<<>>) /\ <<>> \in Seq(Step)
  BY EmptySeq DEF KeptList
<1> QED BY <1>1, <1>2, <1>3, FreeQuiet

LEMMA FreePull ==
  ASSUME FreeInv, ListInv', NEW c \in Commands, Pull(c)
  PROVE  FreeInv'
<1>1. UNCHANGED <<bindings, bound, displaced, raced>>
  BY DEF Pull, Arrival
<1>2. todo[c] # <<>> /\ Head(todo[c])[1] # "bind" /\ Id(c) \in 0 .. MaxProjects
  <2>1. ListInv /\ MaxProjects \in Nat
    BY Bounds DEF FreeInv, ListInv
  <2>2. Id(c) \in Ids
    BY <2>1, PullGoes
  <2> QED BY <2>1, <2>2 DEF Pull, At, Ids
<1>3. \A name \in {"rebuild", "refresh"}, p \in Paths : <<<<name, Id(c), p>>>> \in Seq(Settled)
  <2>1. \A name \in {"rebuild", "refresh"}, p \in Paths : <<name, Id(c), p>> \in Settled
    BY <1>2 DEF Settled, Step, Names, Free
  <2> QED BY <2>1, OneSeq
<1>4. PICK t : /\ todo' = [todo EXCEPT ![c] = t]
               /\ \/ t = Tail(todo[c])
                  \/ \E u \in Seq(Settled) : t = u \o Tail(todo[c])
  BY <1>3, PullGoes DEF FreeInv
<1> QED BY <1>1, <1>2, <1>4, FreeQuiet

LEMMA FreeStill ==
  ASSUME FreeInv, ListInv', UNCHANGED <<bindings, bound, displaced, raced, todo>>
  PROVE  FreeInv'
<1>1. FreeLists' /\ OneFrees'
  BY DEF FreeInv, FreeLists, FreeList, OneFrees, Unbinding, Upset, KeptList, Settled,
     Freed, Step
<1>2. StaysBound'
  BY DEF FreeInv, StaysBound
<1> QED BY <1>1, <1>2 DEF FreeInv

LEMMA FreeInvNext == FreeInv /\ [Next]_vars => FreeInv'
<1> SUFFICES ASSUME FreeInv, [Next]_vars PROVE FreeInv'
  OBVIOUS
<1>0. ListInv'
  BY ListInvNext DEF FreeInv
<1>1. ASSUME \/ \E r \in Repos, p \in Paths : MoveRepo(r, p)
             \/ \E id \in Ids, e \in {MadeUp, Moved} : PeerPushes(id, e)
      PROVE  FreeInv'
  BY <1>0, <1>1, FreeStill DEF MoveRepo, PeerPushes, disk, work, past
<1>2. ASSUME NEW c \in Commands, NEW p \in Paths, CliCleanup(c, p) PROVE FreeInv'
  BY <1>0, <1>2, FreeStill DEF CliCleanup, work, past
<1>3. ASSUME NEW c \in Commands, ReadBindings(c) PROVE FreeInv'
  BY <1>0, <1>3, FreeStill DEF ReadBindings, disk, past
<1>4. ASSUME NEW c \in Commands, BindFolder(c) \/ UnbindFolder(c) PROVE FreeInv'
  BY <1>0, <1>4, FreeBinding DEF BindFolder, UnbindFolder
<1>5. ASSUME NEW c \in Commands,
             \/ Judge(c) \/ Relocating(c)
             \/ LogCreated(c) \/ LogWorkstream(c) \/ LogUpdated(c)
             \/ LogBackfilled(c) \/ Observe(c) \/ Import(c) \/ Rebuild(c)
             \/ WriteSync(c) \/ Push(c) \/ Pull(c) \/ PullFails(c) \/ Heal(c)
             \/ ReadLegacy(c) \/ InsertLegacy(c) \/ VerifyLegacy(c)
             \/ MoveFile(c) \/ MarkMigrated(c) \/ Kill(c)
      PROVE FreeInv'
  BY <1>0, <1>5, FreeDecisions, FreeRelocating, FreePull, FreeDone
<1>6. CASE UNCHANGED vars
  BY <1>0, <1>6, FreeStill DEF vars, disk, work, past
<1>7. ASSUME NEW c \in Commands, NEW p \in Paths,
             \/ \E force \in BOOLEAN : CliInit(c, p, force)
             \/ SetupBound(c, p) \/ SetupNested(c, p) \/ SetupUnbound(c, p)
             \/ \E id \in Ids : CliRelocate(c, p, id)
             \/ CloneWorkspace(c, p) \/ CloneShared(c, p) \/ CliSync(c, p) \/ SessionStart(c, p)
             \/ CliMigrate(c, p)
      PROVE  FreeInv'
  BY <1>0, <1>7, FreeCommands
<1> QED BY <1>1, <1>2, <1>3, <1>4, <1>5, <1>6, <1>7 DEF Next

\* A command lets only the old folders of a project go, and one command at a
\* time: the invariant of the property below.
THEOREM FreesHold == Spec => []FreeInv
<1>1. Init => FreeInv
  <2> SUFFICES ASSUME Init PROVE FreeInv
    OBVIOUS
  <2>1. \A c \in Commands : todo[c] = <<>>
    BY DEF Init
  <2>2. FreeLists /\ OneFrees
    BY <2>1 DEF FreeLists, FreeList, KeptList, OneFrees, Unbinding
  <2>3. StaysBound
    <3>1. Start[OldRepo] \in Paths
      BY ProjectsAssumption
    <3>2. bindings[Start[OldRepo]] = Old /\ bound = {Old}
      BY <3>1 DEF Init
    <3> QED BY <3>1, <3>2 DEF StaysBound
  <2> QED BY <2>2, <2>3, ListInvInit DEF FreeInv
<1> QED BY <1>1, FreeInvNext, PTL DEF Spec

\* A project that was bound has a folder, through relocations that are killed
\* half way, unless its folder was given to another or two commands raced.
THEOREM StaysBoundHolds == Spec => []StaysBound
<1>1. FreeInv => StaysBound
  BY DEF FreeInv
<1> QED BY <1>1, FreesHold, PTL

-----------------------------------------------------------------------------
(* A project is bound when it is complete.  The list that creates it goes  *)
(* through the parts in order; any other list of steps of the project, and *)
(* any copy of the bindings that names it, comes when it is complete, or   *)
(* when a relocation raced with the creation.                              *)

Fresh == Ids \ {Old, Shared}

Complete(id) ==
  /\ Has(id, "created") /\ Has(id, "workstream") /\ id \in Readable
  /\ sync[id] # "absent" \/ id \in cut

\* Projects minted here that are not complete, and no relocation raced with
Hollow == {id \in Fresh \ raced : ~ Complete(id)}

Sound(id) == id \notin Hollow

Of(id) == {e \in Step : e[2] = id}
SoundSteps == {e \in Step : Sound(e[2])}

\* What is left of the steps of createProject, for each that comes next
Syncing(s, id) == Starts(s, "sync", id) /\ Tail(s) \in Seq(Of(id))
Rowing(s, id) == Starts(s, "rebuild", id) /\ Syncing(Tail(s), id)
Streaming(s, id) == Starts(s, "workstream", id) /\ Rowing(Tail(s), id)
Beginning(s, id) == Starts(s, "created", id) /\ Streaming(Tail(s), id)

Building(s, id) ==
  \/ Beginning(s, id)
  \/ Streaming(s, id) /\ Has(id, "created")
  \/ Rowing(s, id) /\ Has(id, "created") /\ Has(id, "workstream")
  \/ Syncing(s, id) /\ Has(id, "created") /\ Has(id, "workstream") /\ id \in Readable

Moving(s) ==
  s # <<>> /\ Head(s)[1] = "relocate" /\ Tail(s) \in Seq(Of(Head(s)[2]))

ListBuilt(s) ==
  s \in Seq(SoundSteps) \/ Moving(s) \/ \E id \in Fresh : Building(s, id)

\* A row is written when the workstream is logged, and the sync file follows
\* unless the command is killed.
Started(id) ==
  /\ Has(id, "created") /\ Has(id, "workstream")
  /\ \/ sync[id] # "absent" \/ id \in cut
     \/ \E c \in Commands : Building(todo[c], id)

SyncType == sync \in [Ids -> {"absent", "plain", "own", "remote"}]
ListsBuilt == \A c \in Commands : ListBuilt(todo[c])
RowsStarted == \A id \in Fresh \ raced : id \in Readable => Started(id)
BoundSound == \A p \in Paths : Sound(bindings[p])
SeenSound == \A c \in Commands : seen[c] # <<>> => \A p \in Paths : Sound(seen[c][1][p])

BuildInv ==
  ListInv /\ SyncType /\ ListsBuilt /\ RowsStarted /\ BoundSound /\ SeenSound

-----------------------------------------------------------------------------
(* What keeps a project complete, and its creation on its way *)

Keeps ==
  /\ Grows
  /\ Readable \subseteq Readable'
  /\ \A id \in Ids : sync[id] # "absent" => sync'[id] # "absent"
  /\ cut \subseteq cut' /\ raced \subseteq raced'

LEMMA SoundKept ==
  ASSUME TypeOK, Keeps
  PROVE  /\ \A id \in Ids : Complete(id) => Complete(id)'
         /\ Hollow' \subseteq Hollow
         /\ SoundSteps \subseteq SoundSteps'
<1>1. \A id \in Ids : \A type : Has(id, type) => Has(id, type)'
  BY GrowsKeeps DEF Keeps
<1>2. \A id \in Ids : Complete(id) => Complete(id)'
  BY <1>1 DEF Complete, Keeps
<1>3. Hollow' \subseteq Hollow
  BY <1>2 DEF Hollow, Keeps, Fresh
<1>4. SoundSteps \subseteq SoundSteps'
  BY <1>3 DEF SoundSteps, Sound, Step
<1> QED BY <1>2, <1>3, <1>4

LEMMA BuildingKept ==
  ASSUME TypeOK, Keeps, NEW d \in Commands, todo'[d] = todo[d]
  PROVE  /\ \A id \in Fresh : Building(todo[d], id) => Building(todo[d], id)'
         /\ ListBuilt(todo[d]) => ListBuilt(todo[d])'
<1>1. \A id \in Ids : \A type : Has(id, type) => Has(id, type)'
  BY GrowsKeeps DEF Keeps
<1>2. \A id \in Fresh : Building(todo[d], id) => Building(todo[d], id)'
  BY <1>1 DEF Building, Beginning, Streaming, Rowing, Syncing, Starts, Of, Step, Fresh, Keeps
<1>3. todo[d] \in Seq(SoundSteps) => todo'[d] \in Seq(SoundSteps')
  BY SoundKept, SeqMonotonic
<1>4. Moving(todo[d]) => Moving(todo[d])'
  BY DEF Moving, Of, Step
<1> QED BY <1>2, <1>3, <1>4 DEF ListBuilt

\* A list that was in order before the step is so after it.
LEMMA OwnSound ==
  ASSUME TypeOK, Keeps, NEW c \in Commands, NEW t \in Seq(SoundSteps),
         todo' = [todo EXCEPT ![c] = t]
  PROVE  ListBuilt(todo[c])'
<1>1. todo'[c] = t
  BY DEF TypeOK
<1>2. t \in Seq(SoundSteps')
  BY SoundKept, SeqMonotonic
<1> QED BY <1>1, <1>2 DEF ListBuilt

\* What a step of command c has to see to
LEMMA BuildStep ==
  ASSUME BuildInv, ListInv', Keeps, SyncType', NEW c \in Commands,
         \A d \in Commands \ {c} : todo'[d] = todo[d],
         ListBuilt(todo[c])',
         \A id \in Fresh : Building(todo[c], id) =>
           Building(todo[c], id)' \/ sync'[id] # "absent" \/ id \in cut',
         \A id \in Fresh \ raced' : id \in Readable' => id \in Readable \/ Started(id)',
         BoundSound', SeenSound'
  PROVE  BuildInv'
<1>0. TypeOK
  BY DEF BuildInv, ListInv
<1>1. ListsBuilt'
  BY <1>0, BuildingKept DEF ListsBuilt, BuildInv
<1>2. ASSUME NEW id \in Fresh \ raced', id \in Readable' PROVE Started(id)'
  <2>1. CASE id \notin Readable
    BY <1>2, <2>1
  <2>2. CASE id \in Readable
    <3>1. id \in Ids /\ id \notin raced
      BY <1>2 DEF Fresh, Keeps
    <3>2. Started(id)
      BY <2>2, <3>1 DEF BuildInv, RowsStarted
    <3>3. Has(id, "created")' /\ Has(id, "workstream")'
      BY <1>0, <3>1, <3>2, GrowsKeeps DEF Started, Keeps
    <3>4. CASE sync[id] # "absent" \/ id \in cut
      BY <3>1, <3>3, <3>4 DEF Started, Keeps
    <3>5. ASSUME NEW d \in Commands, Building(todo[d], id) PROVE Started(id)'
      <4>1. CASE d = c
        BY <3>3, <3>5, <4>1 DEF Started
      <4>2. CASE d # c
        <5>1. Building(todo[d], id)'
          BY <1>0, <3>5, <4>2, BuildingKept
        <5> QED BY <3>3, <5>1 DEF Started
      <4> QED BY <4>1, <4>2
    <3> QED BY <3>2, <3>4, <3>5 DEF Started
  <2> QED BY <2>1, <2>2
<1>3. RowsStarted'
  BY <1>2 DEF RowsStarted, Fresh
<1> QED BY <1>1, <1>3 DEF BuildInv

\* The bindings, and the copies of them
LEMMA SoundsKept ==
  ASSUME BuildInv, Keeps
  PROVE  /\ UNCHANGED bindings => BoundSound'
         /\ (\A d \in Commands :
               seen'[d] = seen[d] \/ seen'[d] = <<>> \/ seen'[d] = <<bindings>>)
            => SeenSound'
<1>1. Hollow' \subseteq Hollow
  BY SoundKept DEF BuildInv, ListInv
<1>2. UNCHANGED bindings => BoundSound'
  BY <1>1 DEF BuildInv, BoundSound, Sound
<1>3. ASSUME \A d \in Commands :
               seen'[d] = seen[d] \/ seen'[d] = <<>> \/ seen'[d] = <<bindings>>
      PROVE  SeenSound'
  <2>1. ASSUME NEW d \in Commands, seen'[d] # <<>>, NEW p \in Paths
        PROVE  seen'[d][1][p] \notin Hollow
    BY <1>3, <2>1 DEF BuildInv, SeenSound, BoundSound, Sound
  <2> QED BY <1>1, <2>1 DEF SeenSound, Sound
<1> QED BY <1>2, <1>3

\* A step that writes neither the bindings nor a row
LEMMA BuildQuiet ==
  ASSUME BuildInv, ListInv', Keeps, SyncType', NEW c \in Commands,
         UNCHANGED bindings, Readable' \subseteq Readable,
         \A d \in Commands : seen'[d] = seen[d] \/ seen'[d] = <<>> \/ seen'[d] = <<bindings>>,
         \A d \in Commands \ {c} : todo'[d] = todo[d],
         ListBuilt(todo[c])',
         \A id \in Fresh : Building(todo[c], id) =>
           Building(todo[c], id)' \/ sync'[id] # "absent" \/ id \in cut'
  PROVE  BuildInv'
<1>1. BoundSound' /\ SeenSound'
  BY SoundsKept
<1> QED BY <1>1, BuildStep

\* Only the steps of createProject, and a relocation, are not for a project
\* that is complete already.
LEMMA HeadBuilt ==
  ASSUME BuildInv, NEW c \in Commands, todo[c] # <<>>,
         Head(todo[c])[1] \notin {"created", "workstream", "rebuild", "sync", "relocate"}
  PROVE  /\ todo[c] \in Seq(SoundSteps) /\ Tail(todo[c]) \in Seq(SoundSteps)
         /\ Sound(Id(c))
         /\ \A id : ~ Building(todo[c], id)
<1>1. \A id : ~ Building(todo[c], id)
  BY DEF Building, Beginning, Streaming, Rowing, Syncing, Starts
<1>2. todo[c] \in Seq(SoundSteps)
  BY <1>1 DEF BuildInv, ListsBuilt, ListBuilt, Moving
<1>3. Head(todo[c]) \in SoundSteps /\ Tail(todo[c]) \in Seq(SoundSteps)
  BY <1>2, RestSeq
<1> QED BY <1>1, <1>2, <1>3 DEF SoundSteps, Id

LEMMA NoneBuilding ==
  ASSUME NEW s, s = <<>> \/ Head(s)[1] \in {"relocate", "judge"}
  PROVE  \A id : ~ Building(s, id)
BY DEF Building, Beginning, Streaming, Rowing, Syncing, Starts

\* A step is done, and what it was to achieve is achieved.
LEMMA TailBuilt ==
  ASSUME BuildInv, Keeps, NEW c \in Commands, todo[c] # <<>>,
         Head(todo[c])[1] # "relocate",
         todo' = [todo EXCEPT ![c] = Tail(todo[c])],
         \A id \in Fresh :
           /\ Starts(todo[c], "created", id) => Has(id, "created")'
           /\ Starts(todo[c], "workstream", id) => Has(id, "workstream")'
           /\ Starts(todo[c], "rebuild", id) => id \in Readable'
           /\ Starts(todo[c], "sync", id) => sync'[id] # "absent"
  PROVE  /\ ListBuilt(todo[c])'
         /\ \A id \in Fresh : Building(todo[c], id) =>
              Building(todo[c], id)' \/ sync'[id] # "absent"
<1>0. TypeOK
  BY DEF BuildInv, ListInv
<1>1. todo'[c] = Tail(todo[c])
  BY <1>0 DEF TypeOK
<1>2. \A id \in Ids : \A type : Has(id, type) => Has(id, type)'
  BY <1>0, GrowsKeeps DEF Keeps
<1>3. ASSUME todo[c] \in Seq(SoundSteps) PROVE ListBuilt(todo[c])'
  <2>1. Tail(todo[c]) \in Seq(SoundSteps)
    BY <1>3, RestSeq
  <2> QED BY <1>0, <2>1, OwnSound
<1>4. ASSUME NEW id \in Fresh, Building(todo[c], id)
      PROVE  /\ ListBuilt(todo[c])'
             /\ Building(todo[c], id)' \/ sync'[id] # "absent"
  <2>1. id \in Ids
    BY DEF Fresh
  <2>2. CASE Beginning(todo[c], id)
    <3>1. Has(id, "created")'
      BY <2>2 DEF Beginning
    <3>2. Streaming(Tail(todo[c]), id)
      BY <2>2 DEF Beginning
    <3>3. Streaming(todo'[c], id)
      BY <1>1, <3>2
    <3>4. Building(todo[c], id)'
      BY <3>1, <3>3 DEF Building, Streaming, Rowing, Syncing, Starts, Of, Step
    <3> QED BY <3>4 DEF ListBuilt
  <2>3. CASE Streaming(todo[c], id) /\ Has(id, "created")
    <3>1. Has(id, "workstream")' /\ Has(id, "created")'
      BY <1>2, <2>1, <2>3 DEF Streaming
    <3>2. Rowing(todo'[c], id)
      BY <1>1, <2>3 DEF Streaming
    <3>4. Building(todo[c], id)'
      BY <3>1, <3>2 DEF Building, Rowing, Syncing, Starts, Of, Step
    <3> QED BY <3>4 DEF ListBuilt
  <2>4. CASE Rowing(todo[c], id) /\ Has(id, "created") /\ Has(id, "workstream")
    <3>1. Has(id, "workstream")' /\ Has(id, "created")' /\ id \in Readable'
      BY <1>2, <2>1, <2>4 DEF Rowing
    <3>2. Syncing(todo'[c], id)
      BY <1>1, <2>4 DEF Rowing
    <3>4. Building(todo[c], id)'
      BY <3>1, <3>2 DEF Building, Syncing, Starts, Of, Step
    <3> QED BY <3>4 DEF ListBuilt
  <2>5. CASE /\ Syncing(todo[c], id) /\ Has(id, "created") /\ Has(id, "workstream")
             /\ id \in Readable
    <3>1. sync'[id] # "absent"
      BY <2>5 DEF Syncing
    <3>2. Has(id, "workstream")' /\ Has(id, "created")' /\ id \in Readable'
      BY <1>2, <2>1, <2>5 DEF Keeps
    <3>3. Sound(id)'
      BY <3>1, <3>2 DEF Sound, Hollow, Complete
    <3>4. todo'[c] \in Seq(Of(id))
      BY <1>1, <2>5 DEF Syncing
    <3>5. Of(id) \subseteq SoundSteps'
      BY <3>3 DEF Of, SoundSteps, Sound, Step
    <3>6. todo'[c] \in Seq(SoundSteps')
      BY <3>4, <3>5, SeqMonotonic
    <3> QED BY <3>1, <3>6 DEF ListBuilt
  <2> QED BY <1>4, <2>2, <2>3, <2>4, <2>5 DEF Building
<1>5. ~ Moving(todo[c])
  BY DEF Moving
<1> QED BY <1>3, <1>4, <1>5 DEF BuildInv, ListsBuilt, ListBuilt

-----------------------------------------------------------------------------
(* New lists of one project *)

LEMMA StepsOf ==
  ASSUME NEW names \in Seq(Names), NEW id \in 0 .. MaxProjects, NEW p \in Paths
  PROVE  Steps(names, id, p) \in Seq(Of(id))
<1>1. Len(names) \in Nat /\ \A i \in 1 .. Len(names) : names[i] \in Names
  BY LenProperties, ElementOfSeq
<1>2. Steps(names, id, p) \in [1 .. Len(names) -> Of(id)]
  BY <1>1 DEF Steps, Of, Step
<1> QED BY <1>1, <1>2, FunctionSeq

\* The steps of a project that needs no more to be complete
LEMMA OfSound ==
  ASSUME NEW id, Sound(id), NEW s \in Seq(Of(id))
  PROVE  s \in Seq(SoundSteps)
<1>1. Of(id) \subseteq SoundSteps
  BY DEF Of, SoundSteps
<1> QED BY <1>1, SeqMonotonic

LEMMA TailAt ==
  ASSUME NEW S, NEW s \in Seq(S), NEW n \in Nat, Len(s) >= n + 1
  PROVE  /\ s # <<>> /\ Head(s) = s[1] /\ Tail(s) \in Seq(S) /\ Len(Tail(s)) >= n
         /\ \A i \in 1 .. n : Tail(s)[i] = s[i + 1]
<1>1. s # <<>> /\ Len(s) \in Nat
  BY LenProperties, EmptySeq
<1>2. /\ Head(s) = s[1] /\ Tail(s) \in Seq(S) /\ Len(Tail(s)) = Len(s) - 1
      /\ \A i \in 1 .. Len(Tail(s)) : Tail(s)[i] = s[i + 1]
  BY <1>1, HeadTailProperties
<1> QED BY <1>1, <1>2

\* The steps of createProject, one by one
LEMMA BeginningIs ==
  ASSUME NEW id, NEW s \in Seq(Of(id)), Len(s) >= 5,
         s[1][1] = "created", s[2][1] = "workstream", s[3][1] = "rebuild", s[4][1] = "sync"
  PROVE  Beginning(s, id)
<1> DEFINE t == Tail(s)
           u == Tail(t)
           v == Tail(u)
<1>0. \A i \in 1 .. 5 : s[i][2] = id
  <2>1. \A i \in 1 .. Len(s) : s[i] \in Of(id)
    BY ElementOfSeq
  <2>2. Len(s) \in Nat
    BY LenProperties
  <2> QED BY <2>1, <2>2 DEF Of
<1>1. /\ s # <<>> /\ Head(s) = s[1] /\ t \in Seq(Of(id)) /\ Len(t) >= 4
      /\ \A i \in 1 .. 4 : t[i] = s[i + 1]
  BY TailAt
<1>2. Starts(s, "created", id)
  BY <1>0, <1>1 DEF Starts
<1> HIDE DEF t
<1>3. /\ t # <<>> /\ Head(t) = t[1] /\ u \in Seq(Of(id)) /\ Len(u) >= 3
      /\ \A i \in 1 .. 3 : u[i] = t[i + 1]
  BY <1>1, TailAt
<1>4. t[1] = s[2] /\ t[2] = s[3] /\ t[3] = s[4]
  BY <1>1
<1>5. Starts(t, "workstream", id)
  BY <1>0, <1>3, <1>4 DEF Starts
<1> HIDE DEF u
<1>6. /\ u # <<>> /\ Head(u) = u[1] /\ v \in Seq(Of(id)) /\ Len(v) >= 2
      /\ \A i \in 1 .. 2 : v[i] = u[i + 1]
  BY <1>3, TailAt
<1>7. u[1] = s[3] /\ u[2] = s[4]
  BY <1>3, <1>4
<1>8. Starts(u, "rebuild", id)
  BY <1>0, <1>6, <1>7 DEF Starts
<1> HIDE DEF v
<1>9. v # <<>> /\ Head(v) = v[1] /\ Tail(v) \in Seq(Of(id))
  BY <1>6, TailAt
<1>10. v[1] = s[4]
  BY <1>6, <1>7
<1>11. Syncing(v, id)
  BY <1>0, <1>9, <1>10 DEF Syncing, Starts
<1>12. Rowing(u, id)
  BY <1>8, <1>11 DEF Rowing, v
<1>13. Streaming(t, id)
  BY <1>5, <1>12 DEF Streaming, u
<1> QED BY <1>2, <1>13 DEF Beginning, t

LEMMA CreatedBegins ==
  ASSUME NEW id \in 0 .. MaxProjects, NEW p \in Paths, NEW names \in Seq({"import", "remote"})
  PROVE  Beginning(Created(id, p) \o Steps(names, id, p), id)
<1> DEFINE first == <<"created", "workstream", "rebuild", "sync", "bind">>
           u == Created(id, p)
           v == Steps(names, id, p)
           s == u \o v
<1>1. first \in Seq(Names) /\ Len(first) = 5
  BY DEF Names, Free
<1>2. /\ u \in Seq(Of(id)) /\ Len(u) = 5
      /\ \A i \in 1 .. 5 : u[i] = <<first[i], id, p>>
  BY <1>1, StepsAre, StepsOf DEF Created
<1>3. /\ u[1][1] = "created" /\ u[2][1] = "workstream" /\ u[3][1] = "rebuild"
      /\ u[4][1] = "sync"
  BY <1>2
<1>4. v \in Seq(Of(id))
  <2>1. {"import", "remote"} \subseteq Names
    BY DEF Names, Free
  <2>2. names \in Seq(Names)
    BY <2>1, SeqMonotonic
  <2> QED BY <2>2, StepsOf
<1> HIDE DEF u, v
<1>5. /\ s \in Seq(Of(id)) /\ Len(s) = Len(u) + Len(v) /\ Len(v) \in Nat
      /\ \A i \in 1 .. Len(u) + Len(v) :
           s[i] = IF i <= Len(u) THEN u[i] ELSE v[i - Len(u)]
  BY <1>2, <1>4, ConcatProperties, LenProperties
<1>6. Len(s) >= 5 /\ s[1] = u[1] /\ s[2] = u[2] /\ s[3] = u[3] /\ s[4] = u[4]
  BY <1>2, <1>5
<1> HIDE DEF s
<1>7. Beginning(s, id)
  BY <1>3, <1>5, <1>6, BeginningIs
<1> QED BY <1>7 DEF s, u, v

-----------------------------------------------------------------------------
(* Steps that the rest of the list follows *)

LEMMA LogsGrow ==
  ASSUME TypeOK, TypeOK',
         \A id \in Ids : LogStep(id) \/ \E u \in Seq(Event) : log'[id] = log[id] \o u
  PROVE  Grows
<1>1. ASSUME NEW id \in Ids
      PROVE  /\ Len(log[id]) <= Len(log'[id])
             /\ \A i \in 1 .. Len(log[id]) : log'[id][i] = log[id][i]
  <2>1. log[id] \in Seq(Event) /\ Len(log[id]) \in Nat
    BY LenProperties DEF TypeOK
  <2>2. CASE log'[id] = log[id]
    BY <2>1, <2>2
  <2>3. ASSUME NEW e \in Event, log'[id] = Append(log[id], e)
        PROVE  /\ Len(log[id]) <= Len(log'[id])
               /\ \A i \in 1 .. Len(log[id]) : log'[id][i] = log[id][i]
    BY <2>1, <2>3, AppendProperties
  <2>4. ASSUME NEW u \in Seq(Event), log'[id] = log[id] \o u
        PROVE  /\ Len(log[id]) <= Len(log'[id])
               /\ \A i \in 1 .. Len(log[id]) : log'[id][i] = log[id][i]
    <3> DEFINE s == log[id]
    <3>1. log'[id] = s \o u
      BY <2>4
    <3>2. s \in Seq(Event) /\ Len(s) \in Nat /\ Len(u) \in Nat
      BY <2>1, LenProperties
    <3> HIDE DEF s
    <3>3. /\ Len(s \o u) = Len(s) + Len(u)
          /\ \A i \in 1 .. Len(s) + Len(u) :
               (s \o u)[i] = IF i <= Len(s) THEN s[i] ELSE u[i - Len(s)]
      BY <3>2, ConcatProperties
    <3>4. Len(s) <= Len(s \o u) /\ \A i \in 1 .. Len(s) : (s \o u)[i] = s[i]
      BY <3>2, <3>3
    <3> QED BY <3>1, <3>4 DEF s
  <2>5. \/ log'[id] = log[id]
        \/ \E e \in Event : log'[id] = Append(log[id], e)
        \/ \E u \in Seq(Event) : log'[id] = log[id] \o u
    BY DEF LogStep, Brings
  <2> QED BY <2>2, <2>3, <2>4, <2>5
<1> QED BY <1>1 DEF Grows, TypeOK

LEMMA BuildTail ==
  ASSUME BuildInv, ListInv', Keeps, SyncType', NEW c \in Commands, todo[c] # <<>>,
         Head(todo[c])[1] # "relocate", Done(c), UNCHANGED <<bindings, seen>>,
         \A id \in Fresh :
           /\ Starts(todo[c], "created", id) => Has(id, "created")'
           /\ Starts(todo[c], "workstream", id) => Has(id, "workstream")'
           /\ Starts(todo[c], "rebuild", id) => id \in Readable'
           /\ Starts(todo[c], "sync", id) => sync'[id] # "absent",
         \A id \in Readable' :
           \/ id \in Readable
           \/ id = Id(c) /\ Head(todo[c])[1] \in {"import", "rebuild", "refresh"}
  PROVE  BuildInv'
<1>0. TypeOK
  BY DEF BuildInv, ListInv
<1>1. todo' = [todo EXCEPT ![c] = Tail(todo[c])]
  BY DEF Done, Goto, Rest
<1>2. /\ ListBuilt(todo[c])'
      /\ \A id \in Fresh : Building(todo[c], id) =>
           Building(todo[c], id)' \/ sync'[id] # "absent"
  BY <1>1, TailBuilt
<1>3. \A d \in Commands \ {c} : todo'[d] = todo[d]
  BY <1>0, <1>1 DEF TypeOK
<1>4. ASSUME NEW id \in Fresh \ raced', id \in Readable', id \notin Readable
      PROVE  Started(id)'
  <2>1. id = Id(c) /\ Head(todo[c])[1] \in {"import", "rebuild", "refresh"} /\ id \in Ids
    BY <1>4 DEF Fresh
  <2>2. id \in Hollow
    BY <1>4 DEF Hollow, Complete, Keeps
  <2>3. todo[c] \notin Seq(SoundSteps)
    <3> SUFFICES ASSUME todo[c] \in Seq(SoundSteps) PROVE FALSE
      OBVIOUS
    <3>1. Head(todo[c]) \in SoundSteps
      BY RestSeq
    <3> QED BY <2>1, <2>2, <3>1 DEF SoundSteps, Sound, Id
  <2>4. PICK k \in Fresh : Building(todo[c], k)
    BY <2>3 DEF BuildInv, ListsBuilt, ListBuilt, Moving
  <2>5. k = id
    BY <2>1, <2>4 DEF Building, Beginning, Streaming, Rowing, Syncing, Starts, Id
  <2>6. Has(id, "created") /\ Has(id, "workstream")
    BY <2>1, <2>4, <2>5 DEF Building, Beginning, Streaming, Rowing, Syncing, Starts
  <2>7. Has(id, "created")' /\ Has(id, "workstream")'
    BY <1>0, <2>1, <2>6, GrowsKeeps DEF Keeps
  <2>8. Building(todo[c], id)' \/ sync'[id] # "absent"
    BY <1>2, <2>4, <2>5
  <2> QED BY <2>7, <2>8 DEF Started
<1>5. BoundSound' /\ SeenSound'
  BY SoundsKept
<1> QED BY <1>2, <1>3, <1>4, <1>5, BuildStep

\* A step that ends the command
LEMMA BuildEnd ==
  ASSUME BuildInv, ListInv', Keeps, NEW c \in Commands, Goto(c, <<>>),
         UNCHANGED <<bindings, row, sync>>,
         \A d \in Commands : seen'[d] = seen[d] \/ seen'[d] = <<>>,
         \A id \in Fresh : Building(todo[c], id) => id \in cut'
  PROVE  BuildInv'
<1>0. TypeOK
  BY DEF BuildInv, ListInv
<1>1. todo' = [todo EXCEPT ![c] = <<>>] /\ <<>> \in Seq(SoundSteps)
  BY EmptySeq DEF Goto
<1>2. ListBuilt(todo[c])'
  BY <1>0, <1>1, OwnSound
<1>3. \A d \in Commands \ {c} : todo'[d] = todo[d]
  BY <1>0, <1>1 DEF TypeOK
<1>4. SyncType' /\ Readable' \subseteq Readable
  BY DEF BuildInv, SyncType, Readable
<1> QED BY <1>2, <1>3, <1>4, BuildQuiet

LEMMA OwnBuilt ==
  ASSUME TypeOK, Keeps, NEW c \in Commands, NEW t, todo' = [todo EXCEPT ![c] = t],
         t \in Seq(SoundSteps) \/ Moving(t) \/ \E id \in Fresh : Beginning(t, id)
  PROVE  ListBuilt(todo[c])'
<1>1. todo'[c] = t
  BY DEF TypeOK
<1>2. CASE t \in Seq(SoundSteps)
  BY <1>2, OwnSound
<1>3. CASE Moving(t)
  <2>1. Moving(todo[c])'
    BY <1>1, <1>3 DEF Moving, Of, Step
  <2> QED BY <2>1 DEF ListBuilt
<1>4. ASSUME NEW id \in Fresh, Beginning(t, id) PROVE ListBuilt(todo[c])'
  <2>1. Beginning(todo[c], id)'
    BY <1>1, <1>4 DEF Beginning, Streaming, Rowing, Syncing, Starts, Of, Step
  <2> QED BY <2>1 DEF ListBuilt, Building
<1> QED BY <1>2, <1>3, <1>4

\* A command decides how it goes on, and writes nothing else.
LEMMA BuildGoto ==
  ASSUME BuildInv, ListInv', NEW c \in Commands, NEW t, Goto(c, t),
         t \in Seq(SoundSteps) \/ Moving(t) \/ \E id \in Fresh : Beginning(t, id),
         \A id : ~ Building(todo[c], id),
         UNCHANGED <<bindings, log, row, sync, seen, cut>>, raced \subseteq raced'
  PROVE  BuildInv'
<1>0. ListInv /\ TypeOK /\ TypeOK'
  BY DEF BuildInv, ListInv
<1>1. todo' = [todo EXCEPT ![c] = t]
  BY DEF Goto
<1>2. Grows /\ Readable' = Readable
  BY <1>0, Bounds DEF Grows, TypeOK, Readable
<1>3. Keeps /\ SyncType'
  BY <1>2 DEF Keeps, BuildInv, SyncType
<1>4. ListBuilt(todo[c])'
  BY <1>0, <1>1, <1>3, OwnBuilt
<1>5. \A d \in Commands \ {c} : todo'[d] = todo[d]
  BY <1>0, <1>1 DEF TypeOK
<1> QED BY <1>2, <1>3, <1>4, <1>5, BuildQuiet

LEMMA BuildLogs ==
  ASSUME BuildInv, ListInv', NEW c \in Commands,
         \/ LogCreated(c) \/ LogWorkstream(c) \/ LogUpdated(c) \/ LogBackfilled(c)
         \/ Observe(c) \/ InsertLegacy(c)
  PROVE  BuildInv'
<1>0. ListInv /\ TypeOK /\ TypeOK'
  BY DEF BuildInv, ListInv
<1>1. Grows
  BY <1>0, LogsChange, LogsGrow
<1>2. /\ UNCHANGED <<bindings, seen, row, sync, cut, raced>> /\ Done(c)
      /\ todo[c] # <<>>
      /\ Head(todo[c])[1] \in {"created", "workstream", "updated", "backfilled",
                               "observe", "insert"}
  BY DEF LogCreated, LogWorkstream, LogUpdated, LogBackfilled, Logged, Observe,
         InsertLegacy, Arrival, At, past
<1>3. Readable' = Readable
  BY <1>2 DEF Readable
<1>4. Keeps /\ SyncType'
  BY <1>1, <1>2, <1>3 DEF Keeps, BuildInv, SyncType
<1>5. ASSUME NEW id \in Fresh, NEW name \in {"created", "workstream"},
             Starts(todo[c], name, id)
      PROVE  Has(id, name)'
  <2>1. id \in Ids /\ id = Id(c) /\ Head(todo[c])[1] = name
    BY <1>5 DEF Fresh, Starts, Id
  <2>2. PICK e : Append1(id, e) /\ e[1] = name
    BY <2>1 DEF LogCreated, LogWorkstream, LogUpdated, LogBackfilled, Logged, Observe,
         InsertLegacy, At
  <2>3. log'[id] = Append(log[id], e) /\ log[id] \in Seq(Event)
    BY <1>0, <2>1, <2>2 DEF Append1, TypeOK
  <2>4. Len(log'[id]) = Len(log[id]) + 1 /\ log'[id][Len(log[id]) + 1] = e
        /\ Len(log[id]) \in Nat
    BY <2>3, LenProperties
  <2>5. Len(log[id]) + 1 \in 1 .. Len(log'[id])
    BY <2>4
  <2> QED BY <2>2, <2>4, <2>5 DEF Has
<1>6. \A id \in Fresh :
        /\ Starts(todo[c], "created", id) => Has(id, "created")'
        /\ Starts(todo[c], "workstream", id) => Has(id, "workstream")'
        /\ Starts(todo[c], "rebuild", id) => id \in Readable'
        /\ Starts(todo[c], "sync", id) => sync'[id] # "absent"
  BY <1>2, <1>5 DEF Starts
<1> QED BY <1>2, <1>3, <1>4, <1>6, BuildTail

\* A pull is of a project that is complete already.
LEMMA BuildPull ==
  ASSUME BuildInv, ListInv', NEW c \in Commands, Pull(c)
  PROVE  BuildInv'
<1>0. ListInv /\ TypeOK /\ TypeOK'
  BY DEF BuildInv, ListInv
<1>1. /\ UNCHANGED <<bindings, seen, row, sync, cut, raced>> /\ todo[c] # <<>>
      /\ Head(todo[c])[1] \in {"pull", "autopull"}
  BY DEF Pull, Arrival, At
<1>2. Grows /\ Readable' = Readable
  <2>1. \A id \in Ids : log'[id] = log[id] \/ \E u \in Seq(Event) : log'[id] = log[id] \o u
    BY <1>0, PullChanges
  <2>2. Grows
    BY <1>0, <2>1, LogsGrow DEF LogStep
  <2> QED BY <1>1, <2>2 DEF Readable
<1>3. Keeps /\ SyncType'
  BY <1>1, <1>2 DEF Keeps, BuildInv, SyncType
<1>4. /\ Tail(todo[c]) \in Seq(SoundSteps) /\ Sound(Id(c))
      /\ \A id : ~ Building(todo[c], id)
  BY <1>1, HeadBuilt
<1>5. \A name \in {"rebuild", "refresh"}, p \in Paths :
        <<<<name, Id(c), p>>>> \o Tail(todo[c]) \in Seq(SoundSteps)
  <2>1. Id(c) \in 0 .. MaxProjects
    <3>1. Id(c) \in Ids /\ MaxProjects \in Nat
      BY <1>0, Bounds, PullGoes
    <3> QED BY <3>1 DEF Ids
  <2>2. \A name \in {"rebuild", "refresh"}, p \in Paths : <<name, Id(c), p>> \in SoundSteps
    BY <1>4, <2>1 DEF SoundSteps, Step, Names, Free
  <2>3. \A name \in {"rebuild", "refresh"}, p \in Paths :
          <<<<name, Id(c), p>>>> \in Seq(SoundSteps)
    BY <2>2, OneSeq
  <2> QED BY <1>4, <2>3, ConcatProperties
<1>6. PICK t \in Seq(SoundSteps) : todo' = [todo EXCEPT ![c] = t]
  BY <1>0, <1>4, <1>5, PullGoes
<1>7. ListBuilt(todo[c])' /\ \A d \in Commands \ {c} : todo'[d] = todo[d]
  <2>1. ListBuilt(todo[c])'
    BY <1>0, <1>3, <1>6, OwnSound
  <2> QED BY <1>0, <1>6, <2>1 DEF TypeOK
<1> QED BY <1>1, <1>2, <1>3, <1>4, <1>7, BuildQuiet

LEMMA BuildRows ==
  ASSUME BuildInv, ListInv', NEW c \in Commands, Import(c) \/ Rebuild(c)
  PROVE  BuildInv'
<1>0. ListInv /\ TypeOK /\ TypeOK'
  BY DEF BuildInv, ListInv
<1>1. /\ UNCHANGED <<bindings, seen, sync, cut, raced>> /\ todo[c] # <<>>
      /\ Head(todo[c])[1] \in {"import", "rebuild", "refresh"}
  BY DEF Import, Rebuild, At, past
<1>2. PICK id \in Ids : id = Id(c)
  BY <1>0, <1>1, HeadWaits DEF Waiting, Step, Id
<1>3. Grows
  <2>1. CASE Import(c)
    BY <1>0, <2>1, LogsChange, LogsGrow
  <2>2. CASE Rebuild(c)
    <3>1. UNCHANGED log
      BY <2>2 DEF Rebuild
    <3> QED BY <1>0, <3>1, Bounds DEF Grows, TypeOK
  <2> QED BY <2>1, <2>2
<1>4. CASE Done(c) /\ \E x : row' = [row EXCEPT ![id] = <<x>>]
  <2>1. PICK x : row' = [row EXCEPT ![id] = <<x>>]
    BY <1>4
  <2>2. Readable' = Readable \cup {id}
    BY <1>0, <2>1, EmptySeq DEF Readable, TypeOK
  <2>3. Keeps /\ SyncType'
    BY <1>1, <1>3, <2>2 DEF Keeps, BuildInv, SyncType
  <2>4. \A k \in Fresh :
          /\ Starts(todo[c], "created", k) => Has(k, "created")'
          /\ Starts(todo[c], "workstream", k) => Has(k, "workstream")'
          /\ Starts(todo[c], "rebuild", k) => k \in Readable'
          /\ Starts(todo[c], "sync", k) => sync'[k] # "absent"
    BY <1>1, <1>2, <2>2 DEF Starts, Id
  <2> QED BY <1>1, <1>2, <1>4, <2>2, <2>3, <2>4, BuildTail
<1>5. CASE Rebuild(c) /\ ~ HasGenesis(id) /\ Goto(c, <<>>) /\ UNCHANGED row
  <2>1. Keeps
    BY <1>1, <1>3, <1>5 DEF Keeps, Readable
  <2>2. ASSUME NEW k \in Fresh, Building(todo[c], k) PROVE FALSE
    <3>1. k = id /\ Head(todo[c])[1] = "rebuild"
      BY <1>1, <1>2, <2>2 DEF Building, Beginning, Streaming, Rowing, Syncing, Starts,
         Id
    <3>2. Has(id, "created")
      BY <2>2, <3>1 DEF Building, Beginning, Streaming, Rowing, Syncing, Starts
    <3> QED BY <1>5, <3>2 DEF Has, HasGenesis, IsGenesis
  <2> QED BY <1>1, <1>5, <2>1, <2>2, BuildEnd
<1>6. CASE At(c, "refresh") /\ Goto(c, Tail(todo[c])) /\ UNCHANGED <<log, row>>
  <2>1. Tail(todo[c]) \in Seq(SoundSteps) /\ \A k : ~ Building(todo[c], k)
    BY <1>6, HeadBuilt DEF At
  <2> QED BY <1>1, <1>6, <2>1, BuildGoto
<1>7. \/ Done(c) /\ \E x : row' = [row EXCEPT ![id] = <<x>>]
      \/ Rebuild(c) /\ ~ HasGenesis(id) /\ Goto(c, <<>>) /\ UNCHANGED row
      \/ At(c, "refresh") /\ Goto(c, Tail(todo[c])) /\ UNCHANGED <<log, row>>
  <2>1. CASE Import(c)
    BY <1>2, <2>1 DEF Import
  <2>2. CASE Rebuild(c)
    BY <1>2, <2>2 DEF Rebuild, Rest
  <2> QED BY <2>1, <2>2
<1> QED BY <1>4, <1>5, <1>6, <1>7

LEMMA BuildOthers ==
  ASSUME BuildInv, ListInv', NEW c \in Commands,
         \/ WriteSync(c) \/ Push(c) \/ PullFails(c) \/ MoveFile(c) \/ MarkMigrated(c)
         \/ Kill(c)
  PROVE  BuildInv'
<1>0. ListInv /\ TypeOK /\ TypeOK'
  BY DEF BuildInv, ListInv
<1>1. UNCHANGED <<bindings, log, row, raced>>
  BY DEF WriteSync, Push, PullFails, MoveFile, MarkMigrated, Kill, disk, past
<1>2. Grows /\ Readable' = Readable
  BY <1>0, <1>1, Bounds DEF Grows, TypeOK, Readable
<1>3. ASSUME Done(c), UNCHANGED <<seen, sync, cut>>, todo[c] # <<>>,
             Head(todo[c])[1] \in {"move", "mark", "autopull"}
      PROVE  BuildInv'
  <2>1. Keeps /\ SyncType'
    BY <1>1, <1>2, <1>3 DEF Keeps, BuildInv, SyncType
  <2> QED BY <1>1, <1>2, <1>3, <2>1, BuildTail DEF Starts
<1>4. ASSUME Goto(c, <<>>), UNCHANGED <<seen, sync, cut>>, todo[c] # <<>>,
             Head(todo[c])[1] \in {"move", "pull"}
      PROVE  BuildInv'
  <2>1. Keeps
    BY <1>1, <1>2, <1>4 DEF Keeps
  <2>2. \A id : ~ Building(todo[c], id)
    BY <1>4, HeadBuilt
  <2> QED BY <1>1, <1>4, <2>1, <2>2, BuildEnd
<1>5. CASE WriteSync(c) \/ Push(c)
  <2>1. todo[c] # <<>> /\ Head(todo[c])[1] \in {"sync", "remote", "push"}
    BY <1>5 DEF WriteSync, Push, At
  <2>2. PICK id \in Ids : id = Id(c)
    BY <1>0, <2>1, HeadWaits DEF Waiting, Step, Id
  <2>3. PICK x \in {"plain", "own", "remote", sync[id]} :
          /\ sync' = [sync EXCEPT ![id] = x]
          /\ x = "absent" => Head(todo[c])[1] = "push" /\ sync[id] = "absent"
    BY <1>5, <2>2 DEF WriteSync, Push, At
  <2>4. /\ SyncType' /\ \A k \in Ids : sync[k] # "absent" => sync'[k] # "absent"
        /\ Head(todo[c])[1] = "sync" => sync'[id] # "absent"
    BY <2>3 DEF BuildInv, SyncType
  <2>5. UNCHANGED <<seen, cut>> /\ Done(c)
    BY <1>5 DEF WriteSync, Push, past
  <2>6. Keeps
    BY <1>1, <1>2, <2>4, <2>5 DEF Keeps
  <2>7. \A k \in Fresh :
          /\ Starts(todo[c], "created", k) => Has(k, "created")'
          /\ Starts(todo[c], "workstream", k) => Has(k, "workstream")'
          /\ Starts(todo[c], "rebuild", k) => k \in Readable'
          /\ Starts(todo[c], "sync", k) => sync'[k] # "absent"
    BY <2>1, <2>2, <2>4 DEF Starts, Id
  <2> QED BY <1>1, <1>2, <2>1, <2>4, <2>5, <2>6, <2>7, BuildTail
<1>6. CASE PullFails(c)
  BY <1>3, <1>4, <1>6 DEF PullFails, At, Done, disk, past
<1>7. CASE MoveFile(c)
  BY <1>3, <1>4, <1>7 DEF MoveFile, At, past
<1>8. CASE MarkMigrated(c)
  BY <1>3, <1>8 DEF MarkMigrated, At, past
<1>9. CASE Kill(c)
  <2>1. /\ UNCHANGED sync /\ Goto(c, <<>>) /\ todo[c] # <<>>
        /\ cut' = cut \cup {todo[c][i][2] : i \in 1 .. Len(todo[c])}
        /\ seen' = [seen EXCEPT ![c] = <<>>]
    BY <1>9 DEF Kill, disk, Goto
  <2>2. Keeps
    BY <1>1, <1>2, <2>1 DEF Keeps
  <2>3. \A d \in Commands : seen'[d] = seen[d] \/ seen'[d] = <<>>
    BY <1>0, <2>1 DEF TypeOK
  <2>4. Head(todo[c]) = todo[c][1] /\ 1 \in 1 .. Len(todo[c])
    <3>1. todo[c] \in Seq(Step)
      BY <1>0 DEF TypeOK
    <3> QED BY <2>1, <3>1, HeadTailProperties, LenProperties, EmptySeq
  <2>5. \A id \in Fresh : Building(todo[c], id) => id \in cut'
    BY <2>1, <2>4 DEF Building, Beginning, Streaming, Rowing, Syncing, Starts
  <2> QED BY <1>1, <2>1, <2>2, <2>3, <2>5, BuildEnd
<1> QED BY <1>5, <1>6, <1>7, <1>8, <1>9

-----------------------------------------------------------------------------
(* The bindings *)

LEMMA BuildBinding ==
  ASSUME BuildInv, ListInv', NEW c \in Commands,
         ReadBindings(c) \/ BindFolder(c) \/ UnbindFolder(c)
  PROVE  BuildInv'
<1>0. ListInv /\ TypeOK /\ TypeOK' /\ MaxProjects \in Nat
  BY Bounds DEF BuildInv, ListInv
<1>1. /\ UNCHANGED <<log, row, sync, cut>> /\ raced \subseteq raced' /\ todo[c] # <<>>
      /\ Head(todo[c])[1] \in {"bind", "unbind"}
  BY DEF ReadBindings, BindFolder, UnbindFolder, WriteBindings, disk, past, At
<1>2. Grows /\ Readable' = Readable
  BY <1>0, <1>1, Bounds DEF Grows, TypeOK, Readable
<1>3. Keeps /\ SyncType'
  BY <1>1, <1>2 DEF Keeps, BuildInv, SyncType
<1>4. CASE ReadBindings(c)
  <2>1. UNCHANGED <<bindings, todo>> /\ seen' = [seen EXCEPT ![c] = <<bindings>>]
    BY <1>4 DEF ReadBindings, disk
  <2>2. \A d \in Commands : seen'[d] = seen[d] \/ seen'[d] = <<bindings>>
    BY <1>0, <2>1 DEF TypeOK
  <2>3. /\ ListBuilt(todo[c])'
        /\ \A id \in Fresh : Building(todo[c], id) => Building(todo[c], id)'
    BY <1>0, <1>3, <2>1, BuildingKept DEF BuildInv, ListsBuilt
  <2> QED BY <1>2, <1>3, <2>1, <2>2, <2>3, BuildQuiet
<1>5. CASE BindFolder(c) \/ UnbindFolder(c)
  <2>1. /\ Tail(todo[c]) \in Seq(SoundSteps) /\ Sound(Id(c))
        /\ \A id : ~ Building(todo[c], id)
    BY <1>1, HeadBuilt
  <2>2. /\ seen[c] # <<>> /\ seen' = [seen EXCEPT ![c] = <<>>]
        /\ todo' = [todo EXCEPT ![c] = Tail(todo[c])]
    BY <1>5 DEF BindFolder, UnbindFolder, WriteBindings, Done, Goto, Rest
  <2>3. PICK b \in Bindings : seen[c] = <<b>>
    BY <1>0, <2>2 DEF TypeOK, Seen
  <2>4. Sound(Unbound)
    BY <1>0 DEF Sound, Hollow, Fresh, Ids, Unbound
  <2>5. PICK x : Sound(x) /\ bindings' = [b EXCEPT ![Folder(c)] = x]
    BY <1>5, <2>1, <2>3, <2>4 DEF BindFolder, UnbindFolder, WriteBindings
  <2>6. \A p \in Paths : Sound(b[p])
    BY <2>3 DEF BuildInv, SeenSound
  <2>7. \A p \in Paths : bindings'[p] = b[p] \/ bindings'[p] = x
    BY <2>5 DEF Bindings
  <2>8. Hollow' \subseteq Hollow
    BY <1>0, <1>3, SoundKept
  <2>9. BoundSound'
    BY <2>5, <2>6, <2>7, <2>8 DEF BoundSound, Sound
  <2>10. \A d \in Commands : seen'[d] = seen[d] \/ seen'[d] = <<>>
    BY <1>0, <2>2 DEF TypeOK
  <2>11. SeenSound'
    BY <1>3, <2>10, SoundsKept
  <2>12. ListBuilt(todo[c])'
    BY <1>0, <1>3, <2>1, <2>2, OwnSound
  <2>13. \A d \in Commands \ {c} : todo'[d] = todo[d]
    BY <1>0, <2>2 DEF TypeOK
  <2> QED BY <1>2, <1>3, <2>1, <2>9, <2>11, <2>12, <2>13, BuildStep
<1> QED BY <1>4, <1>5

-----------------------------------------------------------------------------
(* New lists *)

LEMMA BuildRun ==
  ASSUME BuildInv, ListInv', NEW c \in Commands, NEW p \in Paths, NEW t, Run(c, p, t),
         t \in Seq(SoundSteps) \/ Moving(t) \/ \E id \in Fresh : Beginning(t, id)
  PROVE  BuildInv'
<1>1. todo[c] = <<>> /\ Goto(c, t)
  BY DEF Run, Goto
<1>2. UNCHANGED <<bindings, log, row, sync, seen, cut, raced>>
  BY DEF Run, disk, past
<1>3. \A id : ~ Building(todo[c], id)
  BY <1>1, NoneBuilding
<1> QED BY <1>1, <1>2, <1>3, BuildGoto

\* The next project is a new one.
LEMMA FreshNext ==
  ASSUME TypeOK, minted < MaxProjects
  PROVE  minted + 1 \in Fresh /\ minted + 1 \in 0 .. MaxProjects
<1>1. minted \in 2 .. MaxProjects /\ MaxProjects \in Nat
  BY Bounds DEF TypeOK
<1> QED BY <1>1 DEF Fresh, Ids, Old, Shared

LEMMA OldSound ==
  ASSUME TypeOK
  PROVE  Sound(Old) /\ Sound(Shared) /\ Sound(0)
<1>1. MaxProjects \in Nat
  BY Bounds
<1> QED BY <1>1 DEF Sound, Hollow, Fresh, Ids

LEMMA BuildCommands ==
  ASSUME BuildInv, ListInv', NEW c \in Commands, NEW p \in Paths,
         \/ \E force \in BOOLEAN : CliInit(c, p, force)
         \/ SetupBound(c, p) \/ SetupNested(c, p) \/ SetupUnbound(c, p)
         \/ \E id \in Ids : CliRelocate(c, p, id)
         \/ CloneWorkspace(c, p) \/ CloneShared(c, p) \/ CliSync(c, p) \/ SessionStart(c, p)
         \/ CliMigrate(c, p)
  PROVE  BuildInv'
<1>0. TypeOK /\ ListInv /\ MaxProjects \in Nat /\ MaxProjects >= 2
  BY Bounds, ProjectsAssumption DEF BuildInv, ListInv
<1>a. Sound(Old) /\ Sound(Shared) /\ Sound(0)
  BY <1>0, OldSound
<1>b. ASSUME NEW names \in Seq(Names), NEW id \in 0 .. MaxProjects, Sound(id)
      PROVE  Steps(names, id, p) \in Seq(SoundSteps)
  BY <1>b, StepsOf, OfSound
<1>2. ASSUME \/ \E force \in BOOLEAN : CliInit(c, p, force)
             \/ SetupNested(c, p) \/ CloneWorkspace(c, p)
      PROVE  BuildInv'
  <2>1. minted + 1 \in Fresh /\ minted + 1 \in 0 .. MaxProjects /\ minted + 1 \in Ids
    BY <1>0, <1>2, FreshNext DEF CliInit, SetupNested, CloneWorkspace, Mint, Fresh
  <2>2. /\ <<"import">> \in Seq({"import", "remote"})
        /\ <<"remote">> \in Seq({"import", "remote"})
    OBVIOUS
  <2>3. /\ Beginning(Created(minted + 1, p) \o Steps(<<"import">>, minted + 1, p), minted + 1)
        /\ Beginning(Created(minted + 1, p) \o Steps(<<"remote">>, minted + 1, p), minted + 1)
    BY <2>1, <2>2, CreatedBegins
  <2>4. Beginning(Created(minted + 1, p), minted + 1)
    <3>1. /\ <<>> \in Seq({"import", "remote"})
          /\ Created(minted + 1, p) \o Steps(<<>>, minted + 1, p) = Created(minted + 1, p)
      BY <1>0, <2>1, NoMore
    <3>2. Beginning(Created(minted + 1, p) \o Steps(<<>>, minted + 1, p), minted + 1)
      BY <2>1, <3>1, CreatedBegins
    <3> QED BY <3>1, <3>2
  <2>5. CASE \E force \in BOOLEAN : CliInit(c, p, force)
    BY <2>1, <2>4, <2>5, BuildRun DEF CliInit
  <2>6. CASE SetupNested(c, p)
    BY <2>1, <2>3, <2>6, BuildRun DEF SetupNested
  <2>7. CASE CloneWorkspace(c, p)
    BY <2>1, <2>3, <2>7, BuildRun DEF CloneWorkspace
  <2> QED BY <1>2, <2>5, <2>6, <2>7
<1>3. CASE SetupBound(c, p)
  <2>1. bindings[p] \in 0 .. MaxProjects /\ Sound(bindings[p])
    BY <1>0 DEF TypeOK, Bindings, BuildInv, BoundSound
  <2>2. <<"import">> \in Seq(Names)
    BY DEF Names, Free
  <2>3. Steps(<<"import">>, bindings[p], p) \in Seq(SoundSteps)
    BY <1>b, <2>1, <2>2
  <2> QED BY <1>3, <2>3, BuildRun DEF SetupBound
<1>4. CASE SetupUnbound(c, p)
  <2>1. <<"judge", "import">> \in Seq(Names) /\ 0 \in 0 .. MaxProjects
    BY <1>0 DEF Names, Free
  <2>2. Steps(<<"judge", "import">>, 0, p) \in Seq(SoundSteps)
    BY <1>a, <1>b, <2>1
  <2> QED BY <1>4, <2>2, BuildRun DEF SetupUnbound
<1>5. ASSUME NEW id \in Ids, CliRelocate(c, p, id) PROVE BuildInv'
  <2>1. Moving(Steps(<<"relocate">>, id, p))
    <3> DEFINE x == <<"relocate", id, p>>
    <3>1. Steps(<<"relocate">>, id, p) = <<x>> /\ x[1] = "relocate"
      BY DEF Steps
    <3> HIDE DEF x
    <3>2. <<x>> # <<>> /\ Head(<<x>>) = x /\ Tail(<<x>>) = <<>>
      OBVIOUS
    <3>3. Tail(<<x>>) \in Seq(Of(x[2]))
      BY <3>2, EmptySeq
    <3> QED BY <3>1, <3>2, <3>3 DEF Moving
  <2> QED BY <1>5, <2>1, BuildRun DEF CliRelocate
<1>6. CASE CloneShared(c, p)
  <2>1. <<"remote", "bind">> \in Seq(Names) /\ <<"pull">> \in Seq(Names)
    BY DEF Names, Free
  <2>2. Shared \in 0 .. MaxProjects
    BY <1>0 DEF Shared
  <2>3. /\ Steps(<<"remote", "bind">>, Shared, p) \in Seq(SoundSteps)
        /\ Steps(<<"pull">>, Shared, p) \in Seq(SoundSteps)
    BY <1>a, <1>b, <2>1, <2>2
  <2> DEFINE u == IF Resolved(p) = Unbound THEN Steps(<<"remote", "bind">>, Shared, p)
                                           ELSE <<>>
  <2>4. u \in Seq(SoundSteps)
    BY <2>3, EmptySeq
  <2>5. u \o Steps(<<"pull">>, Shared, p) \in Seq(SoundSteps)
    BY <2>3, <2>4, ConcatProperties
  <2> QED BY <1>6, <2>5, BuildRun DEF CloneShared
<1>7. ASSUME CliSync(c, p) \/ SessionStart(c, p) PROVE BuildInv'
  <2>1. Resolved(p) \in Ids
    BY <1>0, <1>7, ResolvedBorn DEF CliSync, SessionStart
  <2>2. Resolved(p) \in 0 .. MaxProjects
    BY <1>0, <2>1 DEF Ids
  <2>3. Sound(Resolved(p))
    <3>1. Parent[p] \in Paths
      BY ProjectsAssumption
    <3> QED BY <3>1 DEF Resolved, BuildInv, BoundSound
  <2>4. <<"observe", "push", "pull">> \in Seq(Names) /\ <<"autopull", "heal", "observe">> \in Seq(Names)
    BY DEF Names, Free
  <2>5. /\ Steps(<<"observe", "push", "pull">>, Resolved(p), p) \in Seq(SoundSteps)
        /\ Steps(<<"autopull", "heal", "observe">>, Resolved(p), p) \in Seq(SoundSteps)
    BY <1>b, <2>2, <2>3, <2>4
  <2> QED BY <1>7, <2>5, BuildRun DEF CliSync, SessionStart
<1>8. CASE CliMigrate(c, p)
  <2>1. <<"read">> \in Seq(Names) /\ Old \in 0 .. MaxProjects
    BY <1>0 DEF Names, Free, Old
  <2>2. Steps(<<"read">>, Old, p) \in Seq(SoundSteps)
    BY <1>a, <1>b, <2>1
  <2> QED BY <1>8, <2>2, BuildRun DEF CliMigrate
<1> QED BY <1>2, <1>3, <1>4, <1>5, <1>6, <1>7, <1>8

LEMMA OneMore ==
  ASSUME NEW S, NEW x \in S, NEW s \in Seq(S)
  PROVE  <<x>> \o s # <<>> /\ Head(<<x>> \o s) = x /\ Tail(<<x>> \o s) = s
<1>1. Head(<<x>> \o s) = x /\ Tail(<<x>> \o s) = s
  OBVIOUS
<1>2. Len(<<x>> \o s) = 1 + Len(s) /\ Len(s) \in Nat
  BY LenProperties
<1>3. <<x>> \o s # <<>>
  BY <1>2
<1> QED BY <1>1, <1>3

\* Setup relocates a project, or creates one.
LEMMA BuildJudge ==
  ASSUME BuildInv, ListInv', NEW c \in Commands, Judge(c)
  PROVE  BuildInv'
<1>0. TypeOK /\ ListInv /\ MaxProjects \in Nat
  BY Bounds DEF BuildInv, ListInv
<1>1. todo[c] # <<>> /\ Head(todo[c])[1] = "judge"
  BY DEF Judge, At
<1>2. \A id : ~ Building(todo[c], id)
  BY <1>1, NoneBuilding
<1>3. UNCHANGED <<bindings, log, row, sync, seen, cut, raced>>
  BY DEF Judge, disk
<1>4. Judging(todo[c])
  BY <1>0, <1>1, HeadSpecial
<1>5. PICK p \in Paths : todo[c] = <<<<"judge", 0, p>>, <<"import", 0, p>>>>
  BY <1>4 DEF Judging
<1>6. Folder(c) = p /\ Rest(c) = <<<<"import", 0, p>>>>
  BY <1>5 DEF Folder, Rest
<1>7. \A id : Named(Rest(c), id) = <<<<"import", id, p>>>>
  BY <1>6 DEF Named
<1>8. \/ \E id \in Readable : Goto(c, <<<<"relocate", id, p>>>> \o Named(Rest(c), id))
      \/ /\ minted < MaxProjects
         /\ Goto(c, Created(minted + 1, p) \o Named(Rest(c), minted + 1))
  BY <1>6, JudgeGoes DEF Mint
<1>9. ASSUME NEW id \in Readable, Goto(c, <<<<"relocate", id, p>>>> \o Named(Rest(c), id))
      PROVE  BuildInv'
  <2> DEFINE x == <<"relocate", id, p>>
             y == <<"import", id, p>>
  <2>1. Goto(c, <<x>> \o <<y>>)
    BY <1>7, <1>9
  <2>2. id \in 0 .. MaxProjects
    BY <1>0 DEF Readable, Ids
  <2>3. y \in Of(id) /\ x \in Step /\ x[1] = "relocate" /\ x[2] = id
    BY <2>2 DEF Of, Step, Names, Free
  <2> HIDE DEF x, y
  <2>4. <<x>> \in Seq(Step) /\ <<y>> \in Seq(Of(id)) /\ <<y>> \in Seq(Step)
    BY <2>3 DEF Of
  <2>5. /\ <<x>> \o <<y>> # <<>> /\ Head(<<x>> \o <<y>>) = x
        /\ Tail(<<x>> \o <<y>>) = <<y>>
    BY <2>3, <2>4, OneMore
  <2>6. Moving(<<x>> \o <<y>>)
    BY <2>3, <2>4, <2>5 DEF Moving
  <2> QED BY <1>2, <1>3, <2>1, <2>6, BuildGoto
<1>10. CASE /\ minted < MaxProjects
            /\ Goto(c, Created(minted + 1, p) \o Named(Rest(c), minted + 1))
  <2>1. minted + 1 \in Fresh /\ minted + 1 \in 0 .. MaxProjects
    BY <1>0, <1>10, FreshNext
  <2>2. Steps(<<"import">>, minted + 1, p) = <<<<"import", minted + 1, p>>>>
    BY DEF Steps
  <2>3. <<"import">> \in Seq({"import", "remote"})
    OBVIOUS
  <2> DEFINE t == Created(minted + 1, p) \o Steps(<<"import">>, minted + 1, p)
  <2>4. Beginning(t, minted + 1)
    BY <2>1, <2>3, CreatedBegins
  <2>5. Goto(c, t)
    BY <1>7, <1>10, <2>2
  <2> HIDE DEF t
  <2> QED BY <1>2, <1>3, <2>1, <2>4, <2>5, BuildGoto
<1> QED BY <1>8, <1>9, <1>10

LEMMA RelocatedOf ==
  ASSUME TypeOK, NEW id \in Ids, NEW p \in Paths
  PROVE  Relocated(id, p) \in Seq(Of(id))
<1> DEFINE others == {q \in Paths : bindings[q] = id /\ q # p}
           x == <<"bind", id, p>>
           u == [i \in 1 .. Cardinality(others) |-> <<"unbind", id, SetToSeq(others)[i]>>]
           v == IF RootOf(id) = p THEN <<>> ELSE Steps(<<"updated", "rebuild">>, id, p)
<1>0. id \in 0 .. MaxProjects
  BY Bounds DEF Ids
<1>1. IsFiniteSet(others)
  BY FS_Subset, ProjectsAssumption
<1>2. SetToSeq(others) \in [1 .. Cardinality(others) -> others] /\ Cardinality(others) \in Nat
  BY <1>1, SetSeq
<1>3. \A q \in Paths : <<"unbind", id, q>> \in Of(id)
  BY <1>0 DEF Of, Step, Names, Free
<1>4. u \in [1 .. Cardinality(others) -> Of(id)]
  BY <1>2, <1>3
<1>5. u \in Seq(Of(id))
  BY <1>2, <1>4, FunctionSeq
<1>6. x \in Of(id)
  BY <1>0 DEF Of, Step, Names, Free
<1>7. v \in Seq(Of(id))
  <2>1. <<"updated", "rebuild">> \in Seq(Names)
    BY DEF Names, Free
  <2> QED BY <1>0, <2>1, StepsOf, EmptySeq
<1>8. Relocated(id, p) = <<x>> \o u \o v
  BY DEF Relocated
<1> HIDE DEF x, u, v
<1>9. <<x>> \o u \in Seq(Of(id))
  BY <1>5, <1>6, OneSeq, ConcatProperties
<1> QED BY <1>7, <1>8, <1>9, ConcatProperties

\* A project that has a row is complete, or the command that creates it is
\* still at work, and the relocation races with it.
LEMMA BuildRelocating ==
  ASSUME BuildInv, ListInv', NEW c \in Commands, Relocating(c)
  PROVE  BuildInv'
<1>0. TypeOK /\ ListInv /\ TypeOK'
  BY DEF BuildInv, ListInv
<1>1. todo[c] # <<>> /\ Head(todo[c])[1] = "relocate"
  BY DEF Relocating, At
<1>2. \A id : ~ Building(todo[c], id)
  BY <1>1, NoneBuilding
<1>3. UNCHANGED <<bindings, log, row, sync, seen, cut>> /\ raced \subseteq raced'
  BY DEF Relocating, disk
<1>4. CASE Goto(c, <<>>)
  BY <1>2, <1>3, <1>4, EmptySeq, BuildGoto
<1>5. CASE Id(c) \in Readable /\ Goto(c, Relocated(Id(c), Folder(c)) \o Rest(c))
  <2>1. PICK id \in Ids : id = Id(c)
    BY <1>5 DEF Readable
  <2>2. PICK p \in Paths : p = Folder(c)
    BY <1>0, <1>1, HeadStep
  <2> DEFINE t == Relocated(id, p) \o Rest(c)
  <2>3. todo' = [todo EXCEPT ![c] = t]
    BY <1>5, <2>1, <2>2 DEF Goto
  <2>4. Relocated(id, p) \in Seq(Of(id))
    BY <1>0, RelocatedOf
  <2>5. Grows /\ Readable' = Readable
    BY <1>0, <1>3, Bounds DEF Grows, TypeOK, Readable
  <2>6. Keeps /\ SyncType'
    BY <1>3, <2>5 DEF Keeps, BuildInv, SyncType
  <2>7. id \notin Hollow'
    <3> SUFFICES ASSUME id \in Hollow' PROVE FALSE
      OBVIOUS
    <3>1. id \in Hollow /\ id \notin raced'
      BY <1>0, <2>6, SoundKept DEF Hollow
    <3>2. Started(id) /\ ~ Complete(id)
      BY <1>5, <2>1, <3>1 DEF Hollow, BuildInv, RowsStarted
    <3>3. PICK d \in Commands : Building(todo[d], id)
      BY <1>5, <2>1, <3>2 DEF Started, Complete
    <3>4. d # c
      BY <1>2, <3>3
    <3>5. todo[d] # <<>> /\ Head(todo[d])[2] = id
      BY <3>3 DEF Building, Beginning, Streaming, Rowing, Syncing, Starts
    <3>6. Head(todo[d]) = todo[d][1] /\ 1 \in 1 .. Len(todo[d])
      <4>1. todo[d] \in Seq(Step)
        BY <1>0 DEF TypeOK
      <4> QED BY <3>5, <4>1, HeadTailProperties, LenProperties, EmptySeq
    <3>7. \E i \in 1 .. Len(todo[d]) : todo[d][i][2] = id
      BY <3>5, <3>6
    <3>8. id \in raced'
      BY <2>1, <3>4, <3>7 DEF Relocating
    <3> QED BY <3>1, <3>8
  <2>8. Of(id) \subseteq SoundSteps'
    BY <2>7 DEF Of, SoundSteps, Sound, Step
  <2>9. Rest(c) \in Seq(SoundSteps')
    <3>1. \A k \in Fresh : ~ Building(todo[c], k)
      BY <1>2
    <3>2. CASE todo[c] \in Seq(SoundSteps)
      <4>1. Tail(todo[c]) \in Seq(SoundSteps)
        BY <1>1, <3>2, RestSeq
      <4> QED BY <1>0, <2>6, <4>1, SoundKept, SeqMonotonic DEF Rest
    <3>3. CASE Moving(todo[c])
      <4>1. Rest(c) \in Seq(Of(id))
        BY <2>1, <3>3 DEF Moving, Rest, Id
      <4> QED BY <2>8, <4>1, SeqMonotonic
    <3> QED BY <3>1, <3>2, <3>3 DEF BuildInv, ListsBuilt, ListBuilt
  <2>10. Relocated(id, p) \in Seq(SoundSteps')
    BY <2>4, <2>8, SeqMonotonic
  <2>11. t \in Seq(SoundSteps')
    BY <2>9, <2>10, ConcatProperties
  <2> HIDE DEF t
  <2>12. todo'[c] = t
    BY <1>0, <2>3 DEF TypeOK
  <2>13. ListBuilt(todo[c])'
    BY <2>11, <2>12 DEF ListBuilt
  <2>14. \A d \in Commands \ {c} : todo'[d] = todo[d]
    BY <1>0, <2>3 DEF TypeOK
  <2> QED BY <1>2, <1>3, <2>5, <2>6, <2>13, <2>14, BuildQuiet
<1> QED BY <1>4, <1>5 DEF Relocating

LEMMA BuildDecisions ==
  ASSUME BuildInv, ListInv', NEW c \in Commands,
         Heal(c) \/ ReadLegacy(c) \/ VerifyLegacy(c)
  PROVE  BuildInv'
<1>0. TypeOK /\ ListInv /\ MaxProjects \in Nat /\ MaxProjects >= 2 /\ Old \in 0 .. MaxProjects
  <2>1. TypeOK /\ ListInv /\ MaxProjects \in Nat /\ MaxProjects >= 2
    BY Bounds, ProjectsAssumption DEF BuildInv, ListInv
  <2> QED BY <2>1 DEF Old
<1>1. UNCHANGED <<bindings, log, row, sync, seen, cut, raced>>
  BY DEF Heal, ReadLegacy, VerifyLegacy, disk, past
<1>2. todo[c] # <<>> /\ Head(todo[c])[1] \in {"heal", "read", "verify"}
  BY DEF Heal, ReadLegacy, VerifyLegacy, At
<1>3. PICK p \in Paths : p = Folder(c)
  BY <1>0, <1>2, HeadStep
<1>4. /\ Rest(c) \in Seq(SoundSteps) /\ Sound(Id(c))
      /\ \A id : ~ Building(todo[c], id)
  BY <1>2, HeadBuilt DEF Rest
<1>5. ASSUME NEW t \in Seq(SoundSteps), Goto(c, t) PROVE BuildInv'
  BY <1>1, <1>4, <1>5, BuildGoto
<1>a. Sound(1) /\ Sound(2) /\ Sound(Old)
  BY <1>0, OldSound DEF Old, Shared
<1>6. CASE Heal(c)
  <2>2. PICK id \in Ids : id = Id(c)
    BY <1>0, <1>2, <1>6, HeadWaits DEF Heal, At, Waiting, Step, Id
  <2>3. PICK root \in Paths : Goto(c, Healing(Id(c), root) \o Rest(c))
    <3>1. Afar \in Paths
      BY ProjectsAssumption
    <3> DEFINE folders == {q \in Paths : bindings[q] = Id(c)}
               root == CHOOSE q \in Paths : q \in folders \/ (folders = {} /\ q = Afar)
    <3>2. \E q \in Paths : q \in folders \/ (folders = {} /\ q = Afar)
      BY <3>1
    <3>3. root \in Paths
      BY <3>2
    <3> QED BY <1>6, <3>3 DEF Heal
  <2>4. <<"rebuild">> \in Seq(Names) /\ <<"backfilled", "workstream", "rebuild">> \in Seq(Names)
    BY DEF Names, Free
  <2>5. id \in 0 .. MaxProjects
    BY <1>0 DEF Ids
  <2>6. /\ Steps(<<"rebuild">>, id, root) \in Seq(Of(id)) /\ <<>> \in Seq(Of(id))
        /\ Steps(<<"backfilled", "workstream", "rebuild">>, id, root) \in Seq(Of(id))
    BY <2>4, <2>5, StepsOf, EmptySeq
  <2>7. Healing(id, root) \in Seq(Of(id))
    BY <2>6 DEF Healing
  <2>8. Healing(id, root) \in Seq(SoundSteps)
    BY <1>4, <2>2, <2>7, OfSound
  <2>9. Healing(id, root) \o Rest(c) \in Seq(SoundSteps)
    BY <1>4, <2>8, ConcatProperties
  <2> QED BY <1>5, <2>2, <2>3, <2>9
<1>7. CASE ReadLegacy(c)
  <2>1. <<"mark">> \in Seq(Names) /\ <<"insert", "verify", "mark", "rebuild">> \in Seq(Names)
    BY DEF Names, Free
  <2>2. /\ Steps(<<"mark">>, Old, p) \in Seq(SoundSteps)
        /\ Steps(<<"insert", "verify", "mark", "rebuild">>, Old, p) \in Seq(SoundSteps)
    BY <1>0, <1>a, <2>1, StepsOf, OfSound
  <2> QED BY <1>3, <1>5, <1>7, <2>2 DEF ReadLegacy, Importing
<1>8. CASE VerifyLegacy(c)
  <2> DEFINE moves == [i \in 1 .. Cardinality(ndjson) |->
                         <<"move", SetToSeq(ndjson)[i], Folder(c)>>]
  <2>1. Goto(c, <<>>) \/ (log[Old] = lines[c] /\ Goto(c, moves \o Rest(c)))
    BY <1>8 DEF VerifyLegacy
  <2>2. moves \in Seq(SoundSteps)
    <3>1. ndjson \subseteq 1 .. 2
      BY <1>0 DEF TypeOK, Legacy
    <3>2. IsFiniteSet(ndjson)
      <4>1. PICK n \in Nat : n = 2
        OBVIOUS
      <4>2. IsFiniteSet(1 .. n)
        BY FS_Interval
      <4> QED BY <3>1, <4>1, <4>2, FS_Subset
    <3>3. SetToSeq(ndjson) \in [1 .. Cardinality(ndjson) -> ndjson] /\ Cardinality(ndjson) \in Nat
      BY <3>2, SetSeq
    <3>4. ASSUME NEW f \in ndjson PROVE <<"move", f, Folder(c)>> \in SoundSteps
      <4>1. f = 1 \/ f = 2
        BY <3>1
      <4>2. Sound(f)
        BY <1>a, <4>1
      <4>3. <<"move", f, Folder(c)>> \in Step
        BY <1>0, <1>3, <3>1 DEF Step, Names
      <4> QED BY <4>2, <4>3 DEF SoundSteps
    <3>5. moves \in [1 .. Cardinality(ndjson) -> SoundSteps]
      BY <3>3, <3>4
    <3> QED BY <3>3, <3>5, FunctionSeq
  <2> HIDE DEF moves
  <2>4. moves \o Rest(c) \in Seq(SoundSteps)
    BY <1>4, <2>2, ConcatProperties
  <2> QED BY <1>5, <2>1, <2>4, EmptySeq
<1> QED BY <1>6, <1>7, <1>8

-----------------------------------------------------------------------------
LEMMA BuildStill ==
  ASSUME BuildInv, ListInv',
         UNCHANGED <<bindings, log, row, sync, todo, seen, cut, raced>>
  PROVE  BuildInv'
<1>0. TypeOK /\ ListInv
  BY DEF BuildInv, ListInv
<1>1. Grows /\ Readable' = Readable
  BY <1>0, Bounds DEF Grows, TypeOK, Readable
<1>2. Keeps /\ SyncType'
  BY <1>1 DEF Keeps, BuildInv, SyncType
<1>3. /\ ListsBuilt'
      /\ \A d \in Commands : \A id \in Fresh : Building(todo[d], id) => Building(todo[d], id)'
  BY <1>0, <1>2, BuildingKept DEF BuildInv, ListsBuilt
<1>4. BoundSound' /\ SeenSound'
  BY <1>2, SoundsKept
<1>5. RowsStarted'
  <2>1. \A id \in Fresh : Started(id) => Started(id)'
    BY <1>3 DEF Started, Has
  <2> QED BY <1>1, <2>1 DEF BuildInv, RowsStarted
<1> QED BY <1>2, <1>3, <1>4, <1>5 DEF BuildInv

LEMMA BuildInvNext == BuildInv /\ [Next]_vars => BuildInv'
<1> SUFFICES ASSUME BuildInv, [Next]_vars PROVE BuildInv'
  OBVIOUS
<1>0. ListInv'
  BY ListInvNext DEF BuildInv
<1>1. ASSUME \/ \E r \in Repos, p \in Paths : MoveRepo(r, p)
             \/ \E id \in Ids, e \in {MadeUp, Moved} : PeerPushes(id, e)
      PROVE  BuildInv'
  BY <1>0, <1>1, BuildStill DEF MoveRepo, PeerPushes, disk, work, past
<1>2. ASSUME NEW c \in Commands, NEW p \in Paths, CliCleanup(c, p) PROVE BuildInv'
  BY <1>0, <1>2, BuildStill DEF CliCleanup, work, past
<1>3. ASSUME NEW c \in Commands, ReadBindings(c) \/ BindFolder(c) \/ UnbindFolder(c)
      PROVE  BuildInv'
  BY <1>0, <1>3, BuildBinding
<1>4. ASSUME NEW c \in Commands,
             \/ Judge(c) \/ Relocating(c) \/ Heal(c) \/ ReadLegacy(c) \/ VerifyLegacy(c)
      PROVE  BuildInv'
  BY <1>0, <1>4, BuildJudge, BuildRelocating, BuildDecisions
<1>5. ASSUME NEW c \in Commands,
             \/ LogCreated(c) \/ LogWorkstream(c) \/ LogUpdated(c)
             \/ LogBackfilled(c) \/ Observe(c) \/ Import(c) \/ Rebuild(c)
             \/ WriteSync(c) \/ Push(c) \/ Pull(c) \/ PullFails(c) \/ InsertLegacy(c)
             \/ MoveFile(c) \/ MarkMigrated(c) \/ Kill(c)
      PROVE BuildInv'
  BY <1>0, <1>5, BuildLogs, BuildPull, BuildRows, BuildOthers
<1>6. CASE UNCHANGED vars
  BY <1>0, <1>6, BuildStill DEF vars, disk, work, past
<1>7. ASSUME NEW c \in Commands, NEW p \in Paths,
             \/ \E force \in BOOLEAN : CliInit(c, p, force)
             \/ SetupBound(c, p) \/ SetupNested(c, p) \/ SetupUnbound(c, p)
             \/ \E id \in Ids : CliRelocate(c, p, id)
             \/ CloneWorkspace(c, p) \/ CloneShared(c, p) \/ CliSync(c, p) \/ SessionStart(c, p)
             \/ CliMigrate(c, p)
      PROVE  BuildInv'
  BY <1>0, <1>7, BuildCommands
<1> QED BY <1>1, <1>2, <1>3, <1>4, <1>5, <1>6, <1>7 DEF Next

\* What is bound, or about to be, is complete: the invariant of the property
\* below.
THEOREM BuildsHold == Spec => []BuildInv
<1>1. Init => BuildInv
  <2> SUFFICES ASSUME Init PROVE BuildInv
    OBVIOUS
  <2>1. ListInv /\ TypeOK
    BY ListInvInit DEF ListInv
  <2>2. \A c \in Commands : todo[c] = <<>> /\ seen[c] = <<>>
    BY DEF Init
  <2>3. SyncType
    BY DEF Init, SyncType
  <2>4. ListsBuilt /\ SeenSound
    BY <2>2, EmptySeq DEF ListsBuilt, ListBuilt, SeenSound
  <2>5. RowsStarted
    BY DEF Init, RowsStarted, Readable, Fresh
  <2>6. BoundSound
    <3>1. Sound(Old) /\ Sound(Unbound)
      BY <2>1, OldSound DEF Unbound
    <3> QED BY <3>1 DEF BoundSound, Init
  <2> QED BY <2>1, <2>3, <2>4, <2>5, <2>6 DEF BuildInv
<1> QED BY <1>1, BuildInvNext, PTL DEF Spec

\* No folder is ever bound to a project that was minted here and is not
\* complete, wherever its creation was killed, unless a relocation raced.
THEOREM BoundCompleteHolds == Spec => []BoundComplete
<1>1. BuildInv => BoundComplete
  <2> SUFFICES ASSUME BuildInv PROVE BoundComplete
    OBVIOUS
  <2>1. bindings \in [Paths -> 0 .. MaxProjects] /\ MaxProjects \in Nat
    BY Bounds DEF BuildInv, ListInv, TypeOK, Bindings
  <2>2. ASSUME NEW p \in Paths, bindings[p] \notin {Unbound, Old, Shared} \cup raced
        PROVE  Complete(bindings[p])
    <3>1. bindings[p] \in Fresh \ raced
      BY <2>1, <2>2 DEF Fresh, Ids, Unbound
    <3>2. bindings[p] \notin Hollow
      BY DEF BuildInv, BoundSound, Sound
    <3> QED BY <3>1, <3>2 DEF Hollow
  <2> QED BY <2>2 DEF BoundComplete, Complete
<1> QED BY <1>1, BuildsHold, PTL
==============================================================================
