--------------------------- MODULE Workspace_proofs ---------------------------
(***************************************************************************)
(* What the sync state says of the Hub is true of the Hub, for any number  *)
(* of commands, workspaces and events: its watermarks (Published), the     *)
(* role it caches (OwnerRetracts) and the registration (Attributed).       *)
(*                                                                         *)
(* None of the three is inductive: a command writes back a whole copy of   *)
(* the state, read before a call.  The invariant says of every copy what   *)
(* it says of the file, and of the list of steps a command has left that   *)
(* a copy is used where it was read.                                       *)
(***************************************************************************)
EXTENDS Workspace, SequenceTheorems, TLAPS

-----------------------------------------------------------------------------
(* The inductive invariant *)

\* What a copy s of the sync state says is true of a Hub h, of remotes that
\* have received r, and of the workspaces whose owner this account was.
Registers(s, h) ==
  s.registered \in Workspaces => h[s.registered].source = "us"

RoleGiven(s, known) == s.role = "owner" => s.remote \in known

Fresh(s) == s.pushed = 0 /\ s.pulled = Nowhere

Marks(s, r) ==
  /\ s.remote = None => Fresh(s)
  /\ ~ s.astray /\ Place(s) \in Places =>
       s.pushed <= r[Place(s)] /\ s.pulled \in {Nowhere, Place(s)}

Backed(s, h, r, known) ==
  s \in SyncState /\ Registers(s, h) /\ RoleGiven(s, known) /\ Marks(s, r)

Known == owned \cup lent

Copies ==
  /\ \A l \in Locals : Backed(file[l], hub, received, Known)
  /\ \A c \in Commands : Backed(held[c], hub, received, Known)

Transfers == {"push!", "pull!", "pushDiary!", "pullDiary!"}
OfDiary == {"pushDiary", "pushDiary!", "pullDiary", "pullDiary!"}
Resolves == {"resolve", "resolve!"}

Steps ==
  Transfers \cup OfDiary \cup Resolves \cup Calls \cup
    {"reconcile", "register", "refresh", "create", "join", "invite", "gate",
     "gate!", "idle?", "push", "pull", "login!", "store", "fill", "logout"}

\* The calls of a transfer come first in a list, right after the step that
\* reads the file.
Led(t) == \A i \in 1 .. Len(t) : t[i] \in Transfers => i = 1

\* The personal store is pushed and pulled after it was resolved.
Ordered(t, resolved) ==
  \A i \in 1 .. Len(t) : t[i] \in OfDiary =>
    resolved \/ \E j \in 1 .. i - 1 : t[j] \in Resolves

\* A list t of steps, with the state s its command has read: a transfer goes
\* to a place, and not before the project has a remote.
ListOk(t, s, remote, resolved) ==
  /\ t \in Seq(Steps) /\ Led(t) /\ Ordered(t, resolved)
  /\ t # <<>> /\ Head(t) \in Transfers => Place(s) \in Places
  /\ t # <<>> /\ Head(t) \in {"push!", "pull!"} => remote # None

DiaryBound == Place(file[Diary]) = <<"hub", Psm>>

Lists == \A c \in Commands : ListOk(todo[c], held[c], file[Proj].remote, DiaryBound)

DiaryState ==
  /\ file[Diary].role = None
  /\ file[Diary].remote = None \/ DiaryBound

Types ==
  /\ TypeOK
  /\ DOMAIN todo = Commands
  /\ owned \subseteq Workspaces /\ lent \subseteq Workspaces
  /\ hub[Shared].role # "unborn"

WorkspaceInv == Types /\ Lists /\ DiaryState /\ Copies /\ OwnerRetracts

-----------------------------------------------------------------------------
(* Copies of the sync state *)

LEMMA Symbols ==
  /\ Own # None /\ Psm # None /\ Psm # Own
  /\ None \notin Workspaces /\ Own \notin Workspaces /\ Psm \notin Workspaces
  /\ Shared \in Workspaces /\ Minted \subseteq Workspaces
  /\ Workspaces \subseteq Remotes
  /\ Nowhere \notin Places
  /\ 0 \in 0 .. MaxEvents /\ MaxEvents \in Nat
BY WorkspaceAssumption DEF Workspaces, Remotes, Places, Nowhere, Own, None, Wires

LEMMA UnsyncedBacked ==
  ASSUME NEW h, NEW r, NEW known PROVE Backed(Unsynced, h, r, known)
<1>1. Unsynced \in SyncState
  BY Symbols DEF Unsynced, SyncState, Remotes, Wires
<1> QED
  BY <1>1, Symbols DEF Unsynced, Backed, Registers, RoleGiven, Marks, Fresh, None,
     Place, Places

\* What was true of a copy stays true: the Hub takes no registration back,
\* a remote loses no event, and the history only grows.
LEMMA StaysBacked ==
  ASSUME NEW h, NEW g, NEW r, NEW q, NEW known, NEW more, NEW s,
         Backed(s, h, r, known),
         \A w \in Workspaces : h[w].source = "us" => g[w].source = "us",
         \A p \in Places : r[p] \in Nat /\ q[p] \in Nat /\ r[p] <= q[p],
         known \subseteq more
  PROVE  Backed(s, g, q, more)
<1>1. s.pushed \in Nat
  BY Symbols DEF Backed, SyncState
<1> QED BY <1>1 DEF Backed, Registers, RoleGiven, Marks

LEMMA PlaceIn ==
  ASSUME NEW s \in SyncState
  PROVE  Place(s) \in Places <=> s.remote # None /\ s.wire # None
BY DEF Place, Places, SyncState

\* Another remote or another transport: the watermarks are astray from here.
LEMMA TurnedBacked ==
  ASSUME NEW h, NEW r, NEW known, NEW s, Backed(s, h, r, known),
         NEW remote \in Remotes, NEW wire \in Wires,
         s.role = "owner" => remote \in known,
         remote = None => s.remote = None,
         \A p \in Places : r[p] \in Nat
  PROVE  /\ Backed(Turned(s, remote, wire), h, r, known)
         /\ Turned(s, remote, wire).remote = remote
         /\ Turned(s, remote, wire).wire = wire
         /\ Turned(s, remote, wire).role = s.role
<1> DEFINE t == Turned(s, remote, wire)
<1>1. s \in SyncState
  BY DEF Backed
<1>2. /\ t.remote = remote /\ t.wire = wire /\ t.role = s.role
      /\ t.registered = s.registered /\ t.pushed = s.pushed /\ t.pulled = s.pulled
      /\ t.astray = (s.astray \/ (/\ <<wire, remote>> # Place(s)
                                  /\ s.pushed > 0 \/ s.pulled # Nowhere))
  BY <1>1 DEF Turned, SyncState
<1>3. t \in SyncState
  BY <1>1 DEF Turned, SyncState
<1>4. Registers(t, h) /\ RoleGiven(t, known)
  BY <1>2 DEF Backed, Registers, RoleGiven
<1>5. Place(t) = <<wire, remote>>
  BY <1>2 DEF Place
<1>6. Marks(t, r)
  <2>1. ASSUME ~ t.astray, Place(t) \in Places, <<wire, remote>> # Place(s)
        PROVE  t.pushed <= r[Place(t)] /\ t.pulled = Nowhere
    <3>1. ~ (s.pushed > 0) /\ s.pulled = Nowhere
      BY <1>2, <2>1
    <3>2. s.pushed \in Nat
      BY <1>1, Symbols DEF SyncState
    <3> QED BY <1>2, <2>1, <3>1, <3>2
  <2>2. ASSUME ~ t.astray, Place(t) \in Places, <<wire, remote>> = Place(s)
        PROVE  t.pushed <= r[Place(t)] /\ t.pulled \in {Nowhere, Place(t)}
    BY <1>2, <1>5, <2>2 DEF Backed, Marks
  <2>3. t.remote = None => Fresh(t)
    BY <1>2 DEF Backed, Marks, Fresh
  <2> HIDE DEF t
  <2> QED BY <1>5, <2>1, <2>2, <2>3 DEF Marks
<1> QED BY <1>2, <1>3, <1>4, <1>6 DEF Backed

\* The fields a command fills in from the Hub
LEMMA RoleBacked ==
  ASSUME NEW h, NEW r, NEW known, NEW s, Backed(s, h, r, known),
         NEW role \in Roles \cup {None}, NEW reach \in BOOLEAN,
         role = "owner" => s.remote \in known
  PROVE  Backed([s EXCEPT !.role = role, !.reach = reach], h, r, known)
<1> DEFINE t == [s EXCEPT !.role = role, !.reach = reach]
<1>1. t \in SyncState
  BY DEF Backed, SyncState
<1>2. /\ t.role = role /\ t.remote = s.remote /\ t.wire = s.wire
      /\ t.registered = s.registered /\ t.pushed = s.pushed /\ t.pulled = s.pulled
      /\ t.astray = s.astray
  BY DEF Backed, SyncState
<1> HIDE DEF t
<1>3. Backed(t, h, r, known)
  BY <1>1, <1>2 DEF Backed, Registers, RoleGiven, Marks, Place, Fresh
<1> QED BY <1>3 DEF t

LEMMA ReachBacked ==
  ASSUME NEW h, NEW r, NEW known, NEW s, Backed(s, h, r, known)
  PROVE  Backed([s EXCEPT !.reach = TRUE], h, r, known)
<1> DEFINE t == [s EXCEPT !.reach = TRUE]
<1>1. t \in SyncState
  BY DEF Backed, SyncState
<1>2. /\ t.role = s.role /\ t.remote = s.remote /\ t.wire = s.wire
      /\ t.registered = s.registered /\ t.pushed = s.pushed /\ t.pulled = s.pulled
      /\ t.astray = s.astray
  BY DEF Backed, SyncState
<1> HIDE DEF t
<1>3. Backed(t, h, r, known)
  BY <1>1, <1>2 DEF Backed, Registers, RoleGiven, Marks, Place, Fresh
<1> QED BY <1>3 DEF t

LEMMA RegisteredBacked ==
  ASSUME NEW h, NEW r, NEW known, NEW s, Backed(s, h, r, known),
         s.remote \in Workspaces, h[s.remote].source = "us"
  PROVE  Backed([s EXCEPT !.registered = s.remote], h, r, known)
<1> DEFINE t == [s EXCEPT !.registered = s.remote]
<1>1. t \in SyncState
  BY DEF Backed, SyncState
<1>2. /\ t.role = s.role /\ t.remote = s.remote /\ t.wire = s.wire
      /\ t.registered = s.remote /\ t.pushed = s.pushed /\ t.pulled = s.pulled
      /\ t.astray = s.astray
  BY DEF Backed, SyncState
<1> HIDE DEF t
<1>3. Backed(t, h, r, known)
  BY <1>1, <1>2 DEF Backed, Registers, RoleGiven, Marks, Place, Fresh
<1> QED BY <1>3 DEF t

\* A workspace minted for the project starts with no watermark.
LEMMA MigratedBacked ==
  ASSUME NEW h, NEW r, NEW known, NEW s, Backed(s, h, r, known),
         NEW w \in Workspaces, w \in known, \A p \in Places : r[p] \in Nat
  PROVE  Backed(Migrated(s, w), h, r, known) /\ Migrated(s, w).remote = w
<1> DEFINE t == Migrated(s, w)
<1>1. t \in SyncState
  BY Symbols DEF Backed, SyncState, Migrated, Roles
<1>2. /\ t.role = "owner" /\ t.remote = w /\ t.registered = s.registered
      /\ t.pushed = 0 /\ t.pulled = Nowhere
  BY DEF Backed, SyncState, Migrated
<1> HIDE DEF t
<1>3. Backed(t, h, r, known)
  BY <1>1, <1>2 DEF Backed, Registers, RoleGiven, Marks, Fresh
<1> QED BY <1>2, <1>3 DEF t

\* The first push binds a project to its own id: it has no watermark yet.
LEMMA OwnBacked ==
  ASSUME NEW h, NEW r, NEW known, NEW s, Backed(s, h, r, known), NEW b \in BOOLEAN,
         s.remote = None, None \notin known, \A p \in Places : r[p] \in Nat
  PROVE  LET t == [s EXCEPT !.remote = Own]
         IN  Backed(t, h, r, known) /\ t.remote = Own
<1> DEFINE t == [s EXCEPT !.remote = Own]
<1>1. t \in SyncState
  BY DEF Backed, SyncState, Remotes
<1>2. /\ t.role = s.role /\ t.remote = Own /\ t.registered = s.registered
      /\ t.pushed = 0 /\ t.pulled = Nowhere
  BY DEF Backed, SyncState, Marks, Fresh
<1> HIDE DEF t
<1>3. Backed(t, h, r, known)
  BY <1>1, <1>2 DEF Backed, Registers, RoleGiven, Marks, Fresh
<1> QED BY <1>2, <1>3 DEF t

LEMMA BusyBacked ==
  ASSUME NEW h, NEW r, NEW known, NEW s, Backed(s, h, r, known), NEW b \in BOOLEAN
  PROVE  LET t == [s EXCEPT !.busy = b]
         IN  Backed(t, h, r, known) /\ t.remote = s.remote /\ t.wire = s.wire /\ t.role = s.role
<1> DEFINE t == [s EXCEPT !.busy = b]
<1>1. t \in SyncState
  BY DEF Backed, SyncState
<1>2. /\ t.role = s.role /\ t.remote = s.remote /\ t.wire = s.wire
      /\ t.registered = s.registered /\ t.pushed = s.pushed /\ t.pulled = s.pulled
      /\ t.astray = s.astray
  BY DEF Backed, SyncState
<1> HIDE DEF t
<1>3. Backed(t, h, r, known)
  BY <1>1, <1>2 DEF Backed, Registers, RoleGiven, Marks, Place, Fresh
<1> QED BY <1>2, <1>3 DEF t

-----------------------------------------------------------------------------
(* Lists of steps *)

Plain(t) == \A i \in 1 .. Len(t) : t[i] \notin Transfers

\* What is left of a list once its first step is done
LEMMA TailPlain ==
  ASSUME NEW t \in Seq(Steps), Led(t), t # <<>>
  PROVE  Tail(t) \in Seq(Steps) /\ Plain(Tail(t))
<1>1. /\ Tail(t) \in Seq(Steps) /\ Len(Tail(t)) = Len(t) - 1 /\ Len(t) \in Nat
      /\ \A i \in 1 .. Len(Tail(t)) : Tail(t)[i] = t[i + 1]
  BY HeadTailProperties, LenProperties
<1>2. \A i \in 1 .. Len(Tail(t)) : i + 1 \in 1 .. Len(t) /\ i + 1 # 1
  BY <1>1
<1> QED BY <1>1, <1>2 DEF Led, Plain

LEMMA TailOrdered ==
  ASSUME NEW t \in Seq(Steps), t # <<>>, NEW resolved, NEW later,
         Ordered(t, resolved), resolved => later,
         Head(t) \in Resolves => later
  PROVE  Ordered(Tail(t), later)
<1>1. /\ Len(Tail(t)) = Len(t) - 1 /\ Len(t) \in Nat /\ Head(t) = t[1]
      /\ \A i \in 1 .. Len(Tail(t)) : Tail(t)[i] = t[i + 1]
  BY HeadTailProperties, LenProperties
<1> SUFFICES ASSUME NEW i \in 1 .. Len(Tail(t)), Tail(t)[i] \in OfDiary, ~ later
             PROVE  \E j \in 1 .. i - 1 : Tail(t)[j] \in Resolves
  BY DEF Ordered
<1>2. i + 1 \in 1 .. Len(t) /\ t[i + 1] \in OfDiary
  BY <1>1
<1>3. PICK j \in 1 .. (i + 1) - 1 : t[j] \in Resolves
  BY <1>2 DEF Ordered
<1>4. j # 1
  BY <1>1, <1>3
<1>5. j - 1 \in 1 .. i - 1 /\ j - 1 \in 1 .. Len(Tail(t)) /\ Tail(t)[j - 1] = t[(j - 1) + 1]
  BY <1>1, <1>3, <1>4
<1>6. Tail(t)[j - 1] \in Resolves
  BY <1>3, <1>5
<1> QED BY <1>5, <1>6

\* A list of no transfers, whatever the state that was read
LEMMA PlainOk ==
  ASSUME NEW t \in Seq(Steps), Plain(t), NEW s, NEW remote, NEW resolved,
         Ordered(t, resolved)
  PROVE  ListOk(t, s, remote, resolved)
<1>1. t # <<>> => Head(t) = t[1] /\ 1 \in 1 .. Len(t)
  BY EmptySeq, LenProperties
<1> QED BY <1>1 DEF ListOk, Led, Plain, Transfers

LEMMA EmptyOk ==
  ASSUME NEW s, NEW remote, NEW resolved PROVE ListOk(<<>>, s, remote, resolved)
BY DEF ListOk, Led, Ordered

\* The first step is done.
LEMMA TailOk ==
  ASSUME NEW t, NEW s, NEW remote, NEW resolved, ListOk(t, s, remote, resolved),
         t # <<>>, NEW u, NEW now, NEW later, resolved => later,
         Head(t) \in Resolves => later
  PROVE  ListOk(Tail(t), u, now, later)
<1>1. t \in Seq(Steps) /\ Led(t) /\ Ordered(t, resolved)
  BY DEF ListOk
<1>2. Tail(t) \in Seq(Steps) /\ Plain(Tail(t))
  BY <1>1, TailPlain
<1>3. Ordered(Tail(t), later)
  BY <1>1, TailOrdered
<1> QED BY <1>2, <1>3, PlainOk

\* The first step is replaced by its call.
LEMMA SwapOk ==
  ASSUME NEW t, NEW s, NEW remote, NEW resolved, ListOk(t, s, remote, resolved),
         t # <<>>, NEW call \in Steps, NEW u, NEW now, NEW later,
         resolved => later,
         Head(t) \in Resolves => call \in Resolves,
         call \in OfDiary => later,
         call \in Transfers => Place(u) \in Places,
         call \in {"push!", "pull!"} => now # None
  PROVE  ListOk(<<call>> \o Tail(t), u, now, later)
<1> DEFINE n == <<call>> \o Tail(t)
<1>1. /\ Tail(t) \in Seq(Steps) /\ Len(Tail(t)) = Len(t) - 1 /\ Len(t) \in Nat
      /\ Head(t) = t[1]
      /\ \A i \in 1 .. Len(Tail(t)) : Tail(t)[i] = t[i + 1]
  BY HeadTailProperties, LenProperties DEF ListOk
<1>2. <<call>> \in Seq(Steps) /\ Len(<<call>>) = 1 /\ <<call>>[1] = call
  OBVIOUS
<1>3. /\ n \in Seq(Steps) /\ Len(n) = Len(t)
      /\ \A i \in 1 .. Len(t) : n[i] = IF i = 1 THEN call ELSE Tail(t)[i - 1]
  BY <1>1, <1>2, ConcatProperties, EmptySeq DEF ListOk
<1>4. \A i \in 1 .. Len(t) : n[i] = IF i = 1 THEN call ELSE t[i]
  BY <1>1, <1>3
<1>5. n # <<>> /\ Head(n) = call
  <2>1. Len(n) > 0
    BY <1>1, <1>3, EmptySeq DEF ListOk
  <2> HIDE DEF n
  <2>2. Head(n) = n[1] /\ 1 \in 1 .. Len(t)
    BY <1>1, <1>3, <2>1
  <2> QED BY <1>4, <2>1, <2>2, EmptySeq
<1> HIDE DEF n
<1>6. Led(n)
  BY <1>3, <1>4 DEF ListOk, Led
<1>7. Ordered(n, later)
  <2> SUFFICES ASSUME NEW i \in 1 .. Len(t), n[i] \in OfDiary, ~ later
               PROVE  \E j \in 1 .. i - 1 : n[j] \in Resolves
    BY <1>3 DEF Ordered
  <2>1. i # 1 /\ t[i] \in OfDiary
    BY <1>4
  <2>2. PICK j \in 1 .. i - 1 : t[j] \in Resolves
    BY <2>1 DEF ListOk, Ordered
  <2>3. j \in 1 .. Len(t)
    BY <1>1, <2>2
  <2>4. n[j] \in Resolves
    BY <1>1, <1>4, <2>2, <2>3
  <2> QED BY <2>2, <2>4
<1> QED BY <1>3, <1>5, <1>6, <1>7 DEF ListOk, n

\* A step of the personal store that is next: it was resolved.
LEMMA ResolvedFirst ==
  ASSUME NEW t, NEW s, NEW remote, NEW resolved, ListOk(t, s, remote, resolved),
         t # <<>>, Head(t) \in OfDiary
  PROVE  resolved
<1>1. 1 \in 1 .. Len(t) /\ Head(t) = t[1]
  BY EmptySeq, LenProperties DEF ListOk
<1> QED BY <1>1 DEF ListOk, Ordered

\* The rest of the world moves on.
LEMMA StaysOk ==
  ASSUME NEW t, NEW s, NEW remote, NEW resolved, ListOk(t, s, remote, resolved),
         NEW now, NEW later, resolved => later, remote # None => now # None
  PROVE  ListOk(t, s, now, later)
BY DEF ListOk, Ordered

\* The steps that are no transfer and not of the personal store
Ours == Steps \ (Transfers \cup OfDiary)

LEMMA OursOk ==
  ASSUME NEW t \in Seq(Ours), NEW s, NEW remote, NEW resolved
  PROVE  ListOk(t, s, remote, resolved)
<1>1. /\ t \in Seq(Steps)
      /\ \A i \in 1 .. Len(t) : t[i] \in Ours
  BY SeqMonotonic, ElementOfSeq DEF Ours
<1>2. Plain(t) /\ Ordered(t, resolved)
  BY <1>1 DEF Plain, Ordered, Ours
<1> QED BY <1>1, <1>2, PlainOk

\* The lists the commands start with
LEMMA StartOk ==
  ASSUME NEW s, NEW remote, NEW resolved
  PROVE  /\ ListOk(Settle \o <<"idle?", "push">>, s, remote, resolved)
         /\ ListOk(Settle \o <<"pull", "refresh">>, s, remote, resolved)
         /\ ListOk(Settle \o <<"push", "pull", "refresh">>, s, remote, resolved)
         /\ ListOk(<<"create", "register">>, s, remote, resolved)
         /\ ListOk(<<"join", "register">>, s, remote, resolved)
         /\ ListOk(<<"invite">>, s, remote, resolved)
         /\ ListOk(<<"gate">>, s, remote, resolved)
         /\ ListOk(<<"resolve", "pushDiary", "pullDiary">>, s, remote, resolved)
         /\ ListOk(<<"login!", "store">>, s, remote, resolved)
         /\ ListOk(<<"logout">>, s, remote, resolved)
         /\ ListOk(<<"fill">>, s, remote, resolved)
<1>1. {"reconcile", "register", "idle?", "push", "pull", "refresh", "create",
       "join", "invite", "gate", "login!", "store", "logout", "fill"} \subseteq Ours
  BY DEF Ours, Steps, Transfers, OfDiary
<1>2. /\ Settle \in Seq(Ours)
      /\ <<"idle?", "push">> \in Seq(Ours)
      /\ <<"pull", "refresh">> \in Seq(Ours)
      /\ <<"push", "pull", "refresh">> \in Seq(Ours)
  BY <1>1 DEF Settle
<1>3. /\ Settle \o <<"idle?", "push">> \in Seq(Ours)
      /\ Settle \o <<"pull", "refresh">> \in Seq(Ours)
      /\ Settle \o <<"push", "pull", "refresh">> \in Seq(Ours)
  BY <1>2, ConcatProperties
<1>4. /\ <<"create", "register">> \in Seq(Ours)
      /\ <<"join", "register">> \in Seq(Ours)
      /\ <<"invite">> \in Seq(Ours)
      /\ <<"gate">> \in Seq(Ours)
      /\ <<"login!", "store">> \in Seq(Ours)
      /\ <<"logout">> \in Seq(Ours)
      /\ <<"fill">> \in Seq(Ours)
  BY <1>1
<1>5. ListOk(<<"resolve", "pushDiary", "pullDiary">>, s, remote, resolved)
  <2> DEFINE t == <<"resolve", "pushDiary", "pullDiary">>
  <2>1. t \in Seq(Steps) /\ Len(t) = 3 /\ t[1] = "resolve"
    BY DEF Steps, Resolves, OfDiary
  <2>2. Plain(t)
    BY DEF Plain, Transfers
  <2>3. t[1] \in Resolves /\ t[1] \notin OfDiary
    BY <2>1 DEF Resolves, OfDiary
  <2> HIDE DEF t
  <2>4. Ordered(t, resolved)
    BY <2>1, <2>3 DEF Ordered
  <2> QED BY <2>1, <2>2, <2>4, PlainOk DEF t
<1> QED BY <1>3, <1>4, <1>5, OursOk

-----------------------------------------------------------------------------
(* What every step does *)

\* The Hub takes no registration back, a remote loses no event, and the
\* history only grows.
Grows ==
  /\ hub' \in [Workspaces -> [role : Roles \cup {None, "unborn"},
                              reach : BOOLEAN, source : {None, "us", "them"}]]
  /\ hub'[Shared].role # "unborn"
  /\ received' \in [Places -> 0 .. MaxEvents]
  /\ owned' \subseteq Workspaces /\ lent' \subseteq Workspaces
  /\ \A w \in Workspaces : hub[w].source = "us" => hub'[w].source = "us"
  /\ \A p \in Places : received[p] <= received'[p]
  /\ Known \subseteq Known'

\* The sync state s is written to the file of the store l: a remote is not
\* taken away, and the personal store stays where it is.
Writes(l, s) ==
  /\ file' = [file EXCEPT ![l] = s]
  /\ Backed(s, hub', received', Known')
  /\ file[l].remote # None => s.remote # None
  /\ l = Diary => /\ s.role = None
                  /\ s.remote = None \/ Place(s) = <<"hub", Psm>>
                  /\ DiaryBound => Place(s) = <<"hub", Psm>>

FileStep == file' = file \/ \E l \in Locals, s \in SyncState : Writes(l, s)

HeldStep(c) ==
  \/ held' = held
  \/ \E s \in SyncState :
       held' = [held EXCEPT ![c] = s] /\ Backed(s, hub', received', Known')

CommandStep ==
  \/ todo' = todo /\ held' = held
  \/ \E c \in Commands :
       /\ HeldStep(c)
       /\ \E t \in Seq(Steps) :
            /\ todo' = [todo EXCEPT ![c] = t]
            /\ ListOk(t, held'[c], file'[Proj].remote, DiaryBound')

Rests ==
  /\ log' \in [Locals -> 0 .. MaxEvents]
  /\ sent' \in [Commands -> 0 .. MaxEvents]
  /\ via' \in [Commands -> Wires]
  /\ key' \in {"none", "good", "revoked"}

Effect == Grows /\ FileStep /\ CommandStep /\ Rests

\* A step of that kind keeps the invariant, the retractions apart.
LEMMA FileKept ==
  ASSUME Types, FileStep
  PROVE  /\ DiaryBound => DiaryBound'
         /\ file[Proj].remote # None => file'[Proj].remote # None
<1>1. CASE file' = file
  BY <1>1 DEF DiaryBound
<1>2. ASSUME NEW l \in Locals, NEW s \in SyncState, Writes(l, s)
      PROVE  /\ DiaryBound => DiaryBound'
             /\ file[Proj].remote # None => file'[Proj].remote # None
  <2>1. file'[l] = s /\ \A k \in Locals \ {l} : file'[k] = file[k]
    BY <1>2 DEF Writes, Types, TypeOK
  <2>2. Proj \in Locals /\ Diary \in Locals /\ Proj # Diary
    BY DEF Locals, Proj, Diary
  <2> QED BY <1>2, <2>1, <2>2 DEF Writes, DiaryBound
<1> QED BY <1>1, <1>2 DEF FileStep

LEMMA CopiesKept ==
  ASSUME Types, Copies, Grows
  PROVE  /\ \A l \in Locals : Backed(file[l], hub', received', Known')
         /\ \A c \in Commands : Backed(held[c], hub', received', Known')
<1>1. \A p \in Places : received[p] \in Nat /\ received'[p] \in Nat
                         /\ received[p] <= received'[p]
  BY Symbols DEF Types, TypeOK, Grows
<1>2. /\ \A w \in Workspaces : hub[w].source = "us" => hub'[w].source = "us"
      /\ Known \subseteq Known'
  BY DEF Grows
<1>3. ASSUME NEW s, Backed(s, hub, received, Known)
      PROVE  Backed(s, hub', received', Known')
  BY <1>1, <1>2, <1>3, StaysBacked
<1> QED BY <1>3 DEF Copies

LEMMA EffectKeeps ==
  ASSUME Types, Lists, DiaryState, Copies, Effect
  PROVE  Types' /\ Lists' /\ DiaryState' /\ Copies'
<1> USE DEF Effect
<1>0. /\ \A l \in Locals : Backed(file[l], hub', received', Known')
      /\ \A c \in Commands : Backed(held[c], hub', received', Known')
  BY CopiesKept
<1>k. /\ DiaryBound => DiaryBound'
      /\ file[Proj].remote # None => file'[Proj].remote # None
  BY FileKept
<1>1. /\ file' \in [Locals -> SyncState]
      /\ \A l \in Locals : Backed(file'[l], hub', received', Known')
  <2>1. CASE file' = file
    BY <1>0, <2>1 DEF Types, TypeOK
  <2>2. ASSUME NEW l \in Locals, NEW s \in SyncState, Writes(l, s)
        PROVE  /\ file' \in [Locals -> SyncState]
               /\ \A k \in Locals : Backed(file'[k], hub', received', Known')
    <3>1. file'[l] = s /\ \A k \in Locals \ {l} : file'[k] = file[k]
      BY <2>2 DEF Writes, Types, TypeOK
    <3>2. file' \in [Locals -> SyncState]
      BY <2>2 DEF Writes, Types, TypeOK
    <3>3. \A k \in Locals : Backed(file'[k], hub', received', Known')
      BY <1>0, <2>2, <3>1 DEF Writes
    <3> QED BY <3>2, <3>3
  <2> QED BY <2>1, <2>2 DEF FileStep
<1>2. DiaryState'
  <2>1. CASE file' = file
    BY <2>1 DEF DiaryState, DiaryBound
  <2>2. ASSUME NEW l \in Locals, NEW s \in SyncState, Writes(l, s)
        PROVE  DiaryState'
    <3>1. file'[l] = s /\ \A k \in Locals \ {l} : file'[k] = file[k]
      BY <2>2 DEF Writes, Types, TypeOK
    <3>2. Diary \in Locals
      BY DEF Locals
    <3> QED BY <2>2, <3>1, <3>2 DEF Writes, DiaryState, DiaryBound
  <2> QED BY <2>1, <2>2 DEF FileStep
<1>3. /\ held' \in [Commands -> SyncState] /\ DOMAIN todo' = Commands
      /\ \A c \in Commands : Backed(held'[c], hub', received', Known')
      /\ Lists'
  <2>0. \A c \in Commands : ListOk(todo[c], held[c], file'[Proj].remote, DiaryBound')
    BY <1>k, StaysOk DEF Lists
  <2>1. CASE todo' = todo /\ held' = held
    BY <1>0, <2>0, <2>1 DEF Types, TypeOK, Lists
  <2>2. ASSUME NEW c \in Commands, HeldStep(c), NEW t \in Seq(Steps),
               todo' = [todo EXCEPT ![c] = t],
               ListOk(t, held'[c], file'[Proj].remote, DiaryBound')
        PROVE  /\ held' \in [Commands -> SyncState] /\ DOMAIN todo' = Commands
               /\ \A d \in Commands : Backed(held'[d], hub', received', Known')
               /\ Lists'
    <3>1. /\ DOMAIN todo' = Commands /\ todo'[c] = t
          /\ \A d \in Commands \ {c} : todo'[d] = todo[d]
      BY <2>2 DEF Types
    <3>2. /\ held' \in [Commands -> SyncState]
          /\ \A d \in Commands : Backed(held'[d], hub', received', Known')
          /\ \A d \in Commands \ {c} : held'[d] = held[d]
      <4>1. CASE held' = held
        BY <1>0, <4>1 DEF Types, TypeOK
      <4>2. ASSUME NEW s \in SyncState, held' = [held EXCEPT ![c] = s],
                   Backed(s, hub', received', Known')
            PROVE  /\ held' \in [Commands -> SyncState]
                   /\ \A d \in Commands : Backed(held'[d], hub', received', Known')
                   /\ \A d \in Commands \ {c} : held'[d] = held[d]
        <5>1. held'[c] = s /\ \A d \in Commands \ {c} : held'[d] = held[d]
          BY <4>2 DEF Types, TypeOK
        <5>2. held' \in [Commands -> SyncState]
          BY <4>2 DEF Types, TypeOK
        <5> QED BY <1>0, <4>2, <5>1, <5>2
      <4> QED BY <2>2, <4>1, <4>2 DEF HeldStep
    <3>3. \A d \in Commands : ListOk(todo'[d], held'[d], file'[Proj].remote, DiaryBound')
      BY <2>0, <2>2, <3>1, <3>2
    <3> QED BY <3>1, <3>2, <3>3 DEF Lists
  <2> QED BY <2>1, <2>2 DEF CommandStep
<1>4. Types'
  BY <1>1, <1>3 DEF Types, TypeOK, Rests, Grows
<1> QED BY <1>1, <1>2, <1>3, <1>4 DEF Copies

-----------------------------------------------------------------------------
(* The parts of a step *)

LEMMA GrowsQuiet ==
  ASSUME Types, UNCHANGED <<hub, received>>,
         owned \subseteq owned', lent \subseteq lent',
         owned' \subseteq Workspaces, lent' \subseteq Workspaces
  PROVE  Grows
<1>1. \A p \in Places : received[p] <= received'[p]
  BY Symbols DEF Types, TypeOK
<1> QED BY <1>1 DEF Types, TypeOK, Grows, Known

LEMMA GotoTypes ==
  ASSUME Types, NEW c \in Commands, NEW t, Goto(c, t)
  PROVE  via' \in [Commands -> Wires]
BY DEF Types, TypeOK, Goto, Wires

LEMMA FreeStep ==
  ASSUME Types, NEW c \in Commands, Free(c)
  PROVE  HeldStep(c) /\ sent' \in [Commands -> 0 .. MaxEvents]
<1>1. Unsynced \in SyncState /\ Backed(Unsynced, hub', received', Known')
  BY UnsyncedBacked DEF Backed
<1> QED BY <1>1, Symbols DEF Types, TypeOK, Free, HeldStep

LEMMA DoneStep ==
  ASSUME Types, Lists, FileStep, NEW c \in Commands, HeldStep(c), todo[c] # <<>>,
         Done(c), Head(todo[c]) \in Resolves => DiaryBound'
  PROVE  CommandStep
<1>1. ListOk(todo[c], held[c], file[Proj].remote, DiaryBound)
  BY DEF Lists
<1>2. ListOk(Tail(todo[c]), held'[c], file'[Proj].remote, DiaryBound')
  BY <1>1, FileKept, TailOk
<1>3. Tail(todo[c]) \in Seq(Steps)
  BY <1>2 DEF ListOk
<1>4. todo' = [todo EXCEPT ![c] = Tail(todo[c])]
  BY DEF Done, Goto, Rest
<1> QED BY <1>2, <1>3, <1>4 DEF CommandStep

LEMMA StopStep ==
  ASSUME NEW c \in Commands, HeldStep(c), Stop(c)
  PROVE  CommandStep
<1>1. ListOk(<<>>, held'[c], file'[Proj].remote, DiaryBound')
  BY EmptyOk
<1>2. <<>> \in Seq(Steps)
  BY <1>1 DEF ListOk
<1>3. todo' = [todo EXCEPT ![c] = <<>>]
  BY DEF Stop, Goto
<1> QED BY <1>1, <1>2, <1>3 DEF CommandStep

LEMMA ThrownStep ==
  ASSUME Types, Lists, FileStep, NEW c \in Commands, HeldStep(c), todo[c] # <<>>,
         Thrown(c)
  PROVE  CommandStep
<1>1. CASE Head(todo[c]) \in BestEffort
  <2>1. Done(c) /\ Head(todo[c]) \notin Resolves
    BY <1>1 DEF Thrown, BestEffort, Resolves
  <2> QED BY <2>1, DoneStep
<1>2. CASE Head(todo[c]) \notin BestEffort
  BY <1>2, StopStep DEF Thrown
<1> QED BY <1>1, <1>2

LEMMA SwapStep ==
  ASSUME Types, Lists, FileStep, NEW c \in Commands, HeldStep(c), todo[c] # <<>>,
         NEW call \in Steps, Goto(c, <<call>> \o Rest(c)),
         Head(todo[c]) \in Resolves => call \in Resolves,
         call \in OfDiary => Head(todo[c]) \in OfDiary,
         call \in Transfers => Place(held'[c]) \in Places,
         call \in {"push!", "pull!"} => file'[Proj].remote # None
  PROVE  CommandStep
<1>1. ListOk(todo[c], held[c], file[Proj].remote, DiaryBound)
  BY DEF Lists
<1>2. Head(todo[c]) \in OfDiary => DiaryBound
  BY <1>1, ResolvedFirst
<1> DEFINE n == <<call>> \o Tail(todo[c])
<1>3. ListOk(n, held'[c], file'[Proj].remote, DiaryBound')
  BY <1>1, <1>2, FileKept, SwapOk
<1>4. n \in Seq(Steps)
  BY <1>3 DEF ListOk
<1>5. todo' = [todo EXCEPT ![c] = n]
  BY DEF Goto, Rest
<1> HIDE DEF n
<1> QED BY <1>3, <1>4, <1>5 DEF CommandStep

\* The lists a command starts with
LEMMA StartStep ==
  ASSUME Types, NEW c \in Commands, NEW t, todo' = [todo EXCEPT ![c] = t],
         held' = held,
         ListOk(t, held'[c], file'[Proj].remote, DiaryBound')
  PROVE  CommandStep
<1>1. t \in Seq(Steps)
  BY DEF ListOk
<1> QED BY <1>1 DEF CommandStep, HeldStep

\* What the Hub grants
LEMMA WhatIsGranted ==
  ASSUME NEW c \in Commands
  PROVE  /\ Calling(c, "reconcile!") =>
              (held[c].remote \in Workspaces => Here(held[c].remote))
         /\ Calling(c, "invite!") =>
              held[c].remote \in Workspaces /\ Here(held[c].remote)
         /\ Calling(c, "register!") =>
              held[c].remote \in Workspaces /\ Here(held[c].remote)
         /\ Calling(c, "refresh!") =>
              held[c].remote \in Workspaces /\ Here(held[c].remote)
<1>1. Calling(c, "reconcile!") =>
        (held[c].remote \in Workspaces => Here(held[c].remote))
  BY DEF Calling, At, Granted
<1>2. Calling(c, "invite!") => held[c].remote \in Workspaces /\ Here(held[c].remote)
  BY DEF Calling, At, Granted, Here, Roles
<1>3. Calling(c, "register!") => held[c].remote \in Workspaces /\ Here(held[c].remote)
  BY DEF Calling, At, Granted
<1>4. Calling(c, "refresh!") => held[c].remote \in Workspaces /\ Here(held[c].remote)
  BY DEF Calling, At, Granted
<1> QED BY <1>1, <1>2, <1>3, <1>4

Inv == Types /\ Lists /\ DiaryState /\ Copies

-----------------------------------------------------------------------------
(* The steps outside the commands *)

LEMMA WriteEffect ==
  ASSUME Inv, Write PROVE Effect
<1>1. Grows
  BY GrowsQuiet DEF Inv, Write, past, Types
<1>2. Rests
  <2>1. Proj \in Locals /\ log[Proj] + 1 \in 0 .. MaxEvents
    BY Symbols DEF Inv, Types, TypeOK, Write, Locals
  <2> QED BY <2>1 DEF Inv, Types, TypeOK, Write, Rests, work
<1> QED BY <1>1, <1>2 DEF Effect, Write, FileStep, CommandStep, work

LEMMA HubEffect ==
  ASSUME Inv, NEW w \in Workspaces,
         RemoveMember(w) \/ Claim(w) \/ \E role \in Roles : SetRole(w, role)
  PROVE  Effect
<1>1. PICK role \in Roles \cup {None}, source \in {None, "us", "them"} :
        /\ hub' = [hub EXCEPT ![w] = [hub[w] EXCEPT !.role = role, !.source = source]]
        /\ hub[w].source = "us" => source = "us"
        /\ UNCHANGED <<log, file, key, received, work, past>>
  <2>1. /\ hub[w] = [hub[w] EXCEPT !.source = hub[w].source]
        /\ hub[w].source \in {None, "us", "them"}
        /\ hub[w].role \in Roles \cup {None, "unborn"}
    BY DEF Inv, Types, TypeOK
  <2>2. ASSUME NEW role \in Roles \cup {None},
               HubChange(w, [hub[w] EXCEPT !.role = role])
        PROVE  hub' = [hub EXCEPT ![w] = [hub[w] EXCEPT !.role = role,
                                                        !.source = hub[w].source]]
    BY <2>2 DEF HubChange, Inv, Types, TypeOK
  <2>3. CASE RemoveMember(w)
    BY <2>1, <2>2, <2>3 DEF RemoveMember, HubChange
  <2>4. CASE Claim(w)
    <3>1. hub[w].role \in Roles /\ hub[w].source = None
      BY <2>4 DEF Claim, Here
    <3>2. hub' = [hub EXCEPT ![w] = [hub[w] EXCEPT !.role = hub[w].role,
                                                   !.source = "them"]]
      BY <2>4 DEF Claim, HubChange, Inv, Types, TypeOK
    <3> QED BY <2>4, <3>1, <3>2 DEF Claim, HubChange, None
  <2>5. ASSUME NEW role \in Roles, SetRole(w, role)
        PROVE  HubChange(w, [hub[w] EXCEPT !.role = role])
    BY <2>5 DEF SetRole
  <2> QED BY <2>1, <2>2, <2>3, <2>4, <2>5 DEF HubChange
<1>2. /\ hub' \in [Workspaces -> [role : Roles \cup {None, "unborn"},
                                   reach : BOOLEAN, source : {None, "us", "them"}]]
      /\ hub'[w].role # "unborn" /\ hub'[w].source = source
      /\ \A v \in Workspaces \ {w} : hub'[v] = hub[v]
  BY <1>1 DEF Inv, Types, TypeOK, Roles, None
<1>3. Grows
  <2>1. \A p \in Places : received[p] <= received'[p]
    BY <1>1, Symbols DEF Inv, Types, TypeOK
  <2> QED BY <1>1, <1>2, <2>1, Symbols DEF Inv, Types, TypeOK, Grows, Known, past
<1> QED BY <1>1, <1>3 DEF Inv, Types, TypeOK, Effect, FileStep, CommandStep, Rests, work

LEMMA RevokeEffect ==
  ASSUME Inv, RevokeKey PROVE Effect
<1>1. Grows
  BY GrowsQuiet DEF Inv, RevokeKey, past, Types
<1> QED BY <1>1 DEF Inv, Types, TypeOK, Effect, RevokeKey, FileStep, CommandStep,
       Rests, work

-----------------------------------------------------------------------------
(* Commands *)

\* A remote or a transport that the user names
LEMMA RepointStep ==
  ASSUME Inv, NEW remote \in Remotes, NEW wire \in Wires, Repoint(remote, wire),
         remote \in Workspaces \/ remote = file[Proj].remote,
         UNCHANGED <<hub, received, owned>>
  PROVE  Grows /\ FileStep
<1> DEFINE s == file[Proj]
<1>1. Proj \in Locals /\ Proj # Diary
  BY DEF Locals, Proj, Diary
<1>2. /\ lent' = IF remote # s.remote /\ s.role # None THEN lent \cup {remote} ELSE lent
      /\ file' = [file EXCEPT ![Proj] = Turned(s, remote, wire)]
  BY DEF Repoint
<1>3. Grows
  BY <1>2, GrowsQuiet DEF Inv, Types
<1>4. Backed(s, hub', received', Known')
  BY <1>1, <1>3, CopiesKept DEF Inv
<1>5. s.role = "owner" => remote \in Known'
  <2>1. CASE remote = s.remote
    BY <1>4, <2>1 DEF Backed, RoleGiven
  <2>2. CASE remote # s.remote
    BY <1>2, <2>2 DEF Known, None
  <2> QED BY <2>1, <2>2
<1>6. remote = None => s.remote = None
  BY Symbols
<1>7. \A p \in Places : received'[p] \in Nat
  BY <1>3, Symbols DEF Grows
<1>8. /\ Backed(Turned(s, remote, wire), hub', received', Known')
      /\ Turned(s, remote, wire).remote = remote
  BY <1>4, <1>5, <1>6, <1>7, TurnedBacked
<1>9. Turned(s, remote, wire) \in SyncState
  BY <1>8 DEF Backed
<1>10. Writes(Proj, Turned(s, remote, wire))
  BY <1>1, <1>2, <1>6, <1>8 DEF Writes
<1> QED BY <1>1, <1>3, <1>9, <1>10 DEF FileStep

\* A command that starts
LEMMA RunEffect ==
  ASSUME Inv, NEW c \in Commands, NEW wire \in Wires, NEW steps,
         RunVia(c, wire, steps), Grows, FileStep,
         ListOk(steps, held[c], file'[Proj].remote, DiaryBound')
  PROVE  Effect
<1>1. todo' = [todo EXCEPT ![c] = steps] /\ held' = held
  BY DEF RunVia
<1>2. CommandStep
  BY <1>1, StartStep DEF Inv
<1>3. Rests
  BY DEF Inv, Types, TypeOK, RunVia, Rests
<1> QED BY <1>2, <1>3 DEF Effect

LEMMA SameStep ==
  ASSUME Inv, Same, UNCHANGED <<hub, received, owned>> PROVE Grows /\ FileStep
BY GrowsQuiet DEF Inv, Types, Same, FileStep

LEMMA StartsEffect ==
  ASSUME Inv, NEW c \in Commands,
         \/ AutoPush(c) \/ AutoPull(c) \/ CliCreate(c) \/ CliJoin(c)
         \/ CliInvite(c) \/ CliRetract(c) \/ CliPersonal(c) \/ CliLogin(c)
         \/ CliLogout(c)
  PROVE  Effect
<1>1. PICK steps \in {Settle \o <<"idle?", "push">>, Settle \o <<"pull", "refresh">>,
                     <<"create", "register">>, <<"join", "register">>, <<"invite">>,
                     <<"gate">>, <<"resolve", "pushDiary", "pullDiary">>,
                     <<"login!", "store">>, <<"logout">>} :
        RunVia(c, None, steps) /\ Same
  BY DEF AutoPush, AutoPull, CliCreate, CliJoin, CliInvite, CliRetract, CliPersonal,
     CliLogin, CliLogout, Run
<1>2. ListOk(steps, held[c], file'[Proj].remote, DiaryBound')
  BY StartOk
<1>3. Grows /\ FileStep
  BY <1>1, SameStep DEF RunVia
<1> QED BY <1>1, <1>2, <1>3, RunEffect DEF Wires

LEMMA CliSyncEffect ==
  ASSUME Inv, NEW c \in Commands, NEW wire \in Wires, CliSync(c, wire)
  PROVE  Effect
<1> DEFINE through == IF wire = None THEN file[Proj].wire ELSE wire
<1>1. /\ RunVia(c, through, Settle \o <<"push", "pull", "refresh">>)
      /\ Repoint(file[Proj].remote, through)
  BY DEF CliSync
<1>2. through \in Wires /\ file[Proj].remote \in Remotes
  BY DEF Inv, Types, TypeOK, SyncState, Locals
<1> HIDE DEF through
<1>3. Grows /\ FileStep
  BY <1>1, <1>2, RepointStep DEF RunVia
<1> QED BY <1>1, <1>2, <1>3, StartOk, RunEffect

LEMMA CliBindEffect ==
  ASSUME Inv, NEW c \in Commands, NEW w \in Workspaces, CliBind(c, w)
  PROVE  Effect
<1>1. RunVia(c, None, <<>>) /\ Repoint(w, file[Proj].wire)
  BY DEF CliBind, Run
<1>2. w \in Remotes /\ file[Proj].wire \in Wires
  BY Symbols DEF Inv, Types, TypeOK, SyncState, Locals
<1>3. Grows /\ FileStep
  BY <1>1, <1>2, RepointStep DEF RunVia
<1> QED BY <1>1, <1>3, EmptyOk, RunEffect DEF Wires

LEMMA CliRemoteEffect ==
  ASSUME Inv, NEW c \in Commands, NEW w \in Workspaces, CliRemote(c, w)
  PROVE  Effect
<1>1. /\ RunVia(c, "hub", Settle \o <<"push", "pull", "refresh">>)
      /\ Repoint(w, "hub")
  BY DEF CliRemote
<1>2. w \in Remotes /\ "hub" \in Wires
  BY Symbols DEF Wires
<1>3. Grows /\ FileStep
  BY <1>1, <1>2, RepointStep DEF RunVia
<1> QED BY <1>1, <1>2, <1>3, StartOk, RunEffect

-----------------------------------------------------------------------------
(* Steps that read the file and go on *)

LEMMA LocalStep ==
  ASSUME Inv, Local, UNCHANGED <<file, key>>
  PROVE  /\ Grows /\ FileStep
         /\ log' \in [Locals -> 0 .. MaxEvents] /\ key' \in {"none", "good", "revoked"}
BY GrowsQuiet DEF Inv, Types, TypeOK, Local, Quiet, past, FileStep

LEMMA HoldEffect ==
  ASSUME Inv, NEW c \in Commands, NEW l \in Locals, NEW proceed,
         todo[c] # <<>>, NEW call \in Steps \ (Transfers \cup OfDiary),
         \/ /\ Hold(c, l, call, proceed) /\ Head(todo[c]) \notin Resolves
         \/ /\ HoldOrStop(c, l, call, proceed)
            /\ Head(todo[c]) \in Resolves => call \in Resolves
  PROVE  Effect
<1>1. /\ Grows /\ FileStep
      /\ log' \in [Locals -> 0 .. MaxEvents] /\ key' \in {"none", "good", "revoked"}
  BY LocalStep DEF Hold, HoldOrStop
<1>2. file[l] \in SyncState /\ Backed(file[l], hub', received', Known')
  BY <1>1, CopiesKept DEF Inv, Types, TypeOK
<1>3. \/ /\ Goto(c, <<call>> \o Rest(c))
         /\ held' = [held EXCEPT ![c] = file[l]]
         /\ Head(todo[c]) \in Resolves => call \in Resolves
      \/ /\ Done(c) /\ held' = held
         /\ Head(todo[c]) \notin Resolves
      \/ /\ Stop(c) /\ held' = held
  BY DEF Hold, HoldOrStop
<1>4. HeldStep(c)
  BY <1>2, <1>3 DEF HeldStep
<1>5. CommandStep
  <2>1. call \notin {"push!", "pull!"} /\ call \notin Transfers /\ call \notin OfDiary
    BY DEF Transfers
  <2>2. CASE Goto(c, <<call>> \o Rest(c)) /\ (Head(todo[c]) \in Resolves => call \in Resolves)
    BY <1>1, <1>4, <2>1, <2>2, SwapStep DEF Inv
  <2>3. CASE Done(c) /\ Head(todo[c]) \notin Resolves
    BY <1>1, <1>4, <2>3, DoneStep DEF Inv
  <2>4. CASE Stop(c)
    BY <1>4, <2>4, StopStep
  <2> QED BY <1>3, <2>2, <2>3, <2>4
<1>6. via' \in [Commands -> Wires]
  BY <1>3, GotoTypes DEF Inv, Done, Stop
<1>7. sent' \in [Commands -> 0 .. MaxEvents]
  BY DEF Hold, HoldOrStop, Inv, Types, TypeOK
<1> QED BY <1>1, <1>5, <1>6, <1>7 DEF Effect, Rests

LEMMA ReadsEffect ==
  ASSUME Inv, NEW c \in Commands,
         \/ Reconcile(c) \/ Create(c) \/ Join(c) \/ Invite(c)
         \/ Register(c) \/ Refresh(c) \/ Gate(c) \/ Resolve(c)
  PROVE  Effect
<1>1. Proj \in Locals /\ Diary \in Locals
  BY DEF Locals
<1>2. {"reconcile!", "create!", "join!", "invite!", "register!", "refresh!", "gate!",
       "resolve!"} \subseteq Steps \ (Transfers \cup OfDiary)
  BY DEF Steps, Transfers, OfDiary, Calls, BestEffort
<1> USE <1>1, <1>2 DEF At, Resolves
<1>3. CASE Reconcile(c)
  BY <1>3, HoldEffect DEF Reconcile
<1>4. CASE Create(c)
  BY <1>4, HoldEffect DEF Create
<1>5. CASE Join(c)
  BY <1>5, HoldEffect DEF Join
<1>6. CASE Invite(c)
  BY <1>6, HoldEffect DEF Invite
<1>7. CASE Register(c)
  BY <1>7, HoldEffect DEF Register
<1>8. CASE Refresh(c)
  BY <1>8, HoldEffect DEF Refresh
<1>9. CASE Gate(c)
  BY <1>9, HoldEffect DEF Gate
<1>10. CASE Resolve(c)
  BY <1>10, HoldEffect DEF Resolve
<1> QED BY <1>3, <1>4, <1>5, <1>6, <1>7, <1>8, <1>9, <1>10

\* Steps with no copy of the file
LEMMA IdleEffect ==
  ASSUME Inv, NEW c \in Commands,
         Idle(c) \/ \E refused \in BOOLEAN : Probe(c, refused)
  PROVE  Effect
<1>1. /\ todo[c] # <<>> /\ Head(todo[c]) \notin Resolves
      /\ Done(c) \/ Stop(c)
      /\ Local /\ UNCHANGED <<file, key, held, sent>>
  BY DEF Idle, Probe, At, Resolves
<1>2. /\ Grows /\ FileStep
      /\ log' \in [Locals -> 0 .. MaxEvents] /\ key' \in {"none", "good", "revoked"}
  BY <1>1, LocalStep
<1>3. CommandStep
  BY <1>1, <1>2, DoneStep, StopStep DEF Inv, HeldStep
<1>4. via' \in [Commands -> Wires] /\ sent' \in [Commands -> 0 .. MaxEvents]
  BY <1>1, GotoTypes DEF Inv, Done, Stop, Types, TypeOK
<1> QED BY <1>2, <1>3, <1>4 DEF Effect, Rests

LEMMA KeyEffect ==
  ASSUME Inv, NEW c \in Commands, Store(c) \/ Fill(c) \/ Logout(c)
  PROVE  Effect
<1>1. /\ todo[c] # <<>> /\ Head(todo[c]) \notin Resolves
      /\ Done(c) \/ Goto(c, <<"fill">>)
      /\ Local /\ UNCHANGED <<file, held, sent>>
      /\ key' \in {"none", "good", "revoked"}
  BY DEF Store, Fill, Logout, At, Resolves
<1>2. Grows /\ FileStep /\ HeldStep(c)
  BY <1>1, GrowsQuiet DEF Inv, Types, Local, Quiet, past, FileStep, HeldStep
<1>3. CommandStep
  <2>1. CASE Done(c)
    BY <1>1, <1>2, <2>1, DoneStep DEF Inv
  <2>2. CASE Goto(c, <<"fill">>)
    BY <1>1, <2>2, StartOk, StartStep DEF Inv, Goto
  <2> QED BY <1>1, <2>1, <2>2
<1>4. /\ via' \in [Commands -> Wires] /\ sent' \in [Commands -> 0 .. MaxEvents]
      /\ log' \in [Locals -> 0 .. MaxEvents]
  BY <1>1, GotoTypes DEF Inv, Done, Types, TypeOK, Local, Quiet
<1> QED BY <1>1, <1>2, <1>3, <1>4 DEF Effect, Rests

\* A call that fails, and a command that is killed, change nothing.
LEMMA FailEffect ==
  ASSUME Inv, NEW c \in Commands, CallFails(c) \/ Kill(c)
  PROVE  Effect
<1>1. /\ (todo[c] # <<>> /\ Thrown(c)) \/ Stop(c)
      /\ Local /\ Free(c) /\ UNCHANGED <<file, key>>
  BY DEF CallFails, Kill
<1>2. /\ Grows /\ FileStep
      /\ log' \in [Locals -> 0 .. MaxEvents] /\ key' \in {"none", "good", "revoked"}
  BY <1>1, LocalStep
<1>3. HeldStep(c) /\ sent' \in [Commands -> 0 .. MaxEvents]
  BY <1>1, FreeStep DEF Inv
<1>4. CommandStep
  BY <1>1, <1>2, <1>3, ThrownStep, StopStep DEF Inv
<1>5. via' \in [Commands -> Wires]
  BY <1>1, GotoTypes DEF Inv, Thrown, Done, Stop
<1> QED BY <1>2, <1>3, <1>4, <1>5 DEF Effect, Rests

-----------------------------------------------------------------------------
(* Calls that change the binding, the registration or the role cache *)

LEMMA CallEffect ==
  ASSUME Inv, Grows, NEW c \in Commands, NEW s, NEW answered \in BOOLEAN,
         Call(c, answered, s), todo[c] # <<>>, Head(todo[c]) \notin Resolves,
         answered => /\ Backed(s, hub', received', Known')
                     /\ file[Proj].remote # None => s.remote # None
  PROVE  Effect
<1>1. Proj \in Locals /\ Proj # Diary
  BY DEF Locals, Proj, Diary
<1>2. FileStep
  BY <1>1 DEF Call, FileStep, Writes, Backed
<1>3. HeldStep(c) /\ sent' \in [Commands -> 0 .. MaxEvents]
  BY FreeStep DEF Inv, Call
<1>4. CommandStep
  BY <1>2, <1>3, DoneStep, ThrownStep DEF Inv, Call
<1>5. via' \in [Commands -> Wires]
  BY GotoTypes DEF Inv, Call, Thrown, Done, Stop
<1>6. log' \in [Locals -> 0 .. MaxEvents] /\ key' \in {"none", "good", "revoked"}
  BY DEF Inv, Types, TypeOK, Call
<1> QED BY <1>2, <1>3, <1>4, <1>5, <1>6 DEF Effect, Rests

\* The Hub changes in one workspace.
LEMMA HubGrows ==
  ASSUME Inv, NEW w \in Workspaces, NEW v,
         hub' = [hub EXCEPT ![w] = v],
         v \in [role : Roles \cup {None, "unborn"}, reach : BOOLEAN,
                source : {None, "us", "them"}],
         v.role # "unborn" \/ v.role = hub[w].role,
         hub[w].source = "us" => v.source = "us",
         UNCHANGED received, owned \subseteq owned', owned' \subseteq Workspaces,
         UNCHANGED lent
  PROVE  Grows
<1>1. \A p \in Places : received[p] <= received'[p]
  BY Symbols DEF Inv, Types, TypeOK
<1> QED BY <1>1, Symbols DEF Inv, Types, TypeOK, Grows, Known

LEMMA BackfillEffect ==
  ASSUME Inv, NEW c \in Commands, Backfill(c) PROVE Effect
<1> DEFINE w == held[c].remote
           s == [held[c] EXCEPT !.role = hub[w].role, !.reach = hub[w].reach]
<1>1. /\ w \in Workspaces /\ Here(w) /\ Call(c, TRUE, s)
      /\ todo[c] # <<>> /\ Head(todo[c]) \notin Resolves
      /\ owned' = owned \cup (IF hub[w].role = "owner" THEN {w} ELSE {})
      /\ UNCHANGED <<hub, received, lent>>
  BY WhatIsGranted DEF Backfill, Calling, At, Resolves, Call
<1>2. Grows
  BY <1>1, GrowsQuiet DEF Inv, Types
<1>3. Backed(held[c], hub', received', Known')
  BY <1>2, CopiesKept DEF Inv
<1>4. /\ hub[w].role \in Roles \cup {None} /\ hub[w].reach \in BOOLEAN
      /\ hub[w].role = "owner" => w \in Known'
  BY <1>1 DEF Inv, Types, TypeOK, Here, Known
<1>5. Backed(s, hub', received', Known')
  BY <1>3, <1>4, RoleBacked
<1>6. s.remote # None
  BY <1>1, <1>3, Symbols DEF Backed, SyncState
<1> HIDE DEF s, w
<1> QED BY <1>1, <1>2, <1>5, <1>6, CallEffect

\* A workspace is minted.
LEMMA BornGrows ==
  ASSUME Inv, NEW w \in Minted, Born(w), UNCHANGED <<received, lent>>
  PROVE  Grows /\ w \in Workspaces /\ w \in Known'
<1>1. w \in Workspaces /\ owned' = owned \cup {w}
  BY Symbols DEF Born
<1> DEFINE v == [hub[w] EXCEPT !.role = "owner"]
<1>2. /\ hub' = [hub EXCEPT ![w] = v] /\ v.role = "owner" /\ v.source = hub[w].source
      /\ v \in [role : Roles \cup {None, "unborn"}, reach : BOOLEAN,
                source : {None, "us", "them"}]
  BY <1>1 DEF Born, Inv, Types, TypeOK, Roles
<1> HIDE DEF v
<1>3. Grows
  BY <1>1, <1>2, HubGrows DEF Inv, Types
<1> QED BY <1>1, <1>3 DEF Known

LEMMA MigrateEffect ==
  ASSUME Inv, NEW c \in Commands, NEW w \in Minted, NEW answered \in BOOLEAN,
         Migrate(c, w, answered)
  PROVE  Effect
<1> DEFINE s == Migrated(held[c], w)
<1>1. /\ Call(c, answered, s) /\ Born(w)
      /\ todo[c] # <<>> /\ Head(todo[c]) \notin Resolves
      /\ UNCHANGED <<received, lent>>
  BY DEF Migrate, Calling, At, Resolves, Call
<1>2. Grows /\ w \in Workspaces /\ w \in Known'
  BY <1>1, BornGrows
<1>3. \A p \in Places : received'[p] \in Nat
  BY <1>2, Symbols DEF Grows
<1>4. Backed(held[c], hub', received', Known')
  BY <1>2, CopiesKept DEF Inv
<1>5. Backed(s, hub', received', Known') /\ s.remote # None
  BY <1>2, <1>3, <1>4, MigratedBacked, Symbols
<1> HIDE DEF s
<1> QED BY <1>1, <1>2, <1>5, CallEffect

\* The role that is written is the one of the new workspace.
LEMMA BoundBacked ==
  ASSUME Inv, Grows, NEW w \in Workspaces, NEW role \in Roles, NEW reach \in BOOLEAN,
         role = "owner" => w \in Known'
  PROVE  /\ Backed(Bound(file[Proj], w, role, reach), hub', received', Known')
         /\ Bound(file[Proj], w, role, reach).remote # None
<1> DEFINE s == file[Proj]
           u == [s EXCEPT !.role = None, !.reach = reach]
           t == Turned(u, w, "hub")
<1>1. Backed(s, hub', received', Known') /\ s \in SyncState
  BY CopiesKept DEF Inv, Locals, Types, TypeOK
<1>2. Backed(u, hub', received', Known')
  BY <1>1, RoleBacked DEF None
<1>3. u.role = None /\ w \in Remotes /\ "hub" \in Wires /\ w # None
  BY <1>1, Symbols DEF SyncState, Wires
<1>4. \A p \in Places : received'[p] \in Nat
  BY Symbols DEF Grows
<1>5. [t EXCEPT !.role = role, !.reach = reach] = Bound(s, w, role, reach)
  BY <1>1 DEF Bound, Turned, SyncState, Place
<1> HIDE DEF u
<1>6. Backed(t, hub', received', Known') /\ t.remote = w
  BY <1>2, <1>3, <1>4, TurnedBacked DEF None
<1> HIDE DEF t
<1>7. Backed([t EXCEPT !.role = role, !.reach = reach], hub', received', Known')
  BY <1>6, RoleBacked
<1>8. [t EXCEPT !.role = role, !.reach = reach].remote = w
  BY <1>6 DEF Backed, SyncState
<1> QED BY <1>3, <1>5, <1>7, <1>8

LEMMA CreateCallEffect ==
  ASSUME Inv, NEW c \in Commands, NEW w \in Minted, NEW answered \in BOOLEAN,
         CreateCall(c, w, answered)
  PROVE  Effect
<1>1. /\ Call(c, answered, Bound(file[Proj], w, "owner", FALSE)) /\ Born(w)
      /\ todo[c] # <<>> /\ Head(todo[c]) \notin Resolves
      /\ UNCHANGED <<received, lent>>
  BY DEF CreateCall, Calling, At, Resolves, Call
<1>2. Grows /\ w \in Workspaces /\ w \in Known'
  BY <1>1, BornGrows
<1>3. "owner" \in Roles
  BY DEF Roles
<1>4. /\ Backed(Bound(file[Proj], w, "owner", FALSE), hub', received', Known')
      /\ Bound(file[Proj], w, "owner", FALSE).remote # None
  BY <1>2, <1>3, BoundBacked
<1> QED BY <1>1, <1>2, <1>4, CallEffect

LEMMA JoinCallEffect ==
  ASSUME Inv, NEW c \in Commands, NEW answered \in BOOLEAN, JoinCall(c, answered)
  PROVE  Effect
<1> DEFINE role == hub'[Shared].role
<1>1. /\ hub' = [hub EXCEPT ![Shared].role = IF @ = None THEN "member" ELSE @]
      /\ Call(c, answered, Bound(file[Proj], Shared, role, TRUE))
      /\ todo[c] # <<>> /\ Head(todo[c]) \notin Resolves
      /\ owned' = owned \cup (IF hub[Shared].role = "owner" THEN {Shared} ELSE {})
      /\ UNCHANGED <<received, lent>>
  BY DEF JoinCall, Calling, At, Resolves, Call
<1>2. Shared \in Workspaces /\ hub[Shared].role \in Roles \cup {None}
  BY Symbols DEF Inv, Types, TypeOK
<1> DEFINE v == [hub[Shared] EXCEPT !.role = IF hub[Shared].role = None THEN "member"
                                             ELSE hub[Shared].role]
<1>3. /\ hub' = [hub EXCEPT ![Shared] = v] /\ v.source = hub[Shared].source
      /\ v.role \in Roles /\ v.role # "unborn"
      /\ v.role = "owner" => hub[Shared].role = "owner"
      /\ v \in [role : Roles \cup {None, "unborn"}, reach : BOOLEAN,
                source : {None, "us", "them"}]
  BY <1>1, <1>2 DEF Inv, Types, TypeOK, Roles, None
<1> HIDE DEF v
<1>4. Grows
  <2>1. owned \subseteq owned' /\ owned' \subseteq Workspaces
    BY <1>1, <1>2 DEF Inv, Types
  <2>2. UNCHANGED received /\ UNCHANGED lent
    BY <1>1
  <2> QED BY <1>2, <1>3, <2>1, <2>2, HubGrows
<1>5. role = v.role
  BY <1>2, <1>3 DEF Inv, Types, TypeOK
<1>6. role \in Roles /\ (role = "owner" => Shared \in Known')
  BY <1>1, <1>3, <1>5 DEF Known
<1> HIDE DEF role
<1>7. /\ Backed(Bound(file[Proj], Shared, role, TRUE), hub', received', Known')
      /\ Bound(file[Proj], Shared, role, TRUE).remote # None
  BY <1>2, <1>4, <1>6, BoundBacked
<1> QED BY <1>1, <1>4, <1>7, CallEffect

LEMMA InviteCallEffect ==
  ASSUME Inv, NEW c \in Commands, NEW answered \in BOOLEAN, InviteCall(c, answered)
  PROVE  Effect
<1> DEFINE w == held[c].remote
           s == IF held[c].reach THEN file[Proj] ELSE [held[c] EXCEPT !.reach = TRUE]
<1>1. /\ w \in Workspaces /\ Here(w)
      /\ hub' = [hub EXCEPT ![w].reach = TRUE]
      /\ Call(c, answered, s)
      /\ todo[c] # <<>> /\ Head(todo[c]) \notin Resolves
      /\ UNCHANGED <<received, lent, owned>>
  BY WhatIsGranted DEF InviteCall, Calling, At, Resolves, Call
<1> DEFINE v == [hub[w] EXCEPT !.reach = TRUE]
<1>2. /\ hub' = [hub EXCEPT ![w] = v] /\ v.role = hub[w].role /\ v.source = hub[w].source
      /\ v \in [role : Roles \cup {None, "unborn"}, reach : BOOLEAN,
                source : {None, "us", "them"}]
  BY <1>1 DEF Inv, Types, TypeOK
<1> HIDE DEF v
<1>3. Grows
  <2>1. owned \subseteq owned' /\ owned' \subseteq Workspaces
    BY <1>1 DEF Inv, Types
  <2>2. UNCHANGED received /\ UNCHANGED lent
    BY <1>1
  <2>3. hub[w].source = "us" => v.source = "us"
    BY <1>2
  <2> HIDE DEF w, s
  <2> QED BY <1>1, <1>2, <2>1, <2>2, <2>3, HubGrows
<1>4. /\ Backed(held[c], hub', received', Known')
      /\ Backed(file[Proj], hub', received', Known')
  BY <1>3, CopiesKept DEF Inv, Locals
<1>5. Backed(s, hub', received', Known')
  BY <1>4, ReachBacked
<1>6. file[Proj].remote # None => s.remote # None
  BY <1>1, <1>4, Symbols DEF Backed, SyncState
<1> HIDE DEF s, w
<1> QED BY <1>1, <1>3, <1>5, <1>6, CallEffect

LEMMA RegisterCallEffect ==
  ASSUME Inv, NEW c \in Commands, NEW answered \in BOOLEAN, RegisterCall(c, answered)
  PROVE  Effect
<1> DEFINE w == held[c].remote
           s == Registered(held[c], hub[w].source)
<1>1. /\ w \in Workspaces
      /\ hub' = [hub EXCEPT ![w].source = IF @ = None THEN "us" ELSE @]
      /\ Call(c, answered, s)
      /\ todo[c] # <<>> /\ Head(todo[c]) \notin Resolves
      /\ UNCHANGED <<received, lent, owned>>
  BY WhatIsGranted DEF RegisterCall, Calling, At, Resolves, Call
<1> DEFINE v == [hub[w] EXCEPT !.source = IF hub[w].source = None THEN "us"
                                          ELSE hub[w].source]
<1>2. /\ hub' = [hub EXCEPT ![w] = v] /\ v.role = hub[w].role
      /\ hub[w].source # "them" => v.source = "us"
      /\ hub[w].source = "us" => v.source = "us"
      /\ v \in [role : Roles \cup {None, "unborn"}, reach : BOOLEAN,
                source : {None, "us", "them"}]
  BY <1>1 DEF Inv, Types, TypeOK, None
<1> HIDE DEF v
<1>3. Grows
  BY <1>1, <1>2, HubGrows DEF Inv, Types
<1>4. /\ Backed(held[c], hub', received', Known')
      /\ Backed(file[Proj], hub', received', Known')
  BY <1>3, CopiesKept DEF Inv, Locals
<1>5. hub[w].source # "them" => hub'[w].source = "us"
  BY <1>1, <1>2 DEF Inv, Types, TypeOK
<1>6. CASE hub[w].source = "them"
  <2>1. s = file[Proj]
    BY <1>6 DEF Registered
  <2> HIDE DEF s, w
  <2> QED BY <1>1, <1>3, <1>4, <2>1, CallEffect
<1>7. CASE hub[w].source # "them"
  <2>1. s = [held[c] EXCEPT !.registered = held[c].remote]
    BY <1>7 DEF Registered
  <2>2. Backed(s, hub', received', Known')
    <3>1. held[c].remote \in Workspaces /\ hub'[held[c].remote].source = "us"
      BY <1>1, <1>5, <1>7
    <3>2. Backed([held[c] EXCEPT !.registered = held[c].remote], hub', received', Known')
      BY <1>4, <3>1, RegisteredBacked
    <3> HIDE DEF s
    <3> QED BY <2>1, <3>2
  <2>3. s.remote # None
    BY <1>1, <1>4, <2>1, Symbols DEF Backed, SyncState
  <2> HIDE DEF s, w
  <2> QED BY <1>1, <1>3, <2>2, <2>3, CallEffect
<1> QED BY <1>6, <1>7

\* What a role query brings back
LEMMA RefreshedBacked ==
  ASSUME Inv, Grows, NEW c \in Commands, held[c].remote \in Workspaces,
         Here(held[c].remote), Learn(held[c].remote), UNCHANGED lent
  PROVE  LET s == Refreshed(held[c], held[c].remote)
         IN  Backed(s, hub', received', Known') /\ (file[Proj].remote # None => s.remote # None)
<1> DEFINE w == held[c].remote
           s == Refreshed(held[c], w)
           t == [held[c] EXCEPT !.role = hub[w].role, !.reach = hub[w].reach]
<1>1. /\ Backed(held[c], hub', received', Known')
      /\ Backed(file[Proj], hub', received', Known')
  BY CopiesKept DEF Inv, Locals
<1>2. /\ hub[w].role \in Roles \cup {None} /\ hub[w].reach \in BOOLEAN
      /\ hub[w].role = "owner" => w \in Known'
  BY DEF Inv, Types, TypeOK, Here, Learn, Known
<1>3. Backed(t, hub', received', Known')
  BY <1>1, <1>2, RoleBacked
<1>4. t.remote # None
  BY <1>1, Symbols DEF Backed, SyncState
<1>5. s = t \/ s = file[Proj]
  BY DEF Refreshed
<1> HIDE DEF s, t, w
<1>6. Backed(s, hub', received', Known') /\ (file[Proj].remote # None => s.remote # None)
  BY <1>1, <1>3, <1>4, <1>5
<1> QED BY <1>6 DEF s, w

LEMMA RefreshCallEffect ==
  ASSUME Inv, NEW c \in Commands, RefreshCall(c) PROVE Effect
<1> DEFINE s == Refreshed(held[c], held[c].remote)
<1>1. /\ held[c].remote \in Workspaces /\ Here(held[c].remote)
      /\ Call(c, TRUE, s) /\ Learn(held[c].remote)
      /\ todo[c] # <<>> /\ Head(todo[c]) \notin Resolves
      /\ UNCHANGED <<hub, received, lent>>
  BY WhatIsGranted DEF RefreshCall, Calling, At, Resolves, Call
<1>2. Grows
  BY <1>1, GrowsQuiet DEF Inv, Types, Learn
<1>3. Backed(s, hub', received', Known') /\ (file[Proj].remote # None => s.remote # None)
  BY <1>1, <1>2, RefreshedBacked
<1> HIDE DEF s
<1> QED BY <1>1, <1>2, <1>3, CallEffect

-----------------------------------------------------------------------------
(* The owner's gate *)

LEMMA DecideEffect ==
  ASSUME Inv, NEW c \in Commands, NEW answer, Decide(c, answer), Grows, FileStep
  PROVE  Effect
<1>1. Stop(c) /\ Free(c) /\ UNCHANGED key
  BY DEF Decide
<1>2. log' \in [Locals -> 0 .. MaxEvents]
  <2>1. CASE log' = log
    BY <2>1 DEF Inv, Types, TypeOK
  <2>2. CASE log' = [log EXCEPT ![Proj] = IF @ < MaxEvents THEN @ + 1 ELSE @]
    <3>1. Proj \in Locals /\ log[Proj] \in 0 .. MaxEvents
      BY DEF Inv, Types, TypeOK, Locals
    <3>2. (IF log[Proj] < MaxEvents THEN log[Proj] + 1 ELSE log[Proj]) \in 0 .. MaxEvents
      BY <3>1, Symbols
    <3> QED BY <2>2, <3>2 DEF Inv, Types, TypeOK
  <2> QED BY <2>1, <2>2 DEF Decide
<1>3. HeldStep(c) /\ sent' \in [Commands -> 0 .. MaxEvents]
  BY <1>1, FreeStep DEF Inv
<1>4. CommandStep
  BY <1>1, <1>3, StopStep
<1>5. via' \in [Commands -> Wires]
  BY <1>1, GotoTypes DEF Inv, Stop
<1> QED BY <1>1, <1>2, <1>3, <1>4, <1>5 DEF Effect, Rests, Inv, Types, TypeOK

LEMMA GateAnsweredEffect ==
  ASSUME Inv, NEW c \in Commands, GateAnswered(c) PROVE Effect
<1> DEFINE w == held[c].remote
<1>1. CASE w \in Workspaces /\ Here(w)
  <2> DEFINE s == Refreshed(held[c], w)
  <2>1. /\ Decide(c, hub[w].role) /\ file' = [file EXCEPT ![Proj] = s] /\ Learn(w)
        /\ UNCHANGED <<hub, received, lent>>
    BY <1>1 DEF GateAnswered, Decide
  <2>2. Grows
    BY <1>1, <2>1, GrowsQuiet DEF Inv, Types, Learn
  <2>3. Backed(s, hub', received', Known') /\ (file[Proj].remote # None => s.remote # None)
    BY <1>1, <2>1, <2>2, RefreshedBacked
  <2>4. s \in SyncState /\ Proj \in Locals /\ Proj # Diary
    BY <2>3 DEF Backed, Locals, Proj, Diary
  <2> HIDE DEF s, w
  <2>5. FileStep
    BY <2>1, <2>3, <2>4 DEF FileStep, Writes
  <2> QED BY <2>1, <2>2, <2>5, DecideEffect
<1>2. CASE ~ (w \in Workspaces /\ Here(w))
  <2>1. Decide(c, None) /\ UNCHANGED <<file, owned, hub, received, lent>>
    BY <1>2 DEF GateAnswered, Decide
  <2>2. Grows /\ FileStep
    BY <2>1, GrowsQuiet DEF Inv, Types, FileStep
  <2> QED BY <2>1, <2>2, DecideEffect
<1> QED BY <1>1, <1>2

LEMMA GateOfflineEffect ==
  ASSUME Inv, NEW c \in Commands, GateOffline(c) PROVE Effect
<1>1. Decide(c, "silent") /\ UNCHANGED <<file, owned, hub, received, lent>>
  BY DEF GateOffline, Decide
<1>2. Grows /\ FileStep
  BY <1>1, GrowsQuiet DEF Inv, Types, FileStep
<1> QED BY <1>1, <1>2, DecideEffect

\* The word of the Hub, or the cached role of that workspace
LEMMA RetractsKept ==
  ASSUME Inv, OwnerRetracts, Grows, NEW c \in Commands, NEW answer,
         Decide(c, answer), answer # "silent" => answer \in Roles \cup {None}
  PROVE  OwnerRetracts'
<1>1. RoleGiven(held[c], Known)
  BY DEF Inv, Copies, Backed
<1>2. Trusted(held[c].role, answer) =>
        answer = "owner" \/ (answer = "silent" /\ held[c].remote \in owned \cup lent)
  BY <1>1 DEF Trusted, RoleGiven, Known
<1>3. owned \cup lent \subseteq owned' \cup lent'
  BY DEF Grows, Known
<1>4. CASE Trusted(held[c].role, answer)
  <2>1. grants' = grants \cup {<<held[c].remote, answer>>}
    BY <1>4 DEF Decide
  <2> QED BY <1>2, <1>3, <1>4, <2>1 DEF OwnerRetracts
<1>5. CASE ~ Trusted(held[c].role, answer)
  <2>1. grants' = grants
    BY <1>5 DEF Decide
  <2> QED BY <1>3, <2>1 DEF OwnerRetracts
<1> QED BY <1>4, <1>5

-----------------------------------------------------------------------------
(* Transfers *)

\* A push or a pull goes through a copy of the file, with the transport the
\* command was given.
LEMMA ViaBacked ==
  ASSUME Inv, Grows, NEW c \in Commands, NEW s,
         Backed(s, hub', received', Known'), s.remote # None
  PROVE  /\ Backed(Via(c, s), hub', received', Known')
         /\ Via(c, s).remote # None
<1>1. s \in SyncState /\ s.remote \in Remotes
  BY DEF Backed, SyncState
<1>2. via[c] \in Wires
  BY DEF Inv, Types, TypeOK
<1>3. \A p \in Places : received'[p] \in Nat
  BY Symbols DEF Grows
<1>4. s.role = "owner" => s.remote \in Known'
  BY DEF Backed, RoleGiven
<1>5. /\ Backed(Turned(s, s.remote, via[c]), hub', received', Known')
      /\ Turned(s, s.remote, via[c]).remote = s.remote
  BY <1>1, <1>2, <1>3, <1>4, TurnedBacked
<1> QED BY <1>5 DEF Via

\* The file as a push leaves it before its call
LEMMA PushingBacked ==
  ASSUME Inv, Grows, NEW l \in Locals, NEW b \in BOOLEAN
  PROVE  LET s == [file[l] EXCEPT !.remote = IF @ = None THEN Own ELSE @]
             t == [s EXCEPT !.busy = b]
         IN  /\ Backed(s, hub', received', Known') /\ s.remote # None
             /\ Backed(t, hub', received', Known') /\ t.remote # None
             /\ t.role = file[l].role
             /\ file[l].remote # None => Place(t) = Place(file[l])
<1> DEFINE s == [file[l] EXCEPT !.remote = IF @ = None THEN Own ELSE @]
           t == [s EXCEPT !.busy = b]
<1>1. file[l] \in SyncState /\ Backed(file[l], hub', received', Known')
  BY CopiesKept DEF Inv, Types, TypeOK
<1>2. None \notin Known' /\ \A p \in Places : received'[p] \in Nat
  BY Symbols DEF Grows, Known
<1>3. /\ Backed(s, hub', received', Known') /\ s.remote # None
      /\ s.role = file[l].role /\ s.wire = file[l].wire
      /\ file[l].remote # None => s.remote = file[l].remote
  <2>1. CASE file[l].remote = None
    <3>1. s = [file[l] EXCEPT !.remote = Own]
      BY <2>1
    <3>2. s.role = file[l].role /\ s.wire = file[l].wire
      BY <1>1 DEF SyncState
    <3> HIDE DEF s
    <3> QED BY <1>1, <1>2, <2>1, <3>1, <3>2, OwnBacked, Symbols
  <2>2. CASE file[l].remote # None
    <3>1. s = file[l]
      BY <1>1, <2>2 DEF SyncState
    <3> HIDE DEF s
    <3> QED BY <1>1, <2>2, <3>1
  <2> QED BY <2>1, <2>2
<1> HIDE DEF s
<1>4. /\ Backed(t, hub', received', Known') /\ t.remote = s.remote /\ t.wire = s.wire
      /\ t.role = s.role
  BY <1>3, BusyBacked
<1> HIDE DEF t
<1> QED BY <1>3, <1>4 DEF s, t, Place

LEMMA PushEffect ==
  ASSUME Inv, NEW c \in Commands, Push(c) PROVE Effect
<1> DEFINE l == StoreOf(c)
           s == [file[l] EXCEPT !.remote = IF @ = None THEN Own ELSE @]
           through == Via(c, s)
           idle == [s EXCEPT !.busy = FALSE]
           busy == [s EXCEPT !.busy = TRUE]
           call == IF l = Proj THEN "push!" ELSE "pushDiary!"
<1>1. /\ todo[c] # <<>> /\ Head(todo[c]) \in {"push", "pushDiary"}
      /\ Head(todo[c]) \notin Resolves
      /\ l \in Locals /\ Proj # Diary
      /\ l = Diary <=> Head(todo[c]) \in OfDiary
  BY DEF Push, At, StoreOf, Locals, Proj, Diary, Resolves, OfDiary
<1>2. /\ Local /\ UNCHANGED key
      /\ \/ Stop(c) /\ UNCHANGED <<file, held, sent>>
         \/ Done(c) /\ file' = [file EXCEPT ![l] = idle] /\ UNCHANGED <<held, sent>>
         \/ /\ Goto(c, <<call>> \o Rest(c))
            /\ file' = [file EXCEPT ![l] = busy]
            /\ held' = [held EXCEPT ![c] = through]
            /\ sent' = [sent EXCEPT ![c] = log[l]]
            /\ through.wire # None
  BY DEF Push
<1>3. Grows
  BY <1>2, GrowsQuiet DEF Inv, Types, Local, Quiet, past
<1>4. /\ Backed(s, hub', received', Known') /\ s.remote # None
      /\ Backed(idle, hub', received', Known') /\ idle.remote # None
      /\ Backed(busy, hub', received', Known') /\ busy.remote # None
      /\ idle.role = file[l].role /\ busy.role = file[l].role
      /\ file[l].remote # None => Place(idle) = Place(file[l]) /\ Place(busy) = Place(file[l])
  BY <1>1, <1>3, PushingBacked
<1>5. Backed(through, hub', received', Known') /\ through.remote # None
  <2> HIDE DEF s
  <2> QED BY <1>3, <1>4, ViaBacked
<1>6. l = Diary => DiaryBound /\ file[l].remote # None /\ file[l].role = None
  <2>1. l = Diary => DiaryBound
    BY <1>1, ResolvedFirst DEF Inv, Lists
  <2> QED BY <2>1, Symbols DEF DiaryBound, Place, Inv, DiaryState
<1>7. call \in Steps /\ (call \in OfDiary => l = Diary) /\ call \notin Resolves
      /\ (call \in {"push!", "pull!"} => l = Proj)
  BY <1>1 DEF Steps, Calls, OfDiary, Resolves, Locals
<1> HIDE DEF s, through, idle, busy, call, l
<1>8. idle \in SyncState /\ busy \in SyncState /\ through \in SyncState
  BY <1>4, <1>5 DEF Backed
<1>9. \A t \in {idle, busy} : file' = [file EXCEPT ![l] = t] => Writes(l, t)
  BY <1>4, <1>6 DEF Writes, DiaryBound
<1>10. FileStep
  BY <1>1, <1>2, <1>8, <1>9 DEF FileStep
<1>11. HeldStep(c)
  BY <1>2, <1>5, <1>8 DEF HeldStep
<1>12. CommandStep
  <2>1. CASE Stop(c)
    BY <1>11, <2>1, StopStep
  <2>2. CASE Done(c)
    BY <1>1, <1>10, <1>11, <2>2, DoneStep DEF Inv
  <2>3. CASE /\ Goto(c, <<call>> \o Rest(c))
             /\ file' = [file EXCEPT ![l] = busy]
             /\ held' = [held EXCEPT ![c] = through]
             /\ through.wire # None
    <3>1. Place(held'[c]) \in Places
      BY <1>5, <1>8, <2>3, PlaceIn DEF Inv, Types, TypeOK
    <3>2. l = Proj => file'[Proj].remote # None
      BY <1>1, <1>4, <2>3 DEF Inv, Types, TypeOK
    <3>3. call \in {"push!", "pull!"} => file'[Proj].remote # None
      BY <1>7, <3>2
    <3> QED BY <1>1, <1>7, <1>10, <1>11, <2>3, <3>1, <3>3, SwapStep DEF Inv
  <2> QED BY <1>2, <2>1, <2>2, <2>3
<1>13. via' \in [Commands -> Wires]
  BY <1>2, GotoTypes DEF Inv, Done, Stop
<1>14. sent' \in [Commands -> 0 .. MaxEvents]
  BY <1>1, <1>2 DEF Inv, Types, TypeOK
<1>15. log' = log
  BY <1>2 DEF Local, Quiet
<1> QED BY <1>2, <1>3, <1>10, <1>12, <1>13, <1>14, <1>15 DEF Effect, Rests, Inv, Types, TypeOK

LEMMA PullEffect ==
  ASSUME Inv, NEW c \in Commands, Pull(c) PROVE Effect
<1> DEFINE l == StoreOf(c)
           through == Via(c, file[l])
           call == IF l = Proj THEN "pull!" ELSE "pullDiary!"
<1>1. /\ todo[c] # <<>> /\ Head(todo[c]) \in {"pull", "pullDiary"}
      /\ Head(todo[c]) \notin Resolves
      /\ l \in Locals /\ Proj # Diary
      /\ l = Diary <=> Head(todo[c]) \in OfDiary
  BY DEF Pull, At, StoreOf, Locals, Proj, Diary, Resolves, OfDiary
<1>2. /\ Local /\ UNCHANGED <<file, key, sent>>
      /\ \/ Stop(c) /\ UNCHANGED held
         \/ /\ Goto(c, <<call>> \o Rest(c))
            /\ held' = [held EXCEPT ![c] = through]
            /\ file[l].remote # None /\ through.wire # None
  BY DEF Pull
<1>3. /\ Grows /\ FileStep
      /\ log' \in [Locals -> 0 .. MaxEvents] /\ key' \in {"none", "good", "revoked"}
  BY <1>2, LocalStep
<1>4. file[l].remote # None =>
        /\ Backed(through, hub', received', Known') /\ through.remote # None
        /\ through \in SyncState
  <2>1. Backed(file[l], hub', received', Known')
    BY <1>1, <1>3, CopiesKept DEF Inv
  <2>2. file[l].remote # None =>
          Backed(through, hub', received', Known') /\ through.remote # None
    BY <1>3, <2>1, ViaBacked
  <2> QED BY <2>2 DEF Backed
<1>5. call \in Steps /\ (call \in OfDiary => l = Diary) /\ call \notin Resolves
      /\ (call \in {"push!", "pull!"} => l = Proj)
  BY <1>1 DEF Steps, Calls, OfDiary, Resolves, Locals
<1> HIDE DEF through, call, l
<1>6. HeldStep(c)
  BY <1>2, <1>4 DEF HeldStep
<1>7. CommandStep
  <2>1. CASE Stop(c)
    BY <1>6, <2>1, StopStep
  <2>2. CASE /\ Goto(c, <<call>> \o Rest(c))
             /\ held' = [held EXCEPT ![c] = through]
             /\ file[l].remote # None /\ through.wire # None
    <3>1. Place(held'[c]) \in Places
      BY <1>4, <2>2, PlaceIn DEF Inv, Types, TypeOK
    <3>2. call \in {"push!", "pull!"} => file'[Proj].remote # None
      BY <1>2, <1>5, <2>2
    <3> QED BY <1>1, <1>3, <1>5, <1>6, <2>2, <3>1, <3>2, SwapStep DEF Inv
  <2> QED BY <1>2, <2>1, <2>2
<1>8. via' \in [Commands -> Wires]
  BY <1>2, GotoTypes DEF Inv, Stop
<1> QED BY <1>2, <1>3, <1>7, <1>8 DEF Effect, Rests, Inv, Types, TypeOK

\* A transfer under way goes from a store that has a remote to a place.
LEMMA UnderWay ==
  ASSUME Inv, NEW c \in Commands,
         todo[c] # <<>>, Head(todo[c]) \in Transfers
  PROVE  /\ StoreOf(c) \in Locals /\ Head(todo[c]) \notin Resolves
         /\ Place(held[c]) \in Places
         /\ file[StoreOf(c)].remote # None
         /\ StoreOf(c) = Diary => DiaryBound /\ file[Diary].role = None
<1>1. ListOk(todo[c], held[c], file[Proj].remote, DiaryBound)
  BY DEF Inv, Lists
<1>2. CASE Head(todo[c]) \in OfDiary
  <2>1. DiaryBound /\ StoreOf(c) = Diary
    BY <1>1, <1>2, ResolvedFirst DEF StoreOf, OfDiary
  <2> QED BY <1>1, <2>1, Symbols DEF ListOk, DiaryBound, Place, Inv, DiaryState, Locals,
             Transfers, Resolves
<1>3. CASE Head(todo[c]) \notin OfDiary
  <2>1. StoreOf(c) = Proj /\ Head(todo[c]) \in {"push!", "pull!"} /\ Proj # Diary
    BY <1>3 DEF StoreOf, OfDiary, Transfers, Proj, Diary
  <2> QED BY <1>1, <2>1 DEF ListOk, Locals, Transfers, Resolves
<1> QED BY <1>2, <1>3

\* A store that has a remote, written when its transfer is over
LEMMA TransferWrites ==
  ASSUME Inv, NEW l \in Locals, NEW t, file' = [file EXCEPT ![l] = t],
         Backed(t, hub', received', Known'),
         t.remote = file[l].remote, t.wire = file[l].wire, t.role = file[l].role,
         file[l].remote # None, l = Diary => DiaryBound /\ file[Diary].role = None
  PROVE  FileStep
<1>1. Writes(l, t)
  BY DEF Writes, DiaryBound, Place
<1> QED BY <1>1 DEF FileStep, Backed

LEMMA PushCallEffect ==
  ASSUME Inv, NEW c \in Commands, NEW answered \in BOOLEAN, PushCall(c, answered)
  PROVE  Effect
<1> DEFINE l == StoreOf(c)
           place == Place(held[c])
           whole == received[place] >= held[c].pushed
           got == IF whole /\ sent[c] > received[place] THEN sent[c] ELSE received[place]
           t == [file[l] EXCEPT !.pushed = sent[c], !.busy = FALSE,
                                !.astray = @ \/ held[c].astray \/ Place(file[l]) # place]
<1>1. /\ todo[c] # <<>> /\ Head(todo[c]) \in Transfers
      /\ Head(todo[c]) \notin Resolves
      /\ l \in Locals /\ place \in Places /\ file[l].remote # None
      /\ l = Diary => DiaryBound /\ file[Diary].role = None
  BY UnderWay DEF PushCall, Calling, At, Transfers
<1>2. /\ received' = [received EXCEPT ![place] = got]
      /\ \/ /\ Done(c)
            /\ file' = [file EXCEPT ![l].pushed = sent[c], ![l].busy = FALSE,
                          ![l].astray = @ \/ held[c].astray \/ Place(file[l]) # place]
         \/ Stop(c) /\ UNCHANGED file
      /\ Quiet /\ Free(c) /\ UNCHANGED <<key, hub>>
  BY DEF PushCall
<1>3. /\ sent[c] \in 0 .. MaxEvents /\ received[place] \in 0 .. MaxEvents
      /\ file[l] \in SyncState /\ held[c] \in SyncState
      /\ file[l].pushed \in 0 .. MaxEvents /\ held[c].pushed \in 0 .. MaxEvents
  BY <1>1 DEF Inv, Types, TypeOK, SyncState
<1>4. /\ got \in 0 .. MaxEvents /\ received[place] <= got
      /\ received[place] >= held[c].pushed => sent[c] <= got
  BY <1>3, Symbols
<1> HIDE DEF got
<1>5. Grows
  <2>1. /\ received' \in [Places -> 0 .. MaxEvents]
        /\ \A p \in Places : received[p] <= received'[p]
    BY <1>1, <1>2, <1>4, Symbols DEF Inv, Types, TypeOK
  <2> QED BY <1>2, <2>1 DEF Inv, Types, TypeOK, Grows, Known, Quiet, past
<1>6. ASSUME file' = [file EXCEPT ![l].pushed = sent[c], ![l].busy = FALSE,
                        ![l].astray = @ \/ held[c].astray \/ Place(file[l]) # place]
      PROVE  FileStep
  <2>1. file' = [file EXCEPT ![l] = t]
    BY <1>1, <1>6 DEF Inv, Types, TypeOK
  <2>2. /\ t \in SyncState /\ t.remote = file[l].remote /\ t.wire = file[l].wire
        /\ t.role = file[l].role /\ t.registered = file[l].registered
        /\ t.pushed = sent[c] /\ t.pulled = file[l].pulled
        /\ t.astray = (file[l].astray \/ held[c].astray \/ Place(file[l]) # place)
    BY <1>3 DEF SyncState
  <2> HIDE DEF t
  <2>3. /\ Backed(file[l], hub', received', Known')
        /\ Backed(file[l], hub, received, Known) /\ Backed(held[c], hub, received, Known)
    BY <1>1, <1>5, CopiesKept DEF Inv, Copies
  <2>4. ASSUME ~ t.astray, Place(t) \in Places
        PROVE  t.pushed <= received'[Place(t)] /\ t.pulled \in {Nowhere, Place(t)}
    <3>1. ~ file[l].astray /\ ~ held[c].astray /\ Place(file[l]) = place
          /\ Place(t) = place
      BY <2>2, <2>4 DEF Place
    <3>2. held[c].pushed <= received[place]
      BY <1>1, <2>3, <3>1 DEF Backed, Marks
    <3>3. sent[c] <= received'[place]
      BY <1>1, <1>2, <1>3, <1>4, <3>2 DEF Inv, Types, TypeOK
    <3>4. file[l].pulled \in {Nowhere, place}
      BY <1>1, <2>3, <3>1 DEF Backed, Marks
    <3> QED BY <2>2, <3>1, <3>3, <3>4
  <2>5. Backed(t, hub', received', Known')
    BY <1>1, <2>2, <2>3, <2>4 DEF Backed, Registers, RoleGiven, Marks
  <2> QED BY <1>1, <2>1, <2>2, <2>5, TransferWrites
<1>8. FileStep /\ (Done(c) \/ Stop(c))
  BY <1>2, <1>6 DEF FileStep
<1> HIDE DEF l, place, t
<1>9. HeldStep(c) /\ sent' \in [Commands -> 0 .. MaxEvents]
  BY <1>2, FreeStep DEF Inv
<1>10. CommandStep
  BY <1>1, <1>8, <1>9, DoneStep, StopStep DEF Inv
<1>11. via' \in [Commands -> Wires]
  BY <1>8, GotoTypes DEF Inv, Done, Stop
<1> QED BY <1>2, <1>5, <1>8, <1>9, <1>10, <1>11 DEF Effect, Rests, Inv, Types, TypeOK,
       Quiet

LEMMA PullCallEffect ==
  ASSUME Inv, NEW c \in Commands, PullCall(c) PROVE Effect
<1> DEFINE l == StoreOf(c)
           place == Place(held[c])
           t == [file[l] EXCEPT !.busy = FALSE,
                  !.pulled = IF received[place] > 0 THEN place ELSE @,
                  !.astray = @ \/ (received[place] > 0 /\ Place(file[l]) # place)]
<1>1. /\ todo[c] # <<>> /\ Head(todo[c]) \in Transfers
      /\ Head(todo[c]) \notin Resolves
      /\ l \in Locals /\ place \in Places /\ file[l].remote # None
      /\ l = Diary => DiaryBound /\ file[Diary].role = None
  BY UnderWay DEF PullCall, Calling, At, Transfers
<1>2. /\ Done(c) /\ Quiet /\ Free(c) /\ UNCHANGED <<key, hub, received>>
      /\ file' = [file EXCEPT
              ![l].busy = FALSE,
              ![l].pulled = IF received[place] > 0 THEN place ELSE @,
              ![l].astray = @ \/ (received[place] > 0 /\ Place(file[l]) # place)]
  BY DEF PullCall
<1>3. file[l] \in SyncState
  BY <1>1 DEF Inv, Types, TypeOK
<1>4. Grows
  BY <1>2, GrowsQuiet DEF Inv, Types, Quiet, past
<1>5. FileStep
  <2>1. file' = [file EXCEPT ![l] = t]
    BY <1>1, <1>2 DEF Inv, Types, TypeOK
  <2>2. /\ t \in SyncState /\ t.remote = file[l].remote /\ t.wire = file[l].wire
        /\ t.role = file[l].role /\ t.registered = file[l].registered
        /\ t.pushed = file[l].pushed
        /\ t.pulled = IF received[place] > 0 THEN place ELSE file[l].pulled
        /\ t.astray = (file[l].astray \/ (received[place] > 0 /\ Place(file[l]) # place))
    BY <1>1, <1>3 DEF SyncState
  <2> HIDE DEF t
  <2>3. Backed(file[l], hub', received', Known')
    BY <1>1, <1>4, CopiesKept DEF Inv
  <2>4. Place(t) = Place(file[l])
    BY <2>2 DEF Place
  <2>5. ASSUME ~ t.astray, Place(t) \in Places
        PROVE  t.pushed <= received'[Place(t)] /\ t.pulled \in {Nowhere, Place(t)}
    BY <2>2, <2>3, <2>4, <2>5 DEF Backed, Marks
  <2>6. Backed(t, hub', received', Known')
    BY <1>1, <2>2, <2>3, <2>5 DEF Backed, Registers, RoleGiven, Marks
  <2> QED BY <1>1, <2>1, <2>2, <2>6, TransferWrites
<1> HIDE DEF l, place, t
<1>6. HeldStep(c) /\ sent' \in [Commands -> 0 .. MaxEvents]
  BY <1>2, FreeStep DEF Inv
<1>7. CommandStep
  BY <1>1, <1>2, <1>5, <1>6, DoneStep DEF Inv
<1>8. via' \in [Commands -> Wires]
  BY <1>2, GotoTypes DEF Inv, Done
<1> QED BY <1>2, <1>4, <1>5, <1>6, <1>7, <1>8 DEF Effect, Rests, Inv, Types, TypeOK,
       Quiet

\* The personal store is bound once and for all.
LEMMA ResolveCallEffect ==
  ASSUME Inv, NEW c \in Commands, ResolveCall(c) PROVE Effect
<1> DEFINE s == file[Diary]
           t == [s EXCEPT !.remote = Psm, !.wire = "hub"]
<1>1. /\ todo[c] # <<>> /\ Done(c) /\ Local /\ Free(c) /\ UNCHANGED key
      /\ file' = [file EXCEPT ![Diary].remote = Psm, ![Diary].wire = "hub"]
      /\ Diary \in Locals /\ Diary # Proj
  BY DEF ResolveCall, Calling, At, Locals, Proj, Diary
<1>2. Grows
  BY <1>1, GrowsQuiet DEF Inv, Types, Local, Quiet, past
<1>3. s \in SyncState /\ Backed(s, hub', received', Known')
  BY <1>1, <1>2, CopiesKept DEF Inv, Types, TypeOK
<1>4. s.role = None /\ (s.remote = None \/ (s.wire = "hub" /\ s.remote = Psm))
  BY DEF Inv, DiaryState, DiaryBound, Place
<1>5. file' = [file EXCEPT ![Diary] = t]
  BY <1>1 DEF Inv, Types, TypeOK
<1>6. /\ t \in SyncState /\ t.remote = Psm /\ t.wire = "hub"
      /\ t.role = s.role /\ t.registered = s.registered /\ t.astray = s.astray
      /\ t.pushed = s.pushed /\ t.pulled = s.pulled
  BY <1>3 DEF SyncState, Remotes, Wires
<1> HIDE DEF t, s
<1>7. Marks(t, received')
  <2>1. CASE s.remote = None
    <3>1. Fresh(t)
      BY <1>3, <1>6, <2>1 DEF Backed, Marks, Fresh
    <3>2. \A p \in Places : 0 <= received'[p]
      BY <1>2, Symbols DEF Grows
    <3> QED BY <3>1, <3>2 DEF Marks, Fresh
  <2>2. CASE s.wire = "hub" /\ s.remote = Psm
    BY <1>3, <1>6, <2>2 DEF Backed, Marks, Fresh, Place
  <2> QED BY <1>4, <2>1, <2>2
<1>8. Backed(t, hub', received', Known')
  BY <1>3, <1>4, <1>6, <1>7 DEF Backed, Registers, RoleGiven, None
<1>9. Writes(Diary, t)
  BY <1>1, <1>4, <1>5, <1>6, <1>8, Symbols DEF Writes, Place, s
<1>10. FileStep /\ DiaryBound'
  BY <1>1, <1>5, <1>6, <1>9 DEF FileStep, DiaryBound, Place, Inv, Types, TypeOK
<1>11. HeldStep(c) /\ sent' \in [Commands -> 0 .. MaxEvents]
  BY <1>1, FreeStep DEF Inv
<1>12. CommandStep
  BY <1>1, <1>10, <1>11, DoneStep DEF Inv
<1>13. via' \in [Commands -> Wires]
  BY <1>1, GotoTypes DEF Inv, Done
<1> QED BY <1>1, <1>2, <1>10, <1>11, <1>12, <1>13 DEF Effect, Rests, Inv, Types, TypeOK,
       Local, Quiet

-----------------------------------------------------------------------------
(* The theorems *)

LEMMA InitHolds == Init => WorkspaceInv
<1> SUFFICES ASSUME Init PROVE WorkspaceInv
  OBVIOUS
<1>1. Unsynced \in SyncState /\ Backed(Unsynced, hub, received, Known)
  BY UnsyncedBacked DEF Backed
<1>2. Types
  <2>1. hub \in [Workspaces -> [role : Roles \cup {None, "unborn"},
                                reach : BOOLEAN, source : {None, "us", "them"}]]
        /\ hub[Shared].role # "unborn"
    BY Symbols DEF Init, None
  <2>2. /\ log \in [Locals -> 0 .. MaxEvents]
        /\ sent \in [Commands -> 0 .. MaxEvents]
        /\ received \in [Places -> 0 .. MaxEvents]
    BY WorkspaceAssumption DEF Init
  <2> QED BY <1>1, <2>1, <2>2 DEF Init, Types, TypeOK, Wires
<1>3. Copies
  BY <1>1 DEF Init, Copies
<1>4. Lists
  BY EmptyOk DEF Init, Lists
<1>5. DiaryState
  BY DEF Init, DiaryState, Unsynced, Locals, Diary
<1>6. OwnerRetracts
  BY DEF Init, OwnerRetracts
<1> QED BY <1>2, <1>3, <1>4, <1>5, <1>6 DEF WorkspaceInv

\* Every step does what Effect says, and only the gate adds a retraction.
LEMMA NextEffect ==
  ASSUME Inv, Next PROVE Effect
BY WriteEffect, HubEffect, RevokeEffect, StartsEffect, CliSyncEffect, CliBindEffect,
   CliRemoteEffect, FailEffect, ReadsEffect, IdleEffect, KeyEffect, BackfillEffect,
   MigrateEffect, CreateCallEffect, JoinCallEffect, InviteCallEffect,
   RegisterCallEffect, RefreshCallEffect, GateAnsweredEffect, GateOfflineEffect,
   PushEffect, PushCallEffect, PullEffect, PullCallEffect, ResolveCallEffect
DEF Next

LEMMA RetractsStep ==
  ASSUME Inv, OwnerRetracts, Next PROVE OwnerRetracts'
<1>1. Grows
  BY NextEffect DEF Effect
<1>2. CASE grants' = grants
  BY <1>1, <1>2 DEF OwnerRetracts, Grows, Known
<1>3. ASSUME NEW c \in Commands, GateAnswered(c) PROVE OwnerRetracts'
  <2>1. PICK answer \in Roles \cup {None} : Decide(c, answer)
    BY <1>3 DEF GateAnswered, Here, None
  <2> QED BY <1>1, <2>1, RetractsKept
<1>4. ASSUME NEW c \in Commands, GateOffline(c) PROVE OwnerRetracts'
  BY <1>1, <1>4, RetractsKept DEF GateOffline
<1> USE DEF past, Quiet, Local
<1>5. ASSUME \/ Write \/ RevokeKey
             \/ \E w \in Workspaces : \/ RemoveMember(w) \/ Claim(w)
                                     \/ \E role \in Roles : SetRole(w, role)
      PROVE  grants' = grants
  BY <1>5 DEF Write, RevokeKey, RemoveMember, Claim, SetRole, HubChange
<1>6. ASSUME NEW c \in Commands,
             \/ AutoPush(c) \/ AutoPull(c) \/ CliCreate(c) \/ CliJoin(c)
             \/ CliInvite(c) \/ CliRetract(c) \/ CliPersonal(c) \/ CliLogin(c)
             \/ CliLogout(c) \/ \E wire \in Wires : CliSync(c, wire)
             \/ \E w \in Workspaces : CliBind(c, w) \/ CliRemote(c, w)
      PROVE  grants' = grants
  BY <1>6 DEF AutoPush, AutoPull, CliCreate, CliJoin, CliInvite, CliRetract,
     CliPersonal, CliLogin, CliLogout, CliSync, CliBind, CliRemote, Run, RunVia
<1>7. ASSUME NEW c \in Commands,
             \/ Reconcile(c) \/ Create(c) \/ Join(c) \/ Invite(c) \/ Register(c)
             \/ Refresh(c) \/ Gate(c) \/ Resolve(c) \/ Idle(c) \/ Push(c) \/ Pull(c)
             \/ CallFails(c) \/ Kill(c) \/ Store(c) \/ Fill(c) \/ Logout(c)
             \/ \E refused \in BOOLEAN : Probe(c, refused)
      PROVE  grants' = grants
  BY <1>7 DEF Reconcile, Create, Join, Invite, Register, Refresh, Gate, Resolve,
     Idle, Push, Pull, CallFails, Kill, Store, Fill, Logout, Probe, Hold, HoldOrStop
<1>8. ASSUME NEW c \in Commands,
             \/ Backfill(c) \/ RefreshCall(c) \/ PullCall(c) \/ ResolveCall(c)
             \/ \E answered \in BOOLEAN :
                  \/ JoinCall(c, answered) \/ InviteCall(c, answered)
                  \/ RegisterCall(c, answered) \/ PushCall(c, answered)
                  \/ \E w \in Minted : Migrate(c, w, answered) \/ CreateCall(c, w, answered)
      PROVE  grants' = grants
  BY <1>8 DEF Backfill, RefreshCall, PullCall, ResolveCall, JoinCall, InviteCall,
     RegisterCall, PushCall, Migrate, CreateCall, Call
<1> QED BY <1>2, <1>3, <1>4, <1>5, <1>6, <1>7, <1>8 DEF Next

LEMMA StepKeeps == WorkspaceInv /\ [Next]_vars => WorkspaceInv'
<1> SUFFICES ASSUME WorkspaceInv, [Next]_vars PROVE WorkspaceInv'
  OBVIOUS
<1>1. CASE Next
  <2>1. Inv
    BY DEF WorkspaceInv, Inv
  <2>2. Types' /\ Lists' /\ DiaryState' /\ Copies'
    BY <1>1, <2>1, NextEffect, EffectKeeps DEF Inv
  <2>3. OwnerRetracts'
    BY <1>1, <2>1, RetractsStep DEF WorkspaceInv
  <2> QED BY <2>2, <2>3 DEF WorkspaceInv
<1>2. CASE UNCHANGED vars
  <2> USE <1>2 DEF vars, work, past, bounds, WorkspaceInv
  <2>1. Types'
    BY DEF Types, TypeOK
  <2>2. Lists' /\ DiaryState'
    BY DEF Lists, DiaryState, DiaryBound
  <2>3. Copies' /\ OwnerRetracts'
    BY DEF Copies, OwnerRetracts, Known
  <2> QED BY <2>1, <2>2, <2>3
<1> QED BY <1>1, <1>2

THEOREM Invariant == Spec => []WorkspaceInv
BY InitHolds, StepKeeps, PTL DEF Spec

\* Type correctness: the file, and every copy of it that a command has read,
\* is a sync state.
THEOREM TypesHold == Spec => []TypeOK
BY Invariant, PTL DEF WorkspaceInv, Types

\* markPushed and markPulled say what the remote has: below the push
\* watermark nothing is missing there, and the cursor is of that remote,
\* whatever copies are written back, unless the watermarks are astray.
THEOREM PublishedHolds == Spec => []Published
<1>1. WorkspaceInv => Published
  BY DEF WorkspaceInv, Copies, Backed, Marks, Published, Belongs
<1> QED BY <1>1, Invariant, PTL

\* requireOwnerForGlobalRetract lets a retraction through on the word of the
\* Hub alone, or on a role that the Hub gave for that workspace before.
THEOREM OwnerRetractsHolds == Spec => []OwnerRetracts
BY Invariant, PTL DEF WorkspaceInv

\* A workspace that the file says the project is registered with has its
\* events attributed to this account.
THEOREM AttributedHolds == Spec => []Attributed
<1>1. WorkspaceInv => Attributed
  BY DEF WorkspaceInv, Copies, Backed, Registers, Attributed, Locals
<1> QED BY <1>1, Invariant, PTL

===============================================================================
