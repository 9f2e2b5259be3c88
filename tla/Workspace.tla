----------------------------- MODULE Workspace -----------------------------
(***************************************************************************)
(* Where a project is synced to: services/workspace-service.ts, the        *)
(* commands of cli/commands/workspace.ts, project.ts (sync, remote),       *)
(* personal.ts and auth.ts, the sync boundaries of services/               *)
(* auto-sync-service.ts, services/personal-sync-service.ts and the calls   *)
(* to the Hub of adapters/sync-transport-http.ts.                          *)
(*                                                                         *)
(* The binding, the transport, the role cache and the watermarks of a      *)
(* project are one JSON file.  A command reads it, calls the Hub, and      *)
(* writes what it read with its change back; no lock is held meanwhile.    *)
(* What is read and written with no call to the Hub between is one step    *)
(* here.  A step "x" reads the file; the step "x!" that follows is the     *)
(* call, its effect on the Hub and the write.                              *)
(***************************************************************************)
EXTENDS Naturals, Sequences, FiniteSets

CONSTANTS
  Commands,      \* processes
  Minted,        \* the workspaces the Hub mints for this account
  Shared,        \* the workspace of another account
  Psm,           \* the personal store of this account
  MaxEvents, MaxRuns, MaxUpsets     \* bounds

None == "none"
Nowhere == <<None, None>>
Own == "own"             \* remoteProjectId = the local id of the project
Proj == "project"
Diary == "diary"         \* the personal store
Locals == {Proj, Diary}
Workspaces == Minted \cup {Shared}
Remotes == Workspaces \cup {None, Own, Psm}
Wires == {None, "file", "hub"}
Roles == {"owner", "member"}
Places == (Wires \ {None}) \X (Remotes \ {None})

ASSUME WorkspaceAssumption ==
  /\ Shared \notin Minted /\ Psm \notin Workspaces
  /\ {None, Own} \cap (Workspaces \cup {Psm}) = {}
  /\ {MaxEvents, MaxRuns, MaxUpsets} \subseteq Nat /\ MaxEvents > 0

VARIABLES
  log,           \* local store -> number of its events
  file,          \* local store -> its sync state
  key,           \* the credential of the Hub: "none", "good" or "revoked"
  hub,           \* workspace -> what the Hub knows of this account in it
  received,      \* <<wire, remote>> -> how many events of the store it has
  todo,          \* command -> the steps it has left
  via,           \* command -> the transport it was given, for its pushes
  held,          \* command -> the sync state it has read
  sent,          \* command -> how many events its push covers
  runs, upsets,
  lent,          \* history: workspaces bound with the role cached for another
  owned,         \* history: workspaces the Hub ever called this account owner of
  grants         \* history: the retractions of others' memories let through

work == <<todo, via, held, sent>>
past == <<lent, owned, grants>>
bounds == <<runs, upsets>>
vars == <<log, file, key, hub, received, work, bounds, past>>

\* The field astray is no field of the file.  It marks watermarks that came
\* from another remote: kept by a command that bound this one, or moved by a
\* push or a pull that was under way when the remote changed, or by a push that
\* had begun at such a watermark.
Unsynced ==
  [remote |-> None, role |-> None, reach |-> FALSE, registered |-> None,
   wire |-> None, pushed |-> 0, pulled |-> Nowhere, busy |-> FALSE, astray |-> FALSE]

Place(s) == <<s.wire, s.remote>>

\* getWorkspaceBinding needs both: a remote alone is the older kind.
IsBound(s) == s.remote # None /\ s.role # None

\* requireWorkspaceContext, and readToken where there is no binding yet
Reachable(s) == s.wire = "hub" /\ key # "none"

-----------------------------------------------------------------------------
(* The Hub, as the client uses it *)

Here(w) == hub[w].role \in Roles

Unminted == {w \in Minted : hub[w].role = "unborn"}

Accepts(place) ==
  \/ place[1] = "file"
  \/ place[1] = "hub" /\ place[2] = Psm
  \/ place[1] = "hub" /\ place[2] \in Workspaces /\ Here(place[2])

SyncState ==
  [remote : Remotes, role : Roles \cup {None}, reach : BOOLEAN,
   registered : Workspaces \cup {None}, wire : Wires,
   pushed : 0 .. MaxEvents, pulled : Places \cup {Nowhere},
   busy : BOOLEAN, astray : BOOLEAN]

TypeOK ==
  /\ log \in [Locals -> 0 .. MaxEvents]
  /\ file \in [Locals -> SyncState]
  /\ held \in [Commands -> SyncState]
  /\ sent \in [Commands -> 0 .. MaxEvents]
  /\ via \in [Commands -> Wires]
  /\ key \in {"none", "good", "revoked"}
  /\ hub \in [Workspaces -> [role : Roles \cup {None, "unborn"},
                             reach : BOOLEAN, source : {None, "us", "them"}]]
  /\ received \in [Places -> 0 .. MaxEvents]

Init ==
  /\ log = [l \in Locals |-> IF l = Proj THEN 0 ELSE 1]
  /\ file = [l \in Locals |-> Unsynced]
  /\ key = "good"
  /\ hub = [w \in Workspaces |->
              [role |-> IF w = Shared THEN None ELSE "unborn",
               reach |-> w = Shared, source |-> None]]
  /\ received = [p \in Places |-> 0]
  /\ todo = [c \in Commands |-> <<>>]
  /\ via = [c \in Commands |-> None]
  /\ held = [c \in Commands |-> Unsynced]
  /\ sent = [c \in Commands |-> 0]
  /\ runs = 0 /\ upsets = 0
  /\ lent = {} /\ owned = {} /\ grants = {}

\* Events are appended by sessions all the time.
Write ==
  /\ log[Proj] < MaxEvents
  /\ log' = [log EXCEPT ![Proj] = @ + 1]
  /\ UNCHANGED <<file, key, hub, received, work, bounds, past>>

\* What happens to the commands: the Hub changes its mind, a call is lost, a
\* process is killed.
Upset == upsets < MaxUpsets /\ upsets' = upsets + 1 /\ UNCHANGED runs

-----------------------------------------------------------------------------
(* Other members, and the Hub's own operators *)

HubChange(w, change) ==
  /\ Upset
  /\ hub' = [hub EXCEPT ![w] = change]
  /\ UNCHANGED <<log, file, key, received, work, past>>

\* setWorkspaceMemberRole, by another owner; once another account is one, it
\* may demote or remove this account as well.
SetRole(w, role) ==
  /\ Here(w) /\ hub[w].role # role
  /\ role = "member" => hub[w].reach
  /\ HubChange(w, [hub[w] EXCEPT !.role = role])

RemoveMember(w) ==
  /\ Here(w) /\ hub[w].reach
  /\ HubChange(w, [hub[w] EXCEPT !.role = None])

\* Another account claims the id of this project as a source of its own.
Claim(w) ==
  /\ Here(w) /\ hub[w].reach /\ hub[w].source = None
  /\ HubChange(w, [hub[w] EXCEPT !.source = "them"])

RevokeKey ==
  /\ key = "good"
  /\ Upset
  /\ key' = "revoked"
  /\ UNCHANGED <<log, file, hub, received, work, past>>

-----------------------------------------------------------------------------
(* Commands *)

RunVia(c, wire, steps) ==
  /\ todo[c] = <<>> /\ runs < MaxRuns
  /\ runs' = runs + 1
  /\ todo' = [todo EXCEPT ![c] = steps]
  /\ via' = [via EXCEPT ![c] = wire]
  /\ UNCHANGED <<log, key, hub, received, held, sent, upsets, owned, grants>>

Run(c, steps) == RunVia(c, None, steps)

Same == UNCHANGED <<file, lent>>

\* Bind s to another remote and keep its watermarks.
Turned(s, remote, wire) ==
  LET moves == <<wire, remote>> # Place(s) /\ (s.pushed > 0 \/ s.pulled # Nowhere)
  IN  [s EXCEPT !.remote = remote, !.wire = wire, !.astray = @ \/ moves]

\* A command that names a remote or a transport; the role stays too.
Repoint(remote, wire) ==
  LET s == file[Proj] IN
  /\ file' = [file EXCEPT ![Proj] = Turned(s, remote, wire)]
  /\ lent' = IF remote # s.remote /\ s.role # None THEN lent \cup {remote} ELSE lent

Settle == <<"reconcile", "register">>

AutoPush(c) ==
  Run(c, Settle \o <<"idle?", "push">>) /\ Same

AutoPull(c) ==
  Run(c, Settle \o <<"pull", "refresh">>) /\ Same

\* `project sync --push --pull`, with --remote-path, --remote-url or neither
CliSync(c, wire) ==
  /\ wire = None => file[Proj].wire # None
  /\ RunVia(c, IF wire = None THEN file[Proj].wire ELSE wire,
            Settle \o <<"push", "pull", "refresh">>)
  /\ Repoint(file[Proj].remote, IF wire = None THEN file[Proj].wire ELSE wire)

\* `project sync --bind`; the role cache stays as it was.
CliBind(c, w) ==
  /\ hub[w].role # "unborn"
  /\ Run(c, <<>>)
  /\ Repoint(w, file[Proj].wire)

\* `project remote`, and `connect` in the folder of a project
CliRemote(c, w) ==
  /\ hub[w].role # "unborn"
  /\ RunVia(c, "hub", Settle \o <<"push", "pull", "refresh">>)
  /\ Repoint(w, "hub")

CliCreate(c) == Run(c, <<"create", "register">>) /\ Same
CliJoin(c) == Run(c, <<"join", "register">>) /\ Same
CliInvite(c) == Run(c, <<"invite">>) /\ Same

\* `memory retract` of a memory another writer wrote
CliRetract(c) == Run(c, <<"gate">>) /\ Same

\* `personal sync`
CliPersonal(c) ==
  Run(c, <<"resolve", "pushDiary", "pullDiary">>) /\ Same

CliLogin(c) == Run(c, <<"login!", "store">>) /\ Same
CliLogout(c) == Run(c, <<"logout">>) /\ Same

-----------------------------------------------------------------------------
(* Steps *)

At(c, step) == todo[c] # <<>> /\ Head(todo[c]) = step
Rest(c) == Tail(todo[c])
Goto(c, steps) ==
  /\ todo' = [todo EXCEPT ![c] = steps]
  /\ via' = [via EXCEPT ![c] = IF steps = <<>> THEN None ELSE @]
Done(c) == Goto(c, Rest(c))
Stop(c) == Goto(c, <<>>)

Steady == UNCHANGED bounds

Quiet == UNCHANGED <<log, past>>
Local == Quiet /\ UNCHANGED <<hub, received>>

\* A call that is over leaves nothing behind.
Free(c) ==
  /\ held' = [held EXCEPT ![c] = Unsynced]
  /\ sent' = [sent EXCEPT ![c] = 0]

BestEffort == {"reconcile!", "register!", "refresh!"}
Calls == BestEffort \cup {"create!", "join!", "invite!", "resolve!",
                          "push!", "pull!", "pushDiary!", "pullDiary!"}

\* What follows a call that threw
Thrown(c) == IF Head(todo[c]) \in BestEffort THEN Done(c) ELSE Stop(c)

\* What the call of a step asks for is something the Hub, or the relay, grants.
Granted(c) ==
  LET s == held[c]
      step == Head(todo[c])
  IN  CASE step \in {"push!", "pull!", "pushDiary!", "pullDiary!"} ->
             Accepts(Place(s)) /\ (s.wire = "hub" => key = "good")
        [] step \in {"create!", "join!", "resolve!"} -> key = "good"
        [] step = "reconcile!" ->
             key = "good" /\ (s.remote \in Workspaces => Here(s.remote))
        [] step = "invite!" ->
             key = "good" /\ s.remote \in Workspaces /\ hub[s.remote].role = "owner"
        [] OTHER -> key = "good" /\ s.remote \in Workspaces /\ Here(s.remote)

Calling(c, step) == At(c, step) /\ Granted(c)

\* The call is refused, or it cannot be made.
CallFails(c) ==
  /\ todo[c] # <<>> /\ Head(todo[c]) \in Calls
  /\ IF Granted(c) THEN Upset ELSE Steady
  /\ Thrown(c)
  /\ Local /\ Free(c) /\ UNCHANGED <<file, key>>

Kill(c) ==
  /\ todo[c] # <<>>
  /\ Upset
  /\ Stop(c)
  /\ Local /\ Free(c) /\ UNCHANGED <<file, key>>

\* Read the sync state and go on to the call of a step, or past it.
Hold(c, l, call, proceed) ==
  /\ IF proceed
     THEN /\ Goto(c, <<call>> \o Rest(c))
          /\ held' = [held EXCEPT ![c] = file[l]]
     ELSE Done(c) /\ UNCHANGED held
  /\ Steady /\ Local /\ UNCHANGED <<file, key, sent>>

\* The same, of a step whose refusal ends the command.
HoldOrStop(c, l, call, proceed) ==
  /\ IF proceed
     THEN /\ Goto(c, <<call>> \o Rest(c))
          /\ held' = [held EXCEPT ![c] = file[l]]
     ELSE Stop(c) /\ UNCHANGED held
  /\ Steady /\ Local /\ UNCHANGED <<file, key, sent>>

\* A call that changed the Hub; its answer may be lost.
Call(c, answered, s) ==
  /\ IF answered THEN Steady ELSE Upset
  /\ IF answered THEN Done(c) /\ file' = [file EXCEPT ![Proj] = s]
                 ELSE Thrown(c) /\ UNCHANGED file
  /\ Free(c)
  /\ UNCHANGED <<log, key, lent, grants>>

-----------------------------------------------------------------------------
(* Binding *)

\* reconcileWorkspaceBinding
Reconcile(c) ==
  /\ At(c, "reconcile")
  /\ LET s == file[Proj] IN
     Hold(c, Proj, "reconcile!",
          /\ Reachable(s) /\ s.remote # Psm
          /\ s.remote \in Workspaces => s.role = None)

\* A remote that is a workspace already has its role filled in.
Backfill(c) ==
  /\ Calling(c, "reconcile!") /\ held[c].remote \in Workspaces
  /\ LET w == held[c].remote IN
     /\ Call(c, TRUE, [held[c] EXCEPT !.role = hub[w].role, !.reach = hub[w].reach])
     /\ owned' = owned \cup (IF hub[w].role = "owner" THEN {w} ELSE {})
  /\ UNCHANGED <<hub, received>>

Migrated_Kept(s, w) ==
  [s EXCEPT !.remote = w, !.role = "owner", !.reach = FALSE, !.astray = FALSE]

\* Both watermarks are dropped: the whole log goes to the new workspace.
Migrated(s, w) ==
  [s EXCEPT !.remote = w, !.role = "owner", !.reach = FALSE,
            !.pushed = 0, !.pulled = Nowhere, !.astray = FALSE]

Born(w) == hub' = [hub EXCEPT ![w].role = "owner"] /\ owned' = owned \cup {w}

Migrate(c, w, answered) ==
  /\ Calling(c, "reconcile!") /\ held[c].remote \notin Workspaces
  /\ w \in Unminted /\ Born(w)
  /\ Call(c, answered, Migrated(held[c], w))
  /\ UNCHANGED received

\* bindWorkspace and joinAndBindWorkspace
Create(c) ==
  /\ At(c, "create")
  /\ HoldOrStop(c, Proj, "create!", ~IsBound(file[Proj]) /\ key # "none")

Join(c) ==
  /\ At(c, "join")
  /\ HoldOrStop(c, Proj, "join!", ~IsBound(file[Proj]) /\ key # "none")

\* writeWorkspaceBinding reads the file afresh, and keeps its watermarks.
Bound(s, w, role, reach) ==
  [Turned(s, w, "hub") EXCEPT !.role = role, !.reach = reach]

CreateCall(c, w, answered) ==
  /\ Calling(c, "create!")
  /\ w \in Unminted /\ Born(w)
  /\ Call(c, answered, Bound(file[Proj], w, "owner", FALSE))
  /\ UNCHANGED received

JoinCall(c, answered) ==
  /\ Calling(c, "join!")
  /\ hub' = [hub EXCEPT ![Shared].role = IF @ = None THEN "member" ELSE @]
  /\ Call(c, answered, Bound(file[Proj], Shared, hub'[Shared].role, TRUE))
  /\ owned' = owned \cup (IF hub[Shared].role = "owner" THEN {Shared} ELSE {})
  /\ UNCHANGED received

Invite(c) ==
  /\ At(c, "invite")
  /\ HoldOrStop(c, Proj, "invite!", IsBound(file[Proj]) /\ Reachable(file[Proj]))

InviteCall(c, answered) ==
  /\ Calling(c, "invite!")
  /\ hub' = [hub EXCEPT ![held[c].remote].reach = TRUE]
  /\ Call(c, answered, IF held[c].reach THEN file[Proj]
                                        ELSE [held[c] EXCEPT !.reach = TRUE])
  /\ UNCHANGED <<received, owned>>

-----------------------------------------------------------------------------
(* The caches of what the Hub knows *)

Register(c) ==
  /\ At(c, "register")
  /\ LET s == file[Proj] IN
     Hold(c, Proj, "register!",
          IsBound(s) /\ Reachable(s) /\ s.registered # s.remote)

Registered_Always(s, source) == [s EXCEPT !.registered = s.remote]

\* A 409, the id being claimed by another account, is not cached.
Registered(s, source) ==
  IF source = "them" THEN file[Proj] ELSE [s EXCEPT !.registered = s.remote]

\* ensureSourceStoreRegistration
RegisterCall(c, answered) ==
  /\ Calling(c, "register!")
  /\ LET w == held[c].remote
         source == hub[w].source
     IN  /\ hub' = [hub EXCEPT ![w].source = IF @ = None THEN "us" ELSE @]
         /\ Call(c, answered, Registered(held[c], source))
  /\ UNCHANGED <<received, owned>>

Refresh(c) ==
  /\ At(c, "refresh")
  /\ Hold(c, Proj, "refresh!", IsBound(file[Proj]) /\ Reachable(file[Proj]))

\* refreshWorkspaceBinding: what is written back is the state that was read.
Refreshed(s, w) ==
  IF hub[w].role # s.role \/ hub[w].reach # s.reach
  THEN [s EXCEPT !.role = hub[w].role, !.reach = hub[w].reach]
  ELSE file[Proj]

Learn(w) == owned' = owned \cup (IF hub[w].role = "owner" THEN {w} ELSE {})

RefreshCall(c) ==
  /\ Calling(c, "refresh!")
  /\ Call(c, TRUE, Refreshed(held[c], held[c].remote))
  /\ Learn(held[c].remote)
  /\ UNCHANGED <<hub, received>>

\* requireOwnerForGlobalRetract
Gate(c) ==
  /\ At(c, "gate")
  /\ HoldOrStop(c, Proj, "gate!", IsBound(file[Proj]))

Trusted_Cached(cached, answer) == cached = "owner"

\* The Hub's answer decides, and the cached role when there is none.
Trusted(cached, answer) == (IF answer = "silent" THEN cached ELSE answer) = "owner"

\* The retraction itself is one more event of the log.
Decide(c, answer) ==
  /\ IF Trusted(held[c].role, answer)
     THEN /\ grants' = grants \cup {<<held[c].remote, answer>>}
          /\ log' = [log EXCEPT ![Proj] = IF @ < MaxEvents THEN @ + 1 ELSE @]
     ELSE UNCHANGED <<grants, log>>
  /\ Stop(c) /\ Free(c)
  /\ UNCHANGED <<key, hub, received, lent>>

\* A workspace that no longer lists this account refuses, too.
GateAnswered(c) ==
  /\ At(c, "gate!") /\ Reachable(held[c]) /\ key = "good"
  /\ Steady
  /\ LET w == held[c].remote
         listed == w \in Workspaces /\ Here(w)
     IN  IF listed
         THEN /\ Decide(c, hub[w].role)
              /\ file' = [file EXCEPT ![Proj] = Refreshed(held[c], w)]
              /\ Learn(w)
         ELSE Decide(c, None) /\ UNCHANGED <<file, owned>>

\* The Hub does not answer, or there is no key that it takes.
GateOffline(c) ==
  /\ At(c, "gate!")
  /\ IF Reachable(held[c]) /\ key = "good" THEN Upset ELSE Steady
  /\ Decide(c, "silent")
  /\ UNCHANGED <<file, owned>>

-----------------------------------------------------------------------------
(* Pushing and pulling; the personal store goes the same way *)

StoreOf(c) == IF Head(todo[c]) \in {"pushDiary", "pushDiary!", "pullDiary", "pullDiary!"}
              THEN Diary ELSE Proj

\* A transport is resolved before the reconcile, or from the file.
Via(c, s) == IF via[c] = None THEN s ELSE Turned(s, s.remote, via[c])

\* autoPush and autoPull want a configured sync, and autoPush an idle one.
Idle(c) ==
  /\ At(c, "idle?")
  /\ LET s == file[Proj] IN
     IF s.remote # None /\ s.wire # None /\ ~s.busy THEN Done(c) ELSE Stop(c)
  /\ Steady /\ Local /\ UNCHANGED <<file, key, held, sent>>

\* pushProject up to the transport: the first push binds to the own id.
Push(c) ==
  /\ At(c, "push") \/ At(c, "pushDiary")
  /\ LET l == StoreOf(c)
         s == [file[l] EXCEPT !.remote = IF @ = None THEN Own ELSE @]
         through == Via(c, s)
     IN  IF through.wire = None THEN Stop(c) /\ UNCHANGED <<file, held, sent>>
         ELSE IF log[l] = s.pushed
         THEN /\ Done(c)
              /\ file' = [file EXCEPT ![l] = [s EXCEPT !.busy = FALSE]]
              /\ UNCHANGED <<held, sent>>
         ELSE /\ Goto(c, <<IF l = Proj THEN "push!" ELSE "pushDiary!">> \o Rest(c))
              /\ file' = [file EXCEPT ![l] = [s EXCEPT !.busy = TRUE]]
              /\ held' = [held EXCEPT ![c] = through]
              /\ sent' = [sent EXCEPT ![c] = log[l]]
  /\ Steady /\ Local /\ UNCHANGED key

\* The transport, then markPushed on the file as it is by then.
PushCall(c, answered) ==
  /\ Calling(c, "push!") \/ Calling(c, "pushDiary!")
  /\ LET l == StoreOf(c)
         place == Place(held[c])
         \* The relay has what it had and the slice after the watermark.
         whole == received[place] >= held[c].pushed
     IN  /\ received' = [received EXCEPT ![place] =
              IF whole /\ sent[c] > @ THEN sent[c] ELSE @]
         /\ IF answered THEN Steady ELSE Upset
         /\ IF answered
            THEN /\ Done(c)
                 /\ file' = [file EXCEPT ![l].pushed = sent[c], ![l].busy = FALSE,
                                         ![l].astray = @ \/ held[c].astray
                                                          \/ Place(file[l]) # place]
            ELSE Stop(c) /\ UNCHANGED file
  /\ Quiet /\ Free(c) /\ UNCHANGED <<key, hub>>

Pull(c) ==
  /\ At(c, "pull") \/ At(c, "pullDiary")
  /\ LET l == StoreOf(c) IN
     IF file[l].remote # None /\ Via(c, file[l]).wire # None
     THEN /\ Goto(c, <<IF l = Proj THEN "pull!" ELSE "pullDiary!">> \o Rest(c))
          /\ held' = [held EXCEPT ![c] = Via(c, file[l])]
     ELSE Stop(c) /\ UNCHANGED held
  /\ Steady /\ Local /\ UNCHANGED <<file, key, sent>>

\* The cursor moves only when the relay had something.
PullCall(c) ==
  /\ Calling(c, "pull!") \/ Calling(c, "pullDiary!")
  /\ LET l == StoreOf(c)
         place == Place(held[c])
     IN  /\ Done(c)
         /\ file' = [file EXCEPT
              ![l].busy = FALSE,
              ![l].pulled = IF received[place] > 0 THEN place ELSE @,
              ![l].astray = @ \/ (received[place] > 0 /\ Place(file[l]) # place)]
  /\ Steady /\ Quiet /\ Free(c) /\ UNCHANGED <<key, hub, received>>

\* syncPersonalStore: the Hub names the personal store, and it is bound.
Resolve(c) ==
  /\ At(c, "resolve")
  /\ HoldOrStop(c, Diary, "resolve!", key # "none")

ResolveCall(c) ==
  /\ Calling(c, "resolve!")
  /\ file' = [file EXCEPT ![Diary].remote = Psm, ![Diary].wire = "hub"]
  /\ Done(c)
  /\ Steady /\ Local /\ Free(c) /\ UNCHANGED key

-----------------------------------------------------------------------------
(* The credential store *)

\* `auth login` probes the Hub first: only a refusal keeps the key out.  An
\* unreachable Hub, or --no-validate, lets any key in; RevokeKey stands for
\* one that is no good.
Probe(c, refused) ==
  /\ At(c, "login!")
  /\ IF refused THEN Stop(c) ELSE Done(c)
  /\ Steady /\ Local /\ UNCHANGED <<file, key, held, sent>>

\* writeAll empties the file and then fills it: a command killed in between
\* leaves no credential.
Store(c) ==
  /\ At(c, "store")
  /\ key' = "none"
  /\ Goto(c, <<"fill">>)
  /\ Steady /\ Local /\ UNCHANGED <<file, held, sent>>

Fill(c) ==
  /\ At(c, "fill")
  /\ key' = "good"
  /\ Done(c)
  /\ Steady /\ Local /\ UNCHANGED <<file, held, sent>>

Logout(c) ==
  /\ At(c, "logout")
  /\ key' = "none"
  /\ Done(c)
  /\ Steady /\ Local /\ UNCHANGED <<file, held, sent>>

-----------------------------------------------------------------------------
Next ==
  \/ Write
  \/ \E w \in Workspaces, role \in Roles : SetRole(w, role)
  \/ \E w \in Workspaces : RemoveMember(w)
  \/ \E w \in Workspaces : Claim(w)
  \/ RevokeKey
  \/ \E c \in Commands : AutoPush(c)
  \/ \E c \in Commands : AutoPull(c)
  \/ \E c \in Commands, wire \in Wires : CliSync(c, wire)
  \/ \E c \in Commands, w \in Workspaces : CliBind(c, w)
  \/ \E c \in Commands, w \in Workspaces : CliRemote(c, w)
  \/ \E c \in Commands : CliCreate(c)
  \/ \E c \in Commands : CliJoin(c)
  \/ \E c \in Commands : CliInvite(c)
  \/ \E c \in Commands : CliRetract(c)
  \/ \E c \in Commands : CliPersonal(c)
  \/ \E c \in Commands : CliLogin(c)
  \/ \E c \in Commands : CliLogout(c)
  \/ \E c \in Commands : CallFails(c)
  \/ \E c \in Commands : Kill(c)
  \/ \E c \in Commands : Reconcile(c)
  \/ \E c \in Commands : Backfill(c)
  \/ \E c \in Commands, w \in Minted, answered \in BOOLEAN : Migrate(c, w, answered)
  \/ \E c \in Commands : Create(c)
  \/ \E c \in Commands, w \in Minted, answered \in BOOLEAN : CreateCall(c, w, answered)
  \/ \E c \in Commands : Join(c)
  \/ \E c \in Commands, answered \in BOOLEAN : JoinCall(c, answered)
  \/ \E c \in Commands : Invite(c)
  \/ \E c \in Commands, answered \in BOOLEAN : InviteCall(c, answered)
  \/ \E c \in Commands : Register(c)
  \/ \E c \in Commands, answered \in BOOLEAN : RegisterCall(c, answered)
  \/ \E c \in Commands : Refresh(c)
  \/ \E c \in Commands : RefreshCall(c)
  \/ \E c \in Commands : Gate(c)
  \/ \E c \in Commands : GateAnswered(c)
  \/ \E c \in Commands : GateOffline(c)
  \/ \E c \in Commands : Idle(c)
  \/ \E c \in Commands : Push(c)
  \/ \E c \in Commands, answered \in BOOLEAN : PushCall(c, answered)
  \/ \E c \in Commands : Pull(c)
  \/ \E c \in Commands : PullCall(c)
  \/ \E c \in Commands : Resolve(c)
  \/ \E c \in Commands : ResolveCall(c)
  \/ \E c \in Commands, refused \in BOOLEAN : Probe(c, refused)
  \/ \E c \in Commands : Store(c)
  \/ \E c \in Commands : Fill(c)
  \/ \E c \in Commands : Logout(c)

Spec == Init /\ [][Next]_vars

-----------------------------------------------------------------------------
(* Properties *)

\* What the watermarks of a store say holds of the remote it is bound to:
\* that remote has every event below the push watermark, and the pull cursor
\* came from it.  So it is through every copy of the file a command writes
\* back, and after a boundary has moved the project to a workspace minted for
\* it; not while the watermarks are astray.
Belongs(l) ==
  LET s == file[l]
  IN  Place(s) \in Places => /\ s.pushed <= received[Place(s)]
                         /\ s.pulled \in {Nowhere, Place(s)}

Published == \A l \in Locals : file[l].astray \/ Belongs(l)

\* A retraction of another's memory goes through only on the word of the Hub:
\* given at that moment, or earlier and cached for that same workspace.  A
\* command that binds another workspace by hand keeps the role of the last.
OwnerRetracts ==
  \A g \in grants : \/ g[2] = "owner"
                    \/ g[2] = "silent" /\ g[1] \in owned \cup lent

\* A workspace the file says this project is registered with attributes its
\* events to this account, whatever copies of the file were written back.
Attributed ==
  \A w \in Workspaces : file[Proj].registered = w => hub[w].source = "us"

==============================================================================
