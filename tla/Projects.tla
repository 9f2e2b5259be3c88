------------------------------ MODULE Projects ------------------------------
(***************************************************************************)
(* Which project a folder belongs to: storage/bindings-store.ts, services/ *)
(* project-service.ts, setup-service.ts, repo-identity.ts, the bootstrap   *)
(* in services/sync-service.ts (cloneProject), its pulls as far as they    *)
(* bring what says where a project is, the commands of                     *)
(* cli/commands/project.ts and the one-time import of the NDJSON log,      *)
(* services/migrate-service.ts.                                            *)
(*                                                                         *)
(* A command is a list of steps.  The file of bindings is read, changed    *)
(* and replaced with no lock, and a command can be killed between steps.   *)
(* Folders are moved by the user at any time, and other machines put       *)
(* events of their own on the remote of a project.                         *)
(***************************************************************************)
EXTENDS Naturals, Sequences, SequencesExt, FiniteSets

CONSTANTS
  Paths,         \* folders
  Parent,        \* Parent[p]: the folder p is in, or p itself
  Base,          \* Base[p]: its name
  Afar,          \* a folder of another machine
  Repos,         \* checkouts, each in one folder at a time
  Start,         \* Start[r]: where r is at first
  Origin, Commit,    \* what git says of a checkout, "" when it says nothing
  NoRepo,        \* the identity of a project that captured none
  OldRepo,       \* the checkout of project Old
  SharedRepo,    \* a checkout with the identity of project Shared
  Commands,      \* processes
  MaxProjects, MaxRuns, MaxUpsets      \* bounds

\* Project Old dates from the NDJSON era and has a folder; project Shared is
\* on another machine and has no folder here until it is cloned.
Old == 1
Shared == 2
Unbound == 0
Ids == 1 .. MaxProjects
Legacy == {1, 2}          \* the NDJSON files of Old, one event in each

ASSUME ProjectsAssumption ==
  /\ IsFiniteSet(Paths)
  /\ Afar \in Paths /\ NoRepo \notin Repos /\ OldRepo \in Repos
  /\ Parent \in [Paths -> Paths]
  /\ Start \in [Repos -> Paths \ {Afar}]
  /\ \A r, s \in Repos : Start[r] = Start[s] => r = s
  /\ \A r \in {NoRepo, OldRepo} : Origin[r] = "" /\ Commit[r] = ""
  /\ MaxProjects \in Nat /\ MaxProjects >= 2

VARIABLES
  place,         \* checkout -> its folder
  relay,         \* project -> the events other machines put on its remote
  bindings,      \* bindings.json: folder -> project
  log,           \* project -> the events of its database
  row,           \* project -> its row of the projection, <<>> or one record
  sync,          \* project -> its sync file: "absent", "plain", "own" when it
                 \* is pushed under its own id, "remote" when it was cloned
  ndjson, bak,   \* the files in the events/ and the events.bak/ of Old
  migrated,      \* the marker in its database
  minted,        \* ids in use
  todo,          \* command -> the steps it has left
  seen,          \* command -> the bindings it has read, <<>> or one
  lines,         \* command -> the legacy events it has read
  identity,      \* command -> the checkout it took the identity of
  runs, upsets,
  bound,         \* history: projects that have been bound
  displaced,     \* history: projects whose folder was given to another
  raced,         \* history: projects two commands bound or moved at once
  cut,           \* history: projects a killed command was at work on
  adopted,       \* history: <<project, checkout>> of automatic relocations
  silent,        \* history: projects left behind without a word
  overtaken      \* history: projects whose genesis came amid a backfill

disk == <<bindings, log, row, sync, ndjson, bak, migrated>>
work == <<todo, seen, lines, identity>>
past == <<bound, displaced, raced, cut, adopted, silent, overtaken>>
user == <<place, relay, runs, upsets>>
vars == <<disk, minted, work, user, past>>

-----------------------------------------------------------------------------
(* Folders and checkouts *)

There(p) == \E r \in Repos : place[r] = p

RepoAt(p) == IF There(p) THEN CHOOSE r \in Repos : place[r] = p ELSE NoRepo

\* resolveBindingForPath tells a project's root from a folder inside it;
\* resolveProjectIdForPath does not.
Exact(p) == bindings[p] # Unbound
Inside(p) == ~Exact(p) /\ bindings[Parent[p]] # Unbound
Resolved(p) == IF Exact(p) THEN bindings[p] ELSE bindings[Parent[p]]

Captured(r) == Origin[r] # "" \/ Commit[r] # ""

SameIdentity_Either(r, s) ==
  \/ Origin[r] # "" /\ Origin[r] = Origin[s]
  \/ Commit[r] # "" /\ Commit[r] = Commit[s]

\* Both signals when both sides have both, else the one they share.
SameIdentity(r, s) ==
  LET origins == Origin[r] # "" /\ Origin[s] # ""
      commits == Commit[r] # "" /\ Commit[s] # ""
  IN  /\ origins \/ commits
      /\ origins => Origin[r] = Origin[s]
      /\ commits => Commit[r] = Commit[s]

-----------------------------------------------------------------------------
(* The log of a project: events <<type, folder, checkout>>.  The reducer   *)
(* takes the last genesis whole, and a later folder from project.updated.  *)

LegacyEvent(f) == IF f = 1 THEN <<"created", Start[OldRepo], OldRepo>>
                           ELSE <<"legacy", Afar, NoRepo>>

Has(id, type) == \E i \in 1 .. Len(log[id]) : log[id][i][1] = type

\* What comes from other machines: the real genesis of Shared, one that a
\* clone made up while it could not pull the real one, and where the project
\* was relocated there.
SharedGenesis == <<"created", Afar, SharedRepo>>
MadeUp == <<"foreign", Afar, NoRepo>>
Moved == <<"updated", Afar, NoRepo>>

IsGenesis(e) == e[1] \in {"created", "backfilled", "foreign"}

HasGenesis(id) == \E i \in 1 .. Len(log[id]) : IsGenesis(log[id][i])

LastOf(s, Test(_)) == s[CHOOSE i \in 1 .. Len(s) :
  Test(s[i]) /\ \A j \in i + 1 .. Len(s) : ~Test(s[j])]

Fold(s) ==
  LET Rooted(e) == IsGenesis(e) \/ e[1] = "updated"
      genesis == LastOf(s, IsGenesis)
  IN  [root |-> LastOf(s, Rooted)[2], repo |-> genesis[3],
       kind |-> genesis[1]]

Readable == {id \in Ids : row[id] # <<>>}
RootOf(id) == row[id][1].root
RepoOf(id) == row[id][1].repo

-----------------------------------------------------------------------------
(* Steps: <<what, project, folder>>.  Project 0 stands for the one the     *)
(* command is about to find or create.                                     *)

Steps(names, id, p) == [i \in 1 .. Len(names) |-> <<names[i], id, p>>]

Created_BindFirst(id, p) ==
  Steps(<<"bind", "created", "workstream", "rebuild", "sync">>, id, p)

\* createProject binds the folder last, when the project is complete.
Created(id, p) ==
  Steps(<<"created", "workstream", "rebuild", "sync", "bind">>, id, p)

Named(s, id) ==
  [i \in 1 .. Len(s) |-> <<s[i][1], IF s[i][2] = 0 THEN id ELSE s[i][2], s[i][3]>>]

Relocated_FreeFirst(id, p) ==
  LET others == {q \in Paths : bindings[q] = id /\ q # p}
  IN  [i \in 1 .. Cardinality(others) |-> <<"unbind", id, SetToSeq(others)[i]>>]
      \o <<<<"bind", id, p>>>>
      \o (IF RootOf(id) = p THEN <<>> ELSE Steps(<<"updated", "rebuild">>, id, p))

\* relocateProject binds the new folder before it lets the old ones go.
Relocated(id, p) ==
  LET others == {q \in Paths : bindings[q] = id /\ q # p}
  IN  <<<<"bind", id, p>>>>
      \o [i \in 1 .. Cardinality(others) |-> <<"unbind", id, SetToSeq(others)[i]>>]
      \o (IF RootOf(id) = p THEN <<>> ELSE Steps(<<"updated", "rebuild">>, id, p))

Init ==
  /\ place = Start
  /\ relay = [id \in Ids |-> IF id = Shared THEN {SharedGenesis} ELSE {}]
  /\ bindings = [p \in Paths |-> IF p = Start[OldRepo] THEN Old ELSE Unbound]
  /\ log = [id \in Ids |-> <<>>]
  /\ row = [id \in Ids |-> <<>>]
  /\ sync = [id \in Ids |-> IF id = Old THEN "plain" ELSE "absent"]
  /\ ndjson = Legacy /\ bak = {} /\ migrated = FALSE
  /\ minted = 2
  /\ todo = [c \in Commands |-> <<>>]
  /\ seen = [c \in Commands |-> <<>>]
  /\ lines = [c \in Commands |-> <<>>]
  /\ identity = [c \in Commands |-> NoRepo]
  /\ runs = 0 /\ upsets = 0
  /\ bound = {Old}
  /\ displaced = {} /\ raced = {} /\ cut = {} /\ adopted = {}
  /\ silent = {} /\ overtaken = {}

-----------------------------------------------------------------------------
(* The user, and other machines *)

\* A checkout is moved to a folder that is free, with nothing inside either.
MoveRepo(r, p) ==
  /\ upsets < MaxUpsets
  /\ p # Afar /\ ~There(p)
  /\ Parent[p] # p => There(Parent[p])
  /\ \A s \in Repos \ {r} : Parent[place[s]] # place[r]
  /\ place' = [place EXCEPT ![r] = p]
  /\ upsets' = upsets + 1
  /\ UNCHANGED <<disk, minted, work, relay, runs, past>>

\* Another machine that has the project too, cloned by its own id, pushes.
PeerPushes(id, e) ==
  /\ upsets < MaxUpsets
  /\ id = Shared \/ sync[id] = "own"
  /\ e \notin relay[id]
  /\ relay' = [relay EXCEPT ![id] = @ \cup {e}]
  /\ upsets' = upsets + 1
  /\ UNCHANGED <<disk, minted, work, place, runs, past>>

-----------------------------------------------------------------------------
(* Commands, each run in folder p *)

Run(c, p, steps) ==
  /\ todo[c] = <<>> /\ runs < MaxRuns /\ There(p)
  /\ runs' = runs + 1
  /\ todo' = [todo EXCEPT ![c] = steps]
  /\ UNCHANGED <<disk, place, relay, seen, lines, upsets, past>>

Plain(c) == UNCHANGED <<minted, identity>>

Mint(c, r) ==
  /\ minted < MaxProjects
  /\ minted' = minted + 1
  /\ identity' = [identity EXCEPT ![c] = r]

\* `project init`
CliInit(c, p, force) ==
  /\ Exact(p) => force
  /\ Mint(c, RepoAt(p))
  /\ Run(c, p, Created(minted + 1, p))

\* setupProject in a folder that is a project's root: adopt it.
SetupBound(c, p) ==
  /\ Exact(p) /\ bindings[p] \in Readable
  /\ Plain(c)
  /\ Run(c, p, Steps(<<"import">>, bindings[p], p))

\* Inside another project it creates only when asked to, and else refuses.
SetupNested(c, p) ==
  /\ Inside(p)
  /\ Mint(c, RepoAt(p))
  /\ Run(c, p, Created(minted + 1, p) \o Steps(<<"import">>, minted + 1, p))

SetupUnbound(c, p) ==
  /\ Resolved(p) = Unbound
  /\ Plain(c)
  /\ Run(c, p, Steps(<<"judge", "import">>, 0, p))

\* `project relocate` to this folder, from another one or by id.
CliRelocate(c, p, id) ==
  /\ id \in bound
  /\ Plain(c)
  /\ Run(c, p, Steps(<<"relocate">>, id, p))

\* A workspace is cloned into a project of its own, with no git identity.
CloneWorkspace(c, p) ==
  /\ Resolved(p) = Unbound
  /\ Mint(c, NoRepo)
  /\ Run(c, p, Created(minted + 1, p) \o Steps(<<"remote">>, minted + 1, p))

\* A remote of the older kind gives its own id to the folder.
CloneShared(c, p) ==
  /\ Resolved(p) \in {Unbound, Shared}
  /\ Plain(c)
  /\ Run(c, p, (IF Resolved(p) = Unbound THEN Steps(<<"remote", "bind">>, Shared, p)
                                         ELSE <<>>)
               \o Steps(<<"pull">>, Shared, p))

\* `project sync --push --pull`; what it notes of the transport is the first
\* event of a log that has none.
CliSync(c, p) ==
  /\ Resolved(p) # Unbound /\ sync[Resolved(p)] # "absent"
  /\ Plain(c)
  /\ Run(c, p, Steps(<<"observe", "push", "pull">>, Resolved(p), p))

\* A session starts, pulls, and observes something; ensureBoundProjectId runs
\* SetupUnbound before it in a folder with no project.
SessionStart(c, p) ==
  /\ Resolved(p) # Unbound
  /\ Plain(c)
  /\ Run(c, p, Steps(<<"autopull", "heal", "observe">>, Resolved(p), p))

\* `migrate`; projects other than Old have nothing to import.
CliMigrate(c, p) ==
  /\ Resolved(p) = Old /\ ~migrated
  /\ Plain(c)
  /\ Run(c, p, Steps(<<"read">>, Old, p))

CliCleanup(c, p) ==
  /\ Resolved(p) = Old /\ migrated
  /\ bak' = {}
  /\ UNCHANGED <<bindings, log, row, sync, ndjson, migrated, minted, work,
                 user, past>>

-----------------------------------------------------------------------------
(* Steps *)

At(c, name) == todo[c] # <<>> /\ Head(todo[c])[1] = name
Id(c) == Head(todo[c])[2]
Folder(c) == Head(todo[c])[3]
Rest(c) == Tail(todo[c])

Goto(c, steps) == todo' = [todo EXCEPT ![c] = steps]
Done(c) == Goto(c, Rest(c))

\* A genesis arrives for id while a command is about to make one up.
Arrival(id) ==
  /\ overtaken' = IF \E d \in Commands : At(d, "backfilled") /\ Id(d) = id
                  THEN overtaken \cup {id} ELSE overtaken
  /\ UNCHANGED <<bound, displaced, raced, cut, adopted, silent>>

Append1(id, event) == log' = [log EXCEPT ![id] = Append(@, event)]

Gone(ids) == {id \in ids : ~There(RootOf(id))}
Alike(ids, p) == {id \in ids : Base[RootOf(id)] = Base[p]}

\* The projects the user is told of when setup will not choose for him.
Warned(p, moved) ==
  IF moved # {} THEN moved
  ELSE Gone(Alike({id \in Readable : ~Captured(RepoOf(id))}, p))

\* decideRelocation, and what setupProject does with it.
Judge(c) ==
  /\ At(c, "judge")
  /\ LET p == Folder(c)
         r == RepoAt(p)
         moved == IF Captured(r)
                  THEN Gone({id \in Readable : SameIdentity(r, RepoOf(id))})
                  ELSE {}
         alike == Alike(moved, p)
         sure == IF Cardinality(alike) = 1 THEN alike
                 ELSE IF Cardinality(moved) = 1 THEN moved ELSE {}
         warned == Warned(p, moved)
         \* Projects this very checkout was known by, that setup could tell.
         mine == Gone({id \in Readable : RepoOf(id) = r
                          /\ (Captured(r) \/ Base[RootOf(id)] = Base[p])})
     IN  \/ \E id \in sure :
              /\ Goto(c, <<<<"relocate", id, p>>>> \o Named(Rest(c), id))
              /\ adopted' = adopted \cup {<<id, r>>}
              /\ UNCHANGED <<minted, identity, silent>>
         \/ /\ sure = {}
            /\ Mint(c, r)
            /\ Goto(c, Created(minted + 1, p) \o Named(Rest(c), minted + 1))
            /\ silent' = silent \cup (mine \ warned)
            /\ UNCHANGED adopted
  /\ UNCHANGED <<disk, seen, lines, user, bound, displaced, raced, cut, overtaken>>

\* relocateProject, up to its first write.
Relocating(c) ==
  /\ At(c, "relocate")
  /\ LET id == Id(c)
         p == Folder(c)
         refused == ~There(p) \/ id \notin Readable
                    \/ bindings[p] \notin {Unbound, id}
     IN  /\ Goto(c, IF refused THEN <<>> ELSE Relocated(id, p) \o Rest(c))
         /\ raced' = IF \E d \in Commands \ {c} :
                          \E i \in 1 .. Len(todo[d]) : todo[d][i][2] = id
                     THEN raced \cup {id} ELSE raced
  /\ UNCHANGED <<disk, minted, seen, lines, identity, user, bound, displaced,
                 cut, adopted, silent, overtaken>>

ReadBindings(c) ==
  /\ At(c, "bind") \/ At(c, "unbind")
  /\ seen[c] = <<>>
  /\ seen' = [seen EXCEPT ![c] = <<bindings>>]
  /\ UNCHANGED <<disk, minted, todo, lines, identity, user, past>>

\* What was read goes back with one folder changed.
WriteBindings(c, new) ==
  LET p == Folder(c)
      lost == {q \in Paths \ {p} : new[q] # bindings[q]}
  IN  /\ seen[c] # <<>>
      /\ bindings' = new
      /\ raced' = raced \cup {bindings[q] : q \in lost} \cup {new[q] : q \in lost}
                  \cup (IF At(c, "unbind") THEN {bindings[p]} \ {Id(c)} ELSE {})
      /\ bound' = bound \cup ({new[p]} \ {Unbound})
      /\ displaced' = displaced \cup ({bindings[p]} \ {Unbound, Id(c)})
      /\ seen' = [seen EXCEPT ![c] = <<>>]
      /\ Done(c)
      /\ UNCHANGED <<log, row, sync, ndjson, bak, migrated, minted, lines,
                     identity, user, cut, adopted, silent, overtaken>>

BindFolder(c) ==
  At(c, "bind") /\ WriteBindings(c, [seen[c][1] EXCEPT ![Folder(c)] = Id(c)])

UnbindFolder(c) ==
  At(c, "unbind") /\ WriteBindings(c, [seen[c][1] EXCEPT ![Folder(c)] = Unbound])

Logged(c, name, event) ==
  /\ At(c, name)
  /\ Append1(Id(c), event)
  /\ Done(c)
  /\ UNCHANGED <<bindings, row, sync, ndjson, bak, migrated, minted, seen,
                 lines, user>>

LogCreated(c) ==
  /\ Logged(c, "created", <<"created", Folder(c), identity[c]>>)
  /\ identity' = [identity EXCEPT ![c] = NoRepo]
  /\ UNCHANGED past

LogWorkstream(c) ==
  /\ Logged(c, "workstream", <<"workstream", Folder(c), NoRepo>>)
  /\ UNCHANGED <<identity, past>>

LogUpdated(c) ==
  /\ Logged(c, "updated", <<"updated", Folder(c), NoRepo>>)
  /\ UNCHANGED <<identity, past>>

\* The genesis of a log that has events and none, from the folder it is
\* bound to.
LogBackfilled(c) ==
  /\ Logged(c, "backfilled", <<"backfilled", Folder(c), NoRepo>>)
  /\ UNCHANGED <<identity, past>>

\* One observation stands for any number of them, and matters only in a log
\* that has no genesis yet.
Observe(c) ==
  /\ At(c, "observe")
  /\ log' = IF log[Id(c)] # <<>> THEN log
            ELSE [log EXCEPT ![Id(c)] = Append(@, <<"captured", Afar, NoRepo>>)]
  /\ Done(c)
  /\ UNCHANGED <<bindings, row, sync, ndjson, bak, migrated, minted, seen,
                 lines, identity, user, past>>

\* importContextFiles: the instruction files become rules, once, and the
\* projection is rebuilt whether they did or not.
Import(c) ==
  /\ At(c, "import")
  /\ log' = IF Has(Id(c), "rule") THEN log
            ELSE [log EXCEPT ![Id(c)] = Append(@, <<"rule", Afar, NoRepo>>)]
  /\ row' = [row EXCEPT ![Id(c)] = <<Fold(log'[Id(c)])>>]
  /\ Done(c)
  /\ UNCHANGED <<bindings, sync, ndjson, bak, migrated, minted, seen,
                 lines, identity, user, past>>

\* The reducer throws on a log with no genesis: a command ends, autoPull warns.
Rebuild(c) ==
  /\ At(c, "rebuild") \/ At(c, "refresh")
  /\ IF HasGenesis(Id(c))
     THEN row' = [row EXCEPT ![Id(c)] = <<Fold(log[Id(c)])>>] /\ Done(c)
     ELSE Goto(c, IF At(c, "rebuild") THEN <<>> ELSE Rest(c)) /\ UNCHANGED row
  /\ UNCHANGED <<bindings, log, sync, ndjson, bak, migrated, minted, seen,
                 lines, identity, user, past>>

WriteSync(c) ==
  /\ At(c, "sync") \/ At(c, "remote")
  /\ sync' = [sync EXCEPT ![Id(c)] = IF At(c, "sync") THEN "plain" ELSE "remote"]
  /\ Done(c)
  /\ UNCHANGED <<bindings, log, row, ndjson, bak, migrated, minted, seen,
                 lines, identity, user, past>>

\* The first push binds a project to a remote of its own id.  One that fails
\* after that is made up for at a later boundary.
Push(c) ==
  /\ At(c, "push")
  /\ sync' = [sync EXCEPT ![Id(c)] = IF @ = "plain" THEN "own" ELSE @]
  /\ Done(c)
  /\ UNCHANGED <<bindings, log, row, ndjson, bak, migrated, minted, seen,
                 lines, identity, user, past>>

Brought(id, e) == IF e \in relay[id] /\ e \notin Range(log[id]) THEN <<e>> ELSE <<>>

\* What a pull adds at the end of the log, in the order of the relay: the
\* origin's genesis comes first.
Pulled(id) == Brought(id, SharedGenesis) \o Brought(id, MadeUp) \o Brought(id, Moved)

\* The projection is rebuilt next unless the relay returned nothing; what it
\* returns a second time is ignored.
Pull(c) ==
  /\ At(c, "pull") \/ At(c, "autopull")
  /\ sync[Id(c)] \in {"own", "remote"}
  /\ log' = [log EXCEPT ![Id(c)] = @ \o Pulled(Id(c))]
  /\ Arrival(Id(c))
  /\ \/ Goto(c, Steps(<<IF At(c, "pull") THEN "rebuild" ELSE "refresh">>,
                       Id(c), Folder(c)) \o Rest(c))
     \/ Pulled(Id(c)) = <<>> /\ Done(c)
  /\ UNCHANGED <<bindings, row, sync, ndjson, bak, migrated, minted, seen,
                 lines, identity, user>>

\* The relay cannot be reached, or a start has no remote to pull from.
PullFails(c) ==
  /\ At(c, "pull") \/ At(c, "autopull")
  /\ Goto(c, IF At(c, "pull") THEN <<>> ELSE Rest(c))
  /\ UNCHANGED <<disk, minted, seen, lines, identity, user, past>>

Healing_Backfill(id, root) ==
  IF id \in Readable \/ log[id] = <<>> THEN <<>>
  ELSE Steps(<<"backfilled", "workstream", "rebuild">>, id, root)

\* ensureProjectGenesis never makes up a genesis where the log has one and
\* only the projection is missing.
Healing(id, root) ==
  IF id \in Readable \/ log[id] = <<>> THEN <<>>
  ELSE IF HasGenesis(id) THEN Steps(<<"rebuild">>, id, root)
  ELSE Steps(<<"backfilled", "workstream", "rebuild">>, id, root)

Heal(c) ==
  /\ At(c, "heal")
  /\ LET id == Id(c)
         folders == {p \in Paths : bindings[p] = id}
         root == CHOOSE p \in Paths : p \in folders \/ (folders = {} /\ p = Afar)
     IN  Goto(c, Healing(id, root) \o Rest(c))
  /\ UNCHANGED <<disk, minted, seen, lines, identity, user, past>>

-----------------------------------------------------------------------------
(* migrateProjectFromNdjson *)

\* The events of some of the files, in their order.
LegacyEvents(files) ==
  (IF 1 \in files THEN <<LegacyEvent(1)>> ELSE <<>>)
    \o (IF 2 \in files THEN <<LegacyEvent(2)>> ELSE <<>>)

Importing_MarkFirst(files) == IF files = {} THEN <<"mark">>
                              ELSE <<"mark", "insert", "verify", "rebuild">>

\* The marker comes last but for the rebuild, which a session start makes up.
Importing(files) == IF files = {} THEN <<"mark">>
                    ELSE <<"insert", "verify", "mark", "rebuild">>

ReadLegacy(c) ==
  /\ At(c, "read")
  /\ lines' = [lines EXCEPT ![c] = LegacyEvents(ndjson)]
  /\ Goto(c, Steps(Importing(ndjson), Old, Folder(c)))
  /\ UNCHANGED <<disk, minted, seen, identity, user, past>>

\* INSERT OR IGNORE, in one transaction.
InsertLegacy(c) ==
  /\ At(c, "insert")
  /\ LET read == {f \in Legacy : LegacyEvent(f) \in Range(lines[c])}
         new == {f \in read : LegacyEvent(f) \notin Range(log[Old])}
     IN  log' = [log EXCEPT ![Old] = @ \o LegacyEvents(new)]
  /\ Arrival(Old)
  /\ Done(c)
  /\ UNCHANGED <<bindings, row, sync, ndjson, bak, migrated, minted, seen,
                 lines, identity, user>>

\* The files are moved only if the whole log is what was read from them.
VerifyLegacy(c) ==
  /\ At(c, "verify")
  /\ lines' = [lines EXCEPT ![c] = <<>>]
  /\ Goto(c, IF log[Old] # lines[c] THEN <<>>
             ELSE [i \in 1 .. Cardinality(ndjson) |->
                     <<"move", SetToSeq(ndjson)[i], Folder(c)>>] \o Rest(c))
  /\ UNCHANGED <<disk, minted, seen, identity, user, past>>

\* Another run may have moved the file: the rename throws.
MoveFile(c) ==
  /\ At(c, "move")
  /\ ndjson' = ndjson \ {Id(c)}
  /\ bak' = bak \cup {Id(c)}
  /\ IF Id(c) \in ndjson THEN Done(c) ELSE Goto(c, <<>>)
  /\ UNCHANGED <<bindings, log, row, sync, migrated, minted, seen, lines,
                 identity, user, past>>

MarkMigrated(c) ==
  /\ At(c, "mark")
  /\ migrated' = TRUE
  /\ Done(c)
  /\ UNCHANGED <<bindings, log, row, sync, ndjson, bak, minted, seen, lines,
                 identity, user, past>>

Kill(c) ==
  /\ todo[c] # <<>> /\ upsets < MaxUpsets
  /\ upsets' = upsets + 1
  /\ cut' = cut \cup {todo[c][i][2] : i \in 1 .. Len(todo[c])}
  /\ todo' = [todo EXCEPT ![c] = <<>>]
  /\ seen' = [seen EXCEPT ![c] = <<>>]
  /\ lines' = [lines EXCEPT ![c] = <<>>]
  /\ identity' = [identity EXCEPT ![c] = NoRepo]
  /\ UNCHANGED <<disk, minted, place, relay, runs, bound, displaced,
                 raced, adopted, silent, overtaken>>

Next ==
  \/ \E r \in Repos, p \in Paths : MoveRepo(r, p)
  \/ \E id \in Ids, e \in {MadeUp, Moved} : PeerPushes(id, e)
  \/ \E c \in Commands, p \in Paths :
       \/ \E force \in BOOLEAN : CliInit(c, p, force)
       \/ SetupBound(c, p)
       \/ SetupNested(c, p)
       \/ SetupUnbound(c, p)
       \/ \E id \in Ids : CliRelocate(c, p, id)
       \/ CloneWorkspace(c, p)
       \/ CloneShared(c, p)
       \/ CliSync(c, p)
       \/ SessionStart(c, p)
       \/ CliMigrate(c, p)
       \/ CliCleanup(c, p)
  \/ \E c \in Commands :
       \/ Judge(c) \/ Relocating(c)
       \/ ReadBindings(c) \/ BindFolder(c) \/ UnbindFolder(c)
       \/ LogCreated(c) \/ LogWorkstream(c) \/ LogUpdated(c)
       \/ LogBackfilled(c) \/ Observe(c) \/ Import(c) \/ Rebuild(c)
       \/ WriteSync(c) \/ Push(c) \/ Pull(c) \/ PullFails(c) \/ Heal(c)
       \/ ReadLegacy(c) \/ InsertLegacy(c) \/ VerifyLegacy(c)
       \/ MoveFile(c) \/ MarkMigrated(c) \/ Kill(c)

Spec == Init /\ [][Next]_vars
-----------------------------------------------------------------------------
(* Properties *)

\* A folder is never bound to a project that was minted here and is not yet
\* complete, wherever createProject was killed (project-service.ts:70-91),
\* unless a relocation took it while it was being created.  (One killed just
\* before the sync file, and moved, is later bound without that file.)
BoundComplete == \A p \in Paths :
  LET id == bindings[p]
  IN  id \notin {Unbound, Old, Shared} \cup raced =>
        /\ Has(id, "created") /\ Has(id, "workstream")
        /\ id \in Readable
        /\ sync[id] # "absent" \/ id \in cut

\* A project that was bound stays bound to some folder, through relocations
\* that are killed half way, unless its folder was given to another project
\* or two commands wrote over each other (project-service.ts:605-610).
StaysBound == \A id \in bound \ (displaced \cup raced) :
  \E p \in Paths : bindings[p] = id

\* A moved checkout that git, or its name, can tell is given its project back
\* or the user is warned: its memory is never left behind in silence (#145).
\* And a fork is never taken for the upstream that moved: what a checkout is
\* given has its own origin (setup-service.ts:238).
Followed ==
  /\ silent = {}
  /\ \A a \in adopted :
       LET known == RepoOf(a[1])
       IN  Origin[known] # "" /\ Origin[a[2]] # "" => Origin[known] = Origin[a[2]]

\* A log that holds the real genesis is never read through one made up here,
\* at a session start before it came or after (project-service.ts:106-110),
\* but where the start and the arrival overlapped.  A genesis that another
\* machine made up and pushed (MadeUp) is pulled behind the real one and read.
TrueGenesis == \A id \in Ids \ overtaken :
  Has(id, "created") => Fold(log[id]).kind # "backfilled"

\* Every event of the NDJSON era is in the database or still in its file,
\* and once the marker is set it is in the database.
LegacyKept == \A f \in Legacy :
  \/ \E i \in 1 .. Len(log[Old]) : log[Old][i] = LegacyEvent(f)
  \/ f \in ndjson /\ ~migrated
=============================================================================
