------------------------------- MODULE Install -------------------------------
(***************************************************************************)
(* services/install-service.ts with update-service.ts, onboarding-service, *)
(* agent-detect, harness/registry.ts and the commands `install`,           *)
(* `uninstall`, `init`, `setup` and `update`: memorize writes itself into  *)
(* files that belong to others, the configuration of the agents and the    *)
(* instruction files (CLAUDE.md, AGENTS.md, GEMINI.md) of the projects.    *)
(*                                                                         *)
(* A command is a list of file updates.  Each reads a file and replaces    *)
(* it, with no lock, so commands, and the user's editor, interleave        *)
(* between the read and the write.                                         *)
(*                                                                         *)
(* A configuration file is a set of entries <<event or key, what>>; an     *)
(* instruction file is a sequence of tokens.                               *)
(***************************************************************************)
EXTENDS Naturals, Sequences, FiniteSets

CONSTANTS
  Machines,      \* sets of agents: a machine has one of them
  Earlier,       \* those an older version of memorize was installed for
  Projects,
  Commands,      \* processes; each runs one command
  MaxEdits       \* bound: edits by the user, moves of memorize on PATH

ASSUME InstallAssumption ==
  /\ UNION Machines \subseteq {"claude", "codex", "gemini", "opencode", "pi",
                                "hermes", "cursor"}
  \* No version wrote Hermes's hooks without their approvals.
  /\ Earlier \subseteq (UNION Machines) \ {"hermes"}
  /\ "home" \notin Projects
  /\ IsFiniteSet(Projects) /\ Projects # {}
  /\ MaxEdits \in Nat

VARIABLES
  harnesses,     \* the agents present on the machine
  file,          \* configuration file -> its entries
  bad,           \* files the user has left as invalid JSON
  doc,           \* instruction file -> its tokens
  onPath,        \* `which memorize` finds something
  todo,          \* command -> the steps it has left
  seen,          \* command -> what it has read for the step at hand
  form,          \* command -> the commands hermesHookCommands built once
  edits,
  stamped,       \* history: files whose last memorize write was an install
  mine,          \* history: entries the user has put in each file
  typed,         \* history: texts the user has put in each document
  raced,         \* history: files written over a change nobody had read
  cut,           \* history: documents whose END marker the user removed
  rough          \* history: commands on Hermes overlapped, failed or died

work == <<todo, seen, form>>
user == <<harnesses, edits, mine, typed, cut>>
past == <<stamped, raced, rough>>
vars == <<file, bad, doc, onPath, work, user, past>>

-----------------------------------------------------------------------------
(* The registry *)

Active == {"SessionStart", "PostToolUse"}
Retired == "Stop"
Events == Active \cup {Retired}

\* Shapes of a memorize entry: by npx, by node with a path, by the launcher
\* with its extension, by node with a path that is gone, and the first shape,
\* a command with no list of hooks around it.
Forms == {"npx", "node", "cmd", "stale", "flat"}

\* An entry of the user's: only a command, more than a command, none at all.
Theirs == {"plain", "rich", "other"}

\* Claude, Codex and Gemini share one writer, which rebuilds every entry.
HooksMap == {"claude", "codex", "gemini"}

Hooked == HooksMap \cup {"hermes", "cursor"}

Scope(h, p) == IF h \in {"claude", "cursor"} THEN p ELSE "home"

DocOf(h) == CASE h = "claude" -> "CLAUDE.md"
              [] h = "gemini" -> "GEMINI.md"
              [] OTHER -> "AGENTS.md"

\* The updates of each installXIntegration, in order.
ClaudeSteps == <<"hooks", "rule", "skill">>
CodexSteps == <<"hooks", "override", "legacy", "rule">>
GeminiSteps == <<"hooks", "rule">>
OpencodeSteps == <<"mcp", "plugin", "rule">>
PiSteps == <<"plugin", "mcp", "rule">>
HermesSteps == <<"hooks", "allow", "rule">>
CursorSteps == <<"hooks", "mcp", "rule">>

Surfaces(h) ==
  CASE h = "claude" -> ClaudeSteps
    [] h = "codex" -> CodexSteps
    [] h = "gemini" -> GeminiSteps
    [] h = "opencode" -> OpencodeSteps
    [] h = "pi" -> PiSteps
    [] h = "hermes" -> HermesSteps
    [] h = "cursor" -> CursorSteps

\* uninstallXIntegration goes the same way, except Claude's.
Removals(h) ==
  IF h = "claude" THEN <<"rule", "skill", "hooks">> ELSE Surfaces(h)

InDoc == {"rule", "override", "legacy"}
Owned == {"plugin", "skill"}

Place(step) ==
  CASE step.do \in {"rule", "legacy"} -> <<DocOf(step.h), step.p>>
    [] step.do = "override" -> <<"AGENTS.override.md", step.p>>
    [] OTHER -> <<step.h, step.do, Scope(step.h, step.p)>>

Steps(h, p, list, install) ==
  [i \in 1 .. Len(list) |->
     [do |-> list[i], h |-> h, p |-> p, install |-> install]]

\* update looks into Claude's and Codex's whether or not these are there.
Known == harnesses \cup {"claude", "codex"}

Files == {<<h, s, Scope(h, p)>> :
            h \in Known, p \in Projects,
            s \in {"hooks", "mcp", "allow", "plugin", "skill"}}
Docs == {<<DocOf(h), p>> : h \in Known, p \in Projects}
          \cup {<<"AGENTS.override.md", p>> : p \in Projects}

Absent == {<<"no", "file">>}

\* What a reader makes of a file: {} when it is not there.
Entries(content) == content \ Absent

-----------------------------------------------------------------------------
(* What an update makes of a file *)

\* Mutation: the launcher with an extension is not known.
Recognised_NoLauncher == Forms \ {"cmd"}

\* MEMORIZE_TOKEN: what the strip, and doctor, take for memorize's.
Recognised == Forms

\* MEMORIZE_CODEX_HOOK_RE, MEMORIZE_CLAUDE_HOOK_RE: what update looks for.
Refreshable == Forms \ {"cmd"}

HasOurs(content, forms) == \E e \in content : e[2] \in forms

CurrentForm == IF onPath THEN "node" ELSE "npx"

\* The shared writer keeps the type and the command of an entry that has a
\* command; the other two keep such an entry whole.
Coerced(h, content) ==
  LET commands == {e \in content : e[2] # "other"}
  IN IF h \in HooksMap
       THEN {<<e[1], IF e[2] = "rich" THEN "plain" ELSE e[2]>> :
               e \in commands}
       ELSE commands

Stripped(content) == {e \in content : e[2] \notin Recognised}

Ours(f) == {<<e, f>> : e \in Active}

Server == {<<"mcp", "server">>}

\* writeHooksMap, mergeHermesConfig, writeCursorHooks.
WithHooks(h, content, f) ==
  Stripped(Coerced(h, content)) \cup Ours(f)
    \cup (IF h = "hermes" THEN Server ELSE {})

\* Mutation: an event with a memorize entry is dropped as a whole.
WithoutHooks_WholeEvent(h, content) ==
  {e \in Coerced(h, content) :
     ~ \E f \in Recognised : <<e[1], f>> \in content}

\* stripAllMemorizeHooks and its two variants.
WithoutHooks(h, content) == Stripped(Coerced(h, content)) \ Server

\* The first place of a token at or after a place, 0 if there is none.
FirstAt(d, token, from) ==
  LET at == {i \in from .. Len(d) : d[i] = token}
  IN IF at = {} THEN 0 ELSE CHOOSE i \in at : \A j \in at : i <= j

StartOf(d, start) == FirstAt(d, start, 1)

\* locateBlock: the first end after the first start.
EndOf(d, start, end) == FirstAt(d, end, StartOf(d, start) + 1)

HasBlock(d, start, end) == StartOf(d, start) > 0 /\ EndOf(d, start, end) > 0

Replaced(d, start, end, block) ==
  SubSeq(d, 1, StartOf(d, start) - 1) \o block
    \o SubSeq(d, EndOf(d, start, end) + 1, Len(d))

Block == <<"START", "rule", "END">>

\* Mutation: the block is appended though there is one.
Upserted_Again(d) == d \o Block

Upserted(d) ==
  IF HasBlock(d, "START", "END") THEN Replaced(d, "START", "END", Block)
  ELSE d \o Block

WithoutBlock(d, start, end) ==
  IF HasBlock(d, start, end) THEN Replaced(d, start, end, <<>>) ELSE d

-----------------------------------------------------------------------------
(* Commands *)

\* What is there at first: the user's own, and what older versions of
\* memorize wrote, on PATH and not, with both generations of the block.
UserHooks ==
  {<<"SessionStart", "other">>, <<"PostToolUse", "rich">>,
   <<"Stop", "plain">>}

OldHooks ==
  UserHooks \cup
  {<<"SessionStart", "npx">>, <<"SessionStart", "cmd">>,
   <<"PostToolUse", "flat">>, <<"PostToolUse", "stale">>,
   <<"Stop", "npx">>}

OldDoc ==
  <<"START", "old", "END", "text", "OLDSTART", "old", "OLDEND">>

TextIn(d) == Cardinality({i \in DOMAIN d : d[i] = "text"})

IsHooks(pl) == pl[2] = "hooks"

Init ==
  /\ harnesses \in Machines
  /\ file = [pl \in Files |->
               IF ~ IsHooks(pl) THEN Absent
               ELSE IF pl[1] \in Earlier THEN OldHooks ELSE UserHooks]
  /\ doc = [d \in Docs |-> OldDoc]
  /\ mine = [pl \in Files |->
               {e \in Entries(file[pl]) : e[2] \in Theirs}]
  /\ typed = [d \in Docs |-> TextIn(doc[d])]
  /\ bad = {}
  /\ onPath = TRUE
  /\ todo = [c \in Commands |-> <<>>]
  /\ seen = [c \in Commands |-> <<>>]
  /\ form = [c \in Commands |-> "none"]
  /\ edits = 0
  /\ stamped = {} /\ raced = {} /\ cut = {} /\ rough = FALSE

OnHermes(list) == \E i \in DOMAIN list : list[i].h = "hermes"

HermesBusy == \E c \in Commands : OnHermes(todo[c])

\* The command begins, once in a process; hermesHookCommands runs now.
Begin(c, list) ==
  /\ form[c] = "none"
  /\ form' = [form EXCEPT ![c] =
                IF OnHermes(list) THEN CurrentForm ELSE "unused"]
  /\ todo' = [todo EXCEPT ![c] = list]
  /\ rough' = (rough \/ (OnHermes(list) /\ HermesBusy))
  /\ UNCHANGED <<file, bad, doc, onPath, seen, user, stamped, raced>>

\* memorize install claude | codex
Install(c, h, p) ==
  h \in {"claude", "codex"} /\ Begin(c, Steps(h, p, Surfaces(h), TRUE))

\* uninstallXIntegration; the command line reaches Claude's and Codex's.
Uninstall(c, h, p) ==
  Begin(c, Steps(h, p, Removals(h), FALSE))

Wired(h, p) ==
  IF h \in harnesses THEN Steps(h, p, Surfaces(h), TRUE) ELSE <<>>

\* memorize init: every agent that is present, in the registry's order.
Onboard(c, p) ==
  Begin(c, Wired("claude", p) \o Wired("codex", p) \o Wired("opencode", p)
             \o Wired("gemini", p) \o Wired("pi", p) \o Wired("hermes", p)
             \o Wired("cursor", p))

\* memorize setup: Codex is wired for every project (for Claude it leaves a
\* skill file of its own in the home directory).
Setup(c) ==
  /\ "codex" \in harnesses
  /\ Begin(c, Steps("codex", CHOOSE p \in Projects : TRUE, <<"hooks">>, TRUE))

InSomeOrder ==
  CHOOSE s \in [1 .. Cardinality(Projects) -> Projects] :
    \A i, j \in DOMAIN s : s[i] = s[j] => i = j

Judged(h, p) == [do |-> "judge", h |-> h, p |-> p, install |-> TRUE]

\* memorize update: with the registry reached, and the new version (if any)
\* installed, the integrations are refreshed.
Update(c) ==
  /\ onPath
  /\ \/ Begin(c, <<>>)
     \/ Begin(c, <<Judged("codex", InSomeOrder[1])>>
                 \o [i \in DOMAIN InSomeOrder |->
                       Judged("claude", InSomeOrder[i])])

-----------------------------------------------------------------------------
(* The steps of a command *)

Step(c) == Head(todo[c])

At(c, kinds) == todo[c] # <<>> /\ Step(c).do \in kinds

Done(c) ==
  /\ todo' = [todo EXCEPT ![c] = Tail(@)]
  /\ seen' = [seen EXCEPT ![c] = <<>>]
  /\ UNCHANGED form

\* runRefresh reads the file as text: only an existing install is renewed.
Judge(c) ==
  /\ At(c, {"judge"})
  /\ LET s == Step(c)
         found == HasOurs(file[<<s.h, "hooks", Scope(s.h, s.p)>>],
                          Refreshable)
         list == IF s.h = "codex" THEN <<"hooks">> ELSE Surfaces("claude")
     IN todo' = [todo EXCEPT ![c] =
                   (IF found THEN Steps(s.h, s.p, list, TRUE) ELSE <<>>)
                     \o Tail(@)]
  /\ UNCHANGED <<file, bad, doc, onPath, seen, form, user, past>>

\* A file that does not parse ends the command; update goes on with the
\* next project.
AfterFailure(list) ==
  LET judges == {i \in DOMAIN list : list[i].do = "judge"}
      first == CHOOSE i \in judges : \A j \in judges : i <= j
  IN IF judges = {} THEN <<>> ELSE SubSeq(list, first, Len(list))

Read(c) ==
  /\ At(c, {"hooks", "mcp", "allow"} \cup InDoc)
  /\ seen[c] = <<>>
  /\ LET pl == Place(Step(c))
     IN IF pl \in bad
          THEN /\ todo' = [todo EXCEPT ![c] = AfterFailure(@)]
               /\ rough' = (rough \/ OnHermes(todo[c]))
               /\ UNCHANGED seen
          ELSE /\ seen' = [seen EXCEPT ![c] =
                    <<IF pl \in Docs THEN doc[pl] ELSE file[pl]>>]
               /\ UNCHANGED <<todo, rough>>
  /\ UNCHANGED <<file, bad, doc, onPath, form, user, stamped, raced>>

\* The write that ends a step on a configuration file.
Put(c, pl, new) ==
  /\ file' = [file EXCEPT ![pl] = new]
  /\ raced' = IF seen[c] # <<>> /\ file[pl] # seen[c][1]
                THEN raced \cup {pl} ELSE raced
  /\ stamped' = IF Step(c).install THEN stamped \cup {pl} ELSE stamped \ {pl}

Leave == UNCHANGED <<file, raced, stamped>>

\* Mutation: the commands are built again for the allowlist.
Built_Again(c) == CurrentForm

\* The form a step writes: Hermes's two files get the same commands.
Built(c) == IF Step(c).h = "hermes" THEN form[c] ELSE CurrentForm

\* Hermes runs a hook unasked when its allowlist has that very command.
Added(s, old, f) ==
  CASE s.do = "hooks" -> WithHooks(s.h, old, f)
    [] s.do = "allow" -> Stripped(old) \cup Ours(f)
    [] s.do = "mcp" -> old \cup Server

Removed(s, old) ==
  CASE s.do = "hooks" -> WithoutHooks(s.h, old)
    [] s.do = "allow" -> Stripped(old)
    [] s.do = "mcp" -> old \ Server

\* An uninstall creates no file.
WriteConfig(c) ==
  /\ At(c, {"hooks", "mcp", "allow"}) /\ seen[c] # <<>>
  /\ LET s == Step(c)
         old == Entries(seen[c][1])
     IN IF s.install THEN Put(c, Place(s), Added(s, old, Built(c)))
        ELSE IF seen[c][1] = Absent THEN Leave
        ELSE Put(c, Place(s), Removed(s, old))
  /\ Done(c)
  /\ UNCHANGED <<bad, doc, onPath, user, rough>>

\* Files of memorize's own: written whole or removed.
WriteOwned(c) ==
  /\ At(c, Owned)
  /\ Put(c, Place(Step(c)),
         IF Step(c).install THEN {<<"file", "server">>} ELSE Absent)
  /\ Done(c)
  /\ UNCHANGED <<bad, doc, onPath, user, rough>>

\* A document is written only when the text is another.
WriteDoc(c) ==
  /\ At(c, InDoc) /\ seen[c] # <<>>
  /\ LET pl == Place(Step(c))
         old == seen[c][1]
         new == IF Step(c).do # "rule"
                  THEN WithoutBlock(old, "OLDSTART", "OLDEND")
                ELSE IF Step(c).install THEN Upserted(old)
                ELSE WithoutBlock(old, "START", "END")
     IN IF new = old THEN UNCHANGED <<doc, raced>>
        ELSE /\ doc' = [doc EXCEPT ![pl] = new]
             /\ raced' = IF doc[pl] # old THEN raced \cup {pl} ELSE raced
  /\ Done(c)
  /\ UNCHANGED <<file, bad, onPath, user, stamped, rough>>

\* The process is killed between two steps; after a read it is the same.
Kill(c) ==
  /\ todo[c] # <<>> /\ seen[c] = <<>>
  /\ rough' = (rough \/ OnHermes(todo[c]))
  /\ todo' = [todo EXCEPT ![c] = <<>>]
  /\ UNCHANGED <<file, bad, doc, onPath, seen, form, user, stamped,
                 raced>>

-----------------------------------------------------------------------------
(* The user *)

Edit == edits < MaxEdits /\ edits' = edits + 1 /\ UNCHANGED harnesses

AddHook(pl) ==
  /\ Edit
  /\ IsHooks(pl) /\ pl \notin bad
  /\ LET e == <<"SessionStart", "plain">>
     IN /\ e \notin file[pl]
        /\ file' = [file EXCEPT ![pl] = Entries(@) \cup {e}]
        /\ mine' = [mine EXCEPT ![pl] = @ \cup {e}]
  /\ UNCHANGED <<bad, doc, onPath, work, typed, cut, past>>

AddText(d) ==
  /\ Edit
  /\ doc' = [doc EXCEPT ![d] = Append(@, "text")]
  /\ typed' = [typed EXCEPT ![d] = @ + 1]
  /\ UNCHANGED <<file, bad, onPath, work, mine, cut, past>>

\* Only the end marker goes; what the user wrote stays.
CutEnd(d) ==
  /\ Edit
  /\ LET i == FirstAt(doc[d], "END", 1)
     IN /\ i > 0
        /\ doc' = [doc EXCEPT ![d] = SubSeq(@, 1, i - 1)
                                       \o SubSeq(@, i + 1, Len(@))]
  /\ cut' = cut \cup {d}
  /\ UNCHANGED <<file, bad, onPath, work, mine, typed, past>>

Break(pl) ==
  /\ Edit
  /\ IsHooks(pl) /\ file[pl] # Absent /\ pl \notin bad
  /\ bad' = bad \cup {pl}
  /\ UNCHANGED <<file, doc, onPath, work, mine, typed, cut, past>>

Mend(pl) ==
  /\ pl \in bad
  /\ bad' = bad \ {pl}
  /\ UNCHANGED <<file, doc, onPath, work, user, past>>

Switch ==
  /\ Edit
  /\ onPath' = ~ onPath
  /\ UNCHANGED <<file, bad, doc, work, mine, typed, cut, past>>

-----------------------------------------------------------------------------
(* memorize doctor, on the two files it looks into *)

Missing(content) ==
  {e \in Active : ~ \E f \in Recognised \ {"flat"} : <<e, f>> \in content}

\* checkClaudeInstall, with the probe of the program a node entry names.
DoctorOnClaude(pl) ==
  LET has == Entries(file[pl])
  IN  IF file[pl] = Absent THEN "none"
      ELSE IF pl \in bad THEN "warn"
      ELSE IF \E e \in Active : <<e, "flat">> \in has THEN "error"
      ELSE IF Missing(has) = Active THEN "none"
      ELSE IF Missing(has) # {} THEN "warn"
      ELSE IF \E e \in Active : <<e, "stale">> \in has THEN "error"
      ELSE "ok"

\* checkCodexInstall, without its guess from the sessions that Codex does
\* not trust the hooks.
DoctorOnCodex(pl) ==
  IF file[pl] = Absent THEN "none"
  ELSE IF pl \in bad \/ Missing(Entries(file[pl])) # {} THEN "warn"
  ELSE "ok"

-----------------------------------------------------------------------------
Next ==
  \/ \E c \in Commands, h \in harnesses, p \in Projects : Install(c, h, p)
  \/ \E c \in Commands, h \in harnesses, p \in Projects : Uninstall(c, h, p)
  \/ \E c \in Commands, p \in Projects : Onboard(c, p)
  \/ \E c \in Commands : Setup(c)
  \/ \E c \in Commands : Update(c)
  \/ \E c \in Commands : Judge(c)
  \/ \E c \in Commands : Read(c)
  \/ \E c \in Commands : WriteConfig(c)
  \/ \E c \in Commands : WriteOwned(c)
  \/ \E c \in Commands : WriteDoc(c)
  \/ \E c \in Commands : Kill(c)
  \/ \E pl \in Files : AddHook(pl)
  \/ \E d \in Docs : AddText(d)
  \/ \E d \in Docs : CutEnd(d)
  \/ \E pl \in Files : Break(pl)
  \/ \E pl \in Files : Mend(pl)
  \/ Switch

Spec == Init /\ [][Next]_vars

-----------------------------------------------------------------------------
(* Properties *)

\* A file memorize has last written to install has exactly one entry of
\* memorize's for each event, whatever older versions, other forms of the
\* command, interrupted or simultaneous installs had left, and none for an
\* event it no longer handles, so that no hook runs twice; and doctor, which
\* reads the file by rules of its own, has nothing to say about it.
OneHookEach ==
  \A pl \in stamped : IsHooks(pl) =>
    /\ \A e \in Active :
         Cardinality({f \in Forms : <<e, f>> \in file[pl]}) = 1
    /\ ~ \E f \in Forms : <<Retired, f>> \in file[pl]
    /\ pl \notin bad => (pl[1] = "claude" => DoctorOnClaude(pl) = "ok")
                      /\ (pl[1] = "codex" => DoctorOnCodex(pl) = "ok")

\* No sequence of installs, uninstalls, updates and failures takes a hook
\* command of the user's out of a configuration file, unless a write landed
\* on a change it had not read.
HooksKept ==
  \A pl \in Files \ raced : \A e \in mine[pl] :
    e[2] # "other" => {e, <<e[1], "plain">>} \cap file[pl] # {}

\* Nor a line of the user's out of an instruction file, which never has two
\* ground rules; a START whose END the user has removed is the exception.
TextKept ==
  \A d \in Docs \ (raced \cup cut) :
    /\ TextIn(doc[d]) = typed[d]
    /\ Cardinality({i \in DOMAIN doc[d] : doc[d][i] = "START"}) <= 1

\* When the commands on Hermes ran to their end one after the other, each of
\* its hooks is approved in the very form it is registered in.
ApprovedHooks ==
  LET hooks == <<"hermes", "hooks", "home">>
      allow == <<"hermes", "allow", "home">>
  IN "hermes" \in harnesses /\ ~ rough /\ ~ HermesBusy
       /\ {hooks, allow} \cap raced = {} =>
     {e \in file[hooks] : e[2] \in Forms} \subseteq file[allow]
==============================================================================
