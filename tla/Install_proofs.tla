---------------------------- MODULE Install_proofs ----------------------------
(***************************************************************************)
(* Proofs about Install, for any number of projects and commands, any      *)
(* agents on the machine and any edits of the user's between them.         *)
(*                                                                         *)
(* What a step writes depends on what it has read, and raced says whether  *)
(* that was still in the file.  So it is enough to say of a file what each *)
(* update keeps of it (Kept, Stamped, Written), and of a list of steps     *)
(* that Hermes's approvals are written right after its hooks (Paired).     *)
(***************************************************************************)
EXTENDS Install, SequenceTheorems, FiniteSetTheorems, TLAPS

-----------------------------------------------------------------------------
(* The inductive invariant *)

Kinds ==
  {"hooks", "mcp", "allow", "plugin", "skill", "rule", "override", "legacy",
   "judge"}

StepOf == [do : Kinds, h : Known, p : Projects, install : BOOLEAN]

Tokens == {"START", "rule", "END", "old", "text", "OLDSTART", "OLDEND"}

TypeOK ==
  /\ harnesses \in Machines
  /\ DOMAIN file = Files
  /\ mine \in [Files -> SUBSET (Events \X Theirs)]
  /\ DOMAIN doc = Docs /\ DOMAIN typed = Docs
  /\ stamped \subseteq Files
  /\ DOMAIN todo = Commands /\ DOMAIN seen = Commands /\ DOMAIN form = Commands
  /\ rough \in BOOLEAN

There(content) == \A e \in content : e[2] # "file"

\* A hooks file is there, and only in hooks files the user has entries.
Kept ==
  /\ \A pl \in Files : IsHooks(pl) => There(file[pl])
  /\ \A pl \in Files : ~ IsHooks(pl) => mine[pl] = {}
  /\ \A c \in Commands : At(c, {"hooks"}) /\ seen[c] # <<>> =>
       There(seen[c][1])
  /\ HooksKept

\* Memorize's entries of a file
OursIn(content) == {e \in content : e[2] \in Forms}

Current == {"node", "npx"}

Stamped ==
  \A pl \in stamped : IsHooks(pl) => \E f \in Current : OursIn(file[pl]) = Ours(f)

\* The steps of Hermes's integration that come in a pair
Hermes(s, kind) == s.h = "hermes" /\ s.do = kind

Follows(s, t) ==
  Hermes(s, "hooks") /\ Hermes(t, "allow") /\ t.install = s.install

\* From here on, every approval comes behind its hooks.
Paired(l, from) ==
  /\ \A i \in 1 .. Len(l) : Hermes(l[i], "hooks") =>
       i + 1 <= Len(l) /\ Follows(l[i], l[i + 1])
  /\ \A i \in from .. Len(l) : Hermes(l[i], "allow") =>
       i > 1 /\ Follows(l[i - 1], l[i])

Judging(l) == \E i \in 1 .. Len(l) : l[i].do = "judge"

\* A list under way: behind its first step, approvals come behind their hooks;
\* one with a step of Hermes's has nothing left to find out.
Listed(l) ==
  l \in Seq(StepOf) /\ Paired(l, 2) /\ ~ (OnHermes(l) /\ Judging(l))

Lists ==
  \A c \in Commands :
    Listed(todo[c]) /\ (OnHermes(todo[c]) => form[c] \in Current)

\* A command reads nothing before it has begun, nor for a step of another kind.
Readers == {"hooks", "mcp", "allow"} \cup InDoc

Reading ==
  \A c \in Commands :
    /\ form[c] = "none" => todo[c] = <<>>
    /\ seen[c] # <<>> => At(c, Readers)

HHooks == <<"hermes", "hooks", "home">>
HAllow == <<"hermes", "allow", "home">>

\* Between the two writes
Allowing(c) == todo[c] # <<>> /\ Hermes(Head(todo[c]), "allow")

\* Hooks and approvals agree, but for what the command under way is to write.
Approving ==
  "hermes" \in harnesses /\ ~ rough /\ {HHooks, HAllow} \cap raced = {} =>
    /\ (\A c \in Commands : ~ Allowing(c)) => OursIn(file[HHooks]) \subseteq file[HAllow]
    /\ \A c \in Commands : Allowing(c) =>
         OursIn(file[HHooks]) =
           IF Head(todo[c]).install THEN Ours(form[c]) ELSE {}

Alone ==
  ~ rough => \A c, d \in Commands : OnHermes(todo[c]) /\ OnHermes(todo[d]) => c = d

\* Start and end of a block are two tokens apart, and there is one block.
OneBlock(x, s, e) ==
  /\ \A i \in 1 .. Len(x) : x[i] = s =>
       i + 2 <= Len(x) /\ x[i + 1] \in {"old", "rule"} /\ x[i + 2] = e
  /\ \A i \in 1 .. Len(x) : x[i] = e => i > 2 /\ x[i - 2] = s
  /\ \A i, j \in 1 .. Len(x) : x[i] = s /\ x[j] = s => i = j

Shape(x) ==
  x \in Seq(Tokens) /\ OneBlock(x, "START", "END") /\ OneBlock(x, "OLDSTART", "OLDEND")

Written ==
  \A d \in Docs \ (raced \cup cut) : Shape(doc[d]) /\ TextIn(doc[d]) = typed[d]

InstallInv ==
  /\ TypeOK /\ Reading /\ Lists /\ Alone
  /\ Kept /\ Stamped /\ Approving /\ Written

-----------------------------------------------------------------------------
(* Configuration files *)

\* An install leaves memorize's entries in one form, an uninstall none.
LEMMA HooksWritten ==
  ASSUME NEW h, NEW old, NEW f \in Forms
  PROVE  /\ OursIn(WithHooks(h, old, f)) = Ours(f)
         /\ OursIn(WithoutHooks(h, old)) = {}
<1>1. OursIn(Server) = {}
  BY DEF OursIn, Server, Forms
<1>2. OursIn(Ours(f)) = Ours(f)
  BY DEF OursIn, Ours
<1>3. \A content : OursIn(Stripped(content)) = {}
  BY DEF OursIn, Stripped, Recognised
<1>4. OursIn(WithHooks(h, old, f)) = Ours(f)
  BY <1>1, <1>2, <1>3 DEF WithHooks, OursIn
<1>5. OursIn(WithoutHooks(h, old)) = {}
  BY <1>3 DEF WithoutHooks, OursIn
<1> QED
  BY <1>4, <1>5

\* The same of what Hermes has approved.
LEMMA ApprovalsWritten ==
  ASSUME NEW old, NEW f \in Forms
  PROVE  Ours(f) \subseteq Stripped(old) \cup Ours(f)
OBVIOUS

\* Neither takes a hook of the user's, nor the file.
LEMMA HooksOfOthers ==
  ASSUME NEW h, NEW old, NEW f \in Forms,
         NEW ev \in Events, NEW what \in {"plain", "rich"},
         {<<ev, what>>, <<ev, "plain">>} \cap old # {}
  PROVE  /\ {<<ev, what>>, <<ev, "plain">>} \cap WithHooks(h, old, f) # {}
         /\ {<<ev, what>>, <<ev, "plain">>} \cap WithoutHooks(h, old) # {}
<1>1. PICK e \in {<<ev, what>>, <<ev, "plain">>} : e \in old
  OBVIOUS
<1>2. e[1] = ev /\ e[2] \in {"plain", "rich"} /\ e = <<ev, e[2]>>
  BY <1>1
<1>3. {<<ev, what>>, <<ev, "plain">>} \cap Coerced(h, old) # {}
  <2>1. CASE h \in HooksMap
    <3>1. <<e[1], IF e[2] = "rich" THEN "plain" ELSE e[2]>> \in Coerced(h, old)
      BY <1>1, <1>2, <2>1 DEF Coerced
    <3>2. <<ev, "plain">> \in Coerced(h, old)
      BY <1>2, <3>1
    <3> QED BY <3>2
  <2>2. CASE h \notin HooksMap
    BY <1>1, <1>2, <2>2 DEF Coerced
  <2> QED BY <2>1, <2>2
<1>4. \A k \in {"plain", "rich"} : <<ev, k>> \notin Server /\ k \notin Recognised
  BY DEF Server, Recognised, Forms
<1>5. {<<ev, what>>, <<ev, "plain">>} \cap Stripped(Coerced(h, old)) # {}
  BY <1>3, <1>4 DEF Stripped
<1> QED
  BY <1>4, <1>5 DEF WithHooks, WithoutHooks

LEMMA HooksThere ==
  ASSUME NEW h, NEW old, NEW f \in Forms, There(old)
  PROVE  /\ There(WithHooks(h, old, f))
         /\ There(WithoutHooks(h, old))
<1>1. There(Coerced(h, old))
  <2>1. CASE h \in HooksMap
    BY <2>1 DEF Coerced, There
  <2>2. CASE h \notin HooksMap
    BY <2>2 DEF Coerced, There
  <2> QED BY <2>1, <2>2
<1>2. There(Ours(f)) /\ There(Server)
  BY DEF There, Ours, Server, Forms
<1> QED
  BY <1>1, <1>2 DEF WithHooks, WithoutHooks, Stripped, There

LEMMA ReadAsIs ==
  ASSUME NEW content, There(content)
  PROVE  Entries(content) = content /\ content # Absent
<1>1. <<"no", "file">>[2] = "file"
  OBVIOUS
<1>2. <<"no", "file">> \notin content
  BY <1>1 DEF There
<1> QED
  BY <1>2 DEF Entries, Absent

-----------------------------------------------------------------------------
(* Instruction files *)

LEMMA FirstNone ==
  ASSUME NEW x, NEW t, NEW from, \A i \in from .. Len(x) : x[i] # t
  PROVE  FirstAt(x, t, from) = 0
BY DEF FirstAt

LEMMA FirstOnly ==
  ASSUME NEW x \in Seq(Tokens), NEW t, NEW from \in Nat, NEW i \in from .. Len(x),
         x[i] = t, \A j \in from .. Len(x) : x[j] = t => j = i
  PROVE  FirstAt(x, t, from) = i
<1>1. {j \in from .. Len(x) : x[j] = t} = {i}
  OBVIOUS
<1>2. i \in Nat
  OBVIOUS
<1> QED
  BY <1>1, <1>2 DEF FirstAt

\* Where a well-formed document has its block
LEMMA BlockFound ==
  ASSUME NEW x \in Seq(Tokens), NEW s, NEW e, s # e, e \notin {"old", "rule"},
         OneBlock(x, s, e), NEW i \in 1 .. Len(x), x[i] = s
  PROVE  /\ StartOf(x, s) = i /\ EndOf(x, s, e) = i + 2
         /\ HasBlock(x, s, e)
<1>1. Len(x) \in Nat /\ i + 2 \in i + 1 .. Len(x)
  BY DEF OneBlock
<1>2. StartOf(x, s) = i
  BY <1>1, FirstOnly DEF StartOf, OneBlock
<1>3. \A j \in i + 1 .. Len(x) : x[j] = e => j = i + 2
  <2> SUFFICES ASSUME NEW j \in i + 1 .. Len(x), x[j] = e PROVE j = i + 2
    OBVIOUS
  <2>1. j \in 1 .. Len(x)
    BY <1>1
  <2>2. j > 2 /\ x[j - 2] = s
    BY <2>1 DEF OneBlock
  <2>3. j - 2 \in 1 .. Len(x)
    BY <2>1, <2>2
  <2>4. j - 2 = i
    BY <2>2, <2>3 DEF OneBlock
  <2> QED BY <2>1, <2>4
<1>4. x[i + 2] = e
  BY DEF OneBlock
<1>5. FirstAt(x, e, i + 1) = i + 2
  BY <1>1, <1>3, <1>4, FirstOnly
<1>6. EndOf(x, s, e) = i + 2
  BY <1>2, <1>5 DEF EndOf
<1> QED
  BY <1>1, <1>2, <1>6 DEF HasBlock

LEMMA NoBlock ==
  ASSUME NEW x \in Seq(Tokens), NEW s, NEW e, \A i \in 1 .. Len(x) : x[i] # s
  PROVE  ~ HasBlock(x, s, e)
<1>1. StartOf(x, s) = 0
  BY FirstNone DEF StartOf
<1> QED
  BY <1>1 DEF HasBlock

\* Two sets of places in one-to-one correspondence count the same.
LEMMA SameCount ==
  ASSUME NEW S, NEW T, IsFiniteSet(S), NEW f \in Bijection(S, T)
  PROVE  Cardinality(S) = Cardinality(T)
BY FS_Bijection DEF ExistsBijection

LEMMA TextsFinite ==
  ASSUME NEW x \in Seq(Tokens)
  PROVE  /\ DOMAIN x = 1 .. Len(x) /\ Len(x) \in Nat
         /\ IsFiniteSet({i \in 1 .. Len(x) : x[i] = "text"})
<1>1. DOMAIN x = 1 .. Len(x) /\ Len(x) \in Nat
  OBVIOUS
<1>2. IsFiniteSet(1 .. Len(x))
  BY <1>1, FS_Interval
<1>3. {i \in 1 .. Len(x) : x[i] = "text"} \in SUBSET (1 .. Len(x))
  OBVIOUS
<1> QED
  BY <1>1, <1>2, <1>3, FS_Subset
Marks == Tokens \ {"old", "rule", "text"}

\* What is left when a block is taken out, or replaced
LEMMA TakenOut ==
  ASSUME NEW x \in Seq(Tokens), NEW i \in 1 .. Len(x), i + 2 <= Len(x)
  PROVE  LET y == SubSeq(x, 1, i - 1) \o <<>> \o SubSeq(x, i + 3, Len(x))
         IN  /\ y \in Seq(Tokens) /\ Len(y) = Len(x) - 3
             /\ \A k \in 1 .. Len(y) : y[k] = IF k < i THEN x[k] ELSE x[k + 3]
<1> DEFINE a == SubSeq(x, 1, i - 1)
           b == SubSeq(x, i + 3, Len(x))
<1>0. Len(x) \in Nat /\ i \in Nat /\ \A k \in 1 .. Len(x) : x[k] \in Tokens
  OBVIOUS
<1>1. a \in Seq(Tokens) /\ Len(a) = i - 1 /\ \A k \in 1 .. i - 1 : a[k] = x[k]
  BY <1>0, SubSeqProperties
<1>2. /\ b \in Seq(Tokens) /\ Len(b) = Len(x) - i - 2
      /\ \A k \in 1 .. Len(x) - i - 2 : b[k] = x[i + 2 + k]
  <2>1. \A k \in i + 3 .. Len(x) : x[k] \in Tokens
    BY <1>0
  <2>2. /\ b \in Seq(Tokens) /\ Len(b) = IF i + 3 <= Len(x) THEN Len(x) - (i + 3) + 1 ELSE 0
        /\ \A k \in 1 .. Len(x) - (i + 3) + 1 : b[k] = x[i + 3 + k - 1]
    BY <1>0, <2>1, SubSeqProperties
  <2> QED BY <1>0, <2>2
<1> HIDE DEF a, b
<1>3. a \o <<>> = a
  BY <1>1, ConcatEmptySeq
<1>4. /\ a \o b \in Seq(Tokens) /\ Len(a \o b) = Len(a) + Len(b)
      /\ \A k \in 1 .. Len(a) + Len(b) :
           (a \o b)[k] = IF k <= Len(a) THEN a[k] ELSE b[k - Len(a)]
  BY <1>1, <1>2, ConcatProperties
<1>5. Len(a) + Len(b) = Len(x) - 3
  BY <1>0, <1>1, <1>2
<1>6. ASSUME NEW k \in 1 .. Len(x) - 3
      PROVE  (a \o b)[k] = IF k < i THEN x[k] ELSE x[k + 3]
  <2>1. k \in Nat /\ k \in 1 .. Len(a) + Len(b)
    BY <1>0, <1>5
  <2>2. CASE k < i
    BY <1>0, <1>1, <1>4, <2>1, <2>2
  <2>3. CASE ~ (k < i)
    <3>1. k - Len(a) \in 1 .. Len(x) - i - 2 /\ i + 2 + (k - Len(a)) = k + 3
      BY <1>0, <1>1, <2>1, <2>3
    <3>2. (a \o b)[k] = b[k - Len(a)]
      <4>1. ~ (k <= Len(a))
        BY <1>0, <1>1, <2>1, <2>3
      <4> QED BY <1>4, <2>1, <4>1
    <3> QED BY <1>2, <2>3, <3>1, <3>2
  <2> QED BY <2>2, <2>3
<1>7. /\ a \o <<>> \o b \in Seq(Tokens) /\ Len(a \o <<>> \o b) = Len(x) - 3
      /\ \A k \in 1 .. Len(x) - 3 :
           (a \o <<>> \o b)[k] = IF k < i THEN x[k] ELSE x[k + 3]
  BY <1>3, <1>4, <1>5, <1>6, Zenon
<1> QED
  BY <1>7 DEF a, b

LEMMA BlockGone ==
  ASSUME NEW x \in Seq(Tokens), NEW s \in Marks, NEW e \in Marks, s # e,
         NEW t \in Marks, NEW u \in Marks, {s, e} \cap {t, u} = {},
         OneBlock(x, s, e), OneBlock(x, t, u)
  PROVE  LET y == WithoutBlock(x, s, e)
         IN  /\ y \in Seq(Tokens) /\ OneBlock(y, s, e) /\ OneBlock(y, t, u)
             /\ TextIn(y) = TextIn(x)
<1> DEFINE y == WithoutBlock(x, s, e)
<1>1. CASE \A i \in 1 .. Len(x) : x[i] # s
  BY <1>1, NoBlock DEF WithoutBlock
<1>2. ASSUME NEW i \in 1 .. Len(x), x[i] = s
      PROVE  y \in Seq(Tokens) /\ OneBlock(y, s, e) /\ OneBlock(y, t, u) /\ TextIn(y) = TextIn(x)
  <2>0. /\ Len(x) \in Nat /\ i \in Nat /\ i + 2 <= Len(x)
        /\ x[i + 1] \in {"old", "rule"} /\ x[i + 2] = e
    BY <1>2 DEF OneBlock
  <2>1. y = SubSeq(x, 1, i - 1) \o <<>> \o SubSeq(x, i + 3, Len(x))
    <3>1. StartOf(x, s) = i /\ EndOf(x, s, e) = i + 2 /\ HasBlock(x, s, e)
      BY <1>2, BlockFound DEF Marks
    <3>2. StartOf(x, s) - 1 = i - 1 /\ EndOf(x, s, e) + 1 = i + 3
      BY <2>0, <3>1
    <3>3. y = Replaced(x, s, e, <<>>)
      BY <3>1 DEF WithoutBlock
    <3> QED BY <3>2, <3>3 DEF Replaced
  <2>2. /\ y \in Seq(Tokens) /\ Len(y) = Len(x) - 3
        /\ \A k \in 1 .. Len(y) : y[k] = IF k < i THEN x[k] ELSE x[k + 3]
    <3> HIDE DEF y
    <3>1. i + 2 <= Len(x)
      BY <2>0
    <3> QED BY <2>1, <3>1, TakenOut
  <2> HIDE DEF y
  <2> DEFINE at(k) == IF k < i THEN k ELSE k + 3
  <2>3. \A k \in 1 .. Len(y) :
          /\ at(k) \in 1 .. Len(x) /\ y[k] = x[at(k)]
          /\ at(k) \notin {i, i + 1, i + 2}
    BY <2>0, <2>2
  <2>4. \A m \in 1 .. Len(x) \ {i, i + 1, i + 2} : \E k \in 1 .. Len(y) : at(k) = m
    <3> SUFFICES ASSUME NEW m \in 1 .. Len(x) \ {i, i + 1, i + 2}
                 PROVE  \E k \in 1 .. Len(y) : at(k) = m
      OBVIOUS
    <3>1. CASE m < i
      <4>1. m \in 1 .. Len(y) /\ at(m) = m
        BY <2>0, <2>2, <3>1
      <4> QED BY <4>1
    <3>2. CASE ~ (m < i)
      <4>1. m - 3 \in 1 .. Len(y) /\ at(m - 3) = m
        BY <2>0, <2>2, <3>2
      <4> QED BY <4>1
    <3> QED BY <3>1, <3>2
  <2>5. \A k, l \in 1 .. Len(y) : at(k) = at(l) => k = l
    BY <2>0, <2>2
  <2>6. \A k \in 1 .. Len(y) : y[k] # s /\ y[k] # e
    <3> SUFFICES ASSUME NEW k \in 1 .. Len(y), y[k] = s \/ y[k] = e PROVE FALSE
      OBVIOUS
    <3>1. at(k) \in 1 .. Len(x) /\ y[k] = x[at(k)] /\ at(k) \notin {i, i + 1, i + 2}
      BY <2>3
    <3> HIDE DEF at
    <3>2. CASE y[k] = s
      BY <1>2, <3>1, <3>2 DEF OneBlock
    <3>3. CASE y[k] = e
      <4>0. at(k) > 2 /\ x[at(k) - 2] = s
        BY <3>1, <3>3 DEF OneBlock
      <4>1. at(k) > 2 /\ x[at(k) - 2] = s /\ at(k) - 2 \in 1 .. Len(x)
        BY <2>0, <3>1, <4>0
      <4>2. at(k) - 2 = i
        BY <1>2, <4>1 DEF OneBlock
      <4> QED BY <2>0, <3>1, <4>1, <4>2
    <3> QED BY <3>2, <3>3
  <2>7. OneBlock(y, s, e)
    BY <2>6 DEF OneBlock
  <2>8. OneBlock(y, t, u)
    <3>0. t \notin {s, e, "old", "rule"} /\ u \notin {s, e, "old", "rule"}
      BY DEF Marks
    <3>1. ASSUME NEW k \in 1 .. Len(y), y[k] = t
          PROVE  k + 2 <= Len(y) /\ y[k + 1] \in {"old", "rule"} /\ y[k + 2] = u
      <4>1. x[at(k)] = t /\ at(k) \in 1 .. Len(x)
        BY <2>3, <3>1
      <4>2. at(k) + 2 <= Len(x) /\ x[at(k) + 1] \in {"old", "rule"} /\ x[at(k) + 2] = u
        <5> HIDE DEF at
        <5> QED BY <4>1 DEF OneBlock
      <4>3. at(k) + 1 # i /\ at(k) + 2 # i
        <5> HIDE DEF at
        <5> QED BY <1>2, <3>0, <4>2 DEF Marks
      <4>4. k + 2 <= Len(y) /\ at(k + 1) = at(k) + 1 /\ at(k + 2) = at(k) + 2
        BY <2>0, <2>2, <4>2, <4>3
      <4>5. y[k + 1] = x[at(k) + 1] /\ y[k + 2] = x[at(k) + 2]
        <5>1. k + 1 \in 1 .. Len(y) /\ k + 2 \in 1 .. Len(y)
          BY <2>0, <2>2, <4>4
        <5>2. y[k + 1] = x[at(k + 1)] /\ y[k + 2] = x[at(k + 2)]
          BY <2>3, <5>1
        <5> QED BY <4>4, <5>2
      <4> QED BY <4>2, <4>4, <4>5
    <3>2. ASSUME NEW k \in 1 .. Len(y), y[k] = u
          PROVE  k > 2 /\ y[k - 2] = t
      <4>1. x[at(k)] = u /\ at(k) \in 1 .. Len(x) /\ at(k) \notin {i, i + 1, i + 2}
        BY <2>3, <3>2
      <4>2. at(k) > 2 /\ x[at(k) - 2] = t
        <5> HIDE DEF at
        <5> QED BY <4>1 DEF OneBlock
      <4>3. at(k) - 2 # i + 1 /\ at(k) - 2 # i + 2
        <5> HIDE DEF at
        <5> QED BY <2>0, <3>0, <4>2
      <4>4. at(k) - 2 # i
        <5> HIDE DEF at
        <5> QED BY <1>2, <3>0, <4>2
      <4>5. k - 2 \in 1 .. Len(y) /\ at(k - 2) = at(k) - 2
        BY <2>0, <2>2, <4>1, <4>2, <4>3, <4>4
      <4>6. y[k - 2] = x[at(k - 2)]
        BY <2>3, <4>5
      <4> QED BY <2>0, <2>2, <4>2, <4>5, <4>6
    <3>3. ASSUME NEW k \in 1 .. Len(y), NEW l \in 1 .. Len(y), y[k] = t, y[l] = t
          PROVE  k = l
      <4>1. x[at(k)] = t /\ x[at(l)] = t /\ at(k) \in 1 .. Len(x) /\ at(l) \in 1 .. Len(x)
        BY <2>3, <3>3
      <4>2. at(k) = at(l)
        <5> HIDE DEF at
        <5> QED BY <4>1 DEF OneBlock
      <4> QED BY <2>5, <4>2
    <3> QED BY <3>1, <3>2, <3>3 DEF OneBlock
  <2>9. TextIn(y) = TextIn(x)
    <3> DEFINE S == {k \in 1 .. Len(y) : y[k] = "text"}
               T == {m \in 1 .. Len(x) : x[m] = "text"}
               f == [k \in S |-> at(k)]
    <3>1. \A k \in S : at(k) \in T
      BY <2>3
    <3>2. \A m \in T : m \notin {i, i + 1, i + 2}
      BY <1>2, <2>0 DEF Marks
    <3>3. \A m \in T : \E k \in S : at(k) = m
      BY <2>3, <2>4, <3>2
    <3>4. \A k, l \in S : at(k) = at(l) => k = l
      BY <2>5
    <3>5. f \in Bijection(S, T)
      <4> HIDE DEF at, S, T
      <4> QED BY <3>1, <3>3, <3>4 DEF Bijection, Injection, Surjection, IsInjective
    <3>6. IsFiniteSet(S)
      BY <2>2, TextsFinite
    <3>7. Cardinality(S) = Cardinality(T)
      <4> HIDE DEF f, S, T
      <4> QED BY <3>5, <3>6, SameCount
    <3> QED BY <2>2, <3>7, TextsFinite DEF TextIn
  <2> QED BY <2>2, <2>7, <2>8, <2>9
<1> QED
  BY <1>1, <1>2
LEMMA BlockIs ==
  /\ Block \in Seq(Tokens) /\ Len(Block) = 3
  /\ Block[1] = "START" /\ Block[2] = "rule" /\ Block[3] = "END"
BY DEF Block, Tokens

LEMMA PutIn ==
  ASSUME NEW x \in Seq(Tokens), NEW i \in 1 .. Len(x), i + 2 <= Len(x)
  PROVE  LET y == SubSeq(x, 1, i - 1) \o Block \o SubSeq(x, i + 3, Len(x))
         IN  /\ y \in Seq(Tokens) /\ Len(y) = Len(x)
             /\ \A k \in 1 .. Len(x) :
                  y[k] = IF k \in i .. i + 2 THEN Block[k - i + 1] ELSE x[k]
<1> DEFINE a == SubSeq(x, 1, i - 1)
           b == SubSeq(x, i + 3, Len(x))
           ab == a \o Block
<1>0. Len(x) \in Nat /\ i \in Nat /\ \A k \in 1 .. Len(x) : x[k] \in Tokens
  OBVIOUS
<1>1. a \in Seq(Tokens) /\ Len(a) = i - 1 /\ \A k \in 1 .. i - 1 : a[k] = x[k]
  BY <1>0, SubSeqProperties
<1>2. /\ b \in Seq(Tokens) /\ Len(b) = Len(x) - i - 2
      /\ \A k \in 1 .. Len(x) - i - 2 : b[k] = x[i + 2 + k]
  <2>1. \A k \in i + 3 .. Len(x) : x[k] \in Tokens
    BY <1>0
  <2>2. /\ b \in Seq(Tokens) /\ Len(b) = IF i + 3 <= Len(x) THEN Len(x) - (i + 3) + 1 ELSE 0
        /\ \A k \in 1 .. Len(x) - (i + 3) + 1 : b[k] = x[i + 3 + k - 1]
    BY <1>0, <2>1, SubSeqProperties
  <2> QED BY <1>0, <2>2
<1> HIDE DEF a, b
<1>3. /\ ab \in Seq(Tokens) /\ Len(ab) = i + 2
      /\ \A k \in 1 .. i + 2 : ab[k] = IF k < i THEN x[k] ELSE Block[k - i + 1]
  <2>0. Block \in Seq(Tokens)
    BY BlockIs
  <2>1. /\ ab \in Seq(Tokens) /\ Len(ab) = Len(a) + Len(Block)
        /\ \A k \in 1 .. Len(a) + Len(Block) :
             ab[k] = IF k <= Len(a) THEN a[k] ELSE Block[k - Len(a)]
    BY <1>1, <2>0, ConcatProperties
  <2>2. Len(a) + Len(Block) = i + 2
    BY <1>0, <1>1, BlockIs
  <2> HIDE DEF ab
  <2>3. ASSUME NEW k \in 1 .. i + 2
        PROVE  ab[k] = IF k < i THEN x[k] ELSE Block[k - i + 1]
    <3>1. ab[k] = IF k <= Len(a) THEN a[k] ELSE Block[k - Len(a)]
      BY <2>1, <2>2
    <3>2. k - Len(a) = k - i + 1 /\ (k <= Len(a) <=> k < i)
      BY <1>0, <1>1
    <3>3. k < i => a[k] = x[k]
      BY <1>0, <1>1
    <3> QED BY <3>1, <3>2, <3>3
  <2> QED BY <2>1, <2>2, <2>3
<1> HIDE DEF ab
<1>4. /\ ab \o b \in Seq(Tokens) /\ Len(ab \o b) = Len(ab) + Len(b)
      /\ \A k \in 1 .. Len(ab) + Len(b) :
           (ab \o b)[k] = IF k <= Len(ab) THEN ab[k] ELSE b[k - Len(ab)]
  BY <1>2, <1>3, ConcatProperties
<1>5. Len(ab) + Len(b) = Len(x)
  BY <1>0, <1>2, <1>3
<1>6. ASSUME NEW k \in 1 .. Len(x)
      PROVE  (ab \o b)[k] = IF k \in i .. i + 2 THEN Block[k - i + 1] ELSE x[k]
  <2>1. (ab \o b)[k] = IF k <= Len(ab) THEN ab[k] ELSE b[k - Len(ab)]
    BY <1>4, <1>5
  <2>2. CASE k <= i + 2
    <3>1. (ab \o b)[k] = ab[k] /\ k \in 1 .. i + 2
      BY <1>0, <1>3, <2>1, <2>2
    <3>2. k \in i .. i + 2 <=> ~ (k < i)
      BY <1>0, <2>2
    <3> QED BY <1>3, <3>1, <3>2
  <2>3. CASE ~ (k <= i + 2)
    <3>1. (ab \o b)[k] = b[k - (i + 2)]
      BY <1>0, <1>3, <2>1, <2>3
    <3>2. k - (i + 2) \in 1 .. Len(x) - i - 2 /\ i + 2 + (k - (i + 2)) = k
      BY <1>0, <2>3
    <3>3. b[k - (i + 2)] = x[k]
      BY <1>2, <3>2
    <3>4. k \notin i .. i + 2
      BY <1>0, <2>3
    <3> QED BY <3>1, <3>3, <3>4
  <2> QED BY <2>2, <2>3
<1>7. /\ ab \o b \in Seq(Tokens) /\ Len(ab \o b) = Len(x)
      /\ \A k \in 1 .. Len(x) :
           (ab \o b)[k] = IF k \in i .. i + 2 THEN Block[k - i + 1] ELSE x[k]
  BY <1>4, <1>5, <1>6, Zenon
<1> QED
  BY <1>7 DEF a, b, ab

LEMMA SameText ==
  ASSUME NEW x \in Seq(Tokens), NEW y \in Seq(Tokens),
         {k \in 1 .. Len(y) : y[k] = "text"} = {k \in 1 .. Len(x) : x[k] = "text"}
  PROVE  TextIn(y) = TextIn(x)
BY TextsFinite DEF TextIn

\* A block is put where the old one was, or at the end.
LEMMA BlockPut ==
  ASSUME NEW x, Shape(x)
  PROVE  Shape(Upserted(x)) /\ TextIn(Upserted(x)) = TextIn(x)
<1> DEFINE y == Upserted(x)
<1>0. x \in Seq(Tokens) /\ Len(x) \in Nat
  BY DEF Shape
<1>1. ASSUME NEW i \in 1 .. Len(x), x[i] = "START"
      PROVE  Shape(y) /\ TextIn(y) = TextIn(x)
  <2>0. i \in Nat /\ i + 2 <= Len(x) /\ x[i + 1] \in {"old", "rule"} /\ x[i + 2] = "END"
    BY <1>0, <1>1 DEF Shape, OneBlock
  <2>1. y = SubSeq(x, 1, i - 1) \o Block \o SubSeq(x, i + 3, Len(x))
    <3>1. StartOf(x, "START") = i /\ EndOf(x, "START", "END") = i + 2
          /\ HasBlock(x, "START", "END")
      BY <1>0, <1>1, BlockFound DEF Shape
    <3>2. StartOf(x, "START") - 1 = i - 1 /\ EndOf(x, "START", "END") + 1 = i + 3
      BY <2>0, <3>1
    <3>3. y = Replaced(x, "START", "END", Block)
      BY <3>1 DEF Upserted
    <3> QED BY <3>2, <3>3 DEF Replaced
  <2>2. /\ y \in Seq(Tokens) /\ Len(y) = Len(x)
        /\ \A k \in 1 .. Len(x) :
             y[k] = IF k \in i .. i + 2 THEN Block[k - i + 1] ELSE x[k]
    <3> HIDE DEF y
    <3>1. i + 2 <= Len(x)
      BY <2>0
    <3> QED BY <1>0, <2>1, <3>1, PutIn
  <2> HIDE DEF y
  <2>3. /\ y[i] = "START" /\ y[i + 1] = "rule" /\ y[i + 2] = "END"
        /\ \A k \in 1 .. Len(x) : k # i + 1 => y[k] = x[k]
    <3>1. /\ {i, i + 1, i + 2} \subseteq 1 .. Len(x)
          /\ \A k \in i .. i + 2 : k \in {i, i + 1, i + 2}
          /\ i - i + 1 = 1 /\ i + 1 - i + 1 = 2 /\ i + 2 - i + 1 = 3
          /\ {i, i + 1, i + 2} \subseteq i .. i + 2
      BY <1>0, <2>0
    <3>2. y[i] = Block[1] /\ y[i + 1] = Block[2] /\ y[i + 2] = Block[3]
      <4>1. \A k \in {i, i + 1, i + 2} : y[k] = Block[k - i + 1]
        BY <2>2, <3>1
      <4>2. y[i] = Block[1]
        BY <3>1, <4>1
      <4>3. y[i + 1] = Block[2]
        BY <3>1, <4>1
      <4>4. y[i + 2] = Block[3]
        BY <3>1, <4>1
      <4> QED BY <4>2, <4>3, <4>4
    <3>3. \A k \in 1 .. Len(x) : k \notin i .. i + 2 => y[k] = x[k]
      BY <2>2
    <3> QED BY <1>1, <2>0, <3>1, <3>2, <3>3, BlockIs
  <2>4. OneBlock(y, "START", "END") /\ OneBlock(y, "OLDSTART", "OLDEND")
    <3>1. ASSUME NEW s, NEW e, <<s, e>> \in {<<"START", "END">>, <<"OLDSTART", "OLDEND">>}
          PROVE  OneBlock(y, s, e)
      <4>0. OneBlock(x, s, e) /\ s \notin {"old", "rule"} /\ e \notin {"old", "rule"}
        BY <3>1 DEF Shape
      <4>1. ASSUME NEW k \in 1 .. Len(y), y[k] = s
            PROVE  k + 2 <= Len(y) /\ y[k + 1] \in {"old", "rule"} /\ y[k + 2] = e
        <5>1. x[k] = s /\ k \in 1 .. Len(x)
          BY <2>2, <2>3, <4>0, <4>1
        <5>2. k + 2 <= Len(x) /\ x[k + 1] \in {"old", "rule"} /\ x[k + 2] = e
          BY <4>0, <5>1 DEF OneBlock
        <5>3. y[k + 1] \in {"old", "rule"}
          BY <1>0, <2>3, <5>1, <5>2
        <5>4. k + 2 # i + 1
          BY <2>0, <4>0, <5>2
        <5>5. y[k + 2] = e
          BY <1>0, <2>3, <5>1, <5>2, <5>4
        <5> QED BY <2>2, <5>2, <5>3, <5>5
      <4>2. ASSUME NEW k \in 1 .. Len(y), y[k] = e
            PROVE  k > 2 /\ y[k - 2] = s
        <5>1. x[k] = e /\ k \in 1 .. Len(x)
          BY <2>2, <2>3, <4>0, <4>2
        <5>2. k > 2 /\ x[k - 2] = s
          BY <4>0, <5>1 DEF OneBlock
        <5>3. k - 2 # i + 1
          BY <2>0, <4>0, <5>2
        <5>4. y[k - 2] = s
          BY <1>0, <2>3, <5>1, <5>2, <5>3
        <5> QED BY <5>2, <5>4
      <4>3. ASSUME NEW k \in 1 .. Len(y), NEW l \in 1 .. Len(y), y[k] = s, y[l] = s
            PROVE  k = l
        <5>1. x[k] = s /\ x[l] = s /\ k \in 1 .. Len(x) /\ l \in 1 .. Len(x)
          BY <2>2, <2>3, <4>0, <4>3
        <5> QED BY <4>0, <5>1 DEF OneBlock
      <4> QED BY <4>1, <4>2, <4>3 DEF OneBlock
    <3> QED BY <3>1
  <2>5. TextIn(y) = TextIn(x)
    <3>1. \A k \in 1 .. Len(x) : y[k] = "text" <=> x[k] = "text"
      BY <2>0, <2>3
    <3> QED BY <1>0, <2>2, <3>1, SameText
  <2> QED BY <2>2, <2>4, <2>5 DEF Shape
<1>2. ASSUME \A i \in 1 .. Len(x) : x[i] # "START"
      PROVE  Shape(y) /\ TextIn(y) = TextIn(x)
  <2>1. y = x \o Block
    BY <1>0, <1>2, NoBlock DEF Upserted
  <2>2. /\ y \in Seq(Tokens) /\ Len(y) = Len(x) + 3
        /\ \A k \in 1 .. Len(x) + 3 :
             y[k] = IF k <= Len(x) THEN x[k] ELSE Block[k - Len(x)]
    <3> HIDE DEF y
    <3>1. Block \in Seq(Tokens) /\ Len(Block) = 3
      BY BlockIs
    <3>2. /\ x \o Block \in Seq(Tokens) /\ Len(x \o Block) = Len(x) + Len(Block)
          /\ \A k \in 1 .. Len(x) + Len(Block) :
               (x \o Block)[k] = IF k <= Len(x) THEN x[k] ELSE Block[k - Len(x)]
      BY <1>0, <3>1, ConcatProperties
    <3> QED BY <2>1, <3>1, <3>2, Zenon
  <2> HIDE DEF y
  <2>3. /\ \A k \in 1 .. Len(x) : k \in 1 .. Len(y) /\ y[k] = x[k]
        /\ y[Len(x) + 1] = "START" /\ y[Len(x) + 2] = "rule" /\ y[Len(x) + 3] = "END"
        /\ \A k \in 1 .. Len(y) : k \in 1 .. Len(x) \cup {Len(x) + 1, Len(x) + 2, Len(x) + 3}
    <3>1. /\ \A k \in 1 .. Len(x) : k \in 1 .. Len(y) /\ k <= Len(x)
          /\ \A k \in 1 .. Len(y) : k \in 1 .. Len(x) \cup {Len(x) + 1, Len(x) + 2, Len(x) + 3}
      BY <1>0, <2>2
    <3>2. \A j \in {1, 2, 3} : Len(x) + j \in 1 .. Len(x) + 3 /\ ~ (Len(x) + j <= Len(x))
                               /\ Len(x) + j - Len(x) = j
      BY <1>0
    <3>3. \A j \in {1, 2, 3} : y[Len(x) + j] = Block[j]
      BY <2>2, <3>2
    <3> QED BY <2>2, <3>1, <3>3, BlockIs
  <2>4. OneBlock(y, "START", "END")
    <3>0. \A k \in 1 .. Len(x) : x[k] # "END"
      BY <1>0, <1>2 DEF Shape, OneBlock
    <3>1. \A k \in 1 .. Len(y) : y[k] = "START" => k = Len(x) + 1
      BY <1>2, <2>3
    <3>2. \A k \in 1 .. Len(y) : y[k] = "END" => k = Len(x) + 3
      BY <2>3, <3>0
    <3> QED BY <1>0, <2>2, <2>3, <3>1, <3>2 DEF OneBlock
  <2>5. OneBlock(y, "OLDSTART", "OLDEND")
    <3>0. OneBlock(x, "OLDSTART", "OLDEND")
      BY DEF Shape
    <3>1. \A k \in 1 .. Len(y) : y[k] \in {"OLDSTART", "OLDEND"} => k \in 1 .. Len(x) /\ x[k] = y[k]
      BY <2>3
    <3>2. ASSUME NEW k \in 1 .. Len(y), y[k] = "OLDSTART"
          PROVE  k + 2 <= Len(y) /\ y[k + 1] \in {"old", "rule"} /\ y[k + 2] = "OLDEND"
      <4>1. k \in 1 .. Len(x) /\ x[k] = "OLDSTART"
        BY <3>1, <3>2
      <4>2. k + 2 <= Len(x) /\ x[k + 1] \in {"old", "rule"} /\ x[k + 2] = "OLDEND"
        BY <3>0, <4>1 DEF OneBlock
      <4>3. k + 1 \in 1 .. Len(x) /\ k + 2 \in 1 .. Len(x)
        BY <1>0, <4>1, <4>2
      <4> QED BY <1>0, <2>2, <2>3, <4>2, <4>3
    <3>3. ASSUME NEW k \in 1 .. Len(y), y[k] = "OLDEND"
          PROVE  k > 2 /\ y[k - 2] = "OLDSTART"
      <4>1. k \in 1 .. Len(x) /\ x[k] = "OLDEND"
        BY <3>1, <3>3
      <4>2. k > 2 /\ x[k - 2] = "OLDSTART"
        BY <3>0, <4>1 DEF OneBlock
      <4>3. k - 2 \in 1 .. Len(x)
        BY <1>0, <4>1, <4>2
      <4> QED BY <2>3, <4>2, <4>3
    <3>4. \A k, l \in 1 .. Len(y) : y[k] = "OLDSTART" /\ y[l] = "OLDSTART" => k = l
      BY <3>0, <3>1 DEF OneBlock
    <3> QED BY <3>2, <3>3, <3>4 DEF OneBlock
  <2>6. TextIn(y) = TextIn(x)
    <3>1. {k \in 1 .. Len(y) : y[k] = "text"} = {k \in 1 .. Len(x) : x[k] = "text"}
      BY <2>3
    <3> QED BY <1>0, <2>2, <3>1, SameText
  <2> QED BY <2>2, <2>4, <2>5, <2>6 DEF Shape
<1> QED
  BY <1>1, <1>2

-----------------------------------------------------------------------------
(* Lists of steps *)

Seven == {"claude", "codex", "gemini", "opencode", "pi", "hermes", "cursor"}

\* A finite set of numbers has a least one: there is no shorter initial part.
LEMMA LeastOf ==
  ASSUME NEW n \in Nat, NEW J \in SUBSET (1 .. n), J # {}
  PROVE  \E i \in J : \A j \in J : i <= j
<1> DEFINE Up(i) == {k \in J : k <= i}
           F == {Up(i) : i \in J}
<1>1. IsFiniteSet(J)
  <2>1. IsFiniteSet(1 .. n)
    BY FS_Interval
  <2> QED BY <2>1, FS_Subset
<1>2. IsWellFoundedOn(StrictSubsetOrdering(J), SUBSET J)
  BY <1>1, FS_StrictSubsetOrderingWellFounded, FS_FiniteSubsetsOfFinite
<1>3. F \subseteq SUBSET J /\ F # {}
  OBVIOUS
<1> HIDE DEF F
<1>4. PICK u \in F : \A v \in F : ~ (<<v, u>> \in StrictSubsetOrdering(J))
  BY <1>2, <1>3, WFMin
<1>5. PICK i \in J : u = Up(i)
  BY DEF F
<1>6. ASSUME NEW j \in J PROVE i <= j
  <2> SUFFICES ASSUME ~ (i <= j) PROVE FALSE
    OBVIOUS
  <2>1. i \in Int /\ j \in Int /\ \A k \in J : k \in Int
    OBVIOUS
  <2>2. Up(j) \subseteq Up(i) /\ i \in Up(i) /\ i \notin Up(j)
    <3>1. \A k \in J : k <= j => k <= i
      BY <2>1
    <3>2. i <= i
      BY <2>1
    <3> QED BY <3>1, <3>2
  <2>3. Up(j) \in F
    BY DEF F
  <2>4. Up(j) \in SUBSET J /\ Up(i) \in SUBSET J
    OBVIOUS
  <2> HIDE DEF Up
  <2> QED BY <1>4, <1>5, <2>2, <2>3, <2>4 DEF StrictSubsetOrdering
<1> QED
  BY <1>6

LEMMA Machine ==
  ASSUME TypeOK
  PROVE  Known \subseteq Seven
BY InstallAssumption DEF TypeOK, Known, Seven

\* A list as a command begins it
Whole(l) ==
  l \in Seq(StepOf) /\ Paired(l, 1) /\ ~ (OnHermes(l) /\ Judging(l))

LEMMA StepsOf ==
  ASSUME NEW h \in Known, NEW p \in Projects, NEW list \in Seq(Kinds),
         NEW install \in BOOLEAN
  PROVE  LET l == Steps(h, p, list, install)
         IN  /\ l \in Seq(StepOf) /\ Len(l) = Len(list) /\ DOMAIN l = 1 .. Len(list)
             /\ \A i \in 1 .. Len(list) :
                  /\ l[i].do = list[i] /\ l[i].h = h /\ l[i].p = p
                  /\ l[i].install = install
<1> DEFINE l == Steps(h, p, list, install)
<1>1. \A i \in 1 .. Len(list) :
        [do |-> list[i], h |-> h, p |-> p, install |-> install] \in StepOf
  BY DEF StepOf
<1>2. Len(list) \in Nat
  OBVIOUS
<1>3. l \in [1 .. Len(list) -> StepOf]
  BY <1>1 DEF Steps
<1> HIDE DEF l
<1>4. l \in Seq(StepOf) /\ Len(l) = Len(list)
  BY <1>2, <1>3
<1> QED
  BY <1>3, <1>4 DEF l, Steps

LEMMA OthersWhole ==
  ASSUME NEW l \in Seq(StepOf), \A i \in 1 .. Len(l) : l[i].h # "hermes"
  PROVE  Whole(l) /\ ~ OnHermes(l)
<1>1. DOMAIN l = 1 .. Len(l)
  OBVIOUS
<1> QED
  BY <1>1 DEF Whole, OnHermes, Paired, Hermes

LEMMA TwoWhole ==
  ASSUME NEW l, NEW m, Whole(l), Whole(m), ~ Judging(l), ~ Judging(m)
  PROVE  Whole(l \o m) /\ ~ Judging(l \o m)
<1> DEFINE lm == l \o m
<1>0. l \in Seq(StepOf) /\ m \in Seq(StepOf) /\ Len(l) \in Nat /\ Len(m) \in Nat
  BY DEF Whole
<1>1. /\ lm \in Seq(StepOf) /\ Len(lm) = Len(l) + Len(m)
      /\ \A i \in 1 .. Len(l) + Len(m) :
           lm[i] = IF i <= Len(l) THEN l[i] ELSE m[i - Len(l)]
  BY <1>0, ConcatProperties
<1> HIDE DEF lm
<1>2. \A i \in 1 .. Len(lm) :
        \/ i \in 1 .. Len(l) /\ lm[i] = l[i]
        \/ i - Len(l) \in 1 .. Len(m) /\ lm[i] = m[i - Len(l)]
  BY <1>0, <1>1
<1>3. \A i \in 1 .. Len(l) : i \in 1 .. Len(lm) /\ lm[i] = l[i]
  BY <1>0, <1>1
<1>4. \A i \in 1 .. Len(m) : Len(l) + i \in 1 .. Len(lm) /\ lm[Len(l) + i] = m[i]
  <2> SUFFICES ASSUME NEW i \in 1 .. Len(m)
               PROVE  Len(l) + i \in 1 .. Len(lm) /\ lm[Len(l) + i] = m[i]
    OBVIOUS
  <2>1. /\ Len(l) + i \in 1 .. Len(l) + Len(m) /\ ~ (Len(l) + i <= Len(l))
        /\ Len(l) + i - Len(l) = i
    BY <1>0
  <2>2. lm[Len(l) + i] = m[Len(l) + i - Len(l)]
    BY <1>1, <2>1
  <2> QED BY <1>1, <2>1, <2>2
<1>5. ~ Judging(lm)
  BY <1>2 DEF Judging
<1>6. ASSUME NEW i \in 1 .. Len(lm), Hermes(lm[i], "hooks")
      PROVE  i + 1 <= Len(lm) /\ Follows(lm[i], lm[i + 1])
  <2>1. CASE i \in 1 .. Len(l) /\ lm[i] = l[i]
    <3>1. i + 1 <= Len(l) /\ Follows(l[i], l[i + 1])
      BY <1>6, <2>1 DEF Whole, Paired
    <3>2. i + 1 \in 1 .. Len(l)
      BY <1>0, <2>1, <3>1
    <3> QED BY <1>0, <1>1, <1>3, <2>1, <3>1, <3>2
  <2>2. CASE i - Len(l) \in 1 .. Len(m) /\ lm[i] = m[i - Len(l)]
    <3> DEFINE j == i - Len(l)
    <3>0. j \in 1 .. Len(m) /\ lm[i] = m[j] /\ i = Len(l) + j
      BY <1>0, <2>2
    <3> HIDE DEF j
    <3>1. j + 1 <= Len(m) /\ Follows(m[j], m[j + 1])
      BY <1>6, <3>0 DEF Whole, Paired
    <3>2. j + 1 \in 1 .. Len(m) /\ Len(l) + (j + 1) = i + 1
      BY <1>0, <3>0, <3>1
    <3>3. i + 1 \in 1 .. Len(lm) /\ lm[i + 1] = m[j + 1]
      BY <1>4, <3>2
    <3> QED BY <1>0, <1>1, <3>0, <3>1, <3>3
  <2> QED BY <1>2, <2>1, <2>2
<1>7. ASSUME NEW i \in 1 .. Len(lm), Hermes(lm[i], "allow")
      PROVE  i > 1 /\ Follows(lm[i - 1], lm[i])
  <2>1. CASE i \in 1 .. Len(l) /\ lm[i] = l[i]
    <3>1. i > 1 /\ Follows(l[i - 1], l[i])
      BY <1>7, <2>1 DEF Whole, Paired
    <3>2. i - 1 \in 1 .. Len(l)
      BY <1>0, <2>1, <3>1
    <3> QED BY <1>3, <2>1, <3>1, <3>2
  <2>2. CASE i - Len(l) \in 1 .. Len(m) /\ lm[i] = m[i - Len(l)]
    <3> DEFINE j == i - Len(l)
    <3>0. j \in 1 .. Len(m) /\ lm[i] = m[j] /\ i = Len(l) + j
      BY <1>0, <2>2
    <3> HIDE DEF j
    <3>1. j > 1 /\ Follows(m[j - 1], m[j])
      BY <1>7, <3>0 DEF Whole, Paired
    <3>2. j - 1 \in 1 .. Len(m) /\ Len(l) + (j - 1) = i - 1 /\ i > 1
      BY <1>0, <3>0, <3>1
    <3>3. lm[i - 1] = m[j - 1]
      BY <1>4, <3>2
    <3> QED BY <3>0, <3>1, <3>2, <3>3
  <2> QED BY <1>2, <2>1, <2>2
<1>8. Paired(lm, 1)
  BY <1>6, <1>7 DEF Paired
<1>9. Whole(lm)
  BY <1>1, <1>5, <1>8 DEF Whole
<1> QED
  BY <1>5, <1>9 DEF lm

Updates == Kinds \ {"judge"}

LEMMA SurfacesAre ==
  ASSUME NEW h \in Seven
  PROVE  /\ Surfaces(h) \in Seq(Updates) /\ Removals(h) \in Seq(Updates)
         /\ h = "hermes" => Surfaces(h) = HermesSteps /\ Removals(h) = HermesSteps
<1>1. /\ ClaudeSteps \in Seq(Updates) /\ CodexSteps \in Seq(Updates)
      /\ GeminiSteps \in Seq(Updates) /\ OpencodeSteps \in Seq(Updates)
      /\ PiSteps \in Seq(Updates) /\ HermesSteps \in Seq(Updates)
      /\ CursorSteps \in Seq(Updates) /\ <<"rule", "skill", "hooks">> \in Seq(Updates)
  BY DEF Updates, Kinds, ClaudeSteps, CodexSteps, GeminiSteps, OpencodeSteps,
         PiSteps, HermesSteps, CursorSteps
<1>2. Surfaces(h) \in Seq(Updates)
  BY <1>1 DEF Surfaces, Seven
<1>3. Removals(h) \in Seq(Updates)
  BY <1>1, <1>2 DEF Removals
<1>4. h = "hermes" => Surfaces(h) = HermesSteps /\ Removals(h) = HermesSteps
  BY DEF Surfaces, Removals
<1> QED BY <1>2, <1>3, <1>4

LEMMA PlainSteps ==
  ASSUME NEW h \in Known, NEW p \in Projects, NEW list \in Seq(Updates),
         NEW install \in BOOLEAN, h # "hermes"
  PROVE  LET l == Steps(h, p, list, install)
         IN  Whole(l) /\ ~ Judging(l) /\ ~ OnHermes(l)
<1> DEFINE l == Steps(h, p, list, install)
<1>1. list \in Seq(Kinds)
  BY DEF Updates
<1>2. /\ l \in Seq(StepOf) /\ Len(l) = Len(list)
      /\ \A i \in 1 .. Len(list) : l[i].do = list[i] /\ l[i].h = h
  BY <1>1, StepsOf
<1>3. \A i \in 1 .. Len(list) : list[i] # "judge"
  BY DEF Updates
<1> HIDE DEF l
<1>4. Whole(l) /\ ~ OnHermes(l)
  BY <1>2, OthersWhole
<1>5. ~ Judging(l)
  BY <1>2, <1>3 DEF Judging
<1> QED BY <1>4, <1>5 DEF l

LEMMA PairedSteps ==
  ASSUME NEW p \in Projects, NEW install \in BOOLEAN, "hermes" \in Known
  PROVE  LET l == Steps("hermes", p, HermesSteps, install)
         IN  Whole(l) /\ ~ Judging(l)
<1> DEFINE l == Steps("hermes", p, HermesSteps, install)
<1>1. /\ HermesSteps \in Seq(Kinds) /\ Len(HermesSteps) = 3
      /\ HermesSteps[1] = "hooks" /\ HermesSteps[2] = "allow"
      /\ HermesSteps[3] = "rule"
  BY DEF HermesSteps, Kinds
<1>2. /\ l \in Seq(StepOf) /\ Len(l) = 3
      /\ \A i \in 1 .. 3 : l[i].do = HermesSteps[i] /\ l[i].h = "hermes"
                           /\ l[i].install = install
  BY <1>1, StepsOf
<1> HIDE DEF l
<1>3. \A i \in 1 .. 3 : i = 1 \/ i = 2 \/ i = 3
  OBVIOUS
<1>4. l[1].do = "hooks" /\ l[2].do = "allow" /\ l[3].do = "rule"
  BY <1>1, <1>2
<1>5. /\ l[1].h = "hermes" /\ l[2].h = "hermes" /\ l[1].install = l[2].install
  BY <1>2
<1>6. Follows(l[1], l[2])
  BY <1>4, <1>5 DEF Follows, Hermes
<1>7. ~ Hermes(l[2], "hooks") /\ ~ Hermes(l[3], "hooks")
      /\ ~ Hermes(l[1], "allow") /\ ~ Hermes(l[3], "allow")
  BY <1>4 DEF Hermes
<1>8. Paired(l, 1)
  <2>1. ASSUME NEW i \in 1 .. Len(l), Hermes(l[i], "hooks")
        PROVE  i + 1 <= Len(l) /\ Follows(l[i], l[i + 1])
    <3>1. i = 1
      BY <1>2, <1>3, <1>7, <2>1
    <3> QED BY <1>2, <1>6, <3>1
  <2>2. ASSUME NEW i \in 1 .. Len(l), Hermes(l[i], "allow")
        PROVE  i > 1 /\ Follows(l[i - 1], l[i])
    <3>1. i = 2
      BY <1>2, <1>3, <1>7, <2>2
    <3> QED BY <1>2, <1>6, <3>1
  <2> QED BY <2>1, <2>2 DEF Paired
<1>9. ~ Judging(l)
  <2>1. \A i \in 1 .. 3 : l[i].do # "judge"
    BY <1>3, <1>4
  <2> QED BY <1>2, <2>1 DEF Judging
<1> QED BY <1>2, <1>8, <1>9 DEF Whole, l

LEMMA AgentSteps ==
  ASSUME TypeOK, NEW h \in Known, NEW p \in Projects
  PROVE  /\ Whole(Steps(h, p, Surfaces(h), TRUE))
         /\ ~ Judging(Steps(h, p, Surfaces(h), TRUE))
         /\ Whole(Steps(h, p, Removals(h), FALSE))
<1>1. h \in Seven
  BY Machine
<1>2. CASE h = "hermes"
  BY <1>1, <1>2, SurfacesAre, PairedSteps
<1>3. CASE h # "hermes"
  BY <1>1, <1>3, SurfacesAre, PlainSteps
<1> QED BY <1>2, <1>3

LEMMA NothingWhole == Whole(<<>>) /\ ~ Judging(<<>>) /\ ~ OnHermes(<<>>)
BY DEF Whole, Judging, OnHermes, Paired

LEMMA SomeOrder ==
  /\ Cardinality(Projects) \in Nat \ {0}
  /\ InSomeOrder \in [1 .. Cardinality(Projects) -> Projects]
<1>1. IsFiniteSet(Projects) /\ Projects # {}
  BY InstallAssumption
<1>2. Cardinality(Projects) \in Nat /\ ExistsBijection(1 .. Cardinality(Projects), Projects)
  BY <1>1, FS_CardinalityType
<1>3. Cardinality(Projects) # 0
  BY <1>1, FS_EmptySet
<1>4. \E s \in [1 .. Cardinality(Projects) -> Projects] :
         \A i, j \in DOMAIN s : s[i] = s[j] => i = j
  BY <1>2 DEF ExistsBijection, Bijection, Injection, IsInjective
<1> QED BY <1>2, <1>3, <1>4 DEF InSomeOrder

\* What every command that begins begins with
LEMMA Starts ==
  ASSUME TypeOK, NEW c \in Commands,
         \/ \E h \in harnesses, p \in Projects : Install(c, h, p) \/ Uninstall(c, h, p)
         \/ \E p \in Projects : Onboard(c, p)
         \/ Setup(c) \/ Update(c)
  PROVE  \E list : Whole(list) /\ Begin(c, list)
<1>0. harnesses \subseteq Known /\ {"claude", "codex"} \subseteq Known
  BY DEF Known
<1>1. ASSUME NEW h \in harnesses, NEW p \in Projects, Install(c, h, p)
      PROVE  \E list : Whole(list) /\ Begin(c, list)
  BY <1>0, <1>1, AgentSteps DEF Install
<1>2. ASSUME NEW h \in harnesses, NEW p \in Projects, Uninstall(c, h, p)
      PROVE  \E list : Whole(list) /\ Begin(c, list)
  BY <1>0, <1>2, AgentSteps DEF Uninstall
<1>3. ASSUME NEW p \in Projects, Onboard(c, p)
      PROVE  \E list : Whole(list) /\ Begin(c, list)
  <2>1. \A h : Whole(Wired(h, p)) /\ ~ Judging(Wired(h, p))
    BY <1>0, AgentSteps, NothingWhole DEF Wired
  <2> DEFINE two == Wired("claude", p) \o Wired("codex", p)
             three == two \o Wired("opencode", p)
             four == three \o Wired("gemini", p)
             five == four \o Wired("pi", p)
             six == five \o Wired("hermes", p)
             seven == six \o Wired("cursor", p)
  <2>2. Begin(c, seven)
    BY <1>3 DEF Onboard
  <2>3. Whole(two) /\ ~ Judging(two)
    BY <2>1, TwoWhole
  <2> HIDE DEF two
  <2>4. Whole(three) /\ ~ Judging(three)
    BY <2>1, <2>3, TwoWhole
  <2> HIDE DEF three
  <2>5. Whole(four) /\ ~ Judging(four)
    BY <2>1, <2>4, TwoWhole
  <2> HIDE DEF four
  <2>6. Whole(five) /\ ~ Judging(five)
    BY <2>1, <2>5, TwoWhole
  <2> HIDE DEF five
  <2>7. Whole(six) /\ ~ Judging(six)
    BY <2>1, <2>6, TwoWhole
  <2> HIDE DEF six
  <2>8. Whole(seven)
    BY <2>1, <2>7, TwoWhole
  <2> QED BY <2>2, <2>8
<1>4. ASSUME Setup(c) PROVE \E list : Whole(list) /\ Begin(c, list)
  <2>1. (CHOOSE p \in Projects : TRUE) \in Projects
    BY InstallAssumption
  <2>2. <<"hooks">> \in Seq(Updates)
    BY DEF Updates, Kinds
  <2> QED BY <1>0, <1>4, <2>1, <2>2, PlainSteps DEF Setup
<1>5. ASSUME Update(c) PROVE \E list : Whole(list) /\ Begin(c, list)
  <2> DEFINE front == <<Judged("codex", InSomeOrder[1])>>
             back == [i \in DOMAIN InSomeOrder |-> Judged("claude", InSomeOrder[i])]
             list == front \o back
  <2>1. Begin(c, <<>>) \/ Begin(c, list)
    BY <1>5 DEF Update
  <2>2. \A h \in {"claude", "codex"}, p \in Projects :
          Judged(h, p) \in StepOf /\ Judged(h, p).h = h
    BY <1>0 DEF Judged, StepOf, Kinds
  <2>3. /\ Cardinality(Projects) \in Nat
        /\ InSomeOrder \in [1 .. Cardinality(Projects) -> Projects]
        /\ InSomeOrder[1] \in Projects
    BY SomeOrder
  <2>4. front \in Seq(StepOf) /\ Len(front) = 1 /\ front[1].h = "codex"
    BY <2>2, <2>3
  <2>5. /\ back \in [1 .. Cardinality(Projects) -> StepOf]
        /\ \A i \in 1 .. Cardinality(Projects) : back[i].h = "claude"
    BY <2>2, <2>3
  <2> HIDE DEF front, back
  <2>6. /\ back \in Seq(StepOf) /\ Len(back) \in Nat
        /\ \A i \in 1 .. Len(back) : back[i].h = "claude"
    BY <2>3, <2>5
  <2>7. /\ list \in Seq(StepOf) /\ Len(list) = Len(front) + Len(back)
        /\ \A i \in 1 .. Len(front) + Len(back) :
             list[i] = IF i <= Len(front) THEN front[i] ELSE back[i - Len(front)]
    BY <2>4, <2>6, ConcatProperties
  <2> HIDE DEF list
  <2>8. \A i \in 1 .. Len(list) : list[i].h # "hermes"
    <3> SUFFICES ASSUME NEW i \in 1 .. Len(list) PROVE list[i].h # "hermes"
      OBVIOUS
    <3>1. CASE i = 1
      BY <2>4, <2>7, <3>1
    <3>2. CASE i # 1
      <4>1. i - 1 \in 1 .. Len(back) /\ list[i] = back[i - 1]
        BY <2>4, <2>6, <2>7, <3>2
      <4> QED BY <2>6, <4>1
    <3> QED BY <3>1, <3>2
  <2>9. Whole(list)
    BY <2>7, <2>8, OthersWhole
  <2> QED BY <2>1, <2>9, NothingWhole
<1> QED
  BY <1>1, <1>2, <1>3, <1>4, <1>5

LEMMA HeadIs ==
  ASSUME NEW l \in Seq(StepOf), l # <<>>
  PROVE  /\ Head(l) = l[1] /\ Head(l) \in StepOf /\ Len(l) \in Nat \ {0}
         /\ DOMAIN l = 1 .. Len(l) /\ 1 \in 1 .. Len(l)
         /\ Head(l).h = "hermes" => OnHermes(l)
BY DEF OnHermes

LEMMA TailListed ==
  ASSUME NEW l, Listed(l), l # <<>>
  PROVE  /\ Listed(Tail(l)) /\ (OnHermes(Tail(l)) => OnHermes(l))
         /\ Tail(l) # <<>> => Len(l) > 1 /\ Head(Tail(l)) = l[2]
<1> DEFINE m == Tail(l)
<1>0. l \in Seq(StepOf) /\ Len(l) \in Nat \ {0} /\ DOMAIN l = 1 .. Len(l)
  BY DEF Listed
<1>1. /\ m \in Seq(StepOf) /\ Len(m) = Len(l) - 1 /\ DOMAIN m = 1 .. Len(m)
      /\ \A i \in 1 .. Len(l) - 1 : m[i] = l[i + 1]
  BY <1>0
<1> HIDE DEF m
<1>2. \A i \in 1 .. Len(m) : i + 1 \in 1 .. Len(l) /\ m[i] = l[i + 1]
  BY <1>0, <1>1
<1>3. OnHermes(m) => OnHermes(l)
  BY <1>0, <1>1, <1>2 DEF OnHermes
<1>4. Judging(m) => Judging(l)
  BY <1>2 DEF Judging
<1>5. ASSUME NEW i \in 1 .. Len(m), Hermes(m[i], "hooks")
      PROVE  i + 1 <= Len(m) /\ Follows(m[i], m[i + 1])
  <2>1. i + 1 + 1 <= Len(l) /\ Follows(l[i + 1], l[i + 1 + 1])
    BY <1>2, <1>5 DEF Listed, Paired
  <2>2. i + 1 \in 1 .. Len(m)
    BY <1>0, <1>1, <2>1
  <2> QED BY <1>2, <2>1, <2>2
<1>6. ASSUME NEW i \in 2 .. Len(m), Hermes(m[i], "allow")
      PROVE  i > 1 /\ Follows(m[i - 1], m[i])
  <2>1. i \in 1 .. Len(m) /\ i + 1 \in 2 .. Len(l) /\ m[i] = l[i + 1]
    BY <1>0, <1>1
  <2>2. Follows(l[i + 1 - 1], l[i + 1])
    BY <1>6, <2>1 DEF Listed, Paired
  <2>3. i - 1 \in 1 .. Len(m) /\ i + 1 - 1 = i - 1 + 1
    BY <2>1
  <2> QED BY <1>2, <2>1, <2>2, <2>3
<1>7. Paired(m, 2)
  BY <1>5, <1>6 DEF Paired
<1>8. Listed(m)
  BY <1>1, <1>3, <1>4, <1>7 DEF Listed
<1>9. m # <<>> => Len(l) > 1 /\ Head(m) = l[2]
  <2> SUFFICES ASSUME m # <<>> PROVE Len(l) > 1 /\ Head(m) = l[2]
    OBVIOUS
  <2>1. Head(m) = m[1] /\ 1 \in 1 .. Len(m)
    BY <1>1, HeadIs
  <2> QED BY <1>0, <1>1, <1>2, <2>1
<1> QED BY <1>3, <1>8, <1>9 DEF m

\* Behind anything but Hermes's hooks there is no approval.
LEMMA NextAllowed ==
  ASSUME NEW l, Listed(l), l # <<>>, Tail(l) # <<>>,
         Hermes(Head(Tail(l)), "allow")
  PROVE  Hermes(Head(l), "hooks") /\ Head(Tail(l)).install = Head(l).install
<1>1. Len(l) > 1 /\ Head(Tail(l)) = l[2]
  BY TailListed
<1>2. l \in Seq(StepOf) /\ Len(l) \in Nat /\ Head(l) = l[1]
  BY HeadIs DEF Listed
<1>3. 2 \in 2 .. Len(l)
  BY <1>1, <1>2
<1>4. Follows(l[2 - 1], l[2])
  BY <1>1, <1>3 DEF Listed, Paired
<1> QED BY <1>1, <1>2, <1>4 DEF Follows

LEMMA HooksFirst ==
  ASSUME NEW l, Listed(l), l # <<>>, Hermes(Head(l), "hooks")
  PROVE  /\ Tail(l) # <<>> /\ Hermes(Head(Tail(l)), "allow")
         /\ Head(Tail(l)).install = Head(l).install
<1>1. l \in Seq(StepOf) /\ Len(l) \in Nat /\ Head(l) = l[1] /\ 1 \in 1 .. Len(l)
  BY HeadIs DEF Listed
<1>2. 1 + 1 <= Len(l) /\ Follows(l[1], l[1 + 1])
  BY <1>1 DEF Listed, Paired
<1>3. Tail(l) # <<>>
  <2>1. Len(Tail(l)) = Len(l) - 1
    BY <1>1, <1>2
  <2>2. Len(Tail(l)) # 0
    BY <1>1, <1>2, <2>1
  <2>3. Len(<<>>) = 0
    OBVIOUS
  <2> QED BY <2>2, <2>3, Zenon
<1>4. Head(Tail(l)) = l[2]
  BY <1>3, TailListed
<1> QED BY <1>1, <1>2, <1>3, <1>4 DEF Follows

LEMMA FailureListed ==
  ASSUME NEW l, Listed(l)
  PROVE  /\ Listed(AfterFailure(l)) /\ ~ OnHermes(AfterFailure(l))
<1> DEFINE judges == {i \in DOMAIN l : l[i].do = "judge"}
           first == CHOOSE i \in judges : \A j \in judges : i <= j
           m == AfterFailure(l)
<1>0. l \in Seq(StepOf) /\ Len(l) \in Nat /\ DOMAIN l = 1 .. Len(l)
  BY DEF Listed
<1>1. CASE judges = {}
  <2>1. m = <<>>
    BY <1>1 DEF AfterFailure
  <2>2. <<>> \in Seq(StepOf) /\ Len(<<>>) = 0 /\ DOMAIN <<>> = {}
    OBVIOUS
  <2> HIDE DEF m
  <2> QED BY <2>1, <2>2 DEF Listed, Paired, OnHermes, m
<1>2. CASE judges # {}
  <2>1. m = SubSeq(l, first, Len(l))
    BY <1>2 DEF AfterFailure
  <2>2. judges \in SUBSET (1 .. Len(l))
    BY <1>0
  <2>3. first \in judges
    <3> HIDE DEF judges
    <3>1. \E i \in judges : \A j \in judges : i <= j
      BY <1>0, <1>2, <2>2, LeastOf
    <3> QED BY <3>1
  <2>4. Judging(l)
    BY <1>0, <1>2 DEF Judging
  <2>5. \A i \in 1 .. Len(l) : l[i].h # "hermes"
    BY <1>0, <2>4 DEF Listed, OnHermes
  <2>6. first \in 1 .. Len(l)
    BY <2>2, <2>3
  <2> HIDE DEF first, judges, m
  <2>7. /\ m \in Seq(StepOf) /\ Len(m) = Len(l) - first + 1
        /\ \A i \in 1 .. Len(l) - first + 1 : m[i] = l[first + i - 1]
    BY <1>0, <2>1, <2>6, SubSeqProperties
  <2>8. \A i \in 1 .. Len(m) : first + i - 1 \in 1 .. Len(l)
    BY <1>0, <2>6, <2>7
  <2>9. \A i \in 1 .. Len(m) : m[i].h # "hermes"
    BY <2>5, <2>7, <2>8
  <2>10. Whole(m) /\ ~ OnHermes(m)
    BY <2>7, <2>9, OthersWhole
  <2>11. Paired(m, 2)
    <3>1. \A i \in 2 .. Len(m) : i \in 1 .. Len(m)
      BY <2>7
    <3> QED BY <2>10, <3>1 DEF Whole, Paired
  <2> QED BY <2>7, <2>10, <2>11 DEF Listed, m
<1> QED BY <1>1, <1>2

LEMMA WholeListed ==
  ASSUME NEW l, Whole(l)
  PROVE  Listed(l) /\ (l # <<>> => ~ Hermes(Head(l), "allow"))
<1>1. \A i \in 2 .. Len(l) : i \in 1 .. Len(l)
  BY DEF Whole
<1>2. Listed(l)
  BY <1>1 DEF Whole, Listed, Paired
<1>3. ASSUME l # <<>> PROVE ~ Hermes(Head(l), "allow")
  <2>1. Head(l) = l[1] /\ 1 \in 1 .. Len(l)
    BY <1>3, HeadIs DEF Whole
  <2> QED BY <2>1 DEF Whole, Paired
<1> QED BY <1>2, <1>3

-----------------------------------------------------------------------------
(* Commands under way *)

LEMMA OthersListed ==
  ASSUME NEW l \in Seq(StepOf), NEW m \in Seq(StepOf),
         ~ OnHermes(l), ~ OnHermes(m)
  PROVE  Listed(l \o m) /\ ~ OnHermes(l \o m)
<1>1. /\ l \o m \in Seq(StepOf) /\ Len(l \o m) = Len(l) + Len(m)
      /\ \A i \in 1 .. Len(l) + Len(m) :
           (l \o m)[i] = IF i <= Len(l) THEN l[i] ELSE m[i - Len(l)]
  BY ConcatProperties
<1>2. /\ Len(l) \in Nat /\ Len(m) \in Nat
      /\ \A i \in 1 .. Len(l) : l[i].h # "hermes"
      /\ \A i \in 1 .. Len(m) : m[i].h # "hermes"
  BY DEF OnHermes
<1>3. ASSUME NEW i \in 1 .. Len(l \o m) PROVE (l \o m)[i].h # "hermes"
  <2>1. i <= Len(l) \/ i - Len(l) \in 1 .. Len(m)
    BY <1>1, <1>2
  <2> QED BY <1>1, <1>2, <2>1
<1>4. Whole(l \o m) /\ ~ OnHermes(l \o m)
  BY <1>1, <1>3, OthersWhole
<1> QED BY <1>4, WholeListed

Works(c) ==
  \/ Judge(c) \/ Read(c) \/ WriteConfig(c) \/ WriteOwned(c) \/ WriteDoc(c)
  \/ Kill(c)

Moved(c) ==
  /\ todo[c] # <<>> /\ form' = form /\ harnesses' = harnesses
  /\ DOMAIN todo' = Commands /\ DOMAIN seen' = Commands
  /\ \A d \in Commands \ {c} : todo'[d] = todo[d] /\ seen'[d] = seen[d]
  /\ Listed(todo'[c]) /\ (OnHermes(todo'[c]) => OnHermes(todo[c]))
  /\ seen'[c] # <<>> => todo'[c] = todo[c] /\ At(c, Readers)
  /\ rough' \in BOOLEAN /\ (rough => rough')

LEMMA Moves ==
  ASSUME TypeOK, Reading, Lists, NEW c \in Commands, Works(c)
  PROVE  Moved(c)
<1>0. Listed(todo[c]) /\ rough \in BOOLEAN
      /\ DOMAIN todo = Commands /\ DOMAIN seen = Commands
  BY DEF Lists, TypeOK
<1>1. ASSUME Done(c), todo[c] # <<>>, harnesses' = harnesses, rough' = rough
      PROVE  Moved(c)
  <2>1. todo'[c] = Tail(todo[c]) /\ seen'[c] = <<>>
    BY <1>0, <1>1 DEF Done
  <2>2. Listed(Tail(todo[c])) /\ (OnHermes(Tail(todo[c])) => OnHermes(todo[c]))
    BY <1>0, <1>1, TailListed
  <2>3. /\ DOMAIN todo' = Commands /\ DOMAIN seen' = Commands /\ form' = form
        /\ \A d \in Commands \ {c} : todo'[d] = todo[d] /\ seen'[d] = seen[d]
    BY <1>0, <1>1 DEF Done
  <2> QED BY <1>0, <1>1, <2>1, <2>2, <2>3 DEF Moved
<1>2. CASE Judge(c)
  <2> DEFINE s == Step(c)
             found == HasOurs(file[<<s.h, "hooks", Scope(s.h, s.p)>>], Refreshable)
             list == IF s.h = "codex" THEN <<"hooks">> ELSE Surfaces("claude")
             front == IF found THEN Steps(s.h, s.p, list, TRUE) ELSE <<>>
  <2>1. todo' = [todo EXCEPT ![c] = front \o Tail(@)]
    BY <1>2 DEF Judge
  <2>2. todo[c] # <<>> /\ s.do = "judge"
    BY <1>2 DEF Judge, At
  <2>3. todo[c] \in Seq(StepOf) /\ s \in StepOf /\ s = todo[c][1] /\ 1 \in 1 .. Len(todo[c])
    BY <1>0, <2>2, HeadIs DEF Listed, Step
  <2>4. s.h \in Known /\ s.p \in Projects
    BY <2>3 DEF StepOf
  <2>5. ~ OnHermes(todo[c])
    BY <1>0, <2>2, <2>3 DEF Listed, Judging
  <2>6. s.h # "hermes"
    BY <1>0, <2>2, <2>5, HeadIs DEF Listed, Step
  <2>7. list \in Seq(Updates)
    <3>1. <<"hooks">> \in Seq(Updates) /\ Surfaces("claude") \in Seq(Updates)
      BY SurfacesAre DEF Updates, Kinds, Seven
    <3> QED BY <3>1
  <2> HIDE DEF s, list, found
  <2>8. front \in Seq(StepOf) /\ ~ OnHermes(front)
    BY <2>4, <2>6, <2>7, PlainSteps, NothingWhole DEF Whole
  <2> HIDE DEF front
  <2>9. Tail(todo[c]) \in Seq(StepOf) /\ ~ OnHermes(Tail(todo[c]))
    BY <1>0, <2>2, <2>5, TailListed DEF Listed
  <2>10. Listed(front \o Tail(todo[c])) /\ ~ OnHermes(front \o Tail(todo[c]))
    BY <2>8, <2>9, OthersListed
  <2>11. seen[c] = <<>>
    BY <2>2 DEF Reading, At, Readers, InDoc, s
  <2>12. /\ todo'[c] = front \o Tail(todo[c]) /\ DOMAIN todo' = Commands
         /\ \A d \in Commands \ {c} : todo'[d] = todo[d]
    BY <1>0, <2>1
  <2>13. form' = form /\ harnesses' = harnesses /\ seen' = seen /\ rough' = rough
    BY <1>2 DEF Judge, user, past
  <2> QED BY <1>0, <2>2, <2>10, <2>11, <2>12, <2>13 DEF Moved
<1>3. CASE Read(c)
  <2>1. /\ todo[c] # <<>> /\ seen[c] = <<>> /\ At(c, Readers)
        /\ form' = form /\ harnesses' = harnesses
    BY <1>3 DEF Read, At, Readers, user
  <2>2. ASSUME todo' = [todo EXCEPT ![c] = AfterFailure(@)], seen' = seen,
               rough' = (rough \/ OnHermes(todo[c]))
        PROVE  Moved(c)
    <3>1. Listed(AfterFailure(todo[c])) /\ ~ OnHermes(AfterFailure(todo[c]))
      BY <1>0, FailureListed
    <3>2. /\ todo'[c] = AfterFailure(todo[c]) /\ DOMAIN todo' = Commands
          /\ \A d \in Commands \ {c} : todo'[d] = todo[d]
      BY <1>0, <2>2
    <3>3. rough' \in BOOLEAN /\ (rough => rough')
      BY <2>2
    <3> QED BY <1>0, <2>1, <2>2, <3>1, <3>2, <3>3 DEF Moved
  <2>3. ASSUME NEW v, seen' = [seen EXCEPT ![c] = v], todo' = todo, rough' = rough
        PROVE  Moved(c)
    BY <1>0, <2>1, <2>3 DEF Moved
  <2> QED BY <1>3, <2>2, <2>3 DEF Read
<1>4. CASE WriteConfig(c)
  BY <1>1, <1>4 DEF WriteConfig, At, user
<1>5. CASE WriteOwned(c)
  BY <1>1, <1>5 DEF WriteOwned, At, user
<1>6. CASE WriteDoc(c)
  BY <1>1, <1>6 DEF WriteDoc, At, user
<1>7. CASE Kill(c)
  <2>1. /\ todo[c] # <<>> /\ seen[c] = <<>> /\ seen' = seen /\ form' = form
        /\ harnesses' = harnesses /\ todo' = [todo EXCEPT ![c] = <<>>]
        /\ rough' = (rough \/ OnHermes(todo[c]))
    BY <1>7 DEF Kill, user
  <2>2. Listed(<<>>) /\ ~ OnHermes(<<>>)
    BY NothingWhole, WholeListed
  <2>3. /\ todo'[c] = <<>> /\ DOMAIN todo' = Commands
        /\ \A d \in Commands \ {c} : todo'[d] = todo[d]
    BY <1>0, <2>1
  <2>4. rough' \in BOOLEAN /\ (rough => rough')
    BY <2>1
  <2> QED BY <1>0, <2>1, <2>2, <2>3, <2>4 DEF Moved
<1> QED BY <1>2, <1>3, <1>4, <1>5, <1>6, <1>7 DEF Works

-----------------------------------------------------------------------------
(* Every step *)

Elsewhere ==
  UNCHANGED <<harnesses, file, doc, todo, seen, form, mine, typed, cut,
              stamped, raced, rough>>

\* The steps of a command, those of the user's on files, and the rest.
LEMMA Every ==
  ASSUME TypeOK, [Next]_vars
  PROVE  \/ \E c \in Commands : \E list : Whole(list) /\ Begin(c, list)
         \/ \E c \in Commands : Works(c)
         \/ \E pl \in Files : AddHook(pl)
         \/ \E d \in Docs : AddText(d) \/ CutEnd(d)
         \/ Elsewhere
<1>1. CASE \E c \in Commands :
             \/ \E h \in harnesses, p \in Projects : Install(c, h, p) \/ Uninstall(c, h, p)
             \/ \E p \in Projects : Onboard(c, p)
             \/ Setup(c) \/ Update(c)
  BY <1>1, Starts
<1>2. CASE \E c \in Commands : Works(c)
  BY <1>2
<1>3. CASE \E pl \in Files : AddHook(pl)
  BY <1>3
<1>4. CASE \E d \in Docs : AddText(d) \/ CutEnd(d)
  BY <1>4
<1>5. ASSUME NEW pl \in Files, Break(pl) PROVE Elsewhere
  BY <1>5 DEF Break, Edit, work, past, Elsewhere
<1>6. ASSUME NEW pl \in Files, Mend(pl) PROVE Elsewhere
  BY <1>6 DEF Mend, user, work, past, Elsewhere
<1>7. CASE Switch
  BY <1>7 DEF Switch, Edit, work, past, Elsewhere
<1>8. CASE UNCHANGED vars
  BY <1>8 DEF vars, user, work, past, Elsewhere
<1> QED
  BY <1>1, <1>2, <1>3, <1>4, <1>5, <1>6, <1>7, <1>8 DEF Next, Works

LEMMA SameMachine ==
  ASSUME harnesses' = harnesses
  PROVE  /\ Files' = Files /\ Docs' = Docs
         /\ StepOf' = StepOf
BY DEF Files, Docs, StepOf, Known

LEMMA Places ==
  ASSUME NEW s \in StepOf
  PROVE  /\ s.do \in Updates \ InDoc =>
              /\ Place(s) = <<s.h, s.do, Scope(s.h, s.p)>>
              /\ Place(s) \in Files /\ Place(s) \notin Docs
         /\ s.do \in InDoc => Place(s) \in Docs
<1>1. s.h \in Known /\ s.p \in Projects
  BY DEF StepOf
<1>2. ASSUME s.do \in Updates \ InDoc
      PROVE  /\ Place(s) = <<s.h, s.do, Scope(s.h, s.p)>>
             /\ Place(s) \in Files /\ Place(s) \notin Docs
  <2>1. Place(s) = <<s.h, s.do, Scope(s.h, s.p)>>
    BY <1>2 DEF Place, InDoc
  <2>2. s.do \in {"hooks", "mcp", "allow", "plugin", "skill"}
    BY <1>2 DEF Updates, Kinds, InDoc
  <2>3. Place(s) \in Files
    BY <1>1, <2>1, <2>2 DEF Files
  <2>4. Place(s) \notin Docs
    <3>1. \A d \in Docs : \E a, b : d = <<a, b>>
      BY DEF Docs
    <3>2. \A a, b : <<s.h, s.do, Scope(s.h, s.p)>> # <<a, b>>
      OBVIOUS
    <3> QED BY <2>1, <3>1, <3>2
  <2> QED BY <2>1, <2>3, <2>4
<1>3. ASSUME s.do \in InDoc PROVE Place(s) \in Docs
  BY <1>1, <1>3 DEF Place, InDoc, Docs
<1> QED BY <1>2, <1>3

LEMMA StepIs ==
  ASSUME Lists, NEW c \in Commands, todo[c] # <<>>
  PROVE  /\ Step(c) \in StepOf /\ Step(c) = Head(todo[c])
         /\ Step(c).h = "hermes" => OnHermes(todo[c])
BY HeadIs DEF Lists, Listed, Step

LEMMA BuiltIs ==
  ASSUME Lists, NEW c \in Commands, todo[c] # <<>>
  PROVE  Built(c) \in Current
BY StepIs DEF Lists, Built, CurrentForm, Current

\* The lists, and Hermes's integration by one command at a time
LEMMA OrderlyStep ==
  ASSUME TypeOK, Reading, Lists, Alone, [Next]_vars
  PROVE  Reading' /\ Lists' /\ Alone'
<1>1. ASSUME NEW c \in Commands, NEW list, Whole(list), Begin(c, list)
      PROVE  Reading' /\ Lists' /\ Alone'
  <2>0. harnesses' = harnesses /\ seen' = seen
        /\ rough' = (rough \/ (OnHermes(list) /\ HermesBusy))
    BY <1>1 DEF Begin, user
  <2>1. /\ todo'[c] = list /\ \A d \in Commands \ {c} : todo'[d] = todo[d]
        /\ form'[c] = (IF OnHermes(list) THEN CurrentForm ELSE "unused")
        /\ \A d \in Commands \ {c} : form'[d] = form[d]
    BY <1>1 DEF Begin, TypeOK
  <2>2. Listed(list)
    BY <1>1, WholeListed
  <2>3. todo[c] = <<>> /\ seen[c] = <<>>
    BY <1>1 DEF Begin, Reading, At
  <2>4. Reading'
    <3>1. form'[c] # "none"
      BY <2>1 DEF CurrentForm
    <3> QED BY <2>0, <2>1, <2>3, <3>1 DEF Reading, At, Step
  <2>5. Lists'
    <3>1. \A d \in Commands : Listed(todo'[d])
      BY <2>1, <2>2 DEF Lists
    <3>2. \A d \in Commands : OnHermes(todo'[d]) => form'[d] \in Current
      BY <2>1 DEF Lists, CurrentForm, Current
    <3>3. StepOf' = StepOf
      BY <2>0, SameMachine
    <3> QED BY <3>1, <3>2, <3>3 DEF Lists, Listed
  <2>6. Alone'
    <3> SUFFICES ASSUME ~ rough', NEW d \in Commands, NEW e \in Commands,
                        OnHermes(todo'[d]), OnHermes(todo'[e])
                 PROVE  d = e
      BY DEF Alone
    <3>1. ~ rough /\ ~ (OnHermes(list) /\ HermesBusy)
      BY <2>0
    <3>2. \A b \in Commands \ {c} : OnHermes(todo'[b]) => HermesBusy
      BY <2>1 DEF HermesBusy
    <3> QED BY <2>1, <3>1, <3>2 DEF Alone
  <2> QED BY <2>4, <2>5, <2>6
<1>2. ASSUME NEW c \in Commands, Works(c)
      PROVE  Reading' /\ Lists' /\ Alone'
  <2>0. Moved(c)
    BY <1>2, Moves
  <2>1. /\ form' = form /\ harnesses' = harnesses /\ todo[c] # <<>>
        /\ \A d \in Commands \ {c} : todo'[d] = todo[d] /\ seen'[d] = seen[d]
        /\ Listed(todo'[c]) /\ (OnHermes(todo'[c]) => OnHermes(todo[c]))
        /\ (seen'[c] # <<>> => todo'[c] = todo[c] /\ At(c, Readers))
        /\ (rough => rough')
    BY <2>0 DEF Moved
  <2>2. Reading'
    BY <2>1 DEF Reading, At, Step
  <2>3. Lists'
    <3>1. \A d \in Commands : Listed(todo'[d])
      BY <2>1 DEF Lists
    <3>2. \A d \in Commands : OnHermes(todo'[d]) => form'[d] \in Current
      BY <2>1 DEF Lists
    <3>3. StepOf' = StepOf
      BY <2>1, SameMachine
    <3> QED BY <3>1, <3>2, <3>3 DEF Lists, Listed
  <2>4. \A d \in Commands : OnHermes(todo'[d]) => OnHermes(todo[d])
    BY <2>1
  <2>5. Alone'
    BY <2>1, <2>4 DEF Alone
  <2> QED BY <2>2, <2>3, <2>5
<1>3. ASSUME UNCHANGED <<harnesses, todo, seen, form, rough>>
      PROVE  Reading' /\ Lists' /\ Alone'
  <2>1. StepOf' = StepOf
    BY <1>3, SameMachine
  <2> QED BY <1>3, <2>1 DEF Reading, Lists, Listed, Alone, At, Step
<1>4. ASSUME NEW pl \in Files, AddHook(pl)
      PROVE  UNCHANGED <<harnesses, todo, seen, form, rough>>
  BY <1>4 DEF AddHook, Edit, work, past
<1>5. ASSUME NEW d \in Docs, AddText(d) \/ CutEnd(d)
      PROVE  UNCHANGED <<harnesses, todo, seen, form, rough>>
  BY <1>5 DEF AddText, CutEnd, Edit, work, past
<1>6. Elsewhere => UNCHANGED <<harnesses, todo, seen, form, rough>>
  BY DEF Elsewhere
<1> QED
  BY <1>1, <1>2, <1>3, <1>4, <1>5, <1>6, Every

-----------------------------------------------------------------------------
(* What a step does to the files *)

FileWrites == Updates \ InDoc

\* A step on a file of memorize's or of an agent's: one file is put, or none.
LEMMA FileStep ==
  ASSUME Reading, Lists, NEW c \in Commands, WriteConfig(c) \/ WriteOwned(c)
  PROVE  LET s == Step(c)
         IN  /\ todo[c] # <<>> /\ s.do \in FileWrites /\ s \in StepOf
             /\ Place(s) = <<s.h, s.do, Scope(s.h, s.p)>>
             /\ Place(s) \in Files /\ Place(s) \notin Docs
             /\ \/ Leave /\ ~ s.install /\ WriteConfig(c) /\ seen[c][1] = Absent
                \/ s.install /\ WriteConfig(c)
                     /\ Put(c, Place(s), Added(s, Entries(seen[c][1]), Built(c)))
                \/ ~ s.install /\ WriteConfig(c)
                     /\ Put(c, Place(s), Removed(s, Entries(seen[c][1])))
                \/ \E new : WriteOwned(c) /\ Put(c, Place(s), new)
             /\ WriteConfig(c) => s.do \in {"hooks", "mcp", "allow"} /\ seen[c] # <<>>
             /\ WriteOwned(c) => s.do \in Owned
<1>1. todo[c] # <<>> /\ Step(c).do \in FileWrites
  BY DEF WriteConfig, WriteOwned, At, Owned, FileWrites, Updates, Kinds, InDoc
<1>2. Step(c) \in StepOf
  BY <1>1, StepIs
<1>3. /\ Place(Step(c)) = <<Step(c).h, Step(c).do, Scope(Step(c).h, Step(c).p)>>
      /\ Place(Step(c)) \in Files /\ Place(Step(c)) \notin Docs
  BY <1>1, <1>2, Places DEF FileWrites
<1>4. WriteConfig(c) => Step(c).do \in {"hooks", "mcp", "allow"} /\ seen[c] # <<>>
  BY DEF WriteConfig, At
<1>5. WriteOwned(c) => Step(c).do \in Owned
  BY DEF WriteOwned, At
<1>6. CASE WriteConfig(c)
  <2>1. \/ Leave /\ ~ Step(c).install /\ seen[c][1] = Absent
        \/ Step(c).install
             /\ Put(c, Place(Step(c)), Added(Step(c), Entries(seen[c][1]), Built(c)))
        \/ ~ Step(c).install
             /\ Put(c, Place(Step(c)), Removed(Step(c), Entries(seen[c][1])))
    BY <1>6, Zenon DEF WriteConfig
  <2> QED BY <1>1, <1>2, <1>3, <1>4, <1>5, <1>6, <2>1, Zenon
<1>7. CASE WriteOwned(c)
  <2>1. \E new : Put(c, Place(Step(c)), new)
    BY <1>7 DEF WriteOwned
  <2> QED BY <1>1, <1>2, <1>3, <1>4, <1>5, <1>7, <2>1, Zenon
<1> QED BY <1>6, <1>7

LEMMA TypeStep ==
  ASSUME TypeOK, Reading, Lists, [Next]_vars
  PROVE  TypeOK' /\ harnesses' = harnesses
<1> DEFINE Typed ==
      /\ DOMAIN file' = Files /\ mine' \in [Files -> SUBSET (Events \X Theirs)]
      /\ DOMAIN doc' = Docs /\ DOMAIN typed' = Docs /\ stamped' \subseteq Files
      /\ DOMAIN todo' = Commands /\ DOMAIN seen' = Commands
      /\ DOMAIN form' = Commands /\ rough' \in BOOLEAN
      /\ harnesses' = harnesses
<1>0. /\ DOMAIN file = Files /\ mine \in [Files -> SUBSET (Events \X Theirs)]
      /\ DOMAIN doc = Docs /\ DOMAIN typed = Docs /\ stamped \subseteq Files
      /\ DOMAIN todo = Commands /\ DOMAIN seen = Commands
      /\ DOMAIN form = Commands /\ rough \in BOOLEAN
  BY DEF TypeOK
<1>1. ASSUME NEW c \in Commands, NEW list, Begin(c, list) PROVE Typed
  <2>1. /\ file' = file /\ doc' = doc /\ seen' = seen /\ stamped' = stamped
        /\ harnesses' = harnesses /\ mine' = mine /\ typed' = typed
    BY <1>1 DEF Begin, user
  <2>2. DOMAIN todo' = Commands /\ DOMAIN form' = Commands
    BY <1>0, <1>1 DEF Begin
  <2>3. rough' \in BOOLEAN
    BY <1>1 DEF Begin
  <2> QED BY <1>0, <2>1, <2>2, <2>3
<1>2. ASSUME NEW c \in Commands, Works(c) PROVE Typed
  <2>1. /\ DOMAIN todo' = Commands /\ DOMAIN seen' = Commands /\ form' = form
        /\ rough' \in BOOLEAN /\ harnesses' = harnesses
    BY <1>2, Moves DEF Moved
  <2>2. mine' = mine /\ typed' = typed
    BY <1>2 DEF Works, Judge, Read, WriteConfig, WriteOwned, WriteDoc, Kill, user
  <2>3. DOMAIN file' = Files /\ stamped' \subseteq Files
    <3>1. CASE WriteConfig(c) \/ WriteOwned(c)
      <4>1. Leave \/ \E pl \in Files : \E new : Put(c, pl, new)
        BY <3>1, FileStep
      <4> QED BY <1>0, <4>1 DEF Leave, Put
    <3>2. CASE ~ (WriteConfig(c) \/ WriteOwned(c))
      BY <1>0, <1>2, <3>2 DEF Works, Judge, Read, WriteDoc, Kill, past
    <3> QED BY <3>1, <3>2
  <2>4. DOMAIN doc' = Docs
    BY <1>0, <1>2 DEF Works, Judge, Read, WriteConfig, WriteOwned, WriteDoc, Kill
  <2> QED BY <1>0, <2>1, <2>2, <2>3, <2>4
<1>3. ASSUME NEW pl \in Files, AddHook(pl) PROVE Typed
  <2>1. <<"SessionStart", "plain">> \in Events \X Theirs
    BY DEF Events, Active, Theirs
  <2>2. DOMAIN file' = Files
    BY <1>0, <1>3 DEF AddHook
  <2>3. mine' \in [Files -> SUBSET (Events \X Theirs)]
    BY <1>0, <1>3, <2>1 DEF AddHook
  <2> QED BY <1>0, <1>3, <2>2, <2>3 DEF AddHook, Edit, work, past
<1>4. ASSUME NEW d \in Docs, AddText(d) \/ CutEnd(d) PROVE Typed
  <2>1. DOMAIN doc' = Docs /\ DOMAIN typed' = Docs
    BY <1>0, <1>4 DEF AddText, CutEnd
  <2> QED BY <1>0, <1>4, <2>1 DEF AddText, CutEnd, Edit, work, past
<1>5. Elsewhere => Typed
  BY <1>0 DEF Elsewhere
<1>6. Typed
  BY <1>1, <1>2, <1>3, <1>4, <1>5, Every
<1>7. Files' = Files /\ Docs' = Docs
  BY <1>6, SameMachine
<1> QED BY <1>6, <1>7 DEF TypeOK

-----------------------------------------------------------------------------
(* Hooks *)

Clean(content) == \E f \in Current : OursIn(content) = Ours(f)

\* The user's hooks that are in one content are in another.
Passed(old, new) ==
  \A ev \in Events, what \in {"plain", "rich"} :
    {<<ev, what>>, <<ev, "plain">>} \cap old # {} =>
      {<<ev, what>>, <<ev, "plain">>} \cap new # {}

\* What is put in a hooks file, of what has been read there
LEMMA HooksPut ==
  ASSUME Lists, Kept, NEW c \in Commands, WriteConfig(c), IsHooks(Place(Step(c))),
         Reading
  PROVE  LET s == Step(c)
             old == seen[c][1]
         IN  /\ s.do = "hooks" /\ seen[c] # <<>> /\ old # Absent
             /\ LET new == Added(s, Entries(old), Built(c))
                IN  There(new) /\ Clean(new) /\ Passed(old, new)
             /\ LET new == Removed(s, Entries(old))
                IN  There(new) /\ Passed(old, new)
<1> DEFINE s == Step(c)
           old == seen[c][1]
<1>1. todo[c] # <<>> /\ seen[c] # <<>> /\ s.do = "hooks"
  BY FileStep DEF IsHooks
<1>2. There(old)
  BY <1>1 DEF Kept, At, Step
<1>3. Entries(old) = old /\ old # Absent
  BY <1>2, ReadAsIs
<1>4. Built(c) \in Current /\ Built(c) \in Forms
  BY <1>1, BuiltIs DEF Current, Forms
<1>5. /\ Added(s, old, Built(c)) = WithHooks(s.h, old, Built(c))
      /\ Removed(s, old) = WithoutHooks(s.h, old)
  BY <1>1 DEF Added, Removed
<1> HIDE DEF s, old
<1>6. /\ There(WithHooks(s.h, old, Built(c))) /\ There(WithoutHooks(s.h, old))
      /\ OursIn(WithHooks(s.h, old, Built(c))) = Ours(Built(c))
  BY <1>2, <1>4, HooksThere, HooksWritten
<1>7. Clean(WithHooks(s.h, old, Built(c)))
  BY <1>4, <1>6 DEF Clean
<1>8. /\ Passed(old, WithHooks(s.h, old, Built(c)))
      /\ Passed(old, WithoutHooks(s.h, old))
  BY <1>4, HooksOfOthers DEF Passed
<1>9. /\ s.do = "hooks" /\ seen[c] # <<>> /\ old # Absent
      /\ There(Added(s, Entries(old), Built(c)))
      /\ Clean(Added(s, Entries(old), Built(c)))
      /\ Passed(old, Added(s, Entries(old), Built(c)))
      /\ There(Removed(s, Entries(old))) /\ Passed(old, Removed(s, Entries(old)))
  BY <1>1, <1>3, <1>5, <1>6, <1>7, <1>8
<1> QED BY <1>9 DEF s, old

\* The reads of the commands that are under way
ReadThere ==
  \A c \in Commands : At(c, {"hooks"}) /\ seen[c] # <<>> => There(seen[c][1])

HooksThereAll == \A pl \in Files : IsHooks(pl) => There(file[pl])

MineInHooks == \A pl \in Files : ~ IsHooks(pl) => mine[pl] = {}

LEMMA ReadStep ==
  ASSUME TypeOK, Reading, Lists, Kept, [Next]_vars
  PROVE  ReadThere'
<1>1. ASSUME NEW c \in Commands, NEW list, Begin(c, list) PROVE ReadThere'
  <2>1. seen' = seen /\ \A d \in Commands \ {c} : todo'[d] = todo[d]
    BY <1>1 DEF Begin, TypeOK
  <2>2. seen[c] = <<>>
    BY <1>1 DEF Begin, Reading, At
  <2> QED BY <2>1, <2>2 DEF ReadThere, Kept, At, Step
<1>2. ASSUME NEW c \in Commands, Works(c) PROVE ReadThere'
  <2>1. /\ \A d \in Commands \ {c} : todo'[d] = todo[d] /\ seen'[d] = seen[d]
        /\ (seen'[c] # <<>> => todo'[c] = todo[c])
    BY <1>2, Moves DEF Moved
  <2>2. ASSUME seen'[c] # <<>>, seen[c] = <<>>, At(c, {"hooks"})
        PROVE  There(seen'[c][1])
    <3>1. Read(c)
      BY <1>2, <2>2 DEF TypeOK, Works, Judge, WriteConfig, WriteOwned, WriteDoc, Kill, Done
    <3>2. Step(c) \in StepOf /\ Step(c).do = "hooks"
      BY <2>2, StepIs DEF At
    <3>3. Place(Step(c)) \in Files /\ Place(Step(c)) \notin Docs /\ IsHooks(Place(Step(c)))
      BY <3>2, Places DEF Updates, Kinds, InDoc, IsHooks
    <3>4. seen'[c] = <<file[Place(Step(c))]>>
      BY <2>2, <3>1, <3>3 DEF Read, TypeOK
    <3> QED BY <3>3, <3>4 DEF Kept
  <2>3. ASSUME seen'[c] # <<>>, seen[c] # <<>> PROVE seen'[c] = seen[c]
    BY <1>2, <2>3 DEF TypeOK, Works, Judge, Read, WriteConfig, WriteOwned, WriteDoc, Kill, Done
  <2> QED BY <2>1, <2>2, <2>3 DEF ReadThere, Kept, At, Step
<1>3. ASSUME UNCHANGED <<todo, seen>> PROVE ReadThere'
  BY <1>3 DEF ReadThere, Kept, At, Step
<1>4. ASSUME NEW pl \in Files, AddHook(pl) PROVE UNCHANGED <<todo, seen>>
  BY <1>4 DEF AddHook, work
<1>5. ASSUME NEW d \in Docs, AddText(d) \/ CutEnd(d) PROVE UNCHANGED <<todo, seen>>
  BY <1>5 DEF AddText, CutEnd, work
<1>6. Elsewhere => UNCHANGED <<todo, seen>>
  BY DEF Elsewhere
<1> QED BY <1>1, <1>2, <1>3, <1>4, <1>5, <1>6, Every

\* A step that puts one file, of what it has read
LEMMA PutKeeps ==
  ASSUME TypeOK, Kept, NEW c \in Commands, NEW pl \in Files, NEW new,
         Put(c, pl, new), mine' = mine, harnesses' = harnesses,
         IsHooks(pl) => There(new) /\ seen[c] # <<>> /\ Passed(seen[c][1], new)
  PROVE  HooksThereAll' /\ MineInHooks' /\ HooksKept'
<1>0. Files' = Files /\ DOMAIN file = Files /\ mine \in [Files -> SUBSET (Events \X Theirs)]
  BY SameMachine DEF TypeOK
<1>1. file'[pl] = new /\ \A q \in Files \ {pl} : file'[q] = file[q]
  BY <1>0 DEF Put
<1>2. HooksThereAll'
  BY <1>0, <1>1 DEF HooksThereAll, Kept, IsHooks
<1>3. MineInHooks'
  BY <1>0 DEF MineInHooks, Kept, IsHooks
<1>4. raced \subseteq raced' /\ (pl \notin raced' /\ seen[c] # <<>> => file[pl] = seen[c][1])
  BY DEF Put
<1>5. ASSUME NEW q \in Files \ raced', NEW e \in mine[q], e[2] # "other"
      PROVE  {e, <<e[1], "plain">>} \cap file'[q] # {}
  <2>1. {e, <<e[1], "plain">>} \cap file[q] # {}
    BY <1>4, <1>5 DEF Kept, HooksKept
  <2>2. CASE q # pl
    BY <1>1, <1>5, <2>1, <2>2
  <2>3. CASE q = pl
    <3>1. IsHooks(pl)
      BY <2>3 DEF Kept
    <3>2. e \in Events \X Theirs
      BY <1>0
    <3>3. PICK ev \in Events, what \in {"plain", "rich"} : e = <<ev, what>>
      BY <1>5, <3>2 DEF Theirs
    <3>4. e[1] = ev
      BY <3>3
    <3>5. {<<ev, what>>, <<ev, "plain">>} \cap seen[c][1] # {}
      BY <1>4, <1>5, <2>1, <2>3, <3>1, <3>3, <3>4
    <3>6. {<<ev, what>>, <<ev, "plain">>} \cap new # {}
      BY <3>1, <3>5 DEF Passed
    <3> QED BY <1>1, <2>3, <3>3, <3>4, <3>6
  <2> QED BY <2>2, <2>3
<1>6. HooksKept'
  BY <1>0, <1>5 DEF HooksKept
<1> QED BY <1>2, <1>3, <1>6

LEMMA KeptStep ==
  ASSUME TypeOK, Reading, Lists, Kept, [Next]_vars
  PROVE  Kept'
<1> DEFINE Held == HooksThereAll' /\ MineInHooks' /\ HooksKept'
<1>0. harnesses' = harnesses /\ Files' = Files
  BY TypeStep, SameMachine
<1>1. ASSUME file' = file, mine' = mine, raced \subseteq raced' PROVE Held
  BY <1>0, <1>1 DEF Kept, HooksThereAll, MineInHooks, HooksKept, IsHooks
<1>2. ASSUME NEW c \in Commands, NEW list, Begin(c, list) PROVE Held
  BY <1>1, <1>2 DEF Begin, user
<1>3. ASSUME NEW c \in Commands, Works(c) PROVE Held
  <2>0. mine' = mine
    BY <1>3 DEF Works, Judge, Read, WriteConfig, WriteOwned, WriteDoc, Kill, user
  <2>1. CASE Judge(c) \/ Read(c) \/ WriteDoc(c) \/ Kill(c)
    <3>1. file' = file /\ raced \subseteq raced'
      BY <2>1 DEF Judge, Read, WriteDoc, Kill, past
    <3> QED BY <1>1, <2>0, <3>1
  <2>2. CASE WriteConfig(c)
    <3> DEFINE s == Step(c)
    <3>1. Place(s) \in Files
      BY <2>2, FileStep
    <3>2. CASE Leave
      BY <1>1, <2>0, <3>2 DEF Leave
    <3>3. CASE Put(c, Place(s), Added(s, Entries(seen[c][1]), Built(c)))
      BY <1>0, <2>0, <2>2, <3>1, <3>3, HooksPut, PutKeeps
    <3>4. CASE Put(c, Place(s), Removed(s, Entries(seen[c][1])))
      BY <1>0, <2>0, <2>2, <3>1, <3>4, HooksPut, PutKeeps
    <3> QED BY <2>2, <3>2, <3>3, <3>4 DEF WriteConfig
  <2>3. CASE WriteOwned(c)
    <3> DEFINE s == Step(c)
    <3>1. Place(s) \in Files /\ ~ IsHooks(Place(s))
      BY <2>3, FileStep DEF Owned, IsHooks
    <3>2. PICK new : Put(c, Place(s), new)
      BY <2>3 DEF WriteOwned
    <3> HIDE DEF s
    <3> QED BY <1>0, <2>0, <3>1, <3>2, PutKeeps
  <2> QED BY <1>3, <2>1, <2>2, <2>3 DEF Works
<1>4. ASSUME NEW pl \in Files, AddHook(pl) PROVE Held
  <2> DEFINE e == <<"SessionStart", "plain">>
  <2>1. /\ IsHooks(pl) /\ raced' = raced
        /\ file'[pl] = Entries(file[pl]) \cup {e} /\ mine'[pl] = mine[pl] \cup {e}
        /\ \A q \in Files \ {pl} : file'[q] = file[q] /\ mine'[q] = mine[q]
    BY <1>4 DEF AddHook, TypeOK, past
  <2>2. There(file[pl]) /\ Entries(file[pl]) = file[pl]
    BY <2>1, ReadAsIs DEF Kept
  <2>3. There({e})
    BY DEF There
  <2>4. HooksThereAll'
    BY <1>0, <2>1, <2>2, <2>3 DEF HooksThereAll, Kept, There, IsHooks
  <2>5. MineInHooks'
    BY <1>0, <2>1 DEF MineInHooks, Kept, IsHooks
  <2>6. \A q \in Files : file[q] \subseteq file'[q]
    BY <2>1, <2>2
  <2> HIDE DEF e
  <2>7. e \in file'[pl]
    BY <2>1
  <2>8. HooksKept'
    <3> SUFFICES ASSUME NEW q \in Files \ raced, NEW a \in mine'[q], a[2] # "other"
                 PROVE  {a, <<a[1], "plain">>} \cap file'[q] # {}
      BY <1>0, <2>1 DEF HooksKept
    <3>1. CASE a \in mine[q]
      BY <2>6, <3>1 DEF Kept, HooksKept
    <3>2. CASE a \notin mine[q]
      BY <2>1, <2>7, <3>2
    <3> QED BY <3>1, <3>2
  <2> QED BY <2>4, <2>5, <2>8
<1>5. ASSUME NEW d \in Docs, AddText(d) \/ CutEnd(d) PROVE Held
  BY <1>1, <1>5 DEF AddText, CutEnd, past
<1>6. Elsewhere => Held
  BY <1>1 DEF Elsewhere
<1>7. Held
  BY <1>2, <1>3, <1>4, <1>5, <1>6, Every
<1>8. ReadThere'
  BY ReadStep
<1>9. HooksThereAll' /\ MineInHooks' /\ ReadThere' /\ HooksKept' => Kept'
  BY DEF Kept, HooksThereAll, MineInHooks, ReadThere
<1> QED BY <1>7, <1>8, <1>9

LEMMA StampedStep ==
  ASSUME TypeOK, Reading, Lists, Kept, Stamped, [Next]_vars
  PROVE  Stamped'
<1> DEFINE Good == \A pl \in stamped' : IsHooks(pl) => Clean(file'[pl])
<1>0. \A pl \in stamped : IsHooks(pl) => Clean(file[pl])
  BY DEF Stamped, Clean
<1>1. ASSUME file' = file, stamped' = stamped PROVE Good
  BY <1>0, <1>1
<1>2. ASSUME NEW c \in Commands, NEW list, Begin(c, list) PROVE Good
  BY <1>1, <1>2 DEF Begin
<1>3. ASSUME NEW c \in Commands, Works(c) PROVE Good
  <2>1. CASE Judge(c) \/ Read(c) \/ WriteDoc(c) \/ Kill(c)
    BY <1>1, <2>1 DEF Judge, Read, WriteDoc, Kill, past
  <2>2. ASSUME NEW pl \in Files, NEW new, Put(c, pl, new),
               IsHooks(pl) /\ Step(c).install => Clean(new)
        PROVE  Good
    <3>1. file'[pl] = new /\ \A q \in Files \ {pl} : file'[q] = file[q]
      BY <2>2 DEF Put, TypeOK
    <3>2. stamped' = IF Step(c).install THEN stamped \cup {pl} ELSE stamped \ {pl}
      BY <2>2 DEF Put
    <3> QED BY <1>0, <2>2, <3>1, <3>2 DEF TypeOK
  <2>3. CASE WriteConfig(c)
    <3> DEFINE s == Step(c)
    <3>1. Place(s) \in Files
      BY <2>3, FileStep
    <3>2. \/ Leave
          \/ s.install /\ Put(c, Place(s), Added(s, Entries(seen[c][1]), Built(c)))
          \/ ~ s.install /\ Put(c, Place(s), Removed(s, Entries(seen[c][1])))
      BY <2>3, Zenon DEF WriteConfig
    <3>3. CASE Leave
      BY <1>1, <3>3 DEF Leave
    <3>4. CASE s.install /\ Put(c, Place(s), Added(s, Entries(seen[c][1]), Built(c)))
      BY <2>2, <2>3, <3>1, <3>4, HooksPut
    <3>5. CASE ~ s.install /\ Put(c, Place(s), Removed(s, Entries(seen[c][1])))
      BY <2>2, <3>1, <3>5
    <3> QED BY <3>2, <3>3, <3>4, <3>5
  <2>4. CASE WriteOwned(c)
    <3>1. Place(Step(c)) \in Files /\ ~ IsHooks(Place(Step(c)))
      BY <2>4, FileStep DEF Owned, IsHooks
    <3>2. PICK new : Put(c, Place(Step(c)), new)
      BY <2>4 DEF WriteOwned
    <3> QED BY <2>2, <3>1, <3>2
  <2> QED BY <1>3, <2>1, <2>3, <2>4 DEF Works
<1>4. ASSUME NEW pl \in Files, AddHook(pl) PROVE Good
  <2> DEFINE e == <<"SessionStart", "plain">>
  <2>1. /\ IsHooks(pl) /\ stamped' = stamped
        /\ file'[pl] = Entries(file[pl]) \cup {e}
        /\ \A q \in Files \ {pl} : file'[q] = file[q]
    BY <1>4 DEF AddHook, TypeOK, past
  <2>2. Entries(file[pl]) = file[pl]
    BY <2>1, ReadAsIs DEF Kept
  <2>3. e[2] \notin Forms
    BY DEF Forms
  <2> HIDE DEF e
  <2>4. OursIn(file'[pl]) = OursIn(file[pl])
    BY <2>1, <2>2, <2>3 DEF OursIn
  <2> QED BY <1>0, <2>1, <2>4 DEF Clean, TypeOK
<1>5. ASSUME NEW d \in Docs, AddText(d) \/ CutEnd(d) PROVE Good
  BY <1>1, <1>5 DEF AddText, CutEnd, past
<1>6. Elsewhere => Good
  BY <1>1 DEF Elsewhere
<1>7. Good
  BY <1>2, <1>3, <1>4, <1>5, <1>6, Every
<1> QED BY <1>7 DEF Stamped, Clean

-----------------------------------------------------------------------------
(* Hermes's approvals *)

\* A step that leaves both files, and who is between the two writes
LEMMA SameApprovals ==
  ASSUME Approving, harnesses' = harnesses, rough => rough', raced \subseteq raced',
         "hermes" \in harnesses => file'[HHooks] = file[HHooks] /\ file'[HAllow] = file[HAllow],
         ~ rough' => \A c \in Commands :
           /\ Allowing(c)' <=> Allowing(c)
           /\ Allowing(c) => Head(todo'[c]) = Head(todo[c]) /\ form'[c] = form[c]
  PROVE  Approving'
<1> SUFFICES ASSUME "hermes" \in harnesses, ~ rough', {HHooks, HAllow} \cap raced' = {}
             PROVE  /\ (\A c \in Commands : ~ Allowing(c)') =>
                         OursIn(file'[HHooks]) \subseteq file'[HAllow]
                    /\ \A c \in Commands : Allowing(c)' =>
                         OursIn(file'[HHooks]) =
                           IF Head(todo'[c]).install THEN Ours(form'[c]) ELSE {}
  BY DEF Approving, Allowing, HHooks, HAllow
<1>1. ~ rough /\ {HHooks, HAllow} \cap raced = {}
  OBVIOUS
<1>2. /\ (\A c \in Commands : ~ Allowing(c)) => OursIn(file[HHooks]) \subseteq file[HAllow]
      /\ \A c \in Commands : Allowing(c) =>
           OursIn(file[HHooks]) = IF Head(todo[c]).install THEN Ours(form[c]) ELSE {}
  BY <1>1 DEF Approving
<1>3. (\A c \in Commands : ~ Allowing(c)') => OursIn(file'[HHooks]) \subseteq file'[HAllow]
  BY <1>2
<1>4. ASSUME NEW c \in Commands, Allowing(c)'
      PROVE  OursIn(file'[HHooks]) = IF Head(todo'[c]).install THEN Ours(form'[c]) ELSE {}
  BY <1>2, <1>4
<1> QED BY <1>3, <1>4

LEMMA HermesFiles ==
  ASSUME TypeOK, "hermes" \in harnesses
  PROVE  HHooks \in Files /\ HAllow \in Files /\ HHooks # HAllow
<1>1. \E p \in Projects : TRUE
  BY InstallAssumption
<1>2. "hermes" \in Known
  BY DEF Known
<1>3. \A p : Scope("hermes", p) = "home"
  BY DEF Scope
<1> QED BY <1>1, <1>2, <1>3 DEF HHooks, HAllow, Files

\* The two writes, one behind the other
LEMMA ApprovalsPut ==
  ASSUME TypeOK, Reading, Lists, Alone, Kept, Approving, NEW c \in Commands,
         WriteConfig(c), Step(c).h = "hermes", Step(c).do \in {"hooks", "allow"}
  PROVE  Approving'
<1> DEFINE s == Step(c)
<1>0. /\ harnesses' = harnesses /\ rough' = rough /\ form' = form
      /\ todo' = [todo EXCEPT ![c] = Tail(@)] /\ todo[c] # <<>>
  BY DEF WriteConfig, Done, user, At
<1>1. todo'[c] = Tail(todo[c]) /\ \A d \in Commands \ {c} : todo'[d] = todo[d]
  BY <1>0 DEF TypeOK
<1>2. Listed(todo[c]) /\ OnHermes(todo[c]) /\ s = Head(todo[c])
  BY <1>0, StepIs DEF Lists
<1>3. Place(s) = <<"hermes", s.do, "home">> /\ Place(s) \in Files
  BY FileStep DEF Scope
<1>4. form[c] \in Current /\ form[c] \in Forms /\ Built(c) = form[c]
  BY <1>2 DEF Lists, Built, Current, Forms
<1> SUFFICES ASSUME "hermes" \in harnesses, ~ rough, {HHooks, HAllow} \cap raced' = {}
             PROVE  /\ (\A d \in Commands : ~ Allowing(d)') =>
                         OursIn(file'[HHooks]) \subseteq file'[HAllow]
                    /\ \A d \in Commands : Allowing(d)' =>
                         OursIn(file'[HHooks]) =
                           IF Head(todo'[d]).install THEN Ours(form'[d]) ELSE {}
  BY <1>0 DEF Approving, Allowing, HHooks, HAllow
<1>5. HHooks \in Files /\ HAllow \in Files /\ HHooks # HAllow
  BY HermesFiles
<1>6. raced \subseteq raced'
  <2>1. Leave \/ \E pl \in Files : \E new : Put(c, pl, new)
    BY FileStep
  <2> QED BY <2>1 DEF Leave, Put
<1>7. /\ (\A d \in Commands : ~ Allowing(d)) => OursIn(file[HHooks]) \subseteq file[HAllow]
      /\ \A d \in Commands : Allowing(d) =>
           OursIn(file[HHooks]) = IF Head(todo[d]).install THEN Ours(form[d]) ELSE {}
  BY <1>6 DEF Approving
<1>8. \A d \in Commands \ {c} : ~ Allowing(d) /\ ~ Allowing(d)'
  <2> SUFFICES ASSUME NEW d \in Commands \ {c} PROVE ~ Allowing(d) /\ ~ Allowing(d)'
    OBVIOUS
  <2>1. ~ OnHermes(todo[d])
    BY <1>2 DEF Alone
  <2>2. Listed(todo[d])
    BY DEF Lists
  <2>3. ~ Allowing(d)
    BY <2>1, <2>2, HeadIs DEF Allowing, Hermes, Listed
  <2> QED BY <1>1, <2>3 DEF Allowing
<1>9. CASE s.do = "hooks"
  <2>1. Hermes(Head(todo[c]), "hooks")
    BY <1>2, <1>9 DEF Hermes
  <2>2. /\ todo'[c] # <<>> /\ Hermes(Head(todo'[c]), "allow")
        /\ Head(todo'[c]).install = s.install
    BY <1>0, <1>1, <1>2, <2>1, HooksFirst
  <2>3. Allowing(c)'
    BY <2>2 DEF Allowing
  <2>4. Place(s) = HHooks /\ IsHooks(Place(s))
    BY <1>3, <1>9 DEF HHooks, IsHooks
  <2>5. OursIn(file'[HHooks]) = IF s.install THEN Ours(form[c]) ELSE {}
    <3>1. /\ seen[c][1] # Absent
          /\ Added(s, Entries(seen[c][1]), Built(c))
               = WithHooks("hermes", Entries(seen[c][1]), form[c])
          /\ Removed(s, Entries(seen[c][1])) = WithoutHooks("hermes", Entries(seen[c][1]))
      BY <1>4, <1>9, <2>4, HooksPut DEF Added, Removed
    <3>2. file' = [file EXCEPT ![HHooks] =
                     IF s.install THEN WithHooks("hermes", Entries(seen[c][1]), form[c])
                     ELSE WithoutHooks("hermes", Entries(seen[c][1]))]
      BY <2>4, <3>1 DEF WriteConfig, Put
    <3>3. file'[HHooks] = IF s.install THEN WithHooks("hermes", Entries(seen[c][1]), form[c])
                          ELSE WithoutHooks("hermes", Entries(seen[c][1]))
      BY <1>5, <3>2 DEF TypeOK
    <3> QED BY <1>4, <3>3, HooksWritten
  <2> QED BY <1>0, <1>8, <2>2, <2>3, <2>5
<1>10. CASE s.do = "allow"
  <2>1. Hermes(Head(todo[c]), "allow") /\ Allowing(c)
    BY <1>0, <1>2, <1>10 DEF Hermes, Allowing
  <2>2. OursIn(file[HHooks]) = IF s.install THEN Ours(form[c]) ELSE {}
    BY <1>2, <1>7, <2>1
  <2>3. ~ Allowing(c)'
    <3>1. ~ Hermes(Head(todo[c]), "hooks")
      BY <1>2, <1>10 DEF Hermes
    <3> QED BY <1>0, <1>1, <1>2, <3>1, NextAllowed DEF Allowing
  <2>4. Place(s) = HAllow
    BY <1>3, <1>10 DEF HAllow
  <2>5. file'[HHooks] = file[HHooks]
    BY <1>5, <2>4 DEF WriteConfig, Put, Leave, TypeOK
  <2>6. s.install => Ours(form[c]) \subseteq file'[HAllow]
    <3>1. Added(s, Entries(seen[c][1]), Built(c)) =
            Stripped(Entries(seen[c][1])) \cup Ours(form[c])
      BY <1>4, <1>10 DEF Added
    <3>2. s.install => file'[HAllow] = Stripped(Entries(seen[c][1])) \cup Ours(form[c])
      BY <1>5, <2>4, <3>1 DEF WriteConfig, Put, TypeOK
    <3> QED BY <3>2
  <2> QED BY <1>8, <2>2, <2>3, <2>5, <2>6
<1> QED BY <1>9, <1>10

\* Any other step of a command leaves the two, and what is between.
LEMMA OtherSteps ==
  ASSUME TypeOK, Reading, Lists, Approving, NEW c \in Commands, Works(c),
         ~ (/\ WriteConfig(c) /\ Step(c).h = "hermes"
            /\ Step(c).do \in {"hooks", "allow"})
  PROVE  Approving'
<1>0. Moved(c)
  BY Moves
<1>1. /\ form' = form /\ harnesses' = harnesses /\ todo[c] # <<>>
      /\ \A d \in Commands \ {c} : todo'[d] = todo[d]
      /\ (OnHermes(todo'[c]) => OnHermes(todo[c])) /\ (rough => rough')
      /\ Listed(todo'[c])
  BY <1>0 DEF Moved
<1>2. Listed(todo[c]) /\ Step(c) = Head(todo[c])
  BY <1>1, StepIs DEF Lists
<1>3. \A l : Listed(l) /\ l # <<>> /\ Hermes(Head(l), "allow") => OnHermes(l)
  BY HeadIs DEF Listed, Hermes
<1>4. raced \subseteq raced'
  <2>1. CASE WriteConfig(c) \/ WriteOwned(c)
    <3>1. Leave \/ \E pl \in Files : \E new : Put(c, pl, new)
      BY <2>1, FileStep
    <3> QED BY <3>1 DEF Leave, Put
  <2>2. CASE ~ (WriteConfig(c) \/ WriteOwned(c))
    BY <2>2 DEF Works, Judge, Read, WriteDoc, Kill, past
  <2> QED BY <2>1, <2>2
<1>5. ASSUME "hermes" \in harnesses
      PROVE  file'[HHooks] = file[HHooks] /\ file'[HAllow] = file[HAllow]
  <2>0. HHooks \in Files /\ HAllow \in Files
    BY <1>5, HermesFiles
  <2>1. CASE WriteConfig(c) \/ WriteOwned(c)
    <3> DEFINE s == Step(c)
    <3>1. Place(s) = <<s.h, s.do, Scope(s.h, s.p)>>
      BY <2>1, FileStep
    <3>2. ~ (s.h = "hermes" /\ s.do \in {"hooks", "allow"})
      BY <2>1, FileStep DEF Owned
    <3>3. Place(s) # HHooks /\ Place(s) # HAllow
      BY <3>1, <3>2 DEF HHooks, HAllow
    <3>4. Leave \/ \E new : Put(c, Place(s), new)
      BY <2>1, FileStep
    <3> HIDE DEF s
    <3> QED BY <2>0, <3>3, <3>4 DEF Leave, Put, TypeOK
  <2>2. CASE ~ (WriteConfig(c) \/ WriteOwned(c))
    BY <2>2 DEF Works, Judge, Read, WriteDoc, Kill
  <2> QED BY <2>1, <2>2
<1>6. ASSUME ~ rough'
      PROVE  /\ Allowing(c)' <=> Allowing(c)
             /\ Allowing(c) => Head(todo'[c]) = Head(todo[c])
  <2>1. CASE todo'[c] = todo[c]
    BY <2>1 DEF Allowing
  <2>2. CASE ~ OnHermes(todo[c])
    BY <1>1, <1>2, <1>3, <2>2 DEF Allowing
  <2>3. CASE WriteConfig(c) \/ WriteOwned(c) \/ WriteDoc(c)
    <3>1. todo'[c] = Tail(todo[c])
      BY <1>1, <2>3 DEF WriteConfig, WriteOwned, WriteDoc, Done, TypeOK
    <3>2. ~ Hermes(Step(c), "allow") /\ ~ Hermes(Step(c), "hooks")
      <4>1. CASE WriteConfig(c)
        BY <4>1 DEF Hermes
      <4>2. CASE WriteOwned(c)
        BY <4>2 DEF WriteOwned, At, Owned, Hermes
      <4>3. CASE WriteDoc(c)
        BY <4>3 DEF WriteDoc, At, InDoc, Hermes
      <4> QED BY <2>3, <4>1, <4>2, <4>3
    <3>3. ~ Allowing(c) /\ ~ Allowing(c)'
      BY <1>1, <1>2, <3>1, <3>2, NextAllowed DEF Allowing
    <3> QED BY <3>3
  <2>4. CASE Read(c)
    <3>1. todo' = todo \/ rough' = (rough \/ OnHermes(todo[c]))
      BY <2>4 DEF Read
    <3> QED BY <1>6, <2>1, <2>2, <3>1
  <2>5. CASE Kill(c)
    BY <1>6, <2>2, <2>5 DEF Kill
  <2>6. CASE Judge(c)
    <3>1. Step(c).do = "judge" /\ Head(todo[c]) = todo[c][1] /\ 1 \in 1 .. Len(todo[c])
      BY <1>1, <1>2, <2>6, HeadIs DEF Judge, At, Listed
    <3>2. Judging(todo[c])
      BY <1>2, <3>1 DEF Judging
    <3> QED BY <1>2, <2>2, <3>2 DEF Listed
  <2> QED BY <2>3, <2>4, <2>5, <2>6 DEF Works
<1>7. ASSUME ~ rough', NEW d \in Commands
      PROVE  /\ Allowing(d)' <=> Allowing(d)
             /\ Allowing(d) => Head(todo'[d]) = Head(todo[d]) /\ form'[d] = form[d]
  <2>1. CASE d = c
    BY <1>1, <1>6, <1>7, <2>1
  <2>2. CASE d # c
    BY <1>1, <2>2 DEF Allowing
  <2> QED BY <2>1, <2>2
<1> QED BY <1>1, <1>4, <1>5, <1>7, SameApprovals

LEMMA ApprovingStep ==
  ASSUME TypeOK, Reading, Lists, Alone, Kept, Approving, [Next]_vars
  PROVE  Approving'
<1>1. ASSUME NEW c \in Commands, NEW list, Whole(list), Begin(c, list)
      PROVE  Approving'
  <2>1. /\ harnesses' = harnesses /\ file' = file /\ raced' = raced
        /\ rough' = (rough \/ (OnHermes(list) /\ HermesBusy))
    BY <1>1 DEF Begin, user
  <2>2. /\ todo'[c] = list /\ \A d \in Commands \ {c} : todo'[d] = todo[d]
        /\ \A d \in Commands \ {c} : form'[d] = form[d]
    BY <1>1 DEF Begin, TypeOK
  <2>3. todo[c] = <<>>
    BY <1>1 DEF Begin, Reading
  <2>4. ~ Allowing(c) /\ ~ Allowing(c)'
    BY <1>1, <2>2, <2>3, WholeListed DEF Allowing
  <2>5. ASSUME NEW d \in Commands
        PROVE  /\ Allowing(d)' <=> Allowing(d)
               /\ Allowing(d) => Head(todo'[d]) = Head(todo[d]) /\ form'[d] = form[d]
    <3>1. CASE d = c
      BY <2>4, <3>1
    <3>2. CASE d # c
      BY <2>2, <3>2 DEF Allowing
    <3> QED BY <3>1, <3>2
  <2>6. rough => rough'
    BY <2>1
  <2> QED BY <2>1, <2>5, <2>6, SameApprovals
<1>2. ASSUME NEW c \in Commands, Works(c) PROVE Approving'
  BY <1>2, ApprovalsPut, OtherSteps
<1>3. ASSUME UNCHANGED <<harnesses, todo, form, rough, raced>>,
             "hermes" \in harnesses =>
               OursIn(file'[HHooks]) = OursIn(file[HHooks]) /\ file'[HAllow] = file[HAllow]
      PROVE  Approving'
  BY <1>3 DEF Approving, Allowing, HHooks, HAllow
<1>4. ASSUME NEW pl \in Files, AddHook(pl) PROVE Approving'
  <2> DEFINE e == <<"SessionStart", "plain">>
  <2>1. /\ IsHooks(pl) /\ UNCHANGED <<harnesses, todo, form, rough, raced>>
        /\ file'[pl] = Entries(file[pl]) \cup {e}
        /\ \A q \in Files \ {pl} : file'[q] = file[q]
    BY <1>4 DEF AddHook, Edit, TypeOK, past, work
  <2>2. Entries(file[pl]) = file[pl]
    BY <2>1, ReadAsIs DEF Kept
  <2>3. e[2] \notin Forms
    BY DEF Forms
  <2> HIDE DEF e
  <2>4. OursIn(file'[pl]) = OursIn(file[pl])
    BY <2>1, <2>2, <2>3 DEF OursIn
  <2>5. ASSUME "hermes" \in harnesses
        PROVE  OursIn(file'[HHooks]) = OursIn(file[HHooks]) /\ file'[HAllow] = file[HAllow]
    <3>1. HHooks \in Files /\ HAllow \in Files
      BY <2>5, HermesFiles
    <3>2. pl # HAllow
      BY <2>1 DEF IsHooks, HAllow
    <3>3. OursIn(file'[HHooks]) = OursIn(file[HHooks])
      BY <2>1, <2>4, <3>1
    <3> QED BY <2>1, <3>1, <3>2, <3>3
  <2> QED BY <1>3, <2>1, <2>5
<1>5. ASSUME NEW d \in Docs, AddText(d) \/ CutEnd(d) PROVE Approving'
  BY <1>3, <1>5 DEF AddText, CutEnd, Edit, work, past
<1>6. Elsewhere => Approving'
  BY <1>3 DEF Elsewhere
<1> QED BY <1>1, <1>2, <1>4, <1>5, <1>6, Every

-----------------------------------------------------------------------------
(* Instruction files *)

\* A text behind the others
LEMMA TextAdded ==
  ASSUME NEW x, Shape(x)
  PROVE  LET y == Append(x, "text")
         IN  Shape(y) /\ TextIn(y) = TextIn(x) + 1
<1> DEFINE y == Append(x, "text")
<1>0. x \in Seq(Tokens) /\ Len(x) \in Nat
  BY DEF Shape
<1>1. "text" \in Tokens
  BY DEF Tokens
<1>2. /\ y \in Seq(Tokens) /\ Len(y) = Len(x) + 1 /\ y[Len(x) + 1] = "text"
      /\ \A i \in 1 .. Len(x) : y[i] = x[i]
  BY <1>0, <1>1
<1> HIDE DEF y
<1>3. \A i \in 1 .. Len(y) : i \in 1 .. Len(x) \/ i = Len(x) + 1
  BY <1>0, <1>2
<1>4. ASSUME NEW s, NEW e, <<s, e>> \in {<<"START", "END">>, <<"OLDSTART", "OLDEND">>}
      PROVE  OneBlock(y, s, e)
  <2>0. OneBlock(x, s, e) /\ s # "text" /\ e # "text"
    BY <1>4 DEF Shape
  <2>1. \A k \in 1 .. Len(y) : y[k] \in {s, e} => k \in 1 .. Len(x) /\ x[k] = y[k]
    BY <1>2, <1>3, <2>0
  <2>2. ASSUME NEW k \in 1 .. Len(y), y[k] = s
        PROVE  k + 2 <= Len(y) /\ y[k + 1] \in {"old", "rule"} /\ y[k + 2] = e
    <3>1. k \in 1 .. Len(x) /\ x[k] = s
      BY <2>1, <2>2
    <3>2. k + 2 <= Len(x) /\ x[k + 1] \in {"old", "rule"} /\ x[k + 2] = e
      BY <2>0, <3>1 DEF OneBlock
    <3>3. k + 1 \in 1 .. Len(x) /\ k + 2 \in 1 .. Len(x) /\ k + 2 <= Len(y)
      BY <1>0, <1>2, <3>1, <3>2
    <3> QED BY <1>2, <3>2, <3>3
  <2>3. ASSUME NEW k \in 1 .. Len(y), y[k] = e
        PROVE  k > 2 /\ y[k - 2] = s
    <3>1. k \in 1 .. Len(x) /\ x[k] = e
      BY <2>1, <2>3
    <3>2. k > 2 /\ x[k - 2] = s
      BY <2>0, <3>1 DEF OneBlock
    <3>3. k - 2 \in 1 .. Len(x)
      BY <1>0, <3>1, <3>2
    <3> QED BY <1>2, <3>2, <3>3
  <2>4. \A k, l \in 1 .. Len(y) : y[k] = s /\ y[l] = s => k = l
    BY <2>0, <2>1 DEF OneBlock
  <2> QED BY <2>2, <2>3, <2>4 DEF OneBlock
<1>5. Shape(y)
  BY <1>2, <1>4 DEF Shape
<1>6. TextIn(y) = TextIn(x) + 1
  <2> DEFINE S == {k \in 1 .. Len(x) : x[k] = "text"}
             T == {k \in 1 .. Len(y) : y[k] = "text"}
  <2>1. T = S \cup {Len(x) + 1} /\ Len(x) + 1 \notin S
    <3>1. \A k \in 1 .. Len(y) : y[k] = "text" => k \in S \cup {Len(x) + 1}
      BY <1>2, <1>3
    <3>2. \A k \in S : k \in 1 .. Len(y) /\ y[k] = "text"
      BY <1>0, <1>2
    <3>3. Len(x) + 1 \in 1 .. Len(y) /\ Len(x) + 1 \notin 1 .. Len(x)
      BY <1>0, <1>2
    <3> QED BY <1>2, <3>1, <3>2, <3>3
  <2>2. IsFiniteSet(S)
    BY <1>0, TextsFinite
  <2>3. TextIn(x) = Cardinality(S) /\ TextIn(y) = Cardinality(T)
    BY <1>0, <1>2, TextsFinite DEF TextIn
  <2> HIDE DEF S, T
  <2>4. Cardinality(S \cup {Len(x) + 1}) = Cardinality(S) + 1
    BY <2>1, <2>2, FS_AddElement
  <2> QED BY <2>1, <2>3, <2>4
<1> QED BY <1>5, <1>6 DEF y

LEMMA BlockTaken ==
  ASSUME NEW x, Shape(x),
         NEW s, NEW e, <<s, e>> \in {<<"START", "END">>, <<"OLDSTART", "OLDEND">>}
  PROVE  Shape(WithoutBlock(x, s, e)) /\ TextIn(WithoutBlock(x, s, e)) = TextIn(x)
<1>1. x \in Seq(Tokens) /\ OneBlock(x, "START", "END") /\ OneBlock(x, "OLDSTART", "OLDEND")
  BY DEF Shape
<1>2. Marks = {"START", "END", "OLDSTART", "OLDEND"}
  BY DEF Marks, Tokens
<1>3. CASE s = "START" /\ e = "END"
  <2>1. {s, e} \cap {"OLDSTART", "OLDEND"} = {}
    BY <1>3
  <2> QED BY <1>1, <1>2, <1>3, <2>1, BlockGone DEF Shape
<1>4. CASE s = "OLDSTART" /\ e = "OLDEND"
  <2>1. {s, e} \cap {"START", "END"} = {}
    BY <1>4
  <2> QED BY <1>1, <1>2, <1>4, <2>1, BlockGone DEF Shape
<1> QED BY <1>3, <1>4

\* What a step makes of the document it has read
LEMMA DocPut ==
  ASSUME NEW c \in Commands, NEW old, Shape(old)
  PROVE  LET new == IF Step(c).do # "rule"
                      THEN WithoutBlock(old, "OLDSTART", "OLDEND")
                    ELSE IF Step(c).install THEN Upserted(old)
                    ELSE WithoutBlock(old, "START", "END")
         IN  Shape(new) /\ TextIn(new) = TextIn(old)
<1>1. /\ Shape(WithoutBlock(old, "OLDSTART", "OLDEND"))
      /\ TextIn(WithoutBlock(old, "OLDSTART", "OLDEND")) = TextIn(old)
  BY BlockTaken
<1>2. /\ Shape(WithoutBlock(old, "START", "END"))
      /\ TextIn(WithoutBlock(old, "START", "END")) = TextIn(old)
  BY BlockTaken
<1>3. Shape(Upserted(old)) /\ TextIn(Upserted(old)) = TextIn(old)
  BY BlockPut
<1> QED BY <1>1, <1>2, <1>3

LEMMA WrittenStep ==
  ASSUME TypeOK, Reading, Lists, Written, [Next]_vars
  PROVE  Written'
<1> DEFINE Well == \A d \in Docs \ (raced' \cup cut') :
                     Shape(doc'[d]) /\ TextIn(doc'[d]) = typed'[d]
<1>0. harnesses' = harnesses /\ Docs' = Docs /\ DOMAIN doc = Docs /\ DOMAIN typed = Docs
  BY TypeStep, SameMachine DEF TypeOK
<1>1. ASSUME doc' = doc, typed' = typed, cut' = cut, raced \subseteq raced' PROVE Well
  BY <1>1 DEF Written
<1>2. ASSUME NEW c \in Commands, NEW list, Begin(c, list) PROVE Well
  BY <1>1, <1>2 DEF Begin, user
<1>3. ASSUME NEW c \in Commands, Works(c) PROVE Well
  <2>1. typed' = typed /\ cut' = cut
    BY <1>3 DEF Works, Judge, Read, WriteConfig, WriteOwned, WriteDoc, Kill, user
  <2>2. CASE WriteConfig(c) \/ WriteOwned(c)
    <3>1. Leave \/ \E pl \in Files : \E new : Put(c, pl, new)
      BY <2>2, FileStep
    <3>2. raced \subseteq raced'
      BY <3>1 DEF Leave, Put
    <3>3. doc' = doc
      BY <2>2 DEF WriteConfig, WriteOwned
    <3> QED BY <1>1, <2>1, <3>2, <3>3
  <2>3. CASE Judge(c) \/ Read(c) \/ Kill(c)
    BY <1>1, <2>1, <2>3 DEF Judge, Read, Kill, past
  <2>4. CASE WriteDoc(c)
    <3> DEFINE pl == Place(Step(c))
               old == seen[c][1]
               new == IF Step(c).do # "rule"
                        THEN WithoutBlock(old, "OLDSTART", "OLDEND")
                      ELSE IF Step(c).install THEN Upserted(old)
                      ELSE WithoutBlock(old, "START", "END")
    <3>1. \/ UNCHANGED <<doc, raced>>
          \/ /\ doc' = [doc EXCEPT ![pl] = new]
             /\ raced' = IF doc[pl] # old THEN raced \cup {pl} ELSE raced
      BY <2>4 DEF WriteDoc
    <3>2. pl \in Docs
      BY <2>4, StepIs, Places DEF WriteDoc, At
    <3>3. Shape(old) => Shape(new) /\ TextIn(new) = TextIn(old)
      BY DocPut
    <3> HIDE DEF pl, old, new
    <3>4. CASE UNCHANGED <<doc, raced>>
      BY <1>1, <2>1, <3>4
    <3>5. CASE /\ doc' = [doc EXCEPT ![pl] = new]
               /\ raced' = IF doc[pl] # old THEN raced \cup {pl} ELSE raced
      <4>1. doc'[pl] = new /\ \A d \in Docs \ {pl} : doc'[d] = doc[d]
        BY <1>0, <3>2, <3>5
      <4>2. raced \subseteq raced' /\ (pl \notin raced' => doc[pl] = old)
        BY <3>5
      <4>3. ASSUME NEW d \in Docs \ (raced' \cup cut')
            PROVE  Shape(doc'[d]) /\ TextIn(doc'[d]) = typed'[d]
        <5>1. Shape(doc[d]) /\ TextIn(doc[d]) = typed[d]
          BY <2>1, <4>2, <4>3 DEF Written
        <5>2. CASE d = pl
          BY <2>1, <3>3, <4>1, <4>2, <4>3, <5>1, <5>2
        <5>3. CASE d # pl
          BY <2>1, <4>1, <5>1, <5>3
        <5> QED BY <5>2, <5>3
      <4> QED BY <4>3
    <3> QED BY <3>1, <3>4, <3>5
  <2> QED BY <1>3, <2>2, <2>3, <2>4 DEF Works
<1>4. ASSUME NEW pl \in Files, AddHook(pl) PROVE Well
  BY <1>1, <1>4 DEF AddHook, past
<1>5. ASSUME NEW t \in Docs, AddText(t) PROVE Well
  <2>1. /\ doc'[t] = Append(doc[t], "text") /\ typed'[t] = typed[t] + 1
        /\ \A d \in Docs \ {t} : doc'[d] = doc[d] /\ typed'[d] = typed[d]
        /\ cut' = cut /\ raced' = raced
    BY <1>0, <1>5 DEF AddText, past
  <2>2. ASSUME NEW d \in Docs \ (raced' \cup cut')
        PROVE  Shape(doc'[d]) /\ TextIn(doc'[d]) = typed'[d]
    <3>1. Shape(doc[d]) /\ TextIn(doc[d]) = typed[d]
      BY <2>1, <2>2 DEF Written
    <3>2. Shape(Append(doc[d], "text")) /\ TextIn(Append(doc[d], "text")) = TextIn(doc[d]) + 1
      BY <3>1, TextAdded
    <3>3. CASE d = t
      BY <2>1, <3>1, <3>2, <3>3
    <3>4. CASE d # t
      BY <2>1, <3>1, <3>4
    <3> QED BY <3>3, <3>4
  <2> QED BY <2>2
<1>6. ASSUME NEW t \in Docs, CutEnd(t) PROVE Well
  <2>1. /\ \A d \in Docs \ {t} : doc'[d] = doc[d]
        /\ typed' = typed /\ cut' = cut \cup {t} /\ raced' = raced
    BY <1>0, <1>6 DEF CutEnd, past
  <2> QED BY <2>1 DEF Written
<1>7. Elsewhere => Well
  BY <1>1 DEF Elsewhere
<1>8. Well
  BY <1>2, <1>3, <1>4, <1>5, <1>6, <1>7, Every
<1> QED BY <1>0, <1>8 DEF Written, Shape, OneBlock, TextIn

-----------------------------------------------------------------------------
(* The invariant *)

LEMMA OldDocShape == Shape(OldDoc)
<1>1. /\ OldDoc \in Seq(Tokens) /\ Len(OldDoc) = 7
      /\ OldDoc[1] = "START" /\ OldDoc[2] = "old" /\ OldDoc[3] = "END"
      /\ OldDoc[4] = "text" /\ OldDoc[5] = "OLDSTART" /\ OldDoc[6] = "old"
      /\ OldDoc[7] = "OLDEND"
  BY DEF OldDoc, Tokens
<1>2. \A i \in 1 .. 7 : i \in {1, 2, 3, 4, 5, 6, 7}
  OBVIOUS
<1>3. \A i \in 1 .. 7 :
        /\ OldDoc[i] = "START" <=> i = 1
        /\ OldDoc[i] = "END" <=> i = 3
        /\ OldDoc[i] = "OLDSTART" <=> i = 5
        /\ OldDoc[i] = "OLDEND" <=> i = 7
  BY <1>1, <1>2
<1>4. /\ 1 + 1 = 2 /\ 1 + 2 = 3 /\ 5 + 1 = 6 /\ 5 + 2 = 7
      /\ 3 - 2 = 1 /\ 7 - 2 = 5
  OBVIOUS
<1>5. OneBlock(OldDoc, "START", "END")
  BY <1>1, <1>3, <1>4 DEF OneBlock
<1>6. OneBlock(OldDoc, "OLDSTART", "OLDEND")
  BY <1>1, <1>3, <1>4 DEF OneBlock
<1> QED BY <1>1, <1>5, <1>6 DEF Shape

LEMMA AtFirst == Init => InstallInv
<1> SUFFICES ASSUME Init PROVE InstallInv
  OBVIOUS
<1>1. /\ There(UserHooks) /\ There(OldHooks)
      /\ UserHooks \subseteq Events \X (Theirs \cup Forms)
      /\ OldHooks \subseteq Events \X (Theirs \cup Forms)
      /\ OursIn(UserHooks) = {}
  BY DEF There, UserHooks, OldHooks, Events, Active, Retired, Theirs, Forms, OursIn
<1>2. /\ DOMAIN file = Files
      /\ \A pl \in Files : ~ IsHooks(pl) => file[pl] = Absent
      /\ \A pl \in Files : IsHooks(pl) => file[pl] \in {UserHooks, OldHooks}
      /\ \A pl \in Files : IsHooks(pl) /\ pl[1] \notin Earlier => file[pl] = UserHooks
  BY DEF Init, IsHooks
<1>3. mine = [pl \in Files |-> {e \in Entries(file[pl]) : e[2] \in Theirs}]
  BY DEF Init
<1>4. \A pl \in Files : ~ IsHooks(pl) => mine[pl] = {}
  BY <1>2, <1>3 DEF Entries
<1>5. \A pl \in Files : mine[pl] \subseteq file[pl]
  BY <1>3 DEF Entries
<1>6. mine \in [Files -> SUBSET (Events \X Theirs)]
  <2>1. ASSUME NEW pl \in Files PROVE mine[pl] \subseteq Events \X Theirs
    <3>1. CASE ~ IsHooks(pl)
      BY <1>4, <3>1
    <3>2. CASE IsHooks(pl)
      <4>1. \A e \in mine[pl] : e \in Events \X (Theirs \cup Forms) /\ e[2] \in Theirs
        BY <1>1, <1>2, <1>3, <1>5, <3>2
      <4> QED BY <4>1
    <3> QED BY <3>1, <3>2
  <2>2. mine \in [Files -> SUBSET (Events \X Theirs)] <=>
          \A pl \in Files : mine[pl] \in SUBSET (Events \X Theirs)
    BY <1>3
  <2> QED BY <2>1, <2>2
<1>7. TypeOK
  BY <1>2, <1>6 DEF Init, TypeOK
<1>8. \A c \in Commands : todo[c] = <<>> /\ seen[c] = <<>>
  BY DEF Init
<1>9. Reading
  BY <1>8 DEF Reading
<1>10. Lists /\ Alone
  BY <1>8, NothingWhole, WholeListed DEF Lists, Alone
<1>11. Kept
  <2>1. HooksKept
    BY <1>5 DEF HooksKept
  <2> QED BY <1>1, <1>2, <1>4, <1>8, <2>1 DEF Kept
<1>12. Stamped
  BY DEF Init, Stamped
<1>13. Approving
  <2>1. \A c \in Commands : ~ Allowing(c)
    BY <1>8 DEF Allowing
  <2>2. ASSUME "hermes" \in harnesses PROVE OursIn(file[HHooks]) = {}
    <3>1. HHooks \in Files
      BY <1>7, <2>2, HermesFiles
    <3>2. IsHooks(HHooks) /\ HHooks[1] \notin Earlier
      <4>1. "hermes" \notin Earlier
        BY InstallAssumption
      <4> QED BY <4>1 DEF HHooks, IsHooks
    <3> QED BY <1>1, <1>2, <3>1, <3>2
  <2> QED BY <2>1, <2>2 DEF Approving
<1>14. Written
  <2>1. \A d \in Docs : doc[d] = OldDoc /\ typed[d] = TextIn(doc[d])
    BY DEF Init
  <2> QED BY <2>1, OldDocShape DEF Written
<1> QED
  BY <1>7, <1>9, <1>10, <1>11, <1>12, <1>13, <1>14 DEF InstallInv

LEMMA Always == Spec => []InstallInv
<1>1. InstallInv /\ [Next]_vars => InstallInv'
  BY TypeStep, OrderlyStep, KeptStep, StampedStep, ApprovingStep, WrittenStep
     DEF InstallInv
<1> QED
  BY <1>1, AtFirst, PTL DEF Spec

\* No sequence of installs, uninstalls, updates and failures takes a hook of
\* the user's out of a file (the strips of install-service.ts), unless a write
\* landed on a change it had not read.
THEOREM HooksKeptHolds == Spec => []HooksKept
<1>1. InstallInv => HooksKept
  BY DEF InstallInv, Kept
<1> QED
  BY <1>1, Always, PTL

\* Nor a line of the user's out of an instruction file, which has at most one
\* block of ground rules (upsertBlock, locateBlock).
THEOREM TextKeptHolds == Spec => []TextKept
<1>1. ASSUME InstallInv PROVE TextKept
  <2> SUFFICES ASSUME NEW d \in Docs \ (raced \cup cut)
               PROVE  /\ TextIn(doc[d]) = typed[d]
                      /\ Cardinality({i \in DOMAIN doc[d] : doc[d][i] = "START"}) <= 1
    BY DEF TextKept
  <2>1. Shape(doc[d]) /\ TextIn(doc[d]) = typed[d]
    BY <1>1 DEF InstallInv, Written
  <2> DEFINE S == {i \in DOMAIN doc[d] : doc[d][i] = "START"}
  <2>2. \A i, j \in S : i = j
    <3>1. DOMAIN doc[d] = 1 .. Len(doc[d])
      BY <2>1, TextsFinite DEF Shape
    <3> QED BY <2>1, <3>1 DEF Shape, OneBlock
  <2> HIDE DEF S
  <2>3. CASE S = {}
    BY <2>1, <2>3, FS_EmptySet DEF S
  <2>4. CASE S # {}
    <3>1. PICK i \in S : TRUE
      BY <2>4
    <3>2. S = {i}
      BY <2>2, <3>1
    <3>3. Cardinality(S) = 1
      BY <3>2, FS_Singleton
    <3> QED BY <2>1, <3>3 DEF S
  <2> QED BY <2>3, <2>4
<1> QED
  BY <1>1, Always, PTL

\* When the commands on Hermes ran one after the other to their end, each of
\* its hooks is approved in the form it is registered in: the two writes of
\* mergeHermesConfig and mergeHermesAllowlist take the commands built once.
THEOREM ApprovedHooksHolds == Spec => []ApprovedHooks
<1>1. ASSUME InstallInv PROVE ApprovedHooks
  <2> SUFFICES ASSUME "hermes" \in harnesses, ~ rough, ~ HermesBusy,
                      {HHooks, HAllow} \cap raced = {}
               PROVE  OursIn(file[HHooks]) \subseteq file[HAllow]
    BY DEF ApprovedHooks, HHooks, HAllow, OursIn
  <2>1. \A c \in Commands : ~ Allowing(c)
    <3> SUFFICES ASSUME NEW c \in Commands, Allowing(c) PROVE FALSE
      OBVIOUS
    <3>1. Listed(todo[c]) /\ ~ OnHermes(todo[c])
      BY <1>1 DEF InstallInv, Lists, HermesBusy
    <3> QED BY <3>1, HeadIs DEF Allowing, Hermes, Listed
  <2> QED BY <1>1, <2>1 DEF InstallInv, Approving
<1> QED
  BY <1>1, Always, PTL

\* A file memorize has last written to install has one entry of memorize's for
\* each event and none for an event it no longer handles, and doctor has
\* nothing to say about it (writeHooksMap and the two other writers).
THEOREM OneHookEachHolds == Spec => []OneHookEach
<1>1. ASSUME InstallInv PROVE OneHookEach
  <2> SUFFICES ASSUME NEW pl \in stamped, IsHooks(pl)
               PROVE  /\ \A e \in Active :
                           Cardinality({f \in Forms : <<e, f>> \in file[pl]}) = 1
                      /\ ~ \E f \in Forms : <<Retired, f>> \in file[pl]
                      /\ pl \notin bad =>
                           (pl[1] = "claude" => DoctorOnClaude(pl) = "ok")
                             /\ (pl[1] = "codex" => DoctorOnCodex(pl) = "ok")
    BY DEF OneHookEach
  <2>1. PICK f \in Current : OursIn(file[pl]) = Ours(f)
    BY <1>1 DEF InstallInv, Stamped
  <2>2. f \in Forms \ {"flat", "stale"}
    BY DEF Current, Forms
  <2>3. \A e, g : g \in Forms => (<<e, g>> \in file[pl] <=> e \in Active /\ g = f)
    <3> SUFFICES ASSUME NEW e, NEW g \in Forms
                 PROVE  <<e, g>> \in file[pl] <=> e \in Active /\ g = f
      OBVIOUS
    <3>1. <<e, g>> \in file[pl] <=> <<e, g>> \in OursIn(file[pl])
      BY DEF OursIn
    <3>2. <<e, g>> \in Ours(f) <=> e \in Active /\ g = f
      BY DEF Ours
    <3> QED BY <2>1, <3>1, <3>2
  <2>4. ASSUME NEW e \in Active
        PROVE  Cardinality({g \in Forms : <<e, g>> \in file[pl]}) = 1
    <3>1. {g \in Forms : <<e, g>> \in file[pl]} = {f}
      BY <2>2, <2>3
    <3> QED BY <3>1, FS_Singleton
  <2>5. ~ \E g \in Forms : <<Retired, g>> \in file[pl]
    <3>1. Retired \notin Active
      BY DEF Retired, Active
    <3> QED BY <2>3, <3>1
  <2>6. There(file[pl])
    BY <1>1 DEF InstallInv, Kept, TypeOK
  <2>7. Entries(file[pl]) = file[pl] /\ file[pl] # Absent
    BY <2>6, ReadAsIs
  <2>8. Missing(file[pl]) = {}
    BY <2>2, <2>3 DEF Missing, Recognised
  <2>9. Active # {}
    BY DEF Active
  <2>10. ASSUME pl \notin bad PROVE DoctorOnClaude(pl) = "ok"
    <3>1. /\ ~ \E e \in Active : <<e, "flat">> \in file[pl]
          /\ ~ \E e \in Active : <<e, "stale">> \in file[pl]
      BY <2>2, <2>3 DEF Forms
    <3> QED BY <2>7, <2>8, <2>9, <2>10, <3>1 DEF DoctorOnClaude
  <2>11. ASSUME pl \notin bad PROVE DoctorOnCodex(pl) = "ok"
    BY <2>7, <2>8, <2>11 DEF DoctorOnCodex
  <2> QED BY <2>4, <2>5, <2>10, <2>11
<1> QED
  BY <1>1, Always, PTL
=============================================================================
