-------------------------- MODULE AtomicityProofs --------------------------
(* All or nothing. A plan is followed call by call: from the disk it was     *)
(* made for, every disk it passes is one its undoing calls lead back from    *)
(* where a failure is undone, and the last one is the tree that was asked    *)
(* for. The disks on the way are a set that is closed under taking up the    *)
(* next call (LeadsOn, LeadsBack): the invariant then needs no induction     *)
(* over the plan, and each plan is shown once to have such a set.            *)
EXTENDS SourceProofs

Tried(d, c) == IF Possible(d, c) THEN DiskAfter(d, c) ELSE d
\* What is left of a plan, or of an undoing, and the disk it has come to.
Left(calls, d) == [left |-> calls, on |-> d]
\* Undoing calls that lead from a disk back to the old one, and the same on
\* every disk they pass.
LeadsBack(states, old) ==
  \A x \in states :
    /\ x.left = <<>> => x.on = old
    /\ x.left # <<>> => Left(Tail(x.left), Tried(x.on, Head(x.left))) \in states
Restores(calls, d, old) == \E states : Left(calls, d) \in states /\ LeadsBack(states, old)

Reached(d, old, r) == Tidy(d) /\ View(d) = Atomic!After(View(old), r)
\* A step of a plan may fail where it leads back.
MayFail(step, d, old) ==
  /\ ~Possible(d, step.call) => Restores(step.undo, d, old)
  /\ Possible(d, step.call) => step.late \/ Restores(step.undo, d, old)
LeadsOn(states, old, r) ==
  \A x \in states :
    /\ x.left = <<>> => Reached(x.on, old, r)
    /\ x.left # <<>> =>
         /\ MayFail(Head(x.left), x.on, old)
         /\ Possible(x.on, Head(x.left).call)
              => Left(Tail(x.left), DiskAfter(x.on, Head(x.left).call)) \in states
Carries(plan, d, old, r) == \E states : Left(plan, d) \in states /\ LeadsOn(states, old, r)

LEMMA LeftIs ==
  ASSUME NEW calls, NEW d
  PROVE  Left(calls, d).left = calls /\ Left(calls, d).on = d
BY DEF Left

\* An undoing that leads back still does after its next call, whether it fails.
LEMMA BackStep ==
  ASSUME NEW calls, NEW d, NEW old, Restores(calls, d, old)
  PROVE  /\ calls = <<>> => d = old
         /\ calls # <<>> => Restores(Tail(calls), Tried(d, Head(calls)), old)
<1>1. PICK states : Left(calls, d) \in states /\ LeadsBack(states, old)
  BY DEF Restores
<1>2. /\ Left(calls, d).left = <<>> => Left(calls, d).on = old
      /\ Left(calls, d).left # <<>> =>
           Left(Tail(Left(calls, d).left), Tried(Left(calls, d).on, Head(Left(calls, d).left))) \in states
  BY <1>1 DEF LeadsBack
<1>3. /\ calls = <<>> => d = old
      /\ calls # <<>> => Left(Tail(calls), Tried(d, Head(calls))) \in states
  BY <1>2, LeftIs
<1> QED BY <1>1, <1>3 DEF Restores

LEMMA BackNone ==
  ASSUME NEW old
  PROVE  Restores(<<>>, old, old)
<1> DEFINE states == {Left(<<>>, old)}
<1>1. \A x \in states : x.left = <<>> /\ x.on = old
  BY LeftIs
<1>2. Left(<<>>, old) \in states /\ LeadsBack(states, old)
  BY <1>1 DEF LeadsBack
<1> QED BY <1>2 DEF Restores

\* A call more in front of calls that lead back.
LEMMA BackMore ==
  ASSUME NEW c, NEW calls, IsSeq(calls), NEW d, NEW old, Restores(calls, Tried(d, c), old)
  PROVE  Restores(<<c>> \o calls, d, old)
<1>1. PICK states : Left(calls, Tried(d, c)) \in states /\ LeadsBack(states, old)
  BY DEF Restores
<1> DEFINE first == <<c>> \o calls
           more == states \cup {Left(first, d)}
<1>2. first # <<>> /\ Head(first) = c /\ Tail(first) = calls
  BY FirstAndRest
<1> HIDE DEF first
<1>3. LeadsBack(more, old)
  <2> SUFFICES ASSUME NEW x \in more
               PROVE  /\ x.left = <<>> => x.on = old
                      /\ x.left # <<>> => Left(Tail(x.left), Tried(x.on, Head(x.left))) \in more
    BY DEF LeadsBack
  <2>1. CASE x \in states
    BY <1>1, <2>1 DEF LeadsBack
  <2>2. CASE x = Left(first, d)
    <3>1. x.left = first /\ x.on = d
      BY <2>2, LeftIs
    <3> QED BY <1>1, <1>2, <3>1
  <2> QED BY <2>1, <2>2
<1> QED BY <1>3 DEF Restores, first

LEMMA BackOne ==
  ASSUME NEW c, NEW d, NEW old, Tried(d, c) = old
  PROVE  Restores(<<c>>, d, old)
<1>1. IsSeq(<<>>) /\ <<c>> \o <<>> = <<c>>
  <2> DEFINE one == <<c>>
  <2>1. one \in Seq({c})
    OBVIOUS
  <2>2. one \o <<>> = one
    BY <2>1, ConcatEmptySeq
  <2> QED BY <2>2, Tuples
<1>2. Restores(<<>>, Tried(d, c), old)
  BY BackNone
<1>3. Restores(<<c>> \o <<>>, d, old)
  BY <1>1, <1>2, BackMore
<1> QED BY <1>1, <1>3

LEMMA BackTwo ==
  ASSUME NEW c, NEW b, NEW d, NEW old, Tried(Tried(d, c), b) = old
  PROVE  Restores(<<c, b>>, d, old)
<1>1. Restores(<<b>>, Tried(d, c), old)
  BY BackOne
<1>2. IsSeq(<<b>>)
  BY Tuples
<1>3. Restores(<<c>> \o <<b>>, d, old)
  BY <1>1, <1>2, BackMore
<1> QED BY <1>3, Pair

\* What a plan that carries on may do next: end, fail, or take its next call.
LEMMA OnStep ==
  ASSUME NEW plan, NEW d, NEW old, NEW r, Carries(plan, d, old, r)
  PROVE  /\ plan = <<>> => Reached(d, old, r)
         /\ plan # <<>> =>
              /\ MayFail(Head(plan), d, old)
              /\ Possible(d, Head(plan).call) => Carries(Tail(plan), DiskAfter(d, Head(plan).call), old, r)
<1>1. PICK states : Left(plan, d) \in states /\ LeadsOn(states, old, r)
  BY DEF Carries
<1> DEFINE x == Left(plan, d)
<1>2. /\ x.left = <<>> => Reached(x.on, old, r)
      /\ x.left # <<>> =>
           /\ MayFail(Head(x.left), x.on, old)
           /\ Possible(x.on, Head(x.left).call)
                => Left(Tail(x.left), DiskAfter(x.on, Head(x.left).call)) \in states
  BY <1>1 DEF LeadsOn
<1>3. x.left = plan /\ x.on = d
  BY LeftIs
<1> HIDE DEF x
<1>4. /\ plan = <<>> => Reached(d, old, r)
      /\ plan # <<>> =>
           /\ MayFail(Head(plan), d, old)
           /\ Possible(d, Head(plan).call) => Left(Tail(plan), DiskAfter(d, Head(plan).call)) \in states
  BY <1>2, <1>3
<1> QED BY <1>1, <1>4 DEF Carries

LEMMA OnNone ==
  ASSUME NEW d, NEW old, NEW r, Reached(d, old, r)
  PROVE  Carries(<<>>, d, old, r)
<1> DEFINE states == {Left(<<>>, d)}
<1>1. \A x \in states : x.left = <<>> /\ x.on = d
  BY LeftIs
<1>2. Left(<<>>, d) \in states /\ LeadsOn(states, old, r)
  BY <1>1 DEF LeadsOn
<1> QED BY <1>2 DEF Carries

\* A step more in front of steps that lead on.
LEMMA OnMore ==
  ASSUME NEW s, NEW plan, IsSeq(plan), NEW d, NEW old, NEW r, MayFail(s, d, old),
         Possible(d, s.call) => Carries(plan, DiskAfter(d, s.call), old, r)
  PROVE  Carries(<<s>> \o plan, d, old, r)
<1> DEFINE next == Left(plan, DiskAfter(d, s.call))
<1>1. PICK states : LeadsOn(states, old, r) /\ (Possible(d, s.call) => next \in states)
  <2>1. CASE Possible(d, s.call)
    BY <2>1 DEF Carries
  <2>2. CASE ~Possible(d, s.call)
    <3>1. LeadsOn({}, old, r)
      BY DEF LeadsOn
    <3> QED BY <2>2, <3>1
  <2> QED BY <2>1, <2>2
<1> DEFINE first == <<s>> \o plan
           more == states \cup {Left(first, d)}
<1>2. first # <<>> /\ Head(first) = s /\ Tail(first) = plan
  BY FirstAndRest
<1> HIDE DEF first
<1>3. LeadsOn(more, old, r)
  <2> SUFFICES ASSUME NEW x \in more
               PROVE  /\ x.left = <<>> => Reached(x.on, old, r)
                      /\ x.left # <<>> =>
                           /\ MayFail(Head(x.left), x.on, old)
                           /\ Possible(x.on, Head(x.left).call)
                                => Left(Tail(x.left), DiskAfter(x.on, Head(x.left).call)) \in more
    BY DEF LeadsOn
  <2>1. CASE x \in states
    BY <1>1, <2>1 DEF LeadsOn
  <2>2. CASE x = Left(first, d)
    <3>1. x.left = first /\ x.on = d
      BY <2>2, LeftIs
    <3> QED BY <1>1, <1>2, <3>1
  <2> QED BY <2>1, <2>2
<1> QED BY <1>3 DEF Carries, first

LEMMA OnOne ==
  ASSUME NEW s, NEW d, NEW old, NEW r, MayFail(s, d, old),
         Possible(d, s.call) => Reached(DiskAfter(d, s.call), old, r)
  PROVE  Carries(<<s>>, d, old, r)
<1>1. IsSeq(<<>>) /\ <<s>> \o <<>> = <<s>>
  <2> DEFINE one == <<s>>
  <2>1. one \in Seq({s})
    OBVIOUS
  <2>2. one \o <<>> = one
    BY <2>1, ConcatEmptySeq
  <2> QED BY <2>2, Tuples
<1>2. Possible(d, s.call) => Carries(<<>>, DiskAfter(d, s.call), old, r)
  BY OnNone
<1>3. Carries(<<s>> \o <<>>, d, old, r)
  BY <1>1, <1>2, OnMore
<1> QED BY <1>1, <1>3

LEMMA OnTwo ==
  ASSUME NEW s, NEW t, NEW d, NEW old, NEW r, MayFail(s, d, old),
         Possible(d, s.call) => Carries(<<t>>, DiskAfter(d, s.call), old, r)
  PROVE  Carries(<<s, t>>, d, old, r)
<1>1. IsSeq(<<t>>)
  BY Tuples
<1>2. Carries(<<s>> \o <<t>>, d, old, r)
  BY <1>1, OnMore
<1> QED BY <1>2, Pair

-----------------------------------------------------------------------------
(* Single calls, and what they do to a file.                                 *)

LEMMA PutIs ==
  ASSUME NEW d, NEW p, NEW text
  PROVE  Possible(d, Put(p, text)) /\ DiskAfter(d, Put(p, text)) = Set(d, p, text)
         /\ Tried(d, Put(p, text)) = Set(d, p, text)
BY DEF Put, Call, Possible, DiskAfter, Tried

LEMMA CreateIs ==
  ASSUME NEW d, NEW p, NEW text
  PROVE  /\ Possible(d, Create(p, text)) <=> p \notin DOMAIN d
         /\ DiskAfter(d, Create(p, text)) = Set(d, p, text)
BY DEF Create, Call, Possible, DiskAfter

LEMMA DropIs ==
  ASSUME NEW d, NEW p
  PROVE  /\ Possible(d, Drop(p)) <=> p \in DOMAIN d
         /\ Possible(d, Discard(p)) <=> p \in DOMAIN d
         /\ DiskAfter(d, Drop(p)) = Only(d, DOMAIN d \ {p})
         /\ DiskAfter(d, Discard(p)) = Only(d, DOMAIN d \ {p})
         /\ Tried(d, Drop(p)) = IF p \in DOMAIN d THEN Only(d, DOMAIN d \ {p}) ELSE d
BY DEF Drop, Discard, Call, Possible, DiskAfter, Tried

LEMMA StashIs ==
  ASSUME NEW d, NEW text
  PROVE  Possible(d, Stash(text)) /\ DiskAfter(d, Stash(text)) = d
BY DEF Stash, Call, Possible, DiskAfter

LEMMA CheckIs ==
  ASSUME NEW d
  PROVE  (Possible(d, Check) <=> Loads(d)) /\ DiskAfter(d, Check) = d /\ ~Possible(d, Refuse)
BY DEF Check, Refuse, Call, Possible, DiskAfter

LEMMA TrashIs ==
  ASSUME NEW d, NEW dir
  PROVE  /\ Possible(d, TrashDir(dir)) <=> Under(d, dir) # {}
         /\ DiskAfter(d, TrashDir(dir)) = Only(d, DOMAIN d \ Under(d, dir))
BY DEF TrashDir, Call, Possible, DiskAfter

LEMMA MoveIs ==
  ASSUME NEW d, NEW from, NEW to
  PROVE  /\ Possible(d, MoveDir(from, to)) <=>
              Under(d, from) # {} /\ Under(d, to) = {} /\ ~IsPrefix(from, to)
         /\ DiskAfter(d, MoveDir(from, to)) = Carried(d, from, to)
BY DEF MoveDir, Call, Possible, DiskAfter

LEMMA RenameIs ==
  ASSUME NEW d, NEW p, NEW q
  PROVE  /\ Possible(d, Rename(p, q)) <=> p \in DOMAIN d
         /\ DiskAfter(d, Rename(p, q)) = Set(Only(d, DOMAIN d \ {p}), q, d[p])
BY DEF Rename, Call, Possible, DiskAfter

LEMMA SetIs ==
  ASSUME NEW d, NEW p, NEW text
  PROVE  /\ DOMAIN Set(d, p, text) = DOMAIN d \cup {p} /\ Set(d, p, text)[p] = text
         /\ \A q \in DOMAIN d : q # p => Set(d, p, text)[q] = d[q]
BY DEF Set

LEMMA OnlyIs ==
  ASSUME NEW d, NEW places
  PROVE  DOMAIN Only(d, places) = places /\ \A q \in places : Only(d, places)[q] = d[q]
BY DEF Only

\* Two disks with the same files and the same texts are one.
LEMMA SameDisk ==
  ASSUME NEW d, NEW e, Disk(d), Disk(e), DOMAIN d = DOMAIN e, \A p \in DOMAIN d : d[p] = e[p]
  PROVE  d = e
<1>1. [p \in DOMAIN d |-> d[p]] = [p \in DOMAIN e |-> e[p]]
  OBVIOUS
<1> QED BY <1>1 DEF Disk

LEMMA DisksMade ==
  /\ \A d, p, text : Disk(Set(d, p, text))
  /\ \A d, places : Disk(Only(d, places))
  /\ \A d, from, to : Disk(Carried(d, from, to))
BY DEF Disk, Set, Only, Carried

LEMMA SetBack ==
  ASSUME NEW d, Disk(d), NEW p, NEW text
  PROVE  /\ p \in DOMAIN d => Set(Set(d, p, text), p, d[p]) = d
         /\ p \notin DOMAIN d => Only(Set(d, p, text), DOMAIN Set(d, p, text) \ {p}) = d
         /\ Tried(Set(d, p, text), PutBack(d, p)) = d
<1> DEFINE e == Set(d, p, text)
           f == Set(e, p, d[p])
           g == Only(e, DOMAIN e \ {p})
<1>1. DOMAIN e = DOMAIN d \cup {p} /\ \A q \in DOMAIN d : q # p => e[q] = d[q]
  BY DEF Set
<1>2. Disk(e) /\ Disk(f) /\ Disk(g)
  BY DisksMade
<1>3. /\ DOMAIN f = DOMAIN e \cup {p} /\ f[p] = d[p] /\ \A q \in DOMAIN e : q # p => f[q] = e[q]
      /\ DOMAIN g = DOMAIN e \ {p} /\ \A q \in DOMAIN g : g[q] = e[q]
  <2> HIDE DEF e
  <2> QED BY DEF Set, Only
<1> HIDE DEF e, f, g
<1>4. p \in DOMAIN d => f = d
  BY <1>1, <1>2, <1>3, SameDisk
<1>5. p \notin DOMAIN d => g = d
  BY <1>1, <1>2, <1>3, SameDisk
<1>6. Tried(e, PutBack(d, p)) = d
  <2>1. CASE p \in DOMAIN d
    <3>1. PutBack(d, p) = Put(p, d[p])
      BY <2>1 DEF PutBack
    <3>2. Tried(e, Put(p, d[p])) = f
      BY PutIs DEF f
    <3> QED BY <1>4, <2>1, <3>1, <3>2
  <2>2. CASE p \notin DOMAIN d
    <3>1. PutBack(d, p) = Drop(p)
      BY <2>2 DEF PutBack
    <3>2. p \in DOMAIN e
      BY <1>1
    <3>3. Tried(e, Drop(p)) = g
      BY <3>2, DropIs DEF g
    <3> QED BY <1>5, <2>2, <3>1, <3>3
  <2> QED BY <2>1, <2>2
<1> QED BY <1>4, <1>5, <1>6 DEF e, f, g

\* Putting a text where it is already.
LEMMA SetSame ==
  ASSUME NEW d, Disk(d), NEW p \in DOMAIN d
  PROVE  Set(d, p, d[p]) = d
<1> DEFINE e == Set(d, p, d[p])
<1>1. DOMAIN e = DOMAIN d /\ \A q \in DOMAIN d : e[q] = d[q]
  BY DEF Set
<1>2. Disk(e)
  BY DisksMade
<1> HIDE DEF e
<1>3. e = d
  BY <1>1, <1>2, SameDisk
<1> QED BY <1>3 DEF e

-----------------------------------------------------------------------------
(* What a tree in order shows.                                               *)

Slots(d) == IF Record \in DOMAIN d /\ d[Record].is = "record" THEN {d[Record].slot} ELSE {}
Plugs(d) == (IF Anchor \in DOMAIN d THEN {"anchor"} ELSE {})
              \cup (IF Lock \in DOMAIN d THEN {"lock"} ELSE {})
Tree(faces, rules, entry, record, plugin) ==
  [faces |-> faces, rules |-> rules, entry |-> entry, record |-> record,
   plugin |-> plugin, strays |-> {}]
\* The faces and the rules of a tree in order.
ShowsFaces(faces, d) ==
  /\ faces = [dir \in DOMAIN faces |-> faces[dir]]
  /\ \A dir : dir \in DOMAIN faces <=> dir # <<>> /\ IsFace(d, FaceFile(dir))
  /\ \A dir \in DOMAIN faces : faces[dir] = d[FaceFile(dir)]
ShowsRules(rules, d) ==
  /\ rules = [dir \in DOMAIN rules |-> rules[dir]]
  /\ \A dir : dir \in DOMAIN rules <=> dir # <<>> /\ RuleFile(dir) \in DOMAIN d
  /\ \A dir \in DOMAIN rules : rules[dir] = d[RuleFile(dir)].rule

LEMMA RuleFileIs ==
  ASSUME NEW dir
  PROVE  RuleFile(dir) = At(dir, "registry_rule") /\ RuleFile(dir).dir = dir
         /\ RuleFile(dir).file = "registry_rule"
BY DEF RuleFile, At

LEMMA RootPlaces ==
  /\ Entry.dir = <<>> /\ Record.dir = <<>> /\ Anchor.dir = <<>> /\ Lock.dir = <<>> /\ MoveNote.dir = <<>>
  /\ Entry # Record /\ Entry # Anchor /\ Entry # Lock /\ Entry # MoveNote /\ Record # Anchor
  /\ Record # Lock /\ Record # MoveNote /\ Anchor # Lock /\ Anchor # MoveNote /\ Lock # MoveNote
<1>1. \A file : At(<<>>, file).dir = <<>> /\ At(<<>>, file).file = file
  BY DEF At
<1>2. /\ Entry.file = "lib.rs" /\ Record.file = "graft.plan" /\ Anchor.file = "plugins.rs"
      /\ Lock.file = "plugins.lock" /\ MoveNote.file = "moves"
      /\ Entry.dir = <<>> /\ Record.dir = <<>> /\ Anchor.dir = <<>> /\ Lock.dir = <<>> /\ MoveNote.dir = <<>>
  BY <1>1 DEF Entry, Record, Anchor, Lock, MoveNote
<1> QED BY <1>2

\* The faces are the standard files, and a rule file has a face beside it.
LEMMA TidyFiles ==
  ASSUME NEW d, Typed(d), Tidy(d)
  PROVE  /\ \A p \in DOMAIN d : /\ p \in Places /\ p.dir \in Dirs /\ p.file \in Words
                                /\ p = At(p.dir, p.file)
                                /\ d[p].is = "face" <=> p \in Standard(d)
                                /\ p \in Standard(d) => p = FaceFile(p.dir) /\ p.dir # <<>>
                                                        /\ d[p] \in FaceTexts
                                /\ d[p].is = "rule" <=> p.dir # <<>> /\ p = RuleFile(p.dir)
         /\ \A dir : dir # <<>> /\ RuleFile(dir) \in DOMAIN d =>
              /\ IsFace(d, FaceFile(dir)) /\ d[FaceFile(dir)].owns
              /\ d[RuleFile(dir)] = RuleText(d[RuleFile(dir)].rule) /\ d[RuleFile(dir)].is = "rule"
         /\ \A dir : dir # <<>> /\ IsFace(d, FaceFile(dir)) => FaceFile(dir) \in Standard(d)
<1>1. \A p \in DOMAIN d : /\ p \in Places /\ p.dir \in Dirs /\ p.file \in Words /\ p = At(p.dir, p.file)
                          /\ Proper(d, p)
                          /\ d[p].is = "face" => FacePlace(p) /\ d[p] \in FaceTexts
  BY PlaceParts DEF Typed, Tidy
<1>2. ASSUME NEW p \in DOMAIN d
      PROVE  /\ d[p].is = "face" <=> p \in Standard(d)
             /\ p \in Standard(d) => p = FaceFile(p.dir) /\ p.dir # <<>> /\ d[p] \in FaceTexts
             /\ d[p].is = "rule" <=> p.dir # <<>> /\ p = RuleFile(p.dir)
  <2>1. d[p].is = "face" <=> p \in Standard(d)
    BY <1>1 DEF Standard, Proper, FacePlace
  <2>2. p \in Standard(d) => p = FaceFile(p.dir) /\ p.dir # <<>> /\ d[p] \in FaceTexts
    BY <1>1, FaceFileIs DEF Standard
  <2>3. d[p].is = "rule" <=> p.dir # <<>> /\ p = RuleFile(p.dir)
    BY <1>1, RuleFileIs DEF Proper
  <2> QED BY <2>1, <2>2, <2>3
<1>3. ASSUME NEW dir, dir # <<>>, RuleFile(dir) \in DOMAIN d
      PROVE  /\ IsFace(d, FaceFile(dir)) /\ d[FaceFile(dir)].owns
             /\ d[RuleFile(dir)] = RuleText(d[RuleFile(dir)].rule) /\ d[RuleFile(dir)].is = "rule"
  <2>1. Proper(d, RuleFile(dir)) /\ RuleFile(dir).dir = dir /\ RuleFile(dir).file = "registry_rule"
    BY <1>1, <1>3, RuleFileIs
  <2>2. /\ IsFace(d, FaceFile(dir)) /\ d[RuleFile(dir)].is = "rule"
        /\ d[RuleFile(dir)] = RuleText(d[RuleFile(dir)].rule)
    BY <1>3, <2>1 DEF Proper
  <2>3. Proper(d, FaceFile(dir)) /\ d[FaceFile(dir)].is = "face" /\ FaceFile(dir).dir = dir
    BY <1>1, <2>2, FaceFileIs DEF IsFace
  <2>4. d[FaceFile(dir)].owns
    BY <1>3, <2>3 DEF Proper
  <2> QED BY <2>2, <2>4
<1>4. \A dir : dir # <<>> /\ IsFace(d, FaceFile(dir)) => FaceFile(dir) \in Standard(d)
  BY <1>2 DEF IsFace
<1> QED BY <1>1, <1>2, <1>3, <1>4

\* The registry a tree in order shows, read from its face and rule files.
LEMMA ViewIs ==
  ASSUME NEW d, Typed(d), Tidy(d)
  PROVE  /\ View(d) = Tree(View(d).faces, View(d).rules, Cuts(d), Slots(d), Plugs(d))
         /\ ShowsFaces(View(d).faces, d) /\ ShowsRules(View(d).rules, d)
<1> DEFINE faces == [dir \in {p.dir : p \in Standard(d)} |-> d[FaceFile(dir)]]
           rules == [dir \in {p.dir : p \in {q \in DOMAIN d : d[q].is = "rule"}} |-> d[RuleFile(dir)].rule]
           strays == {p \in DOMAIN d : d[p].is = "torn"}
                       \cup {p \in DOMAIN d : d[p].is = "face" /\ p \notin Standard(d)}
<1>1. View(d) = [faces |-> faces, rules |-> rules, entry |-> Cuts(d), record |-> Slots(d),
                 plugin |-> Plugs(d), strays |-> strays]
  BY DEF View, Cuts, Slots, Plugs
<1>2. strays = {}
  BY TidyFiles DEF Tidy, Proper
<1>3. ShowsFaces(faces, d)
  <2>1. \A dir \in DOMAIN faces : faces[dir] = d[FaceFile(dir)]
    OBVIOUS
  <2>2. \A dir : dir \in DOMAIN faces <=> \E p \in Standard(d) : dir = p.dir
    OBVIOUS
  <2>3. faces = [dir \in DOMAIN faces |-> faces[dir]]
    OBVIOUS
  <2> HIDE DEF faces
  <2>4. ASSUME NEW dir PROVE dir \in DOMAIN faces <=> dir # <<>> /\ IsFace(d, FaceFile(dir))
    <3>1. ASSUME NEW p \in Standard(d), dir = p.dir PROVE dir # <<>> /\ IsFace(d, FaceFile(dir))
      <4>1. p \in DOMAIN d /\ d[p].is = "face"
        BY DEF Standard
      <4> QED BY <3>1, <4>1, TidyFiles DEF IsFace
    <3>2. dir # <<>> /\ IsFace(d, FaceFile(dir)) => FaceFile(dir) \in Standard(d) /\ FaceFile(dir).dir = dir
      BY TidyFiles, FaceFileIs
    <3> QED BY <2>2, <3>1, <3>2
  <2> QED BY <2>1, <2>3, <2>4 DEF ShowsFaces
<1>4. ShowsRules(rules, d)
  <2>1. \A dir \in DOMAIN rules : rules[dir] = d[RuleFile(dir)].rule
    OBVIOUS
  <2>2. \A dir : dir \in DOMAIN rules <=> \E p \in DOMAIN d : d[p].is = "rule" /\ dir = p.dir
    OBVIOUS
  <2>3. rules = [dir \in DOMAIN rules |-> rules[dir]]
    OBVIOUS
  <2> HIDE DEF rules
  <2>4. ASSUME NEW dir PROVE dir \in DOMAIN rules <=> dir # <<>> /\ RuleFile(dir) \in DOMAIN d
    <3>1. ASSUME NEW p \in DOMAIN d, d[p].is = "rule", dir = p.dir PROVE dir # <<>> /\ RuleFile(dir) \in DOMAIN d
      BY <3>1, TidyFiles
    <3>2. dir # <<>> /\ RuleFile(dir) \in DOMAIN d => d[RuleFile(dir)].is = "rule" /\ RuleFile(dir).dir = dir
      BY TidyFiles, RuleFileIs
    <3> QED BY <2>2, <3>1, <3>2
  <2> QED BY <2>1, <2>3, <2>4 DEF ShowsRules
<1> HIDE DEF faces, rules, strays
<1>5. View(d).faces = faces /\ View(d).rules = rules
  BY <1>1
<1> QED BY <1>1, <1>2, <1>3, <1>4, <1>5 DEF Tree

\* A tree in order that shows these faces and rules.
LEMMA ViewShows ==
  ASSUME NEW e, Typed(e), Tidy(e), NEW faces, ShowsFaces(faces, e), NEW rules, ShowsRules(rules, e)
  PROVE  View(e) = Tree(faces, rules, Cuts(e), Slots(e), Plugs(e))
<1> DEFINE F == View(e).faces
           R == View(e).rules
<1>1. View(e) = Tree(F, R, Cuts(e), Slots(e), Plugs(e)) /\ ShowsFaces(F, e) /\ ShowsRules(R, e)
  BY ViewIs
<1> HIDE DEF F, R
<1>2. F = faces
  <2>1. DOMAIN F = DOMAIN faces /\ \A dir \in DOMAIN F : F[dir] = faces[dir]
    BY <1>1 DEF ShowsFaces
  <2>2. F = [dir \in DOMAIN F |-> F[dir]] /\ faces = [dir \in DOMAIN faces |-> faces[dir]]
    BY <1>1 DEF ShowsFaces
  <2>3. [dir \in DOMAIN F |-> F[dir]] = [dir \in DOMAIN faces |-> faces[dir]]
    BY <2>1
  <2> QED BY <2>2, <2>3
<1>3. R = rules
  <2>1. DOMAIN R = DOMAIN rules /\ \A dir \in DOMAIN R : R[dir] = rules[dir]
    BY <1>1 DEF ShowsRules
  <2>2. R = [dir \in DOMAIN R |-> R[dir]] /\ rules = [dir \in DOMAIN rules |-> rules[dir]]
    BY <1>1 DEF ShowsRules
  <2>3. [dir \in DOMAIN R |-> R[dir]] = [dir \in DOMAIN rules |-> rules[dir]]
    BY <2>1
  <2> QED BY <2>2, <2>3
<1> QED BY <1>1, <1>2, <1>3

\* Two disks have the same face file and the same rule file for a directory.
SameModule(d, e, dir) ==
  /\ IsFace(d, FaceFile(dir)) => IsFace(e, FaceFile(dir)) /\ e[FaceFile(dir)] = d[FaceFile(dir)]
  /\ IsFace(e, FaceFile(dir)) => IsFace(d, FaceFile(dir))
  /\ RuleFile(dir) \in DOMAIN d => RuleFile(dir) \in DOMAIN e /\ e[RuleFile(dir)] = d[RuleFile(dir)]
  /\ RuleFile(dir) \in DOMAIN e => RuleFile(dir) \in DOMAIN d

\* What a face is to its parent, and the word of the registry about it.
Parented(d, text) ==
  /\ text.alias = IF text.parent = <<>> THEN "root" ELSE Last(text.parent)
  /\ text.parent # <<>> =>
       /\ IsFace(d, FaceFile(text.parent)) /\ d[FaceFile(text.parent)].owns
       /\ RuleOf(d, text.parent) = "strict" => text.kind = "k1"

LEMMA LoadsIs ==
  ASSUME NEW d
  PROVE  Loads(d) <=> \A p \in DOMAIN d : d[p].is \in {"face", "torn"} /\ p.dir # <<>>
                                            => d[p].is = "face" /\ Parented(d, d[p])
BY DEF Loads, Parented

\* The face is still there, and the same rule beside it.
Alike(d, e, dir) ==
  /\ IsFace(d, FaceFile(dir)) => IsFace(e, FaceFile(dir)) /\ (d[FaceFile(dir)].owns => e[FaceFile(dir)].owns)
  /\ RuleFile(dir) \in DOMAIN d => RuleFile(dir) \in DOMAIN e /\ e[RuleFile(dir)] = d[RuleFile(dir)]
  /\ RuleFile(dir) \in DOMAIN e => RuleFile(dir) \in DOMAIN d

LEMMA SameIsAlike ==
  ASSUME NEW d, NEW e, NEW dir, SameModule(d, e, dir)
  PROVE  Alike(d, e, dir)
BY DEF SameModule, Alike

LEMMA SameRuleOf ==
  ASSUME NEW d, NEW e, NEW dir, Alike(d, e, dir)
  PROVE  RuleOf(e, dir) = RuleOf(d, dir)
BY DEF Alike, RuleOf

LEMMA ParentedStays ==
  ASSUME NEW d, NEW e, NEW text, Parented(d, text), text.parent # <<>> => Alike(d, e, text.parent)
  PROVE  Parented(e, text)
<1>1. CASE text.parent = <<>>
  BY <1>1 DEF Parented
<1>2. CASE text.parent # <<>>
  <2>1. /\ IsFace(d, FaceFile(text.parent)) /\ d[FaceFile(text.parent)].owns
        /\ RuleOf(d, text.parent) = "strict" => text.kind = "k1"
        /\ text.alias = Last(text.parent)
    BY <1>2 DEF Parented
  <2>2. RuleOf(e, text.parent) = RuleOf(d, text.parent)
    BY <1>2, SameRuleOf
  <2>3. IsFace(e, FaceFile(text.parent)) /\ e[FaceFile(text.parent)].owns
    BY <1>2, <2>1 DEF Alike
  <2> QED BY <1>2, <2>1, <2>2, <2>3 DEF Parented
<1> QED BY <1>1, <1>2

LEMMA ProperStays ==
  ASSUME NEW d, NEW e, NEW p, Proper(d, p), e[p] = d[p], Alike(d, e, p.dir)
  PROVE  Proper(e, p)
<1>1. d[p].is = "face" => (d[p].owns <=> RuleFile(p.dir) \in DOMAIN e)
  BY DEF Proper, Alike
<1>2. d[p].is = "rule" => IsFace(e, FaceFile(p.dir))
  BY DEF Proper, Alike
<1> QED BY <1>1, <1>2 DEF Proper

\* The files of two disks are the same but at the root.
SameModules(d, e) ==
  /\ \A p \in DOMAIN d : p.dir # <<>> => p \in DOMAIN e /\ e[p] = d[p]
  /\ \A p \in DOMAIN e : p.dir # <<>> => p \in DOMAIN d
\* A change of a file outside the modules leaves the modules in order.
LEMMA RootChange ==
  ASSUME NEW d, Typed(d), Tidy(d), NEW e, Typed(e), Disk(e), SameModules(d, e),
         \A p \in DOMAIN e : p.dir = <<>> => e[p].is \notin {"torn", "rule"}
  PROVE  Tidy(e) /\ View(e) = Tree(View(d).faces, View(d).rules, Cuts(e), Slots(e), Plugs(e))
<1>1. ASSUME NEW dir, dir # <<>> PROVE SameModule(d, e, dir)
  <2>1. FaceFile(dir).dir # <<>> /\ RuleFile(dir).dir # <<>>
    BY <1>1, FaceFileIs, RuleFileIs
  <2> QED BY <2>1 DEF SameModules, IsFace, SameModule
<1>2. Loads(e)
  <2> SUFFICES ASSUME NEW p \in DOMAIN e, e[p].is \in {"face", "torn"}, p.dir # <<>>
               PROVE  e[p].is = "face" /\ Parented(e, e[p])
    BY LoadsIs
  <2>1. p \in DOMAIN d /\ e[p] = d[p]
    BY DEF SameModules
  <2>2. d[p].is = "face" /\ Parented(d, d[p])
    BY <2>1, LoadsIs DEF Tidy
  <2>3. Parented(e, d[p])
    BY <1>1, <2>2, SameIsAlike, ParentedStays
  <2> QED BY <2>1, <2>2, <2>3
<1>3. ASSUME NEW p \in DOMAIN e PROVE Proper(e, p)
  <2>1. CASE p.dir # <<>>
    <3>1. p \in DOMAIN d /\ e[p] = d[p] /\ Proper(d, p)
      BY <2>1 DEF SameModules, Tidy
    <3> QED BY <1>1, <2>1, <3>1, SameIsAlike, ProperStays
  <2>2. CASE p.dir = <<>>
    <3>1. e[p].is # "face"
      BY <2>2 DEF Typed, FacePlace
    <3> QED BY <2>2, <3>1 DEF Proper
  <2> QED BY <2>1, <2>2
<1>4. Tidy(e)
  BY <1>2, <1>3 DEF Tidy
<1> DEFINE F == View(d).faces
           R == View(d).rules
<1>5. ShowsFaces(F, d) /\ ShowsRules(R, d)
  BY ViewIs
<1> HIDE DEF F, R
<1>6. ShowsFaces(F, e)
  <2>1. ASSUME NEW dir PROVE dir \in DOMAIN F <=> dir # <<>> /\ IsFace(e, FaceFile(dir))
    <3>1. dir # <<>> => (IsFace(e, FaceFile(dir)) <=> IsFace(d, FaceFile(dir)))
      BY <1>1 DEF SameModule
    <3> QED BY <1>5, <3>1 DEF ShowsFaces
  <2>2. ASSUME NEW dir \in DOMAIN F PROVE F[dir] = e[FaceFile(dir)]
    <3>1. dir # <<>> /\ IsFace(d, FaceFile(dir)) /\ F[dir] = d[FaceFile(dir)]
      BY <1>5 DEF ShowsFaces
    <3> QED BY <1>1, <3>1 DEF SameModule
  <2> QED BY <1>5, <2>1, <2>2 DEF ShowsFaces
<1>7. ShowsRules(R, e)
  <2>1. ASSUME NEW dir PROVE dir \in DOMAIN R <=> dir # <<>> /\ RuleFile(dir) \in DOMAIN e
    <3>1. dir # <<>> => (RuleFile(dir) \in DOMAIN e <=> RuleFile(dir) \in DOMAIN d)
      BY <1>1 DEF SameModule
    <3> QED BY <1>5, <3>1 DEF ShowsRules
  <2>2. ASSUME NEW dir \in DOMAIN R PROVE R[dir] = e[RuleFile(dir)].rule
    <3>1. dir # <<>> /\ RuleFile(dir) \in DOMAIN d /\ R[dir] = d[RuleFile(dir)].rule
      BY <1>5 DEF ShowsRules
    <3> QED BY <1>1, <3>1 DEF SameModule
  <2> QED BY <1>5, <2>1, <2>2 DEF ShowsRules
<1>8. View(e) = Tree(F, R, Cuts(e), Slots(e), Plugs(e))
  BY <1>4, <1>6, <1>7, ViewShows
<1> QED BY <1>4, <1>8 DEF F, R

-----------------------------------------------------------------------------
(* Requests that leave the modules alone.                                    *)

LEMMA SetRoot ==
  ASSUME NEW d, Typed(d), Tidy(d), NEW p \in {Entry, Record, Anchor, Lock}, NEW text,
         text.is \notin {"torn", "rule", "face"}
  PROVE  /\ Typed(Set(d, p, text)) /\ Tidy(Set(d, p, text))
         /\ View(Set(d, p, text)) = Tree(View(d).faces, View(d).rules, Cuts(Set(d, p, text)),
                                         Slots(Set(d, p, text)), Plugs(Set(d, p, text)))
<1> DEFINE e == Set(d, p, text)
<1>1. p \in Places /\ p.dir = <<>>
  BY OtherPlaces, RootPlaces
<1>2. Typed(e)
  BY <1>1, SetTyped
<1>3. DOMAIN e = DOMAIN d \cup {p} /\ e[p] = text /\ \A q \in DOMAIN d : q # p => e[q] = d[q]
  BY DEF Set
<1>4. Disk(e)
  BY DisksMade
<1> HIDE DEF e
<1>5. SameModules(d, e)
  BY <1>1, <1>3 DEF SameModules
<1>6. \A q \in DOMAIN e : q.dir = <<>> => e[q].is \notin {"torn", "rule"}
  BY <1>3 DEF Tidy, Proper
<1>7. Tidy(e) /\ View(e) = Tree(View(d).faces, View(d).rules, Cuts(e), Slots(e), Plugs(e))
  BY <1>2, <1>4, <1>5, <1>6, RootChange
<1> QED BY <1>2, <1>7 DEF e

LEMMA DropRoot ==
  ASSUME NEW d, Typed(d), Tidy(d), NEW p \in {Entry, Record, Anchor, Lock},
         NEW e, e = Only(d, DOMAIN d \ {p})
  PROVE  /\ Typed(e) /\ Tidy(e)
         /\ View(e) = Tree(View(d).faces, View(d).rules, Cuts(e), Slots(e), Plugs(e))
<1>1. p.dir = <<>>
  BY RootPlaces
<1>2. Typed(e)
  BY OnlyTyped
<1>3. DOMAIN e = DOMAIN d \ {p} /\ \A q \in DOMAIN e : e[q] = d[q]
  BY DEF Only
<1>4. Disk(e)
  BY DisksMade
<1>5. SameModules(d, e)
  BY <1>1, <1>3 DEF SameModules
<1>6. \A q \in DOMAIN e : q.dir = <<>> => e[q].is \notin {"torn", "rule"}
  BY <1>3 DEF Tidy, Proper
<1>7. Tidy(e) /\ View(e) = Tree(View(d).faces, View(d).rules, Cuts(e), Slots(e), Plugs(e))
  BY <1>2, <1>4, <1>5, <1>6, RootChange
<1> QED BY <1>2, <1>7

\* A step whose failure undoes nothing, while the disk is as it was.
LEMMA FirstMayFail ==
  ASSUME NEW d, NEW s, s.undo = <<>>
  PROVE  MayFail(s, d, d)
BY BackNone DEF MayFail
LEMMA StepParts ==
  ASSUME NEW call, NEW undo
  PROVE  /\ Step(call, undo).call = call /\ Step(call, undo).undo = undo
         /\ Tearing(Step(call, undo)).call = call /\ Tearing(Step(call, undo)).undo = undo
         /\ Late(Step(call, undo)).call = call /\ Late(Step(call, undo)).undo = undo
         /\ Late(Step(call, undo)).late
         /\ Late(Tearing(Step(call, undo))).call = call /\ Late(Tearing(Step(call, undo))).undo = undo
         /\ Late(Tearing(Step(call, undo))).late
BY DEF Step, Tearing, Late

LEMMA TreeIs ==
  ASSUME NEW faces, NEW rules, NEW entry, NEW record, NEW plugin,
         NEW t, t = Tree(faces, rules, entry, record, plugin)
  PROVE  /\ t.faces = faces /\ t.rules = rules /\ t.entry = entry /\ t.record = record
         /\ \A x : [t EXCEPT !.faces = x] = Tree(x, rules, entry, record, plugin)
BY DEF Tree

WithSources(t, x, y) == [t EXCEPT !.faces = x, !.rules = y]
WithNotes(t, x, y) == [t EXCEPT !.entry = x, !.record = y]
LEMMA TwoSources ==
  ASSUME NEW faces, NEW rules, NEW entry, NEW record, NEW plugin, NEW x, NEW y,
         NEW t, t = Tree(faces, rules, entry, record, plugin)
  PROVE  WithSources(t, x, y) = Tree(x, y, entry, record, plugin)
<1> DEFINE u == [t EXCEPT !.faces = x]
<1>1. u = Tree(x, rules, entry, record, plugin)
  BY DEF Tree
<1>2. [t EXCEPT !.faces = x, !.rules = y] = [u EXCEPT !.rules = y]
  OBVIOUS
<1> HIDE DEF u
<1>3. [u EXCEPT !.rules = y] = Tree(x, y, entry, record, plugin)
  BY <1>1 DEF Tree
<1> QED BY <1>2, <1>3 DEF WithSources

LEMMA TwoNotes ==
  ASSUME NEW faces, NEW rules, NEW entry, NEW record, NEW plugin, NEW x, NEW y,
         NEW t, t = Tree(faces, rules, entry, record, plugin)
  PROVE  WithNotes(t, x, y) = Tree(faces, rules, x, y, plugin)
<1> DEFINE u == [t EXCEPT !.entry = x]
<1>1. u = Tree(faces, rules, x, record, plugin)
  BY DEF Tree
<1>2. [t EXCEPT !.entry = x, !.record = y] = [u EXCEPT !.record = y]
  OBVIOUS
<1> HIDE DEF u
<1>3. [u EXCEPT !.record = y] = Tree(faces, rules, x, y, plugin)
  BY <1>1 DEF Tree
<1> QED BY <1>2, <1>3 DEF WithNotes

LEMMA AfterCut ==
  ASSUME NEW faces, NEW rules, NEW entry, NEW record, NEW plugin, NEW r, r.op = "cut"
  PROVE  Atomic!After(Tree(faces, rules, entry, record, plugin), r)
           = Tree(faces, rules, entry \cup {[cut |-> r.dir, graft |-> "external"]}, record, plugin)
<1> DEFINE t == Tree(faces, rules, entry, record, plugin)
           more == {[cut |-> r.dir, graft |-> "external"]}
<1>1. Atomic!After(t, r) = [t EXCEPT !.entry = t.entry \cup more]
  BY DEF Atomic!After
<1>2. t = [faces |-> faces, rules |-> rules, entry |-> entry, record |-> record,
           plugin |-> plugin, strays |-> {}]
  BY DEF Tree
<1> HIDE DEF more
<1>3. [t EXCEPT !.entry = t.entry \cup more] = Tree(faces, rules, entry \cup more, record, plugin)
  BY <1>2 DEF Tree
<1> QED BY <1>1, <1>3 DEF more

\* run_cut.
LEMMA CutCarries ==
  ASSUME NEW d, Typed(d), Tidy(d), NEW r, r.op = "cut"
  PROVE  Carries(CutPlan(d, r), d, d, r)
<1> DEFINE cuts == Cuts(d) \cup {[cut |-> r.dir, graft |-> "external"]}
           e == Set(d, Entry, EntryText(cuts))
           s == Tearing(Step(Put(Entry, EntryText(cuts)), <<>>))
           F == View(d).faces
           R == View(d).rules
<1>1. EntryText(cuts).is = "entry" /\ EntryText(cuts).cuts = cuts
  BY DEF EntryText
<1>2. /\ Tidy(e) /\ View(e) = Tree(F, R, Cuts(e), Slots(e), Plugs(e))
  <2> DEFINE text == EntryText(cuts)
  <2>1. text.is \notin {"torn", "rule", "face"}
    BY <1>1
  <2> HIDE DEF text
  <2> QED BY <2>1, SetRoot DEF text
<1>3. Cuts(e) = cuts /\ Slots(e) = Slots(d) /\ Plugs(e) = Plugs(d)
  <2> DEFINE text == EntryText(cuts)
  <2> HIDE DEF text
  <2>1. DOMAIN e = DOMAIN d \cup {Entry} /\ e[Entry] = text /\ \A q \in DOMAIN d : q # Entry => e[q] = d[q]
    BY DEF Set, text
  <2>2. text.is = "entry" /\ text.cuts = cuts
    BY <1>1 DEF text
  <2> HIDE DEF e, cuts
  <2> QED BY <2>1, <2>2, RootPlaces DEF Cuts, Slots, Plugs
<1>4. View(d) = Tree(F, R, Cuts(d), Slots(d), Plugs(d))
  BY ViewIs
<1> HIDE DEF e, F, R
<1>5. View(e) = Atomic!After(View(d), r)
  <2>1. Atomic!After(Tree(F, R, Cuts(d), Slots(d), Plugs(d)), r)
          = Tree(F, R, Cuts(d) \cup {[cut |-> r.dir, graft |-> "external"]}, Slots(d), Plugs(d))
    BY AfterCut
  <2> QED BY <1>2, <1>3, <1>4, <2>1
<1>6. Reached(e, d, r)
  BY <1>2, <1>5 DEF Reached
<1>7. s.call = Put(Entry, EntryText(cuts)) /\ s.undo = <<>> /\ CutPlan(d, r) = <<s>>
  BY StepParts DEF CutPlan
<1>8. DiskAfter(d, s.call) = e
  BY <1>7, PutIs DEF e
<1> HIDE DEF s, cuts
<1> QED BY <1>6, <1>7, <1>8, FirstMayFail, OnOne

\* create_external_graft.
LEMMA GraftCarries ==
  ASSUME NEW d, Typed(d), Tidy(d), NEW r, r.op = "graft", Record \notin DOMAIN d
  PROVE  Carries(GraftPlan(d, r), d, d, r)
<1> DEFINE text == [is |-> "record", slot |-> r.dir]
           e == Set(d, Record, text)
           s == Step(Put(Record, text), <<Drop(Record)>>)
           F == View(d).faces
           R == View(d).rules
<1>1. text.is = "record" /\ text.slot = r.dir
  OBVIOUS
<1>7. s.call = Put(Record, text) /\ s.undo = <<Drop(Record)>> /\ GraftPlan(d, r) = <<s>>
  BY StepParts DEF GraftPlan
<1> HIDE DEF text, s
<1>2. /\ Tidy(e) /\ View(e) = Tree(F, R, Cuts(e), Slots(e), Plugs(e))
  BY <1>1, SetRoot
<1>3. Cuts(e) = Cuts(d) /\ Slots(e) = {r.dir} /\ Plugs(e) = Plugs(d)
  <2>1. DOMAIN e = DOMAIN d \cup {Record} /\ e[Record] = text /\ \A q \in DOMAIN d : q # Record => e[q] = d[q]
    BY DEF Set
  <2> HIDE DEF e
  <2> QED BY <1>1, <2>1, RootPlaces DEF Cuts, Slots, Plugs
<1>4. View(d) = Tree(F, R, Cuts(d), Slots(d), Plugs(d))
  BY ViewIs
<1>8. DiskAfter(d, s.call) = e
  BY <1>7, PutIs DEF e
<1>9. Tried(d, Drop(Record)) = d
  BY DropIs
<1>10. MayFail(s, d, d)
  BY <1>7, <1>9, BackOne DEF MayFail
<1> HIDE DEF e, F, R
<1>5. View(e) = Atomic!After(View(d), r)
  BY <1>2, <1>3, <1>4 DEF Atomic!After, Tree
<1>6. Reached(e, d, r)
  BY <1>2, <1>5 DEF Reached
<1> QED BY <1>6, <1>7, <1>8, <1>10, OnOne

\* remove_external_graft.
LEMMA RetireCarries ==
  ASSUME NEW d, Typed(d), Tidy(d), NEW r, r.op = "retire"
  PROVE  Carries(RetirePlan(d, r), d, d, r)
<1> DEFINE e == Only(d, DOMAIN d \ {Record})
           s == Step(Discard(Record), <<>>)
           F == View(d).faces
           R == View(d).rules
<1>2. /\ Tidy(e) /\ View(e) = Tree(F, R, Cuts(e), Slots(e), Plugs(e))
  BY DropRoot
<1>3. Cuts(e) = Cuts(d) /\ Slots(e) = {} /\ Plugs(e) = Plugs(d)
  <2>1. DOMAIN e = DOMAIN d \ {Record} /\ \A q \in DOMAIN e : e[q] = d[q]
    BY DEF Only
  <2> HIDE DEF e
  <2> QED BY <2>1, RootPlaces DEF Cuts, Slots, Plugs
<1>4. View(d) = Tree(F, R, Cuts(d), Slots(d), Plugs(d))
  BY ViewIs
<1>7. s.call = Discard(Record) /\ s.undo = <<>> /\ RetirePlan(d, r) = <<s>>
  BY StepParts DEF RetirePlan
<1> HIDE DEF s
<1>8. DiskAfter(d, s.call) = e
  BY <1>7, DropIs DEF e
<1> HIDE DEF e, F, R
<1>5. View(e) = Atomic!After(View(d), r)
  BY <1>2, <1>3, <1>4 DEF Atomic!After, Tree
<1>6. Reached(e, d, r)
  BY <1>2, <1>5 DEF Reached
<1> QED BY <1>6, <1>7, <1>8, FirstMayFail, OnOne

\* submit_plugin.
LEMMA PluginCarries ==
  ASSUME NEW d, Typed(d), Tidy(d), NEW r, r.op = "plugin"
  PROVE  Carries(PluginPlan(d, r), d, d, r)
<1> DEFINE anchor == [is |-> "anchor"]
           lock == [is |-> "lock"]
           s == Tearing(Step(Put(Anchor, anchor), <<>>))
           t == Tearing(Step(Put(Lock, lock), <<PutBack(d, Anchor)>>))
           e == Set(d, Anchor, anchor)
           f == Set(e, Lock, lock)
           F == View(d).faces
           R == View(d).rules
<1>1. anchor.is = "anchor" /\ lock.is = "lock"
  OBVIOUS
<1>2. /\ s.call = Put(Anchor, anchor) /\ s.undo = <<>>
      /\ t.call = Put(Lock, lock) /\ t.undo = <<PutBack(d, Anchor)>>
      /\ PluginPlan(d, r) = <<s, t>>
  BY StepParts DEF PluginPlan
<1> HIDE DEF anchor, lock, s, t
<1>3. Typed(e) /\ Tidy(e) /\ View(e) = Tree(F, R, Cuts(e), Slots(e), Plugs(e))
  BY <1>1, SetRoot
<1>4. DOMAIN e = DOMAIN d \cup {Anchor} /\ \A q \in DOMAIN d : q # Anchor => e[q] = d[q]
  BY DEF Set
<1>5. DiskAfter(d, s.call) = e
  BY <1>2, PutIs DEF e
<1>6. Tried(e, PutBack(d, Anchor)) = d
  BY SetBack DEF Tidy
<1>11. View(d) = Tree(F, R, Cuts(d), Slots(d), Plugs(d))
  BY ViewIs
<1> HIDE DEF e, F, R
<1>7. Tidy(f) /\ View(f) = Tree(View(e).faces, View(e).rules, Cuts(f), Slots(f), Plugs(f))
  BY <1>1, <1>3, SetRoot
<1>8. View(e).faces = F /\ View(e).rules = R
  BY <1>3 DEF Tree
<1>9. DOMAIN f = DOMAIN e \cup {Lock} /\ \A q \in DOMAIN e : q # Lock => f[q] = e[q]
  BY DEF Set
<1>10. DiskAfter(e, t.call) = f
  BY <1>2, PutIs DEF f
<1> HIDE DEF f
<1>12. Cuts(f) = Cuts(d) /\ Slots(f) = Slots(d) /\ Plugs(f) = {"anchor", "lock"}
  <2>1. \A p \in {Entry, Record} : (p \in DOMAIN f <=> p \in DOMAIN d) /\ (p \in DOMAIN d => f[p] = d[p])
    BY <1>4, <1>9, RootPlaces
  <2>2. Anchor \in DOMAIN f /\ Lock \in DOMAIN f
    BY <1>4, <1>9
  <2> QED BY <2>1, <2>2 DEF Cuts, Slots, Plugs
<1>13. View(f) = Atomic!After(View(d), r)
  BY <1>7, <1>8, <1>11, <1>12 DEF Atomic!After, Tree
<1>14. Reached(f, d, r)
  BY <1>7, <1>13 DEF Reached
<1>15. MayFail(s, d, d)
  BY <1>2, FirstMayFail
<1>16. MayFail(t, e, d)
  BY <1>2, <1>6, BackOne DEF MayFail
<1>17. Carries(<<t>>, e, d, r)
  BY <1>10, <1>14, <1>16, OnOne
<1> QED BY <1>2, <1>5, <1>15, <1>17, OnTwo

-----------------------------------------------------------------------------
(* Requests about one module and what is below it.                           *)

LEMMA FrontIs ==
  ASSUME NEW dir \in Dirs \ {<<>>}
  PROVE  /\ Front(dir) \in Dirs /\ Last(dir) \in Words /\ Len(dir) \in Nat \ {0}
         /\ Len(Front(dir)) = Len(dir) - 1
         /\ \A i \in 1..(Len(dir) - 1) : Front(dir)[i] = dir[i]
         /\ dir = Append(Front(dir), Last(dir)) /\ Front(dir) # dir
<1>1. /\ Front(dir) \in Dirs /\ Last(dir) \in Words /\ Len(dir) \in Nat \ {0} /\ dir \in Seq(Words)
      /\ \A i \in 1..Len(dir) : dir[i] \in Words
  BY DirParts, ElementOfSeq DEF Dirs
<1>2. /\ Len(Front(dir)) = Len(dir) - 1
      /\ \A i \in 1..(Len(dir) - 1) : Front(dir)[i] = dir[i]
  <2> DEFINE n == Len(dir) - 1
  <2>1. 1 \in Int /\ n \in Int /\ 0 <= n /\ \A i \in 1..n : dir[i] \in Words
    BY <1>1
  <2> HIDE DEF n
  <2>2. /\ Len(SubSeq(dir, 1, n)) = IF 1 <= n THEN n - 1 + 1 ELSE 0
        /\ \A i \in 1..(n - 1 + 1) : SubSeq(dir, 1, n)[i] = dir[1 + i - 1]
    BY <2>1, SubSeqProperties
  <2>3. Len(SubSeq(dir, 1, n)) = n /\ \A i \in 1..n : SubSeq(dir, 1, n)[i] = dir[i]
    BY <2>1, <2>2
  <2> QED BY <2>3 DEF Front, n
<1>3. Last(dir) = dir[Len(dir)]
  BY DEF Last
<1> DEFINE all == Append(Front(dir), Last(dir))
           front == Front(dir)
<1> HIDE DEF front
<1>4. /\ all \in Seq(Words) /\ Len(all) = Len(dir)
      /\ \A i \in 1..(Len(dir) - 1) : all[i] = dir[i]
      /\ all[Len(dir)] = dir[Len(dir)]
  <2>1. front \in Seq(Words) /\ Len(front) = Len(dir) - 1 /\ Len(front) \in Nat
        /\ \A i \in 1..Len(front) : front[i] = dir[i]
    BY <1>1, <1>2 DEF Dirs, front
  <2>2. /\ Append(front, Last(dir)) \in Seq(Words) /\ Len(Append(front, Last(dir))) = Len(front) + 1
        /\ \A i \in 1..Len(front) : Append(front, Last(dir))[i] = front[i]
        /\ Append(front, Last(dir))[Len(front) + 1] = Last(dir)
    BY <1>1, <2>1, AppendProperties
  <2>3. all = Append(front, Last(dir))
    BY DEF front
  <2> HIDE DEF all
  <2> QED BY <1>1, <1>3, <2>1, <2>2, <2>3
<1> HIDE DEF all
<1>5. ASSUME NEW i \in 1..Len(dir) PROVE all[i] = dir[i]
  <2>1. i \in 1..(Len(dir) - 1) \/ i = Len(dir)
    BY <1>1
  <2> QED BY <1>4, <2>1
<1>6. all = dir
  BY <1>1, <1>4, <1>5, SeqEqual
<1>7. Front(dir) # dir
  BY <1>1, <1>2
<1> QED BY <1>1, <1>2, <1>6, <1>7 DEF all

LEMMA PrefixOfFront ==
  ASSUME NEW a \in Dirs, NEW b \in Dirs \ {<<>>}
  PROVE  /\ IsPrefix(a, Front(b)) => IsPrefix(a, b)
         /\ IsPrefix(a, b) /\ a # b => IsPrefix(a, Front(b))
         /\ ~IsPrefix(b, Front(b))
<1> DEFINE f == Front(b)
<1>1. /\ f \in Dirs /\ b \in Dirs /\ Len(b) \in Nat \ {0} /\ Len(f) = Len(b) - 1
      /\ \A i \in 1..(Len(b) - 1) : f[i] = b[i]
  BY FrontIs
<1> HIDE DEF f
<1>2. /\ Len(a) \in Nat /\ Len(f) \in Nat
      /\ IsPrefix(a, f) <=> Len(a) <= Len(f) /\ \A i \in 1..Len(a) : a[i] = f[i]
      /\ IsPrefix(a, b) <=> Len(a) <= Len(b) /\ \A i \in 1..Len(a) : a[i] = b[i]
      /\ IsPrefix(b, f) <=> Len(b) <= Len(f) /\ \A i \in 1..Len(b) : b[i] = f[i]
  BY <1>1, PrefixPointwise, LenProperties DEF Dirs
<1>3. IsPrefix(a, f) => IsPrefix(a, b)
  <2> SUFFICES ASSUME IsPrefix(a, f) PROVE IsPrefix(a, b)
    OBVIOUS
  <2>1. Len(a) <= Len(f) /\ \A i \in 1..Len(a) : a[i] = f[i]
    BY <1>2
  <2>2. \A i \in 1..Len(a) : i \in 1..(Len(b) - 1)
    BY <1>1, <1>2, <2>1
  <2> QED BY <1>1, <1>2, <2>1, <2>2
<1>4. ASSUME IsPrefix(a, b), a # b PROVE IsPrefix(a, f)
  <2>1. Len(a) <= Len(b) /\ \A i \in 1..Len(a) : a[i] = b[i]
    BY <1>2, <1>4
  <2>2. Len(a) # Len(b)
    <3> SUFFICES ASSUME Len(a) = Len(b) PROVE FALSE
      OBVIOUS
    <3>1. a = b
      BY <1>1, <2>1, SeqEqual DEF Dirs
    <3> QED BY <1>4, <3>1
  <2>3. Len(a) <= Len(f) /\ \A i \in 1..Len(a) : i \in 1..(Len(b) - 1)
    BY <1>1, <1>2, <2>1, <2>2
  <2> QED BY <1>1, <1>2, <2>1, <2>3
<1>5. ~IsPrefix(b, f)
  BY <1>1, <1>2
<1> QED BY <1>3, <1>4, <1>5 DEF f

\* The face files of a tree in order, and their parents.
LEMMA FacesInOrder ==
  ASSUME NEW d, Typed(d), Tidy(d), NEW p \in DOMAIN d, d[p].is = "face"
  PROVE  /\ p.dir \in Dirs \ {<<>>} /\ p = FaceFile(p.dir) /\ d[p] \in FaceTexts
         /\ Parented(d, d[p]) /\ d[p].parent = Front(p.dir) /\ d[p].names = d[p].owns
         /\ d[p].owns <=> RuleFile(p.dir) \in DOMAIN d
<1>1. p \in Standard(d) /\ p.dir \in Dirs
  BY TidyFiles
<1>2. p = FaceFile(p.dir) /\ p.dir # <<>> /\ d[p] \in FaceTexts
  BY <1>1, TidyFiles
<1>3. Parented(d, d[p])
  BY <1>2, LoadsIs DEF Tidy
<1>4. Proper(d, p)
  BY DEF Tidy
<1> QED BY <1>1, <1>2, <1>3, <1>4 DEF Proper

\* delete_module: the directory goes as a whole.
LEMMA DeleteCarries ==
  ASSUME NEW d, Typed(d), Tidy(d), NEW r, r.op = "delete", r.dir \in Dirs \ {<<>>}
  PROVE  Carries(DeletePlan(d, r), d, d, r)
<1> DEFINE e == Only(d, DOMAIN d \ Under(d, r.dir))
           s == Step(TrashDir(r.dir), <<>>)
           F == View(d).faces
           R == View(d).rules
<1>1. DOMAIN e = DOMAIN d \ Under(d, r.dir) /\ \A q \in DOMAIN e : e[q] = d[q]
  BY DEF Only
<1>2. Typed(e) /\ Disk(e)
  BY OnlyTyped, DisksMade
<1>3. s.call = TrashDir(r.dir) /\ s.undo = <<>> /\ DeletePlan(d, r) = <<s>>
  BY StepParts DEF DeletePlan
<1> HIDE DEF s
<1>4. DiskAfter(d, s.call) = e
  BY <1>3, TrashIs
<1> HIDE DEF e
<1>5. \A p : p \in DOMAIN e <=> p \in DOMAIN d /\ (p.dir = <<>> \/ ~IsPrefix(r.dir, p.dir))
  BY <1>1 DEF Under
<1>6. ASSUME NEW dir, dir # <<>>, ~IsPrefix(r.dir, dir) PROVE SameModule(d, e, dir)
  <2>1. FaceFile(dir).dir = dir /\ RuleFile(dir).dir = dir
    BY FaceFileIs, RuleFileIs
  <2>2. /\ FaceFile(dir) \in DOMAIN e <=> FaceFile(dir) \in DOMAIN d
        /\ RuleFile(dir) \in DOMAIN e <=> RuleFile(dir) \in DOMAIN d
    BY <1>5, <1>6, <2>1
  <2> QED BY <1>1, <2>2 DEF SameModule, IsFace
<1>7. ASSUME NEW p \in DOMAIN e, e[p].is = "face" PROVE Parented(e, e[p])
  <2>1. p \in DOMAIN d /\ e[p] = d[p] /\ d[p].is = "face"
    BY <1>1, <1>5, <1>7
  <2>2. p.dir \in Dirs \ {<<>>} /\ Parented(d, d[p]) /\ d[p].parent = Front(p.dir)
    BY <2>1, FacesInOrder
  <2>3. ~IsPrefix(r.dir, Front(p.dir))
    BY <1>5, <2>2, PrefixOfFront
  <2>4. d[p].parent # <<>> => Alike(d, e, d[p].parent)
    BY <1>6, <2>2, <2>3, SameIsAlike
  <2> QED BY <2>1, <2>2, <2>4, ParentedStays
<1>8. ASSUME NEW p \in DOMAIN e PROVE Proper(e, p)
  <2>1. p \in DOMAIN d /\ e[p] = d[p] /\ Proper(d, p)
    BY <1>1, <1>5 DEF Tidy
  <2>2. CASE p.dir # <<>>
    BY <1>5, <1>6, <2>1, <2>2, SameIsAlike, ProperStays
  <2>3. CASE p.dir = <<>>
    <3>1. e[p].is # "face"
      BY <1>2, <2>3 DEF Typed, FacePlace
    <3> QED BY <2>1, <2>3, <3>1 DEF Proper
  <2> QED BY <2>2, <2>3
<1>9. Tidy(e)
  <2>1. Loads(e)
    BY <1>7, <1>8, LoadsIs DEF Proper
  <2> QED BY <1>2, <1>8, <2>1 DEF Tidy
<1> DEFINE G == Atomic!Without(F, r.dir)
           Q == Atomic!Without(R, r.dir)
<1>10. /\ View(d) = Tree(F, R, Cuts(d), Slots(d), Plugs(d)) /\ ShowsFaces(F, d) /\ ShowsRules(R, d)
  BY ViewIs
<1> HIDE DEF F, R
<1>11. ShowsFaces(G, e)
  <2>1. /\ G = [dir \in DOMAIN G |-> G[dir]]
        /\ \A dir : dir \in DOMAIN G <=> dir \in DOMAIN F /\ ~IsPrefix(r.dir, dir)
        /\ \A dir \in DOMAIN G : G[dir] = F[dir]
    BY DEF Atomic!Without, Atomic!IsPrefix, IsPrefix
  <2>2. ASSUME NEW dir PROVE dir \in DOMAIN G <=> dir # <<>> /\ IsFace(e, FaceFile(dir))
    <3>1. dir # <<>> /\ IsFace(e, FaceFile(dir)) => ~IsPrefix(r.dir, dir)
      BY <1>5, FaceFileIs DEF IsFace
    <3>2. dir # <<>> /\ ~IsPrefix(r.dir, dir) => (IsFace(e, FaceFile(dir)) <=> IsFace(d, FaceFile(dir)))
      BY <1>6 DEF SameModule
    <3> QED BY <1>10, <2>1, <3>1, <3>2 DEF ShowsFaces
  <2>3. ASSUME NEW dir \in DOMAIN G PROVE G[dir] = e[FaceFile(dir)]
    <3>1. dir # <<>> /\ ~IsPrefix(r.dir, dir) /\ IsFace(d, FaceFile(dir)) /\ G[dir] = d[FaceFile(dir)]
      BY <1>10, <2>1 DEF ShowsFaces
    <3> QED BY <1>6, <3>1 DEF SameModule
  <2> QED BY <2>1, <2>2, <2>3 DEF ShowsFaces
<1>12. ShowsRules(Q, e)
  <2>1. /\ Q = [dir \in DOMAIN Q |-> Q[dir]]
        /\ \A dir : dir \in DOMAIN Q <=> dir \in DOMAIN R /\ ~IsPrefix(r.dir, dir)
        /\ \A dir \in DOMAIN Q : Q[dir] = R[dir]
    BY DEF Atomic!Without, Atomic!IsPrefix, IsPrefix
  <2>2. ASSUME NEW dir PROVE dir \in DOMAIN Q <=> dir # <<>> /\ RuleFile(dir) \in DOMAIN e
    <3>1. dir # <<>> /\ RuleFile(dir) \in DOMAIN e => ~IsPrefix(r.dir, dir)
      BY <1>5, RuleFileIs
    <3>2. dir # <<>> /\ ~IsPrefix(r.dir, dir) => (RuleFile(dir) \in DOMAIN e <=> RuleFile(dir) \in DOMAIN d)
      BY <1>6 DEF SameModule
    <3> QED BY <1>10, <2>1, <3>1, <3>2 DEF ShowsRules
  <2>3. ASSUME NEW dir \in DOMAIN Q PROVE Q[dir] = e[RuleFile(dir)].rule
    <3>1. dir # <<>> /\ ~IsPrefix(r.dir, dir) /\ RuleFile(dir) \in DOMAIN d /\ Q[dir] = d[RuleFile(dir)].rule
      BY <1>10, <2>1 DEF ShowsRules
    <3> QED BY <1>6, <3>1 DEF SameModule
  <2> QED BY <2>1, <2>2, <2>3 DEF ShowsRules
<1> HIDE DEF G, Q
<1>13. View(e) = Tree(G, Q, Cuts(e), Slots(e), Plugs(e))
  BY <1>2, <1>9, <1>11, <1>12, ViewShows
<1>14. Cuts(e) = Cuts(d) /\ Slots(e) = Slots(d) /\ Plugs(e) = Plugs(d)
  <2>1. \A p \in {Entry, Record, Anchor, Lock} : (p \in DOMAIN e <=> p \in DOMAIN d) /\ (p \in DOMAIN d => e[p] = d[p])
    BY <1>1, <1>5, RootPlaces
  <2> QED BY <2>1 DEF Cuts, Slots, Plugs
<1>15. Atomic!After(View(d), r) = Tree(G, Q, Cuts(d), Slots(d), Plugs(d))
  <2> DEFINE t == View(d)
  <2> HIDE DEF t
  <2>1. Atomic!After(t, r) = WithSources(t, Atomic!Without(t.faces, r.dir), Atomic!Without(t.rules, r.dir))
    BY DEF Atomic!After, WithSources
  <2>2. t = Tree(F, R, Cuts(d), Slots(d), Plugs(d))
    BY <1>10 DEF t
  <2>3. t.faces = F /\ t.rules = R
    BY <2>2 DEF Tree
  <2>4. Atomic!After(t, r) = WithSources(t, G, Q)
    BY <2>1, <2>3 DEF G, Q
  <2>5. WithSources(t, G, Q) = Tree(G, Q, Cuts(d), Slots(d), Plugs(d))
    BY <2>2, TwoSources
  <2> QED BY <2>4, <2>5 DEF t
<1>16. Reached(e, d, r)
  BY <1>9, <1>13, <1>14, <1>15 DEF Reached
<1> QED BY <1>3, <1>4, <1>16, FirstMayFail, OnOne

\* The face of a module is written, and its rule file with it or not at all.
Written(d, e, dir, text, rule) ==
  /\ FaceFile(dir) \in DOMAIN e /\ e[FaceFile(dir)] = text
  /\ RuleFile(dir) \in DOMAIN e <=> text.owns
  /\ text.owns => e[RuleFile(dir)] = RuleText(rule)
  /\ \A p \in DOMAIN d : p \notin {FaceFile(dir), RuleFile(dir)} => p \in DOMAIN e /\ e[p] = d[p]
  /\ \A p \in DOMAIN e : p \notin {FaceFile(dir), RuleFile(dir)} => p \in DOMAIN d
Ruled(rules, dir, text, rule) ==
  IF text.owns THEN Atomic!With(rules, dir, rule) ELSE [x \in DOMAIN rules \ {dir} |-> rules[x]]

LEMMA WrittenElsewhere ==
  ASSUME NEW d, NEW e, NEW dir, NEW text, NEW rule, Written(d, e, dir, text, rule), NEW x, x # dir
  PROVE  SameModule(d, e, x)
<1>1. FaceFile(x).dir = x /\ RuleFile(x).dir = x /\ FaceFile(dir).dir = dir /\ RuleFile(dir).dir = dir
  BY FaceFileIs, RuleFileIs
<1>2. FaceFile(x) \notin {FaceFile(dir), RuleFile(dir)} /\ RuleFile(x) \notin {FaceFile(dir), RuleFile(dir)}
  BY <1>1
<1> DEFINE a == FaceFile(x)
           b == RuleFile(x)
<1>3. /\ a \in DOMAIN d => a \in DOMAIN e /\ e[a] = d[a]
      /\ a \in DOMAIN e => a \in DOMAIN d
      /\ b \in DOMAIN d => b \in DOMAIN e /\ e[b] = d[b]
      /\ b \in DOMAIN e => b \in DOMAIN d
  BY <1>2 DEF Written
<1> QED BY <1>3 DEF SameModule, IsFace

\* If the tree loads with it, it is in order.
LEMMA ModuleWritten ==
  ASSUME NEW d, Typed(d), Tidy(d), NEW dir \in Dirs \ {<<>>}, Last(dir) # "registry_rule",
         NEW text \in FaceTexts, text.parent = Front(dir), text.names = text.owns, NEW rule,
         NEW e, Typed(e), Disk(e), Loads(e), Written(d, e, dir, text, rule)
  PROVE  /\ Tidy(e)
         /\ View(e) = Tree(Atomic!With(View(d).faces, dir, text), Ruled(View(d).rules, dir, text, rule),
                           Cuts(d), Slots(d), Plugs(d))
<1> DEFINE face == FaceFile(dir)
           beside == RuleFile(dir)
           F == View(d).faces
           R == View(d).rules
<1>1. /\ face.dir = dir /\ face.file = Last(dir) /\ beside.dir = dir /\ beside.file = "registry_rule"
      /\ face # beside
  BY FaceFileIs, RuleFileIs
<1>2. text.is = "face" /\ RuleText(rule).is = "rule" /\ RuleText(rule).rule = rule
  BY DEF FaceTexts, RuleText
<1>3. /\ face \in DOMAIN e /\ e[face] = text /\ (beside \in DOMAIN e <=> text.owns)
      /\ text.owns => e[beside] = RuleText(rule)
      /\ \A p \in DOMAIN d : p \notin {face, beside} => p \in DOMAIN e /\ e[p] = d[p]
      /\ \A p \in DOMAIN e : p \notin {face, beside} => p \in DOMAIN d
  BY DEF Written
<1>4. IsFace(e, face)
  BY <1>2, <1>3 DEF IsFace
<1> HIDE DEF face, beside
<1>5. Proper(e, face)
  BY <1>1, <1>2, <1>3 DEF Proper, beside
<1>6. ASSUME beside \in DOMAIN e PROVE Proper(e, beside)
  <2>1. e[beside] = RuleText(rule) /\ e[beside].is = "rule" /\ e[beside].rule = rule
    BY <1>2, <1>3, <1>6
  <2>2. "registry_rule" \notin Names
    BY AuthoringAssumption
  <2> QED BY <1>1, <1>4, <2>1, <2>2 DEF Proper, face
<1>7. ASSUME NEW p \in DOMAIN e, p \notin {face, beside} PROVE Proper(e, p)
  <2>1. p \in DOMAIN d /\ e[p] = d[p] /\ Proper(d, p)
    BY <1>3, <1>7 DEF Tidy
  <2>2. CASE p.dir # dir
    <3>1. Alike(d, e, p.dir)
      BY <2>2, WrittenElsewhere, SameIsAlike
    <3> QED BY <2>1, <3>1, ProperStays
  <2>3. CASE p.dir = dir
    <3>1. d[p].is # "face" /\ d[p].is # "rule"
      BY <1>7, <2>1, <2>3, TidyFiles DEF face, beside
    <3> QED BY <2>1, <3>1 DEF Proper
  <2> QED BY <2>2, <2>3
<1>8. Tidy(e)
  BY <1>5, <1>6, <1>7 DEF Tidy
<1> DEFINE G == Atomic!With(F, dir, text)
           Q == Ruled(R, dir, text, rule)
<1>9. View(d) = Tree(F, R, Cuts(d), Slots(d), Plugs(d)) /\ ShowsFaces(F, d) /\ ShowsRules(R, d)
  BY ViewIs
<1> HIDE DEF F, R
<1>10. ShowsFaces(G, e)
  <2>1. /\ G = [x \in DOMAIN G |-> G[x]] /\ DOMAIN G = DOMAIN F \cup {dir} /\ G[dir] = text
        /\ \A x \in DOMAIN F : x # dir => G[x] = F[x]
    BY DEF Atomic!With
  <2> HIDE DEF G
  <2>2. ASSUME NEW x PROVE x \in DOMAIN G <=> x # <<>> /\ IsFace(e, FaceFile(x))
    <3>1. CASE x = dir
      BY <1>4, <2>1, <3>1 DEF face
    <3>2. CASE x # dir
      <4>1. IsFace(e, FaceFile(x)) <=> IsFace(d, FaceFile(x))
        BY <3>2, WrittenElsewhere DEF SameModule
      <4> QED BY <1>9, <2>1, <3>2, <4>1 DEF ShowsFaces
    <3> QED BY <3>1, <3>2
  <2>3. ASSUME NEW x \in DOMAIN G PROVE G[x] = e[FaceFile(x)]
    <3>1. CASE x = dir
      BY <1>3, <2>1, <3>1 DEF face
    <3>2. CASE x # dir
      <4>1. IsFace(d, FaceFile(x)) /\ G[x] = d[FaceFile(x)]
        BY <1>9, <2>1, <3>2 DEF ShowsFaces
      <4> QED BY <3>2, <4>1, WrittenElsewhere DEF SameModule
    <3> QED BY <3>1, <3>2
  <2> QED BY <2>1, <2>2, <2>3 DEF ShowsFaces
<1>11. ShowsRules(Q, e)
  <2>1. /\ Q = [x \in DOMAIN Q |-> Q[x]] /\ (dir \in DOMAIN Q <=> text.owns)
        /\ text.owns => Q[dir] = rule
        /\ \A x : x # dir => (x \in DOMAIN Q <=> x \in DOMAIN R)
        /\ \A x \in DOMAIN Q : x # dir => Q[x] = R[x]
    <3>1. CASE text.owns
      <4>1. Q = Atomic!With(R, dir, rule)
        BY <3>1 DEF Ruled
      <4> QED BY <3>1, <4>1 DEF Atomic!With
    <3>2. CASE ~text.owns
      <4>1. Q = [x \in DOMAIN R \ {dir} |-> R[x]]
        BY <3>2 DEF Ruled
      <4> QED BY <3>2, <4>1
    <3> QED BY <3>1, <3>2
  <2> HIDE DEF Q
  <2>2. ASSUME NEW x PROVE x \in DOMAIN Q <=> x # <<>> /\ RuleFile(x) \in DOMAIN e
    <3>1. CASE x = dir
      BY <1>3, <2>1, <3>1 DEF beside
    <3>2. CASE x # dir
      <4>1. RuleFile(x) \in DOMAIN e <=> RuleFile(x) \in DOMAIN d
        BY <3>2, WrittenElsewhere DEF SameModule
      <4> QED BY <1>9, <2>1, <3>2, <4>1 DEF ShowsRules
    <3> QED BY <3>1, <3>2
  <2>3. ASSUME NEW x \in DOMAIN Q PROVE Q[x] = e[RuleFile(x)].rule
    <3>1. CASE x = dir
      BY <1>2, <1>3, <2>1, <3>1 DEF beside
    <3>2. CASE x # dir
      <4>1. RuleFile(x) \in DOMAIN d /\ Q[x] = d[RuleFile(x)].rule
        BY <1>9, <2>1, <3>2 DEF ShowsRules
      <4> QED BY <3>2, <4>1, WrittenElsewhere DEF SameModule
    <3> QED BY <3>1, <3>2
  <2> QED BY <2>1, <2>2, <2>3 DEF ShowsRules
<1> HIDE DEF G, Q
<1>12. View(e) = Tree(G, Q, Cuts(e), Slots(e), Plugs(e))
  BY <1>8, <1>10, <1>11, ViewShows
<1>13. Cuts(e) = Cuts(d) /\ Slots(e) = Slots(d) /\ Plugs(e) = Plugs(d)
  <2>1. \A p \in {Entry, Record, Anchor, Lock} : (p \in DOMAIN e <=> p \in DOMAIN d) /\ (p \in DOMAIN d => e[p] = d[p])
    BY <1>1, <1>3, RootPlaces
  <2> QED BY <2>1 DEF Cuts, Slots, Plugs
<1> QED BY <1>8, <1>12, <1>13 DEF G, Q, F, R

\* It loads if the module's parent admits it, and its children their parent.
LEMMA WrittenLoads ==
  ASSUME NEW d, Typed(d), Tidy(d), NEW dir \in Dirs \ {<<>>}, NEW text \in FaceTexts,
         text.parent = Front(dir), NEW rule, NEW e, Written(d, e, dir, text, rule), Parented(d, text),
         \/ Alike(d, e, dir)
         \/ \A p \in DOMAIN d : d[p].is = "face" /\ p # FaceFile(dir) => d[p].parent # dir
  PROVE  Loads(e)
<1>1. ASSUME NEW x, x # dir PROVE Alike(d, e, x)
  BY <1>1, WrittenElsewhere, SameIsAlike
<1>2. text.parent # dir /\ text.is = "face" /\ RuleText(rule).is = "rule"
  BY FrontIs DEF FaceTexts, RuleText
<1> SUFFICES ASSUME NEW p \in DOMAIN e, e[p].is \in {"face", "torn"}, p.dir # <<>>
             PROVE  e[p].is = "face" /\ Parented(e, e[p])
  BY LoadsIs
<1>3. CASE p = FaceFile(dir)
  <2>1. e[p] = text
    BY <1>3 DEF Written
  <2>2. Alike(d, e, text.parent)
    BY <1>1, <1>2
  <2> QED BY <1>2, <2>1, <2>2, ParentedStays
<1>4. CASE p = RuleFile(dir) /\ p # FaceFile(dir)
  BY <1>2, <1>4 DEF Written
<1>5. CASE p \notin {FaceFile(dir), RuleFile(dir)}
  <2>1. p \in DOMAIN d /\ e[p] = d[p]
    BY <1>5 DEF Written
  <2>2. d[p].is = "face" /\ Parented(d, d[p])
    BY <2>1, LoadsIs DEF Tidy
  <2>3. Alike(d, e, d[p].parent)
    BY <1>1, <1>5, <2>1, <2>2
  <2> QED BY <2>1, <2>2, <2>3, ParentedStays
<1> QED BY <1>3, <1>4, <1>5

\* The rule of a module that stays what it was.
LEMMA RuledKept ==
  ASSUME NEW d, Typed(d), Tidy(d), NEW dir, dir # <<>>, NEW text, NEW rule, text.owns,
         RuleFile(dir) \in DOMAIN d, rule = d[RuleFile(dir)].rule
  PROVE  Ruled(View(d).rules, dir, text, rule) = View(d).rules
<1> DEFINE R == View(d).rules
<1>1. ShowsRules(R, d)
  BY ViewIs
<1> HIDE DEF R
<1>2. R = [x \in DOMAIN R |-> R[x]] /\ dir \in DOMAIN R /\ R[dir] = rule
  BY <1>1 DEF ShowsRules
<1>3. Ruled(R, dir, text, rule) = Atomic!With(R, dir, rule)
  BY DEF Ruled
<1>4. Atomic!With(R, dir, rule) = [x \in DOMAIN R |-> R[x]]
  BY <1>2 DEF Atomic!With
<1> QED BY <1>2, <1>3, <1>4 DEF R

LEMMA UnruledKept ==
  ASSUME NEW d, Typed(d), Tidy(d), NEW dir, dir # <<>>, NEW text, NEW rule, ~text.owns,
         RuleFile(dir) \notin DOMAIN d
  PROVE  Ruled(View(d).rules, dir, text, rule) = View(d).rules
<1> DEFINE R == View(d).rules
<1>1. ShowsRules(R, d)
  BY ViewIs
<1> HIDE DEF R
<1>2. R = [x \in DOMAIN R |-> R[x]] /\ dir \notin DOMAIN R
  BY <1>1 DEF ShowsRules
<1>3. Ruled(R, dir, text, rule) = [x \in DOMAIN R \ {dir} |-> R[x]] /\ DOMAIN R \ {dir} = DOMAIN R
  BY <1>2 DEF Ruled
<1> QED BY <1>2, <1>3 DEF R

LEMMA FaceIs ==
  ASSUME NEW kind, NEW parent, NEW owns, NEW rule
  PROVE  LET text == Face(kind, parent, owns, rule)
         IN /\ text.kind = kind /\ text.parent = parent /\ text.owns = owns
            /\ text.names = (owns \/ rule # "ANY")
            /\ text.alias = IF parent = <<>> THEN "root" ELSE Last(parent)
BY DEF Face, Atomic!Written, Atomic!Last, Last

\* create_module: the face, and the rule beside it.
LEMMA CreateCarries ==
  ASSUME NEW d, Typed(d), Tidy(d), NEW r, r.op = "create", r.dir \in Dirs \ {<<>>},
         FreshName(Last(r.dir)), AskedFace(r.face), Accepted(d, r), ~Unsound(d, r)
  PROVE  Carries(CreatePlan(d, r), d, d, r)
<1> DEFINE dir == r.dir
           face == FaceFile(dir)
           beside == RuleFile(dir)
           text == Face(r.face.kind, Front(dir), r.face.owns, r.face.rule)
           rule == r.face.rule
           e1 == Set(d, beside, RuleText(rule))
           e == IF text.owns THEN Set(e1, face, text) ELSE Set(d, face, text)
           F == View(d).faces
           R == View(d).rules
<1>1. dir \in Dirs \ {<<>>} /\ Front(dir) \in Dirs /\ Front(dir) # dir
  BY FrontIs
<1>2. /\ text \in FaceTexts /\ text.owns = r.face.owns /\ text.parent = Front(dir)
      /\ text.is = "face" /\ text.owns \in BOOLEAN
  BY <1>1, FaceTyped, FaceIs DEF AskedFace, FaceTexts
<1>3. text.names = text.owns
  <2>1. r.face.owns \/ rule = "ANY"
    BY DEF Unsound
  <2>2. text.names = (r.face.owns \/ rule # "ANY")
    BY FaceIs
  <2> HIDE DEF text
  <2> QED BY <1>2, <2>1, <2>2
<1>4. /\ face \notin DOMAIN d /\ Loads(Set(d, face, text))
  BY DEF Accepted
<1>5. /\ face.dir = dir /\ beside.dir = dir /\ face # beside /\ face.file = Last(dir) /\ beside.file = "registry_rule"
  BY FaceFileIs, RuleFileIs DEF FreshName
<1>6. beside \notin DOMAIN d
  BY <1>1, <1>4, TidyFiles DEF IsFace
<1>7. RuleText(rule).is = "rule"
  BY DEF RuleText
<1>8. /\ CreatePlan(d, r) =
           IF text.owns THEN <<Tearing(Step(Create(beside, RuleText(rule)), <<>>)),
                               Tearing(Step(Create(face, text), <<Drop(beside)>>))>>
           ELSE <<Tearing(Step(Create(face, text), <<>>))>>
  BY <1>2 DEF CreatePlan
<1>9. face \in Places /\ beside \in Places /\ FacePlace(face)
  <2>1. Last(dir) \in Words
    BY <1>1, FrontIs
  <2>2. face \in Places
    BY <1>1, <2>1, FaceFileIs, PlaceMade
  <2> QED BY <1>1, <1>5, <2>2, OtherPlaces DEF FacePlace, FreshName
<1> HIDE DEF text, face, beside, F, R, dir
<1>10. Typed(e1) /\ Typed(e) /\ Disk(e)
  <2>1. Typed(e1)
    BY <1>7, <1>9, SetTyped
  <2> HIDE DEF e1
  <2> QED BY <1>2, <1>9, <2>1, SetTyped, DisksMade
<1>11. /\ DOMAIN e1 = DOMAIN d \cup {beside} /\ e1[beside] = RuleText(rule)
       /\ \A p \in DOMAIN d : p # beside => e1[p] = d[p]
  BY DEF Set
<1>12. /\ DOMAIN e = IF text.owns THEN DOMAIN d \cup {beside, face} ELSE DOMAIN d \cup {face}
       /\ e[face] = text /\ (text.owns => e[beside] = RuleText(rule))
       /\ \A p \in DOMAIN d : p \notin {face, beside} => e[p] = d[p]
  <2> HIDE DEF e1
  <2>1. CASE text.owns
    BY <1>5, <1>11, <2>1 DEF Set
  <2>2. CASE ~text.owns
    BY <2>2 DEF Set
  <2> QED BY <2>1, <2>2
<1> HIDE DEF e
<1>13. Written(d, e, dir, text, rule)
  BY <1>4, <1>5, <1>6, <1>12 DEF Written, face, beside
<1>14. Parented(d, text)
  <2> DEFINE g == Set(d, face, text)
  <2>1. DOMAIN g = DOMAIN d \cup {face} /\ g[face] = text /\ \A p \in DOMAIN d : p # face => g[p] = d[p]
    BY DEF Set
  <2>2. Loads(g)
    BY <1>4
  <2> HIDE DEF g
  <2>3. Parented(g, text)
    BY <1>1, <1>2, <1>5, <2>1, <2>2, LoadsIs
  <2>4. Alike(g, d, text.parent)
    <3> DEFINE x == Front(dir)
    <3>1. FaceFile(x).dir = x /\ RuleFile(x).dir = x /\ x # dir
      BY <1>1, FaceFileIs, RuleFileIs
    <3> HIDE DEF x
    <3>2. FaceFile(x) # face /\ RuleFile(x) # face
      BY <1>5, <3>1
    <3>3. Alike(g, d, x)
      BY <2>1, <3>2 DEF Alike, IsFace
    <3> QED BY <1>2, <3>3 DEF x
  <2> QED BY <2>3, <2>4, ParentedStays
<1>15. Loads(e)
  <2>1. ASSUME NEW p \in DOMAIN d, d[p].is = "face", d[p].parent = dir PROVE FALSE
    <3>1. Parented(d, d[p])
      BY <2>1, FacesInOrder
    <3>2. IsFace(d, FaceFile(dir))
      BY <1>1, <2>1, <3>1 DEF Parented
    <3> QED BY <1>4, <3>2 DEF IsFace, face
  <2> QED BY <1>1, <1>2, <1>13, <1>14, <2>1, WrittenLoads
<1>16. Last(dir) # "registry_rule"
  BY DEF FreshName, dir
<1>17. /\ Tidy(e)
       /\ View(e) = Tree(Atomic!With(F, dir, text), Ruled(R, dir, text, rule), Cuts(d), Slots(d), Plugs(d))
  BY <1>1, <1>2, <1>3, <1>10, <1>13, <1>15, <1>16, ModuleWritten DEF F, R
<1>18. View(d) = Tree(F, R, Cuts(d), Slots(d), Plugs(d))
  BY ViewIs DEF F, R
<1>19. Ruled(R, dir, text, rule) = IF r.face.owns THEN Atomic!With(R, dir, rule) ELSE R
  <2>1. CASE r.face.owns
    BY <1>2, <2>1 DEF Ruled
  <2>2. CASE ~r.face.owns
    <3>1. ~text.owns /\ RuleFile(dir) \notin DOMAIN d /\ dir # <<>>
      BY <1>1, <1>2, <1>6, <2>2 DEF beside
    <3> HIDE DEF rule
    <3>2. Ruled(View(d).rules, dir, text, rule) = View(d).rules
      BY <3>1, UnruledKept
    <3> QED BY <2>2, <3>2 DEF R
  <2> QED BY <2>1, <2>2
<1>20. View(e) = Atomic!After(View(d), r)
  <2> DEFINE t == View(d)
  <2> HIDE DEF t
  <2>1. Atomic!After(t, r) =
          WithSources(t, Atomic!With(t.faces, dir, text),
                      IF r.face.owns THEN Atomic!With(t.rules, dir, rule) ELSE t.rules)
    BY DEF Atomic!After, WithSources, text, dir, Face, Atomic!Front, Front
  <2>2. t = Tree(F, R, Cuts(d), Slots(d), Plugs(d)) /\ t.faces = F /\ t.rules = R
    BY <1>18 DEF t, Tree
  <2>3. Atomic!After(t, r) = WithSources(t, Atomic!With(F, dir, text), Ruled(R, dir, text, rule))
    BY <1>19, <2>1, <2>2
  <2> DEFINE G == Atomic!With(F, dir, text)
             Q == Ruled(R, dir, text, rule)
  <2> HIDE DEF G, Q
  <2>4. WithSources(t, G, Q) = Tree(G, Q, Cuts(d), Slots(d), Plugs(d))
    BY <2>2, TwoSources
  <2> QED BY <1>17, <2>3, <2>4 DEF t, G, Q
<1>21. Reached(e, d, r)
  BY <1>17, <1>20 DEF Reached
<1>22. CASE text.owns
  <2> DEFINE s1 == Tearing(Step(Create(beside, RuleText(rule)), <<>>))
             s2 == Tearing(Step(Create(face, text), <<Drop(beside)>>))
  <2>1. /\ s1.call = Create(beside, RuleText(rule)) /\ s1.undo = <<>>
        /\ s2.call = Create(face, text) /\ s2.undo = <<Drop(beside)>>
        /\ CreatePlan(d, r) = <<s1, s2>>
    BY <1>8, <1>22, StepParts
  <2> HIDE DEF s1, s2
  <2>2. DiskAfter(d, s1.call) = e1 /\ DiskAfter(e1, s2.call) = e
    BY <1>22, <2>1, CreateIs DEF e, e1
  <2>3. Tried(e1, Drop(beside)) = d
    <3>1. PutBack(d, beside) = Drop(beside)
      BY <1>6 DEF PutBack
    <3>2. Tried(e1, PutBack(d, beside)) = d
      BY SetBack DEF Tidy
    <3> QED BY <3>1, <3>2
  <2> HIDE DEF e1
  <2>4. MayFail(s1, d, d)
    BY <2>1, FirstMayFail
  <2>5. MayFail(s2, e1, d)
    BY <2>1, <2>3, BackOne DEF MayFail
  <2>6. Carries(<<s2>>, e1, d, r)
    BY <1>21, <2>2, <2>5, OnOne
  <2> QED BY <2>1, <2>2, <2>4, <2>6, OnTwo
<1>23. CASE ~text.owns
  <2> DEFINE s == Tearing(Step(Create(face, text), <<>>))
  <2>1. s.call = Create(face, text) /\ s.undo = <<>> /\ CreatePlan(d, r) = <<s>>
    BY <1>8, <1>23, StepParts
  <2> HIDE DEF s
  <2>2. DiskAfter(d, s.call) = e
    BY <1>23, <2>1, CreateIs DEF e
  <2> QED BY <1>21, <2>1, <2>2, FirstMayFail, OnOne
<1> QED BY <1>2, <1>22, <1>23

\* A module of a tree in order.
LEMMA ModuleHere ==
  ASSUME NEW d, Typed(d), Tidy(d), NEW dir, Faced(d, dir)
  PROVE  LET old == d[FaceFile(dir)]
         IN /\ dir \in Dirs \ {<<>>} /\ Last(dir) # "registry_rule"
            /\ FaceFile(dir) \in DOMAIN d /\ FaceFile(dir) # RuleFile(dir)
            /\ FaceFile(dir).dir = dir /\ RuleFile(dir).dir = dir
            /\ FaceFile(dir) \in Places /\ RuleFile(dir) \in Places /\ FacePlace(FaceFile(dir))
            /\ IsFace(d, FaceFile(dir)) /\ old \in FaceTexts /\ old.is = "face"
            /\ Parented(d, old) /\ old.parent = Front(dir) /\ old.names = old.owns
            /\ old.owns \in BOOLEAN /\ (old.owns <=> RuleFile(dir) \in DOMAIN d)
            /\ RuleFile(dir) \in DOMAIN d =>
                 /\ d[RuleFile(dir)] = RuleText(RuleOf(d, dir)) /\ d[RuleFile(dir)].rule = RuleOf(d, dir)
            /\ RuleFile(dir) \notin DOMAIN d => RuleOf(d, dir) = "ANY"
<1>1. /\ dir \in Dirs \ {<<>>} /\ FaceFile(dir) \in DOMAIN d /\ FaceFile(dir) \in Places
      /\ FacePlace(FaceFile(dir)) /\ d[FaceFile(dir)] \in FaceTexts
      /\ d[FaceFile(dir)].is = "face" /\ d[FaceFile(dir)].owns \in BOOLEAN
  BY DEF Faced, FaceTexts
<1>2. FaceFile(dir).dir = dir /\ RuleFile(dir).dir = dir /\ RuleFile(dir).file = "registry_rule"
      /\ FaceFile(dir).file = Last(dir)
  BY FaceFileIs, RuleFileIs
<1>3. Last(dir) # "registry_rule" /\ FaceFile(dir) # RuleFile(dir)
  BY <1>1, <1>2 DEF FacePlace
<1>4. RuleFile(dir) \in Places
  BY <1>1, OtherPlaces
<1>5. /\ Parented(d, d[FaceFile(dir)]) /\ d[FaceFile(dir)].parent = Front(dir)
      /\ d[FaceFile(dir)].names = d[FaceFile(dir)].owns
      /\ d[FaceFile(dir)].owns <=> RuleFile(dir) \in DOMAIN d
  BY <1>1, <1>2, FacesInOrder
<1>6. RuleFile(dir) \in DOMAIN d =>
        d[RuleFile(dir)] = RuleText(d[RuleFile(dir)].rule) /\ d[RuleFile(dir)].is = "rule"
  BY <1>1, TidyFiles
<1>7. /\ RuleFile(dir) \in DOMAIN d => RuleOf(d, dir) = d[RuleFile(dir)].rule
      /\ RuleFile(dir) \notin DOMAIN d => RuleOf(d, dir) = "ANY"
  BY <1>1, <1>6 DEF RuleOf
<1> QED BY <1>1, <1>2, <1>3, <1>4, <1>5, <1>6, <1>7 DEF IsFace

LEMMA WithIs ==
  ASSUME NEW d, Typed(d), Tidy(d), NEW dir, Faced(d, dir), NEW x
  PROVE  /\ dir \in DOMAIN View(d).faces /\ View(d).faces[dir] = d[FaceFile(dir)]
         /\ [View(d).faces EXCEPT ![dir] = x] = Atomic!With(View(d).faces, dir, x)
<1> DEFINE F == View(d).faces
<1>1. ShowsFaces(F, d) /\ dir # <<>> /\ IsFace(d, FaceFile(dir))
  BY ViewIs, ModuleHere
<1> HIDE DEF F
<1>2. dir \in DOMAIN F /\ F[dir] = d[FaceFile(dir)] /\ F = [y \in DOMAIN F |-> F[y]]
  BY <1>1 DEF ShowsFaces
<1>3. [F EXCEPT ![dir] = x] = Atomic!With(F, dir, x)
  BY <1>2 DEF Atomic!With
<1> QED BY <1>2, <1>3 DEF F

\* Only the text of a face changes, not what it says of its registry.
LEMMA FaceRewritten ==
  ASSUME NEW d, Typed(d), Tidy(d), NEW dir, Faced(d, dir), NEW text \in FaceTexts,
         text.owns = d[FaceFile(dir)].owns, text.names = text.owns, text.parent = Front(dir),
         NEW e, e = Set(d, FaceFile(dir), text)
  PROVE  /\ Typed(e) /\ Disk(e) /\ Written(d, e, dir, text, RuleOf(d, dir)) /\ Alike(d, e, dir)
         /\ Ruled(View(d).rules, dir, text, RuleOf(d, dir)) = View(d).rules
         /\ Loads(e) => /\ Tidy(e)
                        /\ View(e) = Tree(Atomic!With(View(d).faces, dir, text), View(d).rules,
                                          Cuts(d), Slots(d), Plugs(d))
<1> DEFINE face == FaceFile(dir)
           beside == RuleFile(dir)
           rule == RuleOf(d, dir)
<1>1. /\ dir \in Dirs \ {<<>>} /\ Last(dir) # "registry_rule" /\ face \in DOMAIN d /\ face # beside
      /\ face \in Places /\ FacePlace(face) /\ IsFace(d, face)
      /\ d[face].owns \in BOOLEAN /\ (d[face].owns <=> beside \in DOMAIN d)
      /\ beside \in DOMAIN d => d[beside] = RuleText(rule) /\ d[beside].rule = rule
  BY ModuleHere
<1>2. text.is = "face" /\ text.owns \in BOOLEAN
  BY DEF FaceTexts
<1>3. Typed(e) /\ Disk(e)
  BY <1>1, SetTyped, DisksMade
<1>4. DOMAIN e = DOMAIN d /\ e[face] = text /\ \A p \in DOMAIN d : p # face => e[p] = d[p]
  BY <1>1 DEF Set
<1> HIDE DEF face, beside, rule
<1>5. Written(d, e, dir, text, rule)
  BY <1>1, <1>2, <1>4 DEF Written, face, beside
<1>6. Alike(d, e, dir)
  BY <1>1, <1>2, <1>4 DEF Alike, IsFace, face, beside
<1>7. Ruled(View(d).rules, dir, text, rule) = View(d).rules
  <2>1. PICK owns \in BOOLEAN : d[face].owns = owns
    BY <1>1
  <2>2. dir # <<>> /\ text.owns = owns
    BY <1>1, <2>1 DEF face
  <2>4. owns <=> beside \in DOMAIN d
    BY <1>1, <2>1
  <2>3. \/ ~owns /\ RuleFile(dir) \notin DOMAIN d
        \/ owns /\ RuleFile(dir) \in DOMAIN d /\ rule = d[RuleFile(dir)].rule
    BY <1>1, <2>4 DEF beside
  <2>5. CASE owns
    <3>1. text.owns /\ RuleFile(dir) \in DOMAIN d /\ rule = d[RuleFile(dir)].rule
      BY <2>2, <2>3, <2>5
    <3> QED BY <2>2, <3>1, RuledKept
  <2>6. CASE ~owns
    <3>1. ~text.owns /\ RuleFile(dir) \notin DOMAIN d
      BY <2>2, <2>3, <2>6
    <3> QED BY <2>2, <3>1, UnruledKept
  <2> QED BY <2>5, <2>6
<1>8. Loads(e) => /\ Tidy(e)
                  /\ View(e) = Tree(Atomic!With(View(d).faces, dir, text), Ruled(View(d).rules, dir, text, rule),
                                    Cuts(d), Slots(d), Plugs(d))
  BY <1>1, <1>3, <1>5, ModuleWritten
<1> QED BY <1>3, <1>5, <1>6, <1>7, <1>8 DEF rule

\* run_deepen.
LEMMA DeepenCarries ==
  ASSUME NEW d, Typed(d), Tidy(d), NEW r, r.op = "deepen", Faced(d, r.dir)
  PROVE  Carries(DeepenPlan(d, r), d, d, r)
<1> DEFINE dir == r.dir
           face == FaceFile(dir)
           old == d[face]
           text == [old EXCEPT !.deep = TRUE]
           e == Set(d, face, text)
           s == Tearing(Step(Put(face, text), <<>>))
           F == View(d).faces
           R == View(d).rules
<1>1. /\ dir \in Dirs \ {<<>>} /\ old \in FaceTexts /\ Parented(d, old) /\ old.parent = Front(dir)
      /\ old.names = old.owns
  BY ModuleHere
<1>2. s.call = Put(face, text) /\ s.undo = <<>> /\ DeepenPlan(d, r) = <<s>>
  BY StepParts DEF DeepenPlan
<1>3. View(d) = Tree(F, R, Cuts(d), Slots(d), Plugs(d))
  BY ViewIs
<1>4. dir \in DOMAIN F /\ F[dir] = old /\ [F EXCEPT ![dir] = text] = Atomic!With(F, dir, text)
  BY WithIs
<1> HIDE DEF old, s, F, R
<1>5. /\ text \in FaceTexts /\ text.owns = old.owns /\ text.names = text.owns /\ text.parent = Front(dir)
      /\ text.alias = old.alias /\ text.kind = old.kind /\ text.parent = old.parent
  BY <1>1 DEF FaceTexts
<1> HIDE DEF text, dir, face
<1>6. Parented(d, text)
  BY <1>1, <1>5 DEF Parented
<1>7. DiskAfter(d, s.call) = e
  BY <1>2, PutIs
<1> HIDE DEF e
<1>8. /\ Typed(e) /\ Disk(e) /\ Written(d, e, dir, text, RuleOf(d, dir)) /\ Alike(d, e, dir)
      /\ Loads(e) => /\ Tidy(e)
                     /\ View(e) = Tree(Atomic!With(F, dir, text), R, Cuts(d), Slots(d), Plugs(d))
  BY <1>5, FaceRewritten DEF e, old, face, dir, F, R
<1>9. Loads(e)
  BY <1>1, <1>5, <1>6, <1>8, WrittenLoads
<1>10. Atomic!After(View(d), r) = Tree(Atomic!With(F, dir, text), R, Cuts(d), Slots(d), Plugs(d))
  <2> DEFINE t == View(d)
  <2>0. t = Tree(F, R, Cuts(d), Slots(d), Plugs(d)) /\ t.faces = F
    BY <1>3 DEF F
  <2> HIDE DEF t
  <2>1. Atomic!After(t, r) = [t EXCEPT !.faces[dir].deep = TRUE]
    BY DEF Atomic!After, dir
  <2> DEFINE G == [F EXCEPT ![dir] = [F[dir] EXCEPT !.deep = TRUE]]
  <2>2. [t EXCEPT !.faces[dir].deep = TRUE] = [t EXCEPT !.faces = [t.faces EXCEPT ![dir] = [t.faces[dir] EXCEPT !.deep = TRUE]]]
    OBVIOUS
  <2>3. G = Atomic!With(F, dir, text)
    BY <1>4 DEF text
  <2>4. Atomic!After(t, r) = [t EXCEPT !.faces = G]
    BY <2>0, <2>1, <2>2
  <2> HIDE DEF G
  <2>5. [t EXCEPT !.faces = G] = Tree(G, R, Cuts(d), Slots(d), Plugs(d))
    BY <2>0, TreeIs
  <2> QED BY <2>3, <2>4, <2>5 DEF t
<1>11. Reached(e, d, r)
  BY <1>8, <1>9, <1>10 DEF Reached
<1> QED BY <1>2, <1>7, <1>11, FirstMayFail, OnOne

LEMMA RenderedIs ==
  ASSUME NEW d, Typed(d), Tidy(d), NEW r, Faced(d, r.dir), AskedFace(r.face)
  PROVE  LET text == Rendered(d, r)
             old == d[FaceFile(r.dir)]
         IN /\ text \in FaceTexts /\ text.parent = old.parent /\ text.parent = Front(r.dir)
            /\ text.alias = old.alias /\ text.kind = r.face.kind /\ text.owns = r.face.owns
            /\ text.names = (r.face.owns \/ r.face.rule # "ANY") /\ text.owns \in BOOLEAN
<1> DEFINE text == Rendered(d, r)
           old == d[FaceFile(r.dir)]
           face == Face(r.face.kind, old.parent, r.face.owns, r.face.rule)
           names == r.face.owns \/ r.face.rule # "ANY"
<1>1. text \in FaceTexts
  BY RenderedTyped
<1>2. old.parent = Front(r.dir) /\ old \in FaceTexts
  BY ModuleHere
<1>3. /\ face.kind = r.face.kind /\ face.parent = old.parent /\ face.owns = r.face.owns /\ face.names = names
      /\ face = [is |-> face.is, kind |-> face.kind, parent |-> face.parent, alias |-> face.alias,
                 owns |-> face.owns, names |-> face.names, deep |-> face.deep, hand |-> face.hand]
  BY FaceIs DEF Face, Atomic!Written
<1>4. text = [face EXCEPT !.alias = old.alias]
  BY DEF Rendered
<1> HIDE DEF face, old, text, names
<1>5. text.parent = old.parent /\ text.alias = old.alias /\ text.kind = r.face.kind /\ text.owns = r.face.owns
      /\ text.names = names
  BY <1>3, <1>4
<1>6. text.owns \in BOOLEAN
  BY <1>1 DEF FaceTexts
<1> QED BY <1>1, <1>2, <1>5, <1>6 DEF text, old, names

\* The tree an edit asks for, when it keeps the name.
LEMMA ReplacedIs ==
  ASSUME NEW d, Typed(d), Tidy(d), NEW r, Faced(d, r.dir), AskedFace(r.face)
  PROVE  Atomic!Replaced(View(d), r) =
           Tree(Atomic!With(View(d).faces, r.dir, Rendered(d, r)),
                IF d[FaceFile(r.dir)].kind # r.face.kind THEN View(d).rules
                ELSE Ruled(View(d).rules, r.dir, Rendered(d, r), r.face.rule),
                Cuts(d), Slots(d), Plugs(d))
<1> DEFINE dir == r.dir
           old == d[FaceFile(dir)]
           text == Rendered(d, r)
           t == View(d)
           F == View(d).faces
           R == View(d).rules
<1>1. t = Tree(F, R, Cuts(d), Slots(d), Plugs(d)) /\ t.faces = F /\ t.rules = R
  BY ViewIs
<1>2. F[dir] = old /\ [F EXCEPT ![dir] = text] = Atomic!With(F, dir, text)
  BY WithIs
<1>3. text.owns = r.face.owns
  BY RenderedIs
<1> HIDE DEF t, F, R
<1>4. Atomic!Edited(t, r) = text
  BY <1>1, <1>2 DEF Atomic!Edited, Rendered, Face
<1> HIDE DEF text, old
<1>5. CASE old.kind # r.face.kind
  <2>1. Atomic!Replaced(t, r) = [t EXCEPT !.faces[r.dir] = Atomic!Edited(t, r)]
    BY <1>1, <1>2, <1>5 DEF Atomic!Replaced
  <2>2. [t EXCEPT !.faces[r.dir] = text] = [t EXCEPT !.faces = [t.faces EXCEPT ![r.dir] = text]]
    OBVIOUS
  <2> DEFINE G == Atomic!With(F, dir, text)
  <2>3. Atomic!Replaced(t, r) = [t EXCEPT !.faces = G]
    BY <1>1, <1>2, <1>4, <2>1, <2>2
  <2> HIDE DEF G
  <2>4. [t EXCEPT !.faces = G] = Tree(G, R, Cuts(d), Slots(d), Plugs(d))
    BY <1>1, TreeIs
  <2>5. Atomic!Replaced(t, r) = Tree(G, R, Cuts(d), Slots(d), Plugs(d))
    BY <2>3, <2>4
  <2> QED BY <1>5, <2>5 DEF t, F, R, G, text, old
<1>6. CASE old.kind = r.face.kind
  <2> DEFINE Q == IF r.face.owns THEN Atomic!With(t.rules, r.dir, r.face.rule)
                  ELSE [x \in DOMAIN t.rules \ {r.dir} |-> t.rules[x]]
             G == Atomic!With(F, dir, text)
  <2>1. Atomic!Replaced(t, r) =
          [t EXCEPT !.faces[r.dir] = Atomic!Edited(t, r),
                    !.rules = IF r.face.owns THEN Atomic!With(t.rules, r.dir, r.face.rule)
                              ELSE [x \in DOMAIN t.rules \ {r.dir} |-> t.rules[x]]]
    BY <1>1, <1>2, <1>6 DEF Atomic!Replaced
  <2> HIDE DEF Q
  <2>2. [t EXCEPT !.faces[r.dir] = text, !.rules = Q]
          = WithSources(t, [t.faces EXCEPT ![r.dir] = text], Q)
    BY DEF WithSources
  <2>3. Atomic!Replaced(t, r) = WithSources(t, G, Q)
    BY <1>1, <1>2, <1>4, <2>1, <2>2 DEF Q
  <2> HIDE DEF G
  <2>4. WithSources(t, G, Q) = Tree(G, Q, Cuts(d), Slots(d), Plugs(d))
    BY <1>1, TwoSources
  <2>5. Q = Ruled(R, dir, text, r.face.rule)
    BY <1>1, <1>3 DEF Q, Ruled
  <2> QED BY <1>6, <2>3, <2>4, <2>5 DEF t, F, R, G, text, old
<1> QED BY <1>5, <1>6

-----------------------------------------------------------------------------
(* Edits that keep the name, and what may follow them.                       *)

LEMMA EmptyConcat ==
  ASSUME NEW s, IsSeq(s)
  PROVE  <<>> \o s = s /\ s \o <<>> = s /\ IsSeq(<<>>)
<1>1. PICK S : s \in Seq(S)
  BY DEF IsSeq
<1> QED BY <1>1, ConcatEmptySeq, Tuples

\* Two steps in front of others.
LEMMA OnPair ==
  ASSUME NEW s, NEW t, NEW rest, IsSeq(rest), NEW d, NEW old, NEW r, MayFail(s, d, old),
         Possible(d, s.call) => Carries(<<t>> \o rest, DiskAfter(d, s.call), old, r)
  PROVE  Carries(<<s, t>> \o rest, d, old, r)
<1>1. IsSeq(<<s>>) /\ IsSeq(<<t>>)
  BY Tuples
<1>2. <<s, t>> \o rest = <<s>> \o (<<t>> \o rest)
  BY <1>1, Pair, Grouped
<1>3. IsSeq(<<t>> \o rest)
  BY FirstAndRest
<1> DEFINE next == <<t>> \o rest
<1> HIDE DEF next
<1>4. Carries(<<s>> \o next, d, old, r)
  BY <1>3, OnMore DEF next
<1> QED BY <1>2, <1>4 DEF next

\* A change of kind is shown to the registry before anything else happens.
LEMMA KindCarries ==
  ASSUME NEW d, Typed(d), Tidy(d), NEW r, Faced(d, r.dir),
         NEW e, e = Set(d, FaceFile(r.dir), Rendered(d, r)),
         NEW rest, IsSeq(rest), Loads(e) => Carries(rest, e, d, r)
  PROVE  Carries(KindPlan(d, r) \o rest, d, d, r)
<1> DEFINE face == FaceFile(r.dir)
           text == Rendered(d, r)
           s == Step(Put(face, text), <<>>)
           t == Step(Check, <<Put(face, d[face])>>)
<1>1. /\ s.call = Put(face, text) /\ s.undo = <<>> /\ t.call = Check /\ t.undo = <<Put(face, d[face])>>
      /\ KindPlan(d, r) = <<s, t>>
  BY StepParts DEF KindPlan
<1>2. face \in DOMAIN d /\ Disk(d)
  BY DEF Faced, Tidy
<1> HIDE DEF s, t, face, text
<1>3. DiskAfter(d, s.call) = e
  BY <1>1, PutIs DEF face, text
<1>4. Tried(e, Put(face, d[face])) = d
  <2>1. Set(e, face, d[face]) = d
    BY <1>2, SetBack DEF face, text
  <2> QED BY <2>1, PutIs
<1>5. MayFail(s, d, d)
  BY <1>1, FirstMayFail
<1>6. MayFail(t, e, d)
  BY <1>1, <1>4, BackOne DEF MayFail
<1>7. Possible(e, t.call) => Carries(rest, DiskAfter(e, t.call), d, r)
  BY <1>1, CheckIs
<1>8. Carries(<<t>> \o rest, e, d, r)
  BY <1>6, <1>7, OnMore
<1> QED BY <1>1, <1>3, <1>5, <1>8, OnPair

\* Where a face that keeps its kind is written over, and its rule file.
Landed(d, r) ==
  LET f == Set(d, FaceFile(r.dir), Rendered(d, r))
  IN IF r.face.owns THEN Set(f, RuleFile(r.dir), RuleText(r.face.rule))
     ELSE IF RuleFile(r.dir) \in DOMAIN d THEN Only(f, DOMAIN f \ {RuleFile(r.dir)}) ELSE f

\* The face and its rule are written, and then what follows carries on.
LEMMA ReplaceCarries ==
  ASSUME NEW d, Typed(d), Tidy(d), NEW r, Faced(d, r.dir), AskedFace(r.face),
         r.face.owns \/ r.face.rule = "ANY",
         NEW rest, IsSeq(rest), Carries(rest, Landed(d, r), d, r)
  PROVE  Carries(ReplacePlan(d, r) \o rest, d, d, r)
<1> DEFINE faceFile == FaceFile(r.dir)
           rule == RuleFile(r.dir)
           text == Rendered(d, r)
           f == Set(d, faceFile, text)
           restore == <<Put(faceFile, d[faceFile]), PutBack(d, rule)>>
           keep == Step(Stash(d[faceFile]), <<>>)
           land == Step(Put(faceFile, text), <<Put(faceFile, d[faceFile])>>)
           name == Step(Put(rule, RuleText(r.face.rule)), restore)
           drop == Step(Drop(rule), restore)
           K == IF text = d[faceFile] THEN <<>> ELSE <<keep>>
           T == IF r.face.owns THEN <<name>> ELSE IF rule \in DOMAIN d THEN <<drop>> ELSE <<>>
<1>1. faceFile \in DOMAIN d /\ Disk(d) /\ faceFile # rule
  BY ModuleHere DEF Tidy
<1>2. text.owns = r.face.owns /\ text.names = (r.face.owns \/ r.face.rule # "ANY") /\ r.face.owns \in BOOLEAN
  BY RenderedIs DEF AskedFace
<1>3. ReplacePlan(d, r) = (K \o <<land>>) \o T
  <2>1. CASE r.face.owns
    <3>1. text.owns /\ text.names
      BY <1>2, <2>1
    <3> QED BY <2>1, <3>1 DEF ReplacePlan
  <2>2. CASE ~r.face.owns
    <3>1. ~text.owns /\ ~text.names
      BY <1>2, <2>2
    <3> QED BY <2>2, <3>1 DEF ReplacePlan
  <2> QED BY <2>1, <2>2
<1>4. /\ keep.call = Stash(d[faceFile]) /\ keep.undo = <<>>
      /\ land.call = Put(faceFile, text) /\ land.undo = <<Put(faceFile, d[faceFile])>>
      /\ name.call = Put(rule, RuleText(r.face.rule)) /\ name.undo = restore
      /\ drop.call = Drop(rule) /\ drop.undo = restore
  BY StepParts
<1>5. Landed(d, r) = IF r.face.owns THEN Set(f, rule, RuleText(r.face.rule))
                     ELSE IF rule \in DOMAIN d THEN Only(f, DOMAIN f \ {rule}) ELSE f
  BY DEF Landed
<1>6. rule \in DOMAIN d => rule \in DOMAIN f
  BY DEF Set
<1> HIDE DEF keep, land, name, drop, faceFile, rule, text
<1>7. Tried(f, Put(faceFile, d[faceFile])) = d /\ Tried(d, Put(faceFile, d[faceFile])) = d
  <2>1. Set(f, faceFile, d[faceFile]) = d
    BY <1>1, SetBack
  <2>2. Set(d, faceFile, d[faceFile]) = d
    BY <1>1, SetSame
  <2> HIDE DEF f
  <2> QED BY <2>1, <2>2, PutIs
<1>8. Tried(d, PutBack(d, rule)) = d
  <2>1. CASE rule \in DOMAIN d
    BY <1>1, <2>1, PutIs, SetSame DEF PutBack
  <2>2. CASE rule \notin DOMAIN d
    BY <2>2, DropIs DEF PutBack
  <2> QED BY <2>1, <2>2
<1>9. Restores(restore, f, d)
  BY <1>7, <1>8, BackTwo
<1> HIDE DEF restore, f
<1>10. Carries(T \o rest, f, d, r) /\ IsSeq(T)
  <2>1. CASE r.face.owns
    <3>1. MayFail(name, f, d)
      BY <1>4, <1>9 DEF MayFail
    <3>2. DiskAfter(f, name.call) = Landed(d, r)
      BY <1>4, <1>5, <2>1, PutIs
    <3>3. Carries(<<name>> \o rest, f, d, r)
      BY <3>1, <3>2, OnMore
    <3> QED BY <2>1, <3>3, Tuples
  <2>2. CASE ~r.face.owns /\ rule \in DOMAIN d
    <3>1. MayFail(drop, f, d)
      BY <1>4, <1>9 DEF MayFail
    <3>2. DiskAfter(f, drop.call) = Landed(d, r)
      BY <1>4, <1>5, <2>2, DropIs
    <3>3. Carries(<<drop>> \o rest, f, d, r)
      BY <3>1, <3>2, OnMore
    <3> QED BY <2>2, <3>3, Tuples
  <2>3. CASE ~r.face.owns /\ rule \notin DOMAIN d
    <3>1. f = Landed(d, r) /\ T = <<>>
      BY <1>5, <2>3
    <3> QED BY <3>1, EmptyConcat
  <2> QED BY <2>1, <2>2, <2>3
<1> HIDE DEF T
<1> DEFINE later == T \o rest
<1>11. IsSeq(later)
  BY <1>10, SetOfConcat
<1> DEFINE more == <<land>> \o later
<1>12. Carries(more, d, d, r) /\ IsSeq(more)
  <2> HIDE DEF later
  <2>1. MayFail(land, d, d)
    BY <1>4, <1>7, BackOne DEF MayFail
  <2>2. DiskAfter(d, land.call) = f
    BY <1>4, PutIs DEF f
  <2> QED BY <1>10, <1>11, <2>1, <2>2, OnMore, FirstAndRest DEF later
<1>13. ReplacePlan(d, r) \o rest = K \o more
  <2>1. IsSeq(K) /\ IsSeq(<<land>>)
    BY Tuples
  <2> HIDE DEF K
  <2>2. IsSeq(K \o <<land>>)
    BY <2>1, SetOfConcat
  <2>3. ((K \o <<land>>) \o T) \o rest = (K \o <<land>>) \o (T \o rest)
    BY <1>10, <2>2, Grouped
  <2>4. (K \o <<land>>) \o later = K \o (<<land>> \o later)
    BY <1>11, <2>1, Grouped
  <2> QED BY <1>3, <2>3, <2>4
<1> HIDE DEF more, later
<1>14. Carries(K \o more, d, d, r)
  <2>1. CASE text = d[faceFile]
    BY <1>12, <2>1, EmptyConcat
  <2>2. CASE text # d[faceFile]
    <3>1. MayFail(keep, d, d)
      BY <1>4, FirstMayFail
    <3>2. DiskAfter(d, keep.call) = d
      BY <1>4, StashIs
    <3>3. Carries(<<keep>> \o more, d, d, r)
      BY <1>12, <3>1, <3>2, OnMore
    <3> QED BY <2>2, <3>3
  <2> QED BY <2>1, <2>2
<1> QED BY <1>13, <1>14

\* The face an edit asks for, when the rule beside it is to stay.
LEMMA SameRuleKept ==
  ASSUME NEW d, Typed(d), Tidy(d), NEW r, Faced(d, r.dir), AskedFace(r.face), SameRule(d, r)
  PROVE  /\ r.face.owns \/ r.face.rule = "ANY"
         /\ Rendered(d, r).owns = d[FaceFile(r.dir)].owns /\ Rendered(d, r).names = Rendered(d, r).owns
         /\ r.face.rule = RuleOf(d, r.dir)
<1> DEFINE old == d[FaceFile(r.dir)]
           text == Rendered(d, r)
<1>1. r.face.owns = old.owns /\ r.face.rule = RuleOf(d, r.dir)
  BY DEF SameRule
<1>2. /\ text.owns = r.face.owns /\ text.names = (r.face.owns \/ r.face.rule # "ANY")
      /\ r.face.owns \in BOOLEAN
  BY RenderedIs DEF AskedFace
<1>3. old.owns \in BOOLEAN /\ (old.owns <=> RuleFile(r.dir) \in DOMAIN d)
      /\ (RuleFile(r.dir) \notin DOMAIN d => RuleOf(d, r.dir) = "ANY")
  BY ModuleHere
<1> HIDE DEF old, text
<1>4. r.face.owns \/ r.face.rule = "ANY"
  BY <1>1, <1>3
<1>5. text.names = text.owns
  BY <1>2, <1>4
<1> QED BY <1>1, <1>2, <1>4, <1>5 DEF old, text

\* The face alone is written over.
LEMMA FaceAlone ==
  ASSUME NEW d, Typed(d), Tidy(d), NEW r, Faced(d, r.dir), AskedFace(r.face), SameRule(d, r),
         NEW e, e = Set(d, FaceFile(r.dir), Rendered(d, r))
  PROVE  /\ Typed(e) /\ Disk(e) /\ Written(d, e, r.dir, Rendered(d, r), RuleOf(d, r.dir)) /\ Alike(d, e, r.dir)
         /\ Ruled(View(d).rules, r.dir, Rendered(d, r), r.face.rule) = View(d).rules
         /\ Loads(e) => /\ Tidy(e)
                        /\ View(e) = Tree(Atomic!With(View(d).faces, r.dir, Rendered(d, r)), View(d).rules,
                                          Cuts(d), Slots(d), Plugs(d))
<1> DEFINE text == Rendered(d, r)
           dir == r.dir
<1>1. /\ text \in FaceTexts /\ text.parent = Front(dir) /\ text.owns = d[FaceFile(dir)].owns
      /\ text.names = text.owns /\ r.face.rule = RuleOf(d, dir)
  BY RenderedIs, SameRuleKept
<1> HIDE DEF text, dir
<1> QED BY <1>1, FaceRewritten DEF text, dir

\* migrate_kind_subtree.
LEMMA KindEdit ==
  ASSUME NEW d, Typed(d), Tidy(d), NEW r, Faced(d, r.dir), AskedFace(r.face), r.op = "edit",
         r.name = Last(r.dir), r.face.kind # d[FaceFile(r.dir)].kind, ~Unsound(d, r)
  PROVE  Carries(KindPlan(d, r), d, d, r)
<1> DEFINE e == Set(d, FaceFile(r.dir), Rendered(d, r))
<1>1. SameRule(d, r)
  BY DEF Unsound
<1>2. Loads(e) => /\ Tidy(e)
                  /\ View(e) = Tree(Atomic!With(View(d).faces, r.dir, Rendered(d, r)), View(d).rules,
                                    Cuts(d), Slots(d), Plugs(d))
  BY <1>1, FaceAlone
<1> HIDE DEF e
<1>3. Atomic!Replaced(View(d), r) =
        Tree(Atomic!With(View(d).faces, r.dir, Rendered(d, r)), View(d).rules, Cuts(d), Slots(d), Plugs(d))
  BY ReplacedIs
<1>4. Atomic!After(View(d), r) = Atomic!Replaced(View(d), r)
  BY DEF Atomic!After, Atomic!Last, Last
<1>5. Loads(e) => Carries(<<>>, e, d, r)
  BY <1>2, <1>3, <1>4, OnNone DEF Reached
<1>6. IsSeq(<<>>) /\ IsSeq(KindPlan(d, r))
  BY Tuples DEF KindPlan
<1>7. Carries(KindPlan(d, r) \o <<>>, d, d, r)
  BY <1>5, <1>6, KindCarries DEF e
<1> QED BY <1>6, <1>7, EmptyConcat

\* What the landed disk is to the module.
LEMMA LandedIs ==
  ASSUME NEW d, Typed(d), Tidy(d), NEW r, Faced(d, r.dir), AskedFace(r.face),
         NEW e, e = Landed(d, r)
  PROVE  Typed(e) /\ Disk(e) /\ Written(d, e, r.dir, Rendered(d, r), r.face.rule)
<1> DEFINE face == FaceFile(r.dir)
           beside == RuleFile(r.dir)
           text == Rendered(d, r)
           f == Set(d, face, text)
           rule == RuleText(r.face.rule)
<1>1. face \in DOMAIN d /\ face # beside /\ face \in Places /\ FacePlace(face) /\ beside \in Places
  BY ModuleHere
<1>2. text \in FaceTexts /\ text.owns = r.face.owns /\ r.face.owns \in BOOLEAN
  BY RenderedIs DEF AskedFace
<1>3. e = IF r.face.owns THEN Set(f, beside, rule)
          ELSE IF beside \in DOMAIN d THEN Only(f, DOMAIN f \ {beside}) ELSE f
  BY DEF Landed
<1>4. rule.is = "rule"
  BY DEF RuleText
<1> HIDE DEF text, face, beside, rule
<1>5. /\ DOMAIN f = DOMAIN d /\ f[face] = text /\ \A p \in DOMAIN d : p # face => f[p] = d[p]
      /\ Typed(f) /\ Disk(f)
  <2>1. DOMAIN f = DOMAIN d /\ f[face] = text /\ \A p \in DOMAIN d : p # face => f[p] = d[p]
    BY <1>1 DEF Set
  <2>2. Disk(f)
    BY DisksMade
  <2>3. Typed(Set(d, face, text))
    BY <1>1, <1>2, SetTyped
  <2> QED BY <2>1, <2>2, <2>3
<1> HIDE DEF f
<1>6. CASE r.face.owns
  <2>1. e = Set(f, beside, rule)
    BY <1>3, <1>6
  <2>2. Typed(e) /\ Disk(e)
    BY <1>1, <1>4, <1>5, <2>1, SetTyped, DisksMade
  <2>3. DOMAIN e = DOMAIN f \cup {beside} /\ e[beside] = rule /\ \A p \in DOMAIN f : p # beside => e[p] = f[p]
    BY <2>1 DEF Set
  <2>4. text.owns
    BY <1>2, <1>6
  <2>5. Written(d, e, r.dir, text, r.face.rule)
    BY <1>1, <1>5, <2>3, <2>4 DEF Written, face, beside, rule
  <2> QED BY <2>2, <2>5 DEF text
<1>7. CASE ~r.face.owns
  <2>1. DOMAIN e = DOMAIN d \ {beside} /\ \A p \in DOMAIN e : e[p] = f[p]
    <3>1. CASE beside \in DOMAIN d
      <4>1. e = Only(f, DOMAIN f \ {beside})
        BY <1>3, <1>7, <3>1
      <4> QED BY <1>5, <4>1 DEF Only
    <3>2. CASE beside \notin DOMAIN d
      <4>1. e = f
        BY <1>3, <1>7, <3>2
      <4> QED BY <1>5, <3>2, <4>1
    <3> QED BY <3>1, <3>2
  <2>2. Typed(e) /\ Disk(e)
    <3>1. CASE beside \in DOMAIN d
      <4>1. e = Only(f, DOMAIN f \ {beside})
        BY <1>3, <1>7, <3>1
      <4>2. DOMAIN f \ {beside} \subseteq DOMAIN f
        OBVIOUS
      <4> QED BY <1>5, <4>1, <4>2, OnlyTyped, DisksMade
    <3>2. CASE beside \notin DOMAIN d
      BY <1>3, <1>5, <1>7, <3>2
    <3> QED BY <3>1, <3>2
  <2>4. ~text.owns
    BY <1>2, <1>7
  <2>5. Written(d, e, r.dir, text, r.face.rule)
    BY <1>1, <1>5, <2>1, <2>4 DEF Written, face, beside
  <2> QED BY <2>2, <2>5 DEF text
<1> QED BY <1>2, <1>6, <1>7

\* edit_module_face, when neither the name nor the kind changes.
LEMMA ReplaceEdit ==
  ASSUME NEW d, Typed(d), Tidy(d), NEW r, Faced(d, r.dir), AskedFace(r.face), r.op = "edit",
         r.name = Last(r.dir), r.face.kind = d[FaceFile(r.dir)].kind, Accepted(d, r), ~Unsound(d, r)
  PROVE  Carries(ReplacePlan(d, r), d, d, r)
<1> DEFINE e == Landed(d, r)
           text == Rendered(d, r)
           old == d[FaceFile(r.dir)]
<1>1. r.face.owns \/ r.face.rule = "ANY"
  BY SameRuleKept DEF Unsound
<1>2. Typed(e) /\ Disk(e) /\ Written(d, e, r.dir, text, r.face.rule)
  BY LandedIs
<1>3. /\ r.dir \in Dirs \ {<<>>} /\ Last(r.dir) # "registry_rule"
      /\ Parented(d, old) /\ old.parent = Front(r.dir)
  BY ModuleHere
<1>4. /\ text \in FaceTexts /\ text.parent = Front(r.dir) /\ text.parent = old.parent /\ text.alias = old.alias
      /\ text.kind = r.face.kind /\ text.owns = r.face.owns
      /\ text.names = (r.face.owns \/ r.face.rule # "ANY") /\ r.face.owns \in BOOLEAN
  BY RenderedIs DEF AskedFace
<1>5. EditAccepted(d, r)
  BY DEF Accepted
<1>6. r.face.owns \/ Children(d, r.dir) = {}
  BY <1>5 DEF EditAccepted
<1>7. Loads(Set(Set(d, FaceFile(r.dir), text), RuleFile(r.dir), RuleText(r.face.rule)))
  BY <1>5 DEF EditAccepted
<1>8. r.face.owns => Loads(e)
  BY <1>7 DEF Landed
<1> HIDE DEF e, text
<1>9. text.names = text.owns
  BY <1>1, <1>4
<1>10. ~r.face.owns => Loads(e)
  <2> SUFFICES ASSUME ~r.face.owns PROVE Loads(e)
    OBVIOUS
  <2>1. Parented(d, text)
    BY <1>3, <1>4 DEF Parented
  <2>2. \A p \in DOMAIN d : d[p].is = "face" /\ p # FaceFile(r.dir) => d[p].parent # r.dir
    BY <1>6, TidyFiles DEF Children
  <2> DEFINE dir == r.dir
             rule == r.face.rule
  <2>3. dir \in Dirs \ {<<>>} /\ text.parent = Front(dir) /\ Written(d, e, dir, text, rule)
        /\ \A p \in DOMAIN d : d[p].is = "face" /\ p # FaceFile(dir) => d[p].parent # dir
    BY <1>2, <1>3, <1>4, <2>2
  <2> HIDE DEF dir, rule
  <2> QED BY <1>4, <2>1, <2>3, WrittenLoads
<1>11. Loads(e)
  BY <1>4, <1>8, <1>10
<1>12. /\ Tidy(e)
       /\ View(e) = Tree(Atomic!With(View(d).faces, r.dir, text), Ruled(View(d).rules, r.dir, text, r.face.rule),
                         Cuts(d), Slots(d), Plugs(d))
  <2> DEFINE dir == r.dir
             rule == r.face.rule
  <2>1. dir \in Dirs \ {<<>>} /\ Last(dir) # "registry_rule" /\ text.parent = Front(dir)
        /\ Written(d, e, dir, text, rule)
    BY <1>2, <1>3, <1>4
  <2> HIDE DEF dir, rule
  <2>2. /\ Tidy(e)
        /\ View(e) = Tree(Atomic!With(View(d).faces, dir, text), Ruled(View(d).rules, dir, text, rule),
                         Cuts(d), Slots(d), Plugs(d))
    BY <1>2, <1>4, <1>9, <1>11, <2>1, ModuleWritten
  <2> QED BY <2>2 DEF dir, rule
<1>13. Atomic!After(View(d), r) =
         Tree(Atomic!With(View(d).faces, r.dir, text), Ruled(View(d).rules, r.dir, text, r.face.rule),
              Cuts(d), Slots(d), Plugs(d))
  <2>1. Atomic!After(View(d), r) = Atomic!Replaced(View(d), r)
    BY DEF Atomic!After, Atomic!Last, Last
  <2> QED BY <2>1, ReplacedIs DEF text
<1>14. Carries(<<>>, e, d, r)
  BY <1>12, <1>13, OnNone DEF Reached
<1>15. Carries(ReplacePlan(d, r) \o <<>>, d, d, r)
  BY <1>1, <1>14, ReplaceCarries, EmptyConcat, Tuples DEF e
<1>16. IsSeq(ReplacePlan(d, r))
  <2> DEFINE safe == {"none", Hand(d[FaceFile(r.dir)])}
  <2>1. "none" \in safe /\ Hand(d[FaceFile(r.dir)]) \in safe
    OBVIOUS
  <2> HIDE DEF safe
  <2> QED BY <2>1, ReplaceFine
<1> QED BY <1>15, <1>16, EmptyConcat

-----------------------------------------------------------------------------
(* A promotion.                                                              *)

LEMMA Three ==
  ASSUME NEW x, NEW y, NEW z
  PROVE  <<x, y, z>> = <<x>> \o <<y, z>> /\ IsSeq(<<x, y, z>>)
<1> DEFINE one == <<x>>
           two == <<y, z>>
           all == <<x, y, z>>
<1>1. /\ IsSeq(one) /\ IsSeq(two) /\ Len(one) = 1 /\ Len(two) = 2
      /\ one[1] = x /\ two[1] = y /\ two[2] = z
  BY Tuples
<1>2. all \in Seq({x, y, z}) /\ Len(all) = 3 /\ all[1] = x /\ all[2] = y /\ all[3] = z
  OBVIOUS
<1> HIDE DEF one, two, all
<1>3. IsSeq(all)
  BY <1>2 DEF IsSeq
<1>4. /\ IsSeq(one \o two) /\ Len(one \o two) = 3
      /\ \A i \in 1..3 : (one \o two)[i] = IF i <= 1 THEN one[i] ELSE two[i - 1]
  <2>1. /\ IsSeq(one \o two) /\ Len(one \o two) = Len(one) + Len(two)
        /\ \A i \in 1..(Len(one) + Len(two)) :
             (one \o two)[i] = IF i <= Len(one) THEN one[i] ELSE two[i - Len(one)]
    BY <1>1, SetOfConcat
  <2> QED BY <1>1, <2>1
<1>5. (one \o two)[1] = x /\ (one \o two)[2] = y /\ (one \o two)[3] = z
  <2>1. 1 \in 1..3 /\ 2 \in 1..3 /\ 3 \in 1..3 /\ 1 <= 1 /\ ~(2 <= 1) /\ ~(3 <= 1) /\ 2 - 1 = 1 /\ 3 - 1 = 2
    OBVIOUS
  <2> QED BY <1>1, <1>4, <2>1
<1>6. PICK U : all \in Seq(U) /\ one \o two \in Seq(U)
  BY <1>3, <1>4, Together
<1>7. ASSUME NEW i \in 1..Len(all) PROVE all[i] = (one \o two)[i]
  <2>1. i = 1 \/ i = 2 \/ i = 3
    BY <1>2
  <2> QED BY <1>2, <1>5, <2>1
<1>8. all = one \o two
  BY <1>2, <1>4, <1>6, <1>7, SeqEqual
<1> QED BY <1>3, <1>8 DEF one, two, all

Repointed(d, r) ==
  {[cut |-> c.cut, graft |-> IF c.cut = r.dir THEN "itself" ELSE c.graft] : c \in Cuts(d)}

\* The tree a promotion asks for.
LEMMA AfterPromote ==
  ASSUME NEW d, Typed(d), Tidy(d), NEW r, r.op = "promote", Faced(d, r.dir), AskedFace(r.face), SameRule(d, r)
  PROVE  Atomic!After(View(d), r) =
           Tree(Atomic!With(View(d).faces, r.dir, Rendered(d, r)), View(d).rules, Repointed(d, r), {}, Plugs(d))
<1> DEFINE t == View(d)
           G == Atomic!With(View(d).faces, r.dir, Rendered(d, r))
           R == View(d).rules
           u == Atomic!Replaced(t, r)
<1>1. Ruled(R, r.dir, Rendered(d, r), r.face.rule) = R
  BY FaceAlone
<1>2. u = Tree(G, IF d[FaceFile(r.dir)].kind # r.face.kind THEN R
                  ELSE Ruled(R, r.dir, Rendered(d, r), r.face.rule), Cuts(d), Slots(d), Plugs(d))
  BY ReplacedIs
<1> HIDE DEF t, G, R, u
<1>3. u = Tree(G, R, Cuts(d), Slots(d), Plugs(d))
  BY <1>1, <1>2
<1>4. u.entry = Cuts(d)
  BY <1>3, TreeIs
<1>5. Atomic!After(t, r) = WithNotes(u, {[cut |-> c.cut, graft |-> IF c.cut = r.dir THEN "itself" ELSE c.graft]
                                           : c \in u.entry}, {})
  BY DEF Atomic!After, WithNotes, u
<1>6. Atomic!After(t, r) = WithNotes(u, Repointed(d, r), {})
  BY <1>4, <1>5 DEF Repointed
<1>7. WithNotes(u, Repointed(d, r), {}) = Tree(G, R, Repointed(d, r), {}, Plugs(d))
  BY <1>3, TwoNotes
<1> QED BY <1>6, <1>7 DEF t, G, R

\* The entry is repointed and the record retired once the face is written.
LEMMA PromoteTail ==
  ASSUME NEW d, Typed(d), Tidy(d), NEW r, r.op = "promote", Faced(d, r.dir), AskedFace(r.face), SameRule(d, r),
         Record \in DOMAIN d, NEW e, e = Set(d, FaceFile(r.dir), Rendered(d, r)), Loads(e),
         NEW undo, undo = <<Put(FaceFile(r.dir), d[FaceFile(r.dir)])>>
  PROVE  Carries(<<Step(Stash(EntryText(Cuts(d))), undo),
                   Tearing(Step(Put(Entry, EntryText(Repointed(d, r))), undo)),
                   Late(Step(Discard(Record), <<>>))>>, e, d, r)
<1> DEFINE face == FaceFile(r.dir)
           text == EntryText(Repointed(d, r))
           a == Step(Stash(EntryText(Cuts(d))), undo)
           b == Tearing(Step(Put(Entry, text), undo))
           c == Late(Step(Discard(Record), <<>>))
           f == Set(e, Entry, text)
           g == Only(f, DOMAIN f \ {Record})
           G == Atomic!With(View(d).faces, r.dir, Rendered(d, r))
           R == View(d).rules
<1>1. Typed(e) /\ Tidy(e) /\ View(e) = Tree(G, R, Cuts(d), Slots(d), Plugs(d))
  BY FaceAlone
<1>2. /\ a.call = Stash(EntryText(Cuts(d))) /\ a.undo = undo
      /\ b.call = Put(Entry, text) /\ b.undo = undo
      /\ c.call = Discard(Record) /\ c.undo = <<>> /\ c.late
  BY StepParts
<1>3. text.is = "entry" /\ text.cuts = Repointed(d, r)
  BY DEF EntryText
<1>4. Restores(undo, e, d)
  <2>1. face \in DOMAIN d /\ Disk(d)
    BY DEF Faced, Tidy
  <2>2. Set(e, face, d[face]) = d
    BY <2>1, SetBack
  <2>3. Tried(e, Put(face, d[face])) = d
    <3> HIDE DEF face
    <3> QED BY <2>2, PutIs
  <2>4. undo = <<Put(face, d[face])>>
    OBVIOUS
  <2> HIDE DEF face
  <2> QED BY <2>3, <2>4, BackOne
<1>5. Record \in DOMAIN e
  BY DEF Set
<1>6. Atomic!After(View(d), r) = Tree(G, R, Repointed(d, r), {}, Plugs(d))
  BY AfterPromote
<1>15. DOMAIN e = DOMAIN d /\ \A p \in DOMAIN d : p # face => e[p] = d[p]
  BY DEF Set, Faced
<1>16. face.dir # <<>>
  BY FaceFileIs DEF Faced
<1> HIDE DEF a, b, c, text, G, R, face
<1>7. Typed(f) /\ Tidy(f) /\ View(f) = Tree(View(e).faces, View(e).rules, Cuts(f), Slots(f), Plugs(f))
  BY <1>1, <1>3, SetRoot
<1>8. View(e).faces = G /\ View(e).rules = R
  BY <1>1, TreeIs
<1>9. DOMAIN f = DOMAIN e \cup {Entry} /\ f[Entry] = text /\ \A q \in DOMAIN e : q # Entry => f[q] = e[q]
  BY DEF Set
<1>10. DiskAfter(e, a.call) = e /\ DiskAfter(e, b.call) = f
  BY <1>2, StashIs, PutIs
<1>17. Record \in DOMAIN f
  BY <1>5, <1>9
<1> HIDE DEF f
<1>11. Tidy(g) /\ View(g) = Tree(View(f).faces, View(f).rules, Cuts(g), Slots(g), Plugs(g))
  BY <1>7, DropRoot
<1>12. DOMAIN g = DOMAIN f \ {Record} /\ \A q \in DOMAIN g : g[q] = f[q]
  BY DEF Only
<1>13. View(f).faces = G /\ View(f).rules = R
  BY <1>7, <1>8, TreeIs
<1>14. Possible(f, c.call) /\ DiskAfter(f, c.call) = g
  BY <1>2, <1>17, DropIs
<1> HIDE DEF g
<1>18. Cuts(g) = Repointed(d, r) /\ Slots(g) = {} /\ Plugs(g) = Plugs(d)
  <2>1. Entry \in DOMAIN g /\ g[Entry] = text /\ Record \notin DOMAIN g
    BY <1>9, <1>12, RootPlaces
  <2>2. /\ Anchor \in DOMAIN g <=> Anchor \in DOMAIN d
        /\ Lock \in DOMAIN g <=> Lock \in DOMAIN d
    BY <1>9, <1>12, <1>15, RootPlaces
  <2> QED BY <1>3, <2>1, <2>2 DEF Cuts, Slots, Plugs
<1>19. Reached(g, d, r)
  BY <1>6, <1>11, <1>13, <1>18 DEF Reached
<1>20. MayFail(a, e, d) /\ MayFail(b, e, d) /\ MayFail(c, f, d)
  BY <1>2, <1>4, <1>14 DEF MayFail
<1>21. Carries(<<c>>, f, d, r)
  BY <1>14, <1>19, <1>20, OnOne
<1>22. Carries(<<b, c>>, e, d, r)
  BY <1>10, <1>20, <1>21, OnTwo
<1>23. IsSeq(<<b, c>>)
  BY Tuples
<1> DEFINE two == <<b, c>>
<1>24. Carries(<<a>> \o two, e, d, r)
  <2> HIDE DEF two
  <2> QED BY <1>10, <1>20, <1>22, <1>23, OnMore DEF two
<1> QED BY <1>24, Three DEF a, b, c, text

\* run_promote: an edit, then the entry and the record.
LEMMA PromoteCarries ==
  ASSUME NEW d, Typed(d), Tidy(d), NEW r, r.op = "promote", Faced(d, r.dir), AskedFace(r.face), Accepted(d, r)
  PROVE  Carries(PromotePlan(d, r), d, d, r)
<1> DEFINE faceFile == FaceFile(r.dir)
           rule == RuleFile(r.dir)
           text == Rendered(d, r)
           old == d[faceFile]
           e == Set(d, faceFile, text)
           undo == <<Put(faceFile, d[faceFile])>>
           rest == <<Step(Stash(EntryText(Cuts(d))), undo),
                     Tearing(Step(Put(Entry, EntryText(Repointed(d, r))), undo)),
                     Late(Step(Discard(Record), <<>>))>>
<1>1. SameRule(d, r) /\ Record \in DOMAIN d
  BY DEF Accepted
<1>2. PromotePlan(d, r) = (IF r.face.kind = old.kind THEN ReplacePlan(d, r) ELSE KindPlan(d, r)) \o rest
  BY DEF PromotePlan, Repointed
<1>3. IsSeq(rest)
  BY Three
<1>4. Loads(e) => Carries(rest, e, d, r)
  BY <1>1, PromoteTail
<1> HIDE DEF rest
<1>5. CASE r.face.kind # old.kind
  BY <1>2, <1>3, <1>4, <1>5, KindCarries
<1>6. CASE r.face.kind = old.kind
  <2>1. /\ r.face.owns \/ r.face.rule = "ANY"
        /\ text.owns = old.owns /\ text.names = text.owns /\ r.face.rule = RuleOf(d, r.dir)
    BY <1>1, SameRuleKept
  <2>2. Landed(d, r) = e
    <3>1. /\ rule \in DOMAIN d => d[rule] = RuleText(RuleOf(d, r.dir))
          /\ old.owns \in BOOLEAN /\ (old.owns <=> rule \in DOMAIN d) /\ faceFile # rule
      BY ModuleHere
    <3>2. r.face.owns = old.owns
      BY <1>1 DEF SameRule
    <3>3. CASE r.face.owns
      <4>1. rule \in DOMAIN d
        BY <3>1, <3>2, <3>3
      <4>2. rule \in DOMAIN e /\ e[rule] = RuleText(r.face.rule)
        BY <2>1, <3>1, <4>1 DEF Set
      <4>3. Disk(e)
        BY DisksMade
      <4>4. Landed(d, r) = Set(e, rule, RuleText(r.face.rule))
        BY <3>3 DEF Landed
      <4> HIDE DEF e, rule
      <4> QED BY <4>2, <4>3, <4>4, SetSame
    <3>4. CASE ~r.face.owns
      <4>1. rule \notin DOMAIN d
        BY <3>1, <3>2, <3>4
      <4> QED BY <3>4, <4>1 DEF Landed
    <3> QED BY <3>1, <3>2, <3>3, <3>4
  <2>3. Loads(e)
    <3>1. /\ Typed(e) /\ Disk(e) /\ Written(d, e, r.dir, text, RuleOf(d, r.dir)) /\ Alike(d, e, r.dir)
      BY <1>1, FaceAlone
    <3>2. /\ text \in FaceTexts /\ text.parent = old.parent /\ text.parent = Front(r.dir) /\ text.alias = old.alias
          /\ text.kind = r.face.kind
      BY RenderedIs
    <3>3. Parented(d, old) /\ r.dir \in Dirs \ {<<>>}
      BY ModuleHere
    <3> HIDE DEF text, old, e
    <3>4. Parented(d, text)
      BY <1>6, <3>2, <3>3 DEF Parented
    <3> DEFINE dir == r.dir
    <3>5. dir \in Dirs \ {<<>>} /\ text.parent = Front(dir) /\ Written(d, e, dir, text, RuleOf(d, dir)) /\ Alike(d, e, dir)
      BY <3>1, <3>2, <3>3
    <3> HIDE DEF dir
    <3> QED BY <3>2, <3>4, <3>5, WrittenLoads
  <2> HIDE DEF e
  <2>4. Carries(ReplacePlan(d, r) \o rest, d, d, r)
    BY <1>3, <1>4, <2>1, <2>2, <2>3, ReplaceCarries
  <2> QED BY <1>2, <1>6, <2>4
<1> QED BY <1>5, <1>6

-----------------------------------------------------------------------------
(* A directory that is renamed, and renamed back.                            *)

\* Two directories above a third are one above the other.
LEMMA PrefixComparable ==
  ASSUME NEW a \in Dirs, NEW b \in Dirs, NEW c \in Dirs, IsPrefix(a, c), IsPrefix(b, c)
  PROVE  IsPrefix(a, b) \/ IsPrefix(b, a)
<1>1. /\ a \in Seq(Words) /\ b \in Seq(Words) /\ c \in Seq(Words)
      /\ Len(a) \in Nat /\ Len(b) \in Nat
  BY LenProperties DEF Dirs
<1>2. /\ Len(a) <= Len(c) /\ \A i \in 1..Len(a) : a[i] = c[i]
      /\ Len(b) <= Len(c) /\ \A i \in 1..Len(b) : b[i] = c[i]
  BY <1>1, PrefixPointwise
<1>3. CASE Len(a) <= Len(b)
  <2>1. \A i \in 1..Len(a) : i \in 1..Len(b)
    BY <1>1, <1>3
  <2>2. \A i \in 1..Len(a) : a[i] = b[i]
    BY <1>2, <2>1
  <2> QED BY <1>1, <1>3, <2>2, PrefixPointwise
<1>4. CASE Len(b) <= Len(a)
  <2>1. \A i \in 1..Len(b) : i \in 1..Len(a)
    BY <1>1, <1>4
  <2>2. \A i \in 1..Len(b) : b[i] = a[i]
    BY <1>2, <2>1
  <2> QED BY <1>1, <1>4, <2>2, PrefixPointwise
<1> QED BY <1>1, <1>3, <1>4

LEMMA AppendIs ==
  ASSUME NEW x \in Dirs, NEW name \in Words
  PROVE  /\ Append(x, name) \in Dirs \ {<<>>} /\ Front(Append(x, name)) = x /\ Last(Append(x, name)) = name
         /\ Append(x, name) = x \o <<name>>
<1> DEFINE all == Append(x, name)
<1>1. all \in Dirs \ {<<>>} /\ Last(all) = name /\ Len(all) = Len(x) + 1 /\ Len(x) \in Nat
  BY DirExtended, LenProperties DEF Dirs
<1>2. \A i \in 1..Len(x) : all[i] = x[i]
  BY AppendProperties DEF Dirs
<1>3. all = x \o <<name>>
  BY AppendIsConcat DEF Dirs
<1> HIDE DEF all
<1>4. /\ Front(all) \in Dirs /\ Len(Front(all)) = Len(all) - 1
      /\ \A i \in 1..(Len(all) - 1) : Front(all)[i] = all[i]
  BY <1>1, FrontIs
<1> DEFINE front == Front(all)
<1> HIDE DEF front
<1>5. front \in Seq(Words) /\ x \in Seq(Words) /\ Len(front) = Len(x) /\ \A i \in 1..Len(front) : front[i] = x[i]
  BY <1>1, <1>2, <1>4 DEF front, Dirs
<1>6. front = x
  BY <1>5, SeqEqual
<1> QED BY <1>1, <1>3, <1>6 DEF all, front

\* Below the directory that is renamed, a module keeps its name and its place.
LEMMA RebasedShape ==
  ASSUME NEW from \in Dirs, NEW to \in Dirs \ {<<>>}, NEW dir \in Dirs \ {<<>>}, dir # from
  PROVE  /\ Atomic!Rebased(from, to, dir) \in Dirs \ {<<>>}
         /\ Last(Atomic!Rebased(from, to, dir)) = Last(dir)
         /\ Front(Atomic!Rebased(from, to, dir)) = Atomic!Rebased(from, to, Front(dir))
<1> DEFINE front == Front(dir)
           lastWord == Last(dir)
           at == Atomic!Rebased(from, to, dir)
           above == Atomic!Rebased(from, to, front)
<1>1. front \in Dirs /\ lastWord \in Words /\ dir = Append(front, lastWord)
  BY FrontIs
<1>2. at \in Dirs \ {<<>>} /\ above \in Dirs
  <2> HIDE DEF front
  <2> QED BY <1>1, RebasedTyped
<1>3. CASE ~IsPrefix(from, dir)
  <2>1. ~IsPrefix(from, front)
    BY <1>3, PrefixOfFront
  <2>2. at = dir /\ above = front
    BY <1>3, <2>1, RebasedElsewhere
  <2> QED BY <1>2, <2>2
<1>4. CASE IsPrefix(from, dir)
  <2>1. IsPrefix(from, front)
    BY <1>4, PrefixOfFront
  <2> DEFINE rest == Rest(from, front)
  <2> HIDE DEF front, lastWord
  <2>2. above = to \o rest /\ rest \in Dirs /\ front = from \o rest
    BY <1>1, <2>1, RebasedBelow
  <2> HIDE DEF rest
  <2> DEFINE more == Append(rest, lastWord)
  <2>3. more \in Dirs /\ more = rest \o <<lastWord>> /\ Append(front, lastWord) = front \o <<lastWord>>
        /\ Append(above, lastWord) = above \o <<lastWord>> /\ Front(Append(above, lastWord)) = above
        /\ Last(Append(above, lastWord)) = lastWord
    BY <1>1, <1>2, <2>2, AppendIs
  <2> DEFINE one == <<lastWord>>
  <2>4. one \in Seq(Words) /\ rest \in Seq(Words) /\ from \in Seq(Words) /\ to \in Seq(Words)
    BY <1>1, <2>2 DEF Dirs
  <2> HIDE DEF one
  <2>5. (from \o rest) \o one = from \o (rest \o one) /\ (to \o rest) \o one = to \o (rest \o one)
    <3>1. IsSeq(one) /\ IsSeq(rest) /\ IsSeq(from) /\ IsSeq(to)
      BY <2>4 DEF IsSeq
    <3>2. (from \o rest) \o one = from \o (rest \o one)
      BY <3>1, Grouped
    <3>3. (to \o rest) \o one = to \o (rest \o one)
      BY <3>1, Grouped
    <3> QED BY <3>2, <3>3
  <2>6. dir = from \o more
    BY <1>1, <2>2, <2>3, <2>5 DEF one
  <2>7. Rest(from, dir) = more
    <3>1. more \in Seq(Words) /\ from \in Seq(Words)
      BY <2>3, <2>4 DEF Dirs
    <3> HIDE DEF more
    <3>2. Rest(from, from \o more) = more
      BY <3>1, RestOfConcat
    <3> QED BY <2>6, <3>2
  <2>8. at = to \o more
    <3>1. at = to \o Rest(from, dir)
      BY <1>4, RebasedBelow
    <3> HIDE DEF more, at
    <3> QED BY <2>7, <3>1
  <2>9. at = Append(above, lastWord)
    <3> HIDE DEF more, at, above
    <3>1. more = rest \o one /\ Append(above, lastWord) = above \o one
      BY <2>3 DEF one
    <3> QED BY <2>2, <2>5, <2>8, <3>1
  <2>10. Last(at) = lastWord /\ Front(at) = above
    <3> HIDE DEF at, above
    <3> QED BY <2>3, <2>9
  <2> QED BY <1>2, <2>10 DEF front, lastWord
<1> QED BY <1>2, <1>3, <1>4

LEMMA NewParts ==
  ASSUME NEW from \in Dirs, NEW to \in Dirs \ {<<>>}, NEW p \in Places
  PROVE  /\ New(from, to, p) \in Places /\ New(from, to, p).file = p.file
         /\ New(from, to, p).dir = Atomic!Rebased(from, to, p.dir)
<1>1. p.dir \in Dirs /\ p.file \in Words
  BY PlaceParts
<1>2. Atomic!Rebased(from, to, p.dir) \in Dirs
  BY <1>1, RebasedTyped
<1> QED BY <1>1, <1>2, PlaceMade DEF New

\* Renamed and renamed back.
LEMMA RebasedBack ==
  ASSUME NEW from \in Dirs, NEW to \in Dirs, NEW dir \in Dirs, ~IsPrefix(to, dir)
  PROVE  Atomic!Rebased(to, from, Atomic!Rebased(from, to, dir)) = dir
<1> DEFINE at == Atomic!Rebased(from, to, dir)
<1>1. CASE IsPrefix(from, dir)
  <2>1. /\ dir = from \o Rest(from, dir) /\ at \in Dirs /\ IsPrefix(to, at) /\ Rest(to, at) = Rest(from, dir)
    BY <1>1, RebasedBelow
  <2> HIDE DEF at
  <2>2. Atomic!Rebased(to, from, at) = from \o Rest(to, at)
    BY <2>1, RebasedBelow
  <2> QED BY <2>1, <2>2 DEF at
<1>2. CASE ~IsPrefix(from, dir)
  <2>1. at = dir
    BY <1>2, RebasedElsewhere
  <2> QED BY <2>1, RebasedElsewhere
<1> QED BY <1>1, <1>2

LEMMA NewBack ==
  ASSUME NEW from \in Dirs \ {<<>>}, NEW to \in Dirs \ {<<>>}, NEW p \in Places, ~IsPrefix(to, p.dir)
  PROVE  New(to, from, New(from, to, p)) = p
<1>1. p.dir \in Dirs /\ p = At(p.dir, p.file)
  BY PlaceParts
<1>2. New(from, to, p).dir = Atomic!Rebased(from, to, p.dir) /\ New(from, to, p).file = p.file
  BY NewParts
<1>3. Atomic!Rebased(to, from, Atomic!Rebased(from, to, p.dir)) = p.dir
  BY <1>1, RebasedBack
<1> DEFINE q == New(from, to, p)
<1> HIDE DEF q
<1> QED BY <1>1, <1>2, <1>3 DEF q, New

\* Neither directory is below the other.
Apart(from, to) == ~IsPrefix(from, to) /\ ~IsPrefix(to, from)

LEMMA NothingUnder ==
  ASSUME NEW d, Typed(d), NEW to \in Dirs \ {<<>>}
  PROVE  /\ Under(d, to) = {} <=> \A p \in DOMAIN d : ~IsPrefix(to, p.dir)
         /\ Under(d, to) = {p \in DOMAIN d : IsPrefix(to, p.dir)}
<1>1. ~IsPrefix(to, <<>>)
  BY EmptySeq, LenProperties DEF IsPrefix, Dirs
<1> QED BY <1>1 DEF Under

\* Where the old name is free again.
LEMMA NewLeaves ==
  ASSUME NEW from \in Dirs \ {<<>>}, NEW to \in Dirs \ {<<>>}, Apart(from, to), NEW dir \in Dirs
  PROVE  /\ ~IsPrefix(from, Atomic!Rebased(from, to, dir))
         /\ IsPrefix(from, dir) => IsPrefix(to, Atomic!Rebased(from, to, dir))
<1>1. CASE IsPrefix(from, dir)
  <2>1. Atomic!Rebased(from, to, dir) \in Dirs /\ IsPrefix(to, Atomic!Rebased(from, to, dir))
    BY <1>1, RebasedBelow
  <2> QED BY <2>1, PrefixComparable DEF Apart
<1>2. CASE ~IsPrefix(from, dir)
  BY <1>2, RebasedElsewhere
<1> QED BY <1>1, <1>2

LEMMA CarriedBack ==
  ASSUME NEW d, Typed(d), Disk(d), NEW from \in Dirs \ {<<>>}, NEW to \in Dirs \ {<<>>},
         Apart(from, to), Under(d, from) # {}, Under(d, to) = {}
  PROVE  Tried(Carried(d, from, to), MoveDir(to, from)) = d
<1> DEFINE e == Carried(d, from, to)
           g == Carried(e, to, from)
<1>1. /\ \A p \in DOMAIN d : New(from, to, p) \in DOMAIN e /\ e[New(from, to, p)] = d[p]
      /\ \A q \in DOMAIN e : \E p \in DOMAIN d : q = New(from, to, p)
      /\ Typed(e) /\ Disk(g)
  BY CarriedKeeps, CarriedTyped, DisksMade
<1>2. \A p \in DOMAIN d : p \in Places /\ p.dir \in Dirs /\ ~IsPrefix(to, p.dir)
  BY NothingUnder, PlaceParts DEF Typed
<1>3. \A p \in DOMAIN d : /\ New(to, from, New(from, to, p)) = p
                          /\ ~IsPrefix(from, New(from, to, p).dir)
                          /\ IsPrefix(from, p.dir) => IsPrefix(to, New(from, to, p).dir)
  BY <1>2, NewBack, NewParts, NewLeaves
<1> HIDE DEF e
<1>4. Under(e, from) = {}
  BY <1>1, <1>3, NothingUnder
<1>5. Under(e, to) # {}
  <2>1. PICK p \in DOMAIN d : IsPrefix(from, p.dir)
    BY NothingUnder
  <2>2. New(from, to, p) \in Under(e, to)
    BY <1>1, <1>3, <2>1, NothingUnder
  <2> QED BY <2>2
<1>6. /\ \A q \in DOMAIN e : New(to, from, q) \in DOMAIN g /\ g[New(to, from, q)] = e[q]
      /\ \A p \in DOMAIN g : \E q \in DOMAIN e : p = New(to, from, q)
  BY <1>1, <1>4, CarriedKeeps
<1> HIDE DEF g
<1>7. DOMAIN g = DOMAIN d /\ \A p \in DOMAIN d : g[p] = d[p]
  <2>1. ASSUME NEW p \in DOMAIN d PROVE p \in DOMAIN g /\ g[p] = d[p]
    <3> DEFINE q == New(from, to, p)
    <3>1. q \in DOMAIN e /\ e[q] = d[p] /\ New(to, from, q) = p
      BY <1>1, <1>3
    <3> HIDE DEF q
    <3> QED BY <1>6, <3>1
  <2>2. ASSUME NEW x \in DOMAIN g PROVE x \in DOMAIN d
    <3>1. PICK q \in DOMAIN e : x = New(to, from, q)
      BY <1>6
    <3>2. PICK p \in DOMAIN d : q = New(from, to, p)
      BY <1>1
    <3> QED BY <1>3, <3>1, <3>2
  <2> QED BY <2>1, <2>2
<1>8. g = d
  BY <1>1, <1>7, SameDisk
<1>9. Possible(e, MoveDir(to, from)) /\ DiskAfter(e, MoveDir(to, from)) = g
  BY <1>4, <1>5, MoveIs DEF Apart, g
<1> QED BY <1>8, <1>9 DEF Tried, e

-----------------------------------------------------------------------------
(* A tree one of whose directories has another name.                         *)

LEMMA RekeyedIs ==
  ASSUME NEW f, DOMAIN f \subseteq Dirs, NEW from \in Dirs \ {<<>>}, NEW to \in Dirs \ {<<>>},
         \A x \in DOMAIN f : ~IsPrefix(to, x),
         NEW g, g = Atomic!Rekeyed(f, from, to)
  PROVE  /\ g = [y \in DOMAIN g |-> g[y]]
         /\ \A x \in DOMAIN f : /\ Atomic!Rebased(from, to, x) \in DOMAIN g
                                /\ g[Atomic!Rebased(from, to, x)] = f[x]
         /\ \A y \in DOMAIN g : \E x \in DOMAIN f : y = Atomic!Rebased(from, to, x)
<1> DEFINE new(x) == Atomic!Rebased(from, to, x)
<1>1. g = [y \in {new(x) : x \in DOMAIN f} |-> f[CHOOSE x \in DOMAIN f : new(x) = y]]
  BY DEF Atomic!Rekeyed
<1>2. ASSUME NEW x \in DOMAIN f, NEW z \in DOMAIN f, new(x) = new(z) PROVE x = z
  <2>1. new(x) \in Dirs /\ x \in Dirs /\ z \in Dirs
    BY RebasedTyped
  <2>2. Atomic!Rebased(to, from, new(x)) = x /\ Atomic!Rebased(to, from, new(z)) = z
    BY <2>1, RebasedBack
  <2> HIDE DEF new
  <2> QED BY <1>2, <2>2
<1> HIDE DEF new
<1>3. DOMAIN g = {new(x) : x \in DOMAIN f} /\ g = [y \in DOMAIN g |-> g[y]]
  BY <1>1
<1>4. ASSUME NEW x \in DOMAIN f PROVE new(x) \in DOMAIN g /\ g[new(x)] = f[x]
  <2>1. (CHOOSE z \in DOMAIN f : new(z) = new(x)) = x
    BY <1>2
  <2>2. new(x) \in {new(z) : z \in DOMAIN f}
    OBVIOUS
  <2> QED BY <1>1, <2>1, <2>2
<1> QED BY <1>3, <1>4 DEF new

\* Where a file of the renamed module is: the face takes the module's name.
Spot(from, to, p) == IF p = FaceFile(from) THEN FaceFile(to) ELSE New(from, to, p)
\* A face file in its new place says who its parent is now.
Follows(text, old, place) ==
  /\ text.is = "face" /\ text.owns = old.owns /\ text.names = text.owns /\ text.parent = Front(place.dir)
Relocated(d, e, from, to) ==
  /\ \A p \in DOMAIN d : p.dir # <<>> =>
       /\ Spot(from, to, p) \in DOMAIN e
       /\ d[p].is = "face" => Follows(e[Spot(from, to, p)], d[p], Spot(from, to, p))
       /\ d[p].is # "face" => e[Spot(from, to, p)] = d[p]
  /\ \A q \in DOMAIN e : q.dir # <<>> => \E p \in DOMAIN d : p.dir # <<>> /\ q = Spot(from, to, p)
  /\ \A q \in {Entry, Record, Anchor, Lock} : (q \in DOMAIN e <=> q \in DOMAIN d) /\ (q \in DOMAIN d => e[q] = d[q])
  /\ \A q \in DOMAIN e : q.dir = <<>> => e[q].is \notin {"torn", "rule"}
\* What a relocation is about.
Relocating(d, e, from, to) ==
  /\ Typed(d) /\ Tidy(d) /\ Typed(e) /\ Disk(e)
  /\ from \in Dirs \ {<<>>} /\ to \in Dirs \ {<<>>} /\ Under(d, to) = {}
  /\ Last(from) # "registry_rule" /\ Last(to) # "registry_rule"
  /\ Relocated(d, e, from, to)

LEMMA SpotIs ==
  ASSUME NEW from \in Dirs \ {<<>>}, NEW to \in Dirs \ {<<>>}, NEW p \in Places, p.dir # <<>>
  PROVE  /\ Spot(from, to, p).dir = Atomic!Rebased(from, to, p.dir)
         /\ Atomic!Rebased(from, to, p.dir) \in Dirs \ {<<>>}
         /\ p # FaceFile(from) => Spot(from, to, p).file = p.file
         /\ p = FaceFile(p.dir) => Spot(from, to, p) = FaceFile(Atomic!Rebased(from, to, p.dir))
         /\ p.file = Last(p.dir) => Spot(from, to, p).file = Last(Spot(from, to, p).dir)
<1> DEFINE q == Spot(from, to, p)
           at == Atomic!Rebased(from, to, p.dir)
<1>1. p.dir \in Dirs \ {<<>>} /\ p.file \in Words /\ p = At(p.dir, p.file)
  BY PlaceParts
<1>2. at \in Dirs \ {<<>>}
  BY <1>1, RebasedTyped
<1>3. FaceFile(from).dir = from /\ FaceFile(to).dir = to /\ FaceFile(to).file = Last(to)
      /\ FaceFile(from).file = Last(from) /\ Atomic!Rebased(from, to, from) = to
  BY FaceFileIs, RebasedItself
<1>4. CASE p = FaceFile(from)
  <2>1. q = FaceFile(to) /\ p.dir = from /\ at = to
    BY <1>3, <1>4 DEF Spot
  <2> HIDE DEF q, at
  <2> QED BY <1>2, <1>3, <1>4, <2>1 DEF q, at
<1>5. CASE p # FaceFile(from)
  <2>1. q.dir = at /\ q.file = p.file /\ q = At(at, p.file)
    BY <1>5, NewParts DEF Spot, New
  <2>2. p.dir # from => Last(at) = Last(p.dir)
    BY <1>1, RebasedShape
  <2>3. p.file = Last(p.dir) => p.dir # from /\ p = FaceFile(p.dir)
    BY <1>1, <1>5, FaceFileIs
  <2>4. p = FaceFile(p.dir) => p.file = Last(p.dir)
    BY FaceFileIs
  <2>5. FaceFile(at) = At(at, Last(at))
    BY FaceFileIs
  <2> HIDE DEF q, at
  <2> QED BY <1>2, <1>5, <2>1, <2>2, <2>3, <2>4, <2>5 DEF q, at
<1> QED BY <1>4, <1>5

LEMMA ModulePlaces ==
  ASSUME NEW dir \in Dirs \ {<<>>}
  PROVE  FaceFile(dir) \in Places /\ RuleFile(dir) \in Places /\ FaceFile(dir).dir = dir /\ RuleFile(dir).dir = dir
         /\ RuleFile(dir).file = "registry_rule" /\ FaceFile(dir).file = Last(dir)
<1>1. Last(dir) \in Words
  BY DirParts
<1> QED BY <1>1, FaceFileIs, RuleFileIs, OtherPlaces, PlaceMade

\* A module is there under its new name, with what it says and its rule.
LEMMA RelocatedModule ==
  ASSUME NEW d, NEW e, NEW from, NEW to, Relocating(d, e, from, to), NEW dir \in Dirs \ {<<>>}
  PROVE  LET at == Atomic!Rebased(from, to, dir)
         IN /\ at \in Dirs \ {<<>>}
            /\ IsFace(d, FaceFile(dir)) => /\ IsFace(e, FaceFile(at))
                                           /\ e[FaceFile(at)].owns = d[FaceFile(dir)].owns
            /\ RuleFile(dir) \in DOMAIN d => RuleFile(at) \in DOMAIN e /\ e[RuleFile(at)] = d[RuleFile(dir)]
            /\ ~IsPrefix(to, dir) /\ RuleFile(at) \in DOMAIN e => RuleFile(dir) \in DOMAIN d
            /\ ~IsPrefix(to, dir) => RuleOf(e, at) = RuleOf(d, dir)
<1> DEFINE at == Atomic!Rebased(from, to, dir)
           face == FaceFile(dir)
           rule == RuleFile(dir)
           beside == RuleFile(at)
<1>1. /\ from \in Dirs \ {<<>>} /\ to \in Dirs \ {<<>>} /\ Typed(d) /\ Tidy(d) /\ Under(d, to) = {}
      /\ Last(from) # "registry_rule" /\ Last(to) # "registry_rule" /\ Relocated(d, e, from, to)
  BY DEF Relocating
<1>2. face \in Places /\ rule \in Places /\ face.dir = dir /\ rule.dir = dir /\ rule.file = "registry_rule"
  BY ModulePlaces
<1>3. at \in Dirs \ {<<>>} /\ Spot(from, to, face) = FaceFile(at)
  <2>1. face.dir # <<>> /\ face = FaceFile(face.dir)
    BY <1>2
  <2> HIDE DEF face, at
  <2>2. /\ Atomic!Rebased(from, to, face.dir) \in Dirs \ {<<>>}
        /\ Spot(from, to, face) = FaceFile(Atomic!Rebased(from, to, face.dir))
    <3>1. from \in Dirs \ {<<>>} /\ to \in Dirs \ {<<>>}
      BY <1>1
    <3>2. face \in Places
      BY <1>2
    <3> QED BY <2>1, <3>1, <3>2, SpotIs
  <2>3. Atomic!Rebased(from, to, face.dir) = at
    BY <1>2 DEF at
  <2> QED BY <2>2, <2>3
<1>4. Spot(from, to, rule) = beside
  <2>1. rule # FaceFile(from)
    BY <1>1, <1>2, FaceFileIs
  <2> QED BY <1>2, <2>1 DEF Spot, New, RuleFile
<1> HIDE DEF at
<1>5. IsFace(d, face) => IsFace(e, FaceFile(at)) /\ e[FaceFile(at)].owns = d[face].owns
  BY <1>1, <1>2, <1>3 DEF Relocated, IsFace, Follows
<1>6. rule \in DOMAIN d => beside \in DOMAIN e /\ e[beside] = d[rule]
  <2> SUFFICES ASSUME rule \in DOMAIN d PROVE beside \in DOMAIN e /\ e[beside] = d[rule]
    OBVIOUS
  <2>1. d[rule].is = "rule"
    BY <1>1, TidyFiles
  <2> QED BY <1>1, <1>2, <1>4, <2>1 DEF Relocated
<1>7. ASSUME ~IsPrefix(to, dir), beside \in DOMAIN e PROVE rule \in DOMAIN d
  <2>1. beside.dir # <<>> /\ beside.file = "registry_rule"
    BY <1>3, RuleFileIs
  <2>2. PICK p \in DOMAIN d : p.dir # <<>> /\ beside = Spot(from, to, p)
    BY <1>1, <1>7, <2>1 DEF Relocated
  <2>3. p # FaceFile(from)
    BY <1>1, <2>1, <2>2, FaceFileIs DEF Spot
  <2>4. New(from, to, p) = New(from, to, rule)
    BY <1>1, <1>2, <1>4, <2>2, <2>3, FaceFileIs DEF Spot
  <2>5. p \in Places /\ ~IsPrefix(to, p.dir)
    BY <1>1, NothingUnder DEF Typed
  <2> HIDE DEF rule
  <2>6. p = rule
    BY <1>1, <1>2, <1>7, <2>4, <2>5, NewTellsApart
  <2> QED BY <2>6
<1>8. ASSUME ~IsPrefix(to, dir) PROVE RuleOf(e, at) = RuleOf(d, dir)
  <2>1. CASE rule \in DOMAIN d
    <3>1. beside \in DOMAIN e /\ e[beside] = d[rule]
      BY <1>6, <2>1
    <3> QED BY <1>3, <2>1, <3>1 DEF RuleOf
  <2>2. CASE rule \notin DOMAIN d
    <3>1. beside \notin DOMAIN e
      BY <1>7, <1>8, <2>2
    <3> QED BY <2>2, <3>1 DEF RuleOf
  <2> QED BY <2>1, <2>2
<1> QED BY <1>3, <1>5, <1>6, <1>7, <1>8 DEF at

\* A tree that loads under the new name is in order, and shows what it showed.
RelocatedFaces(G, d, e, from, to) ==
  /\ G = [y \in DOMAIN G |-> G[y]]
  /\ \A x \in DOMAIN View(d).faces :
       /\ Atomic!Rebased(from, to, x) \in DOMAIN G
       /\ G[Atomic!Rebased(from, to, x)] = e[FaceFile(Atomic!Rebased(from, to, x))]
  /\ \A y \in DOMAIN G : \E x \in DOMAIN View(d).faces : y = Atomic!Rebased(from, to, x)

\* A tree in order is in order under another name of one of its directories.
LEMMA RelocatedProper ==
  ASSUME NEW d, NEW e, NEW from, NEW to, Relocating(d, e, from, to), NEW q \in DOMAIN e
  PROVE  Proper(e, q)
<1>1. /\ from \in Dirs \ {<<>>} /\ to \in Dirs \ {<<>>} /\ Typed(d) /\ Tidy(d) /\ Typed(e)
      /\ Last(from) # "registry_rule" /\ Last(to) # "registry_rule" /\ Relocated(d, e, from, to)
      /\ Under(d, to) = {}
  BY DEF Relocating
<1>2. CASE q.dir = <<>>
  <2>1. e[q].is \notin {"torn", "rule", "face"}
    BY <1>1, <1>2 DEF Relocated, Typed, FacePlace
  <2> QED BY <1>2, <2>1 DEF Proper
<1>3. CASE q.dir # <<>>
  <2>1. PICK p \in DOMAIN d : p.dir # <<>> /\ q = Spot(from, to, p)
    BY <1>1, <1>3 DEF Relocated
  <2>2. /\ p \in Places /\ p.dir \in Dirs \ {<<>>} /\ Proper(d, p) /\ ~IsPrefix(to, p.dir)
        /\ p = At(p.dir, p.file)
    BY <1>1, <2>1, NothingUnder, PlaceParts DEF Typed, Tidy
  <2>3. /\ q.dir = Atomic!Rebased(from, to, p.dir)
        /\ p # FaceFile(from) => q.file = p.file
        /\ p.file = Last(p.dir) => q.file = Last(q.dir)
    <3> DEFINE at == Atomic!Rebased(from, to, p.dir)
               spot == Spot(from, to, p)
    <3>1. spot.dir = at /\ (p # FaceFile(from) => spot.file = p.file)
          /\ (p.file = Last(p.dir) => spot.file = Last(spot.dir))
      <4>1. from \in Dirs \ {<<>>} /\ to \in Dirs \ {<<>>}
        BY <1>1
      <4>2. p \in Places /\ p.dir # <<>>
        BY <2>1, <2>2
      <4> HIDE DEF at, spot
      <4>3. /\ Spot(from, to, p).dir = Atomic!Rebased(from, to, p.dir)
            /\ p # FaceFile(from) => Spot(from, to, p).file = p.file
            /\ p.file = Last(p.dir) => Spot(from, to, p).file = Last(Spot(from, to, p).dir)
        BY <4>1, <4>2, SpotIs
      <4> QED BY <4>3 DEF at, spot
    <3>2. q = spot
      BY <2>1
    <3> HIDE DEF at, spot
    <3>3. q.dir = at /\ (p # FaceFile(from) => q.file = p.file) /\ (p.file = Last(p.dir) => q.file = Last(q.dir))
      BY <3>1, <3>2
    <3> QED BY <3>3 DEF at
  <2>4. /\ d[p].is = "face" => Follows(e[q], d[p], q)
        /\ d[p].is # "face" => e[q] = d[p]
    BY <1>1, <2>1 DEF Relocated
  <2>5. p = FaceFile(from) => q = FaceFile(to) /\ p.file = Last(from) /\ q.file = Last(to)
    BY <2>1, FaceFileIs DEF Spot
  <2> DEFINE at == Atomic!Rebased(from, to, p.dir)
             dir == p.dir
  <2>6. /\ IsFace(d, FaceFile(dir)) => IsFace(e, FaceFile(at))
        /\ RuleFile(at) \in DOMAIN e <=> RuleFile(dir) \in DOMAIN d
    <3>1. dir \in Dirs \ {<<>>} /\ ~IsPrefix(to, dir)
      BY <2>2
    <3> QED BY <3>1, RelocatedModule
  <2>7. e[q].is = "face" <=> d[p].is = "face"
    BY <2>4 DEF Follows
  <2>8. e[q].is # "torn"
    BY <2>2, <2>4, <2>7 DEF Proper, Follows
  <2>9. e[q].is = "face" =>
          /\ q.file = Last(q.dir) /\ e[q].parent = Front(q.dir)
          /\ e[q].names = e[q].owns /\ (e[q].owns <=> RuleFile(q.dir) \in DOMAIN e)
    <3> SUFFICES ASSUME d[p].is = "face"
                 PROVE  /\ q.file = Last(q.dir) /\ e[q].parent = Front(q.dir)
                        /\ e[q].names = e[q].owns /\ (e[q].owns <=> RuleFile(q.dir) \in DOMAIN e)
      BY <2>7
    <3>1. p.file = Last(p.dir) /\ (d[p].owns <=> RuleFile(p.dir) \in DOMAIN d)
      BY <2>2 DEF Proper
    <3>2. e[q].parent = Front(q.dir) /\ e[q].names = e[q].owns /\ e[q].owns = d[p].owns
      BY <2>4 DEF Follows
    <3>3. e[q].owns <=> RuleFile(q.dir) \in DOMAIN e
      <4>1. q.dir = at /\ (d[p].owns <=> RuleFile(dir) \in DOMAIN d)
        BY <2>3, <3>1
      <4> HIDE DEF at, dir
      <4> QED BY <2>6, <3>2, <4>1
    <3> QED BY <2>3, <3>1, <3>2, <3>3
  <2>10. e[q].is = "rule" <=> q.dir # <<>> /\ q.file = "registry_rule"
    <3>1. d[p].is = "rule" <=> p.file = "registry_rule"
      BY <2>2 DEF Proper
    <3>2. e[q].is = "rule" <=> d[p].is = "rule"
      BY <2>4 DEF Follows
    <3> QED BY <1>1, <1>3, <2>3, <2>5, <3>1, <3>2
  <2>11. e[q].is = "rule" => e[q] = RuleText(e[q].rule) /\ IsFace(e, FaceFile(q.dir))
    <3> SUFFICES ASSUME e[q].is = "rule" PROVE e[q] = RuleText(e[q].rule) /\ IsFace(e, FaceFile(q.dir))
      OBVIOUS
    <3>1. e[q] = d[p]
      BY <2>4, <2>7
    <3>2. d[p] = RuleText(d[p].rule) /\ IsFace(d, FaceFile(dir))
      BY <2>2, <3>1 DEF Proper
    <3> HIDE DEF at, dir
    <3> QED BY <2>3, <2>6, <3>1, <3>2 DEF at
  <2>12. q.dir # <<>> /\ q.file \in Names => q.file = Last(q.dir)
    <3>1. CASE p = FaceFile(from)
      BY <2>5, <3>1, FaceFileIs
    <3>2. CASE p # FaceFile(from)
      BY <2>2, <2>3, <3>2 DEF Proper
    <3> QED BY <3>1, <3>2
  <2> HIDE DEF at, dir
  <2> QED BY <2>8, <2>9, <2>10, <2>11, <2>12 DEF Proper
<1> QED BY <1>2, <1>3

\* ... and its registry is the old one with the other keys.
LEMMA RelocatedView ==
  ASSUME NEW d, NEW e, NEW from, NEW to, Relocating(d, e, from, to), Loads(e),
         NEW G, RelocatedFaces(G, d, e, from, to)
  PROVE  Tidy(e) /\ View(e) = Tree(G, Atomic!Rekeyed(View(d).rules, from, to), Cuts(d), Slots(d), Plugs(d))
<1> DEFINE F == View(d).faces
           R == View(d).rules
           Q == Atomic!Rekeyed(R, from, to)
<1>1. /\ from \in Dirs \ {<<>>} /\ to \in Dirs \ {<<>>} /\ Typed(d) /\ Tidy(d) /\ Typed(e) /\ Disk(e)
      /\ Relocated(d, e, from, to) /\ Under(d, to) = {}
  BY DEF Relocating
<1>2. Tidy(e)
  BY <1>1, RelocatedProper DEF Tidy
<1>3. ShowsFaces(F, d) /\ ShowsRules(R, d)
  BY <1>1, ViewIs
<1>4. /\ G = [y \in DOMAIN G |-> G[y]]
      /\ \A x \in DOMAIN F : /\ Atomic!Rebased(from, to, x) \in DOMAIN G
                             /\ G[Atomic!Rebased(from, to, x)] = e[FaceFile(Atomic!Rebased(from, to, x))]
      /\ \A y \in DOMAIN G : \E x \in DOMAIN F : y = Atomic!Rebased(from, to, x)
  BY DEF RelocatedFaces
<1> HIDE DEF F, R
<1>5. \A x \in DOMAIN F : x \in Dirs \ {<<>>} /\ FaceFile(x) \in DOMAIN d /\ IsFace(d, FaceFile(x))
  <2> SUFFICES ASSUME NEW x \in DOMAIN F
               PROVE  x \in Dirs \ {<<>>} /\ FaceFile(x) \in DOMAIN d /\ IsFace(d, FaceFile(x))
    OBVIOUS
  <2>1. x # <<>> /\ IsFace(d, FaceFile(x)) /\ FaceFile(x) \in DOMAIN d /\ FaceFile(x).dir = x
    BY <1>3, FaceFileIs DEF ShowsFaces, IsFace
  <2>2. FaceFile(x).dir \in Dirs
    BY <1>1, <2>1, PlaceParts DEF Typed
  <2> QED BY <2>1, <2>2
<1>6. ShowsFaces(G, e)
  <2>1. ASSUME NEW y \in DOMAIN G PROVE y # <<>> /\ IsFace(e, FaceFile(y)) /\ G[y] = e[FaceFile(y)]
    <3>1. PICK x \in DOMAIN F : y = Atomic!Rebased(from, to, x)
      BY <1>4
    <3> QED BY <1>4, <1>5, <3>1, RelocatedModule
  <2>2. ASSUME NEW y, y # <<>>, IsFace(e, FaceFile(y)) PROVE y \in DOMAIN G
    <3> DEFINE q == FaceFile(y)
    <3>1. q \in DOMAIN e /\ q.dir = y /\ e[q].is = "face"
      BY <2>2, FaceFileIs DEF IsFace
    <3> HIDE DEF q
    <3>2. PICK p \in DOMAIN d : p.dir # <<>> /\ q = Spot(from, to, p)
      BY <1>1, <2>2, <3>1 DEF Relocated
    <3>3. d[p].is = "face" /\ p \in Places
      BY <1>1, <3>1, <3>2 DEF Relocated, Typed
    <3>4. IsFace(d, FaceFile(p.dir))
      BY <1>1, <3>3, FacesInOrder DEF IsFace
    <3>5. p.dir \in DOMAIN F
      BY <1>3, <3>2, <3>4 DEF ShowsFaces
    <3>6. q.dir = Atomic!Rebased(from, to, p.dir)
      BY <1>1, <3>2, <3>3, SpotIs
    <3> QED BY <1>4, <3>1, <3>5, <3>6
  <2> QED BY <1>4, <2>1, <2>2 DEF ShowsFaces
<1>7. \A x \in DOMAIN R : /\ x \in Dirs \ {<<>>} /\ RuleFile(x) \in DOMAIN d /\ R[x] = d[RuleFile(x)].rule
                          /\ ~IsPrefix(to, x)
  <2> SUFFICES ASSUME NEW x \in DOMAIN R
               PROVE  x \in Dirs \ {<<>>} /\ RuleFile(x) \in DOMAIN d /\ R[x] = d[RuleFile(x)].rule
                      /\ ~IsPrefix(to, x)
    OBVIOUS
  <2>1. x # <<>> /\ RuleFile(x) \in DOMAIN d /\ R[x] = d[RuleFile(x)].rule /\ RuleFile(x).dir = x
    BY <1>3, RuleFileIs DEF ShowsRules
  <2>2. RuleFile(x).dir \in Dirs /\ ~IsPrefix(to, RuleFile(x).dir)
    BY <1>1, <2>1, PlaceParts, NothingUnder DEF Typed
  <2> QED BY <2>1, <2>2
<1>8. /\ Q = [y \in DOMAIN Q |-> Q[y]]
      /\ \A x \in DOMAIN R : Atomic!Rebased(from, to, x) \in DOMAIN Q /\ Q[Atomic!Rebased(from, to, x)] = R[x]
      /\ \A y \in DOMAIN Q : \E x \in DOMAIN R : y = Atomic!Rebased(from, to, x)
  <2>1. DOMAIN R \subseteq Dirs /\ \A x \in DOMAIN R : ~IsPrefix(to, x)
    BY <1>7
  <2> QED BY <1>1, <2>1, RekeyedIs
<1> HIDE DEF Q
<1>9. ShowsRules(Q, e)
  <2>1. ASSUME NEW y \in DOMAIN Q PROVE y # <<>> /\ RuleFile(y) \in DOMAIN e /\ Q[y] = e[RuleFile(y)].rule
    <3>1. PICK x \in DOMAIN R : y = Atomic!Rebased(from, to, x)
      BY <1>8
    <3>2. y \in Dirs \ {<<>>} /\ RuleFile(y) \in DOMAIN e /\ e[RuleFile(y)] = d[RuleFile(x)]
      BY <1>7, <3>1, RelocatedModule
    <3> QED BY <1>7, <1>8, <3>1, <3>2
  <2>2. ASSUME NEW y, y # <<>>, RuleFile(y) \in DOMAIN e PROVE y \in DOMAIN Q
    <3> DEFINE q == RuleFile(y)
    <3>1. q \in DOMAIN e /\ q.dir = y /\ q.file = "registry_rule"
      BY <2>2, RuleFileIs
    <3> HIDE DEF q
    <3>2. PICK p \in DOMAIN d : p.dir # <<>> /\ q = Spot(from, to, p)
      BY <1>1, <2>2, <3>1 DEF Relocated
    <3>3. e[q].is = "rule"
      BY <1>1, <1>2, <2>2, <3>1 DEF Tidy, Proper
    <3>4. d[p].is = "rule" /\ p \in Places
      BY <1>1, <3>2, <3>3 DEF Relocated, Follows, Typed
    <3>5. RuleFile(p.dir) \in DOMAIN d
      BY <1>1, <3>4, TidyFiles
    <3>6. p.dir \in DOMAIN R
      BY <1>3, <3>2, <3>5 DEF ShowsRules
    <3>7. q.dir = Atomic!Rebased(from, to, p.dir)
      BY <1>1, <3>2, <3>4, SpotIs
    <3> QED BY <1>8, <3>1, <3>6, <3>7
  <2> QED BY <1>8, <2>1, <2>2 DEF ShowsRules
<1>10. View(e) = Tree(G, Q, Cuts(e), Slots(e), Plugs(e))
  BY <1>1, <1>2, <1>6, <1>9, ViewShows
<1>11. Cuts(e) = Cuts(d) /\ Slots(e) = Slots(d) /\ Plugs(e) = Plugs(d)
  BY <1>1 DEF Relocated, Cuts, Slots, Plugs
<1> QED BY <1>2, <1>10, <1>11 DEF Q, R

-----------------------------------------------------------------------------
(* Sequences of calls, and of steps, that write files one by one.            *)

\* The fold lists every element of the set.
LEMMA ListedCovers ==
  ASSUME NEW places, IsFiniteSet(places)
  PROVE  \A x \in places : \E i \in 1..Len(Listed(places)) : Listed(places)[i] = x
<1> DEFINE iter == CHOOSE iter : Lists(iter, SUBSET places)
           Covers(s) == iter[s] \in Seq(places) /\ \A x \in s : \E i \in 1..Len(iter[s]) : iter[s][i] = x
<1>1. Listed(places) = iter[places]
  BY DEF Listed, FoldSet, MapThenFoldSet, Lists, Pick
<1>2. Lists(iter, SUBSET places)
  BY ListsExist
<1> HIDE DEF iter
<1> DEFINE Bad == {n \in Nat : \E s \in SUBSET places : Cardinality(s) = n /\ ~Covers(s)}
<1>3. \A s \in SUBSET places : IsFiniteSet(s) /\ Cardinality(s) \in Nat
  BY FS_Subset, FS_CardinalityType
<1>4. ASSUME NEW s \in SUBSET places
      PROVE  iter[s] = IF s = {} THEN <<>> ELSE Append(iter[s \ {Pick(s)}], Pick(s))
  BY <1>2 DEF Lists
<1>5. ASSUME NEW s \in SUBSET places, s # {}, Covers(s \ {Pick(s)}) PROVE Covers(s)
  <2> DEFINE t == s \ {Pick(s)}
             x == Pick(s)
             list == iter[t]
             more == Append(list, x)
  <2>1. x \in s /\ x \in places
    BY <1>5 DEF Pick
  <2>2. list \in Seq(places) /\ \A y \in t : \E i \in 1..Len(list) : list[i] = y
    BY <1>5
  <2>3. iter[s] = more
    BY <1>4, <1>5
  <2>4. \A y \in s : y = x \/ y \in t
    OBVIOUS
  <2> HIDE DEF t, x, list
  <2>5. /\ more \in Seq(places) /\ Len(more) = Len(list) + 1 /\ Len(list) \in Nat
        /\ more[Len(list) + 1] = x /\ \A i \in 1..Len(list) : more[i] = list[i]
    BY <2>1, <2>2, AppendProperties, LenProperties
  <2> HIDE DEF more
  <2>6. ASSUME NEW y \in s PROVE \E i \in 1..Len(more) : more[i] = y
    <3>1. CASE y = x
      <4>1. Len(list) + 1 \in 1..Len(more)
        BY <2>5
      <4> QED BY <2>5, <3>1, <4>1
    <3>2. CASE y \in t
      <4>1. PICK i \in 1..Len(list) : list[i] = y
        BY <2>2, <3>2
      <4>2. i \in 1..Len(more)
        BY <2>5
      <4> QED BY <2>5, <4>1, <4>2
    <3> QED BY <2>4, <3>1, <3>2
  <2> QED BY <2>3, <2>5, <2>6
<1>6. Covers({})
  <2>1. {} \in SUBSET places /\ <<>> \in Seq(places)
    OBVIOUS
  <2>2. iter[{}] = <<>>
    BY <1>4, <2>1
  <2> QED BY <2>1, <2>2
<1> HIDE DEF Covers
<1>7. Bad = {}
  <2> SUFFICES ASSUME Bad # {} PROVE FALSE
    OBVIOUS
  <2>1. PICK n \in Bad : \A m \in Bad : n <= m
    <3>1. Bad \in SUBSET Nat
      OBVIOUS
    <3> HIDE DEF Bad
    <3> QED BY <3>1, SmallestNumber
  <2>2. PICK s \in SUBSET places : Cardinality(s) = n /\ ~Covers(s)
    OBVIOUS
  <2>3. s # {}
    BY <1>6, <2>2
  <2> DEFINE t == s \ {Pick(s)}
  <2>4. Pick(s) \in s /\ t \in SUBSET places
    BY <2>3 DEF Pick
  <2>5. Cardinality(t) = n - 1 /\ Cardinality(t) \in Nat
    BY <1>3, <2>2, <2>4, FS_RemoveElement
  <2>6. Covers(t)
    <3>1. n - 1 \notin Bad /\ n - 1 \in Nat
      <4>1. n \in Nat
        OBVIOUS
      <4> HIDE DEF Bad, t
      <4> QED BY <2>1, <2>5, <4>1
    <3> QED BY <2>4, <2>5, <3>1
  <2> QED BY <1>5, <2>2, <2>3, <2>6
<1>8. Covers(places)
  <2>1. places \in SUBSET places /\ Cardinality(places) \in Nat
    BY <1>3
  <2> QED BY <1>7, <2>1
<1> QED BY <1>1, <1>8 DEF Covers

\* What is left of a list after its first i elements.
RestFrom(s, n, i) == [j \in 1..(n - i) |-> s[i + j]]

LEMMA RestFromIs ==
  ASSUME NEW n \in Nat, NEW s, s = [i \in 1..n |-> s[i]]
  PROVE  /\ RestFrom(s, n, 0) = s
         /\ \A t : IsSeq(t) => RestFrom(s, n, n) \o t = t
         /\ \A i \in 0..n : IsSeq(RestFrom(s, n, i))
         /\ \A i \in 1..n : RestFrom(s, n, i - 1) = <<s[i]>> \o RestFrom(s, n, i)
<1>1. ASSUME NEW i \in 0..n
      PROVE  /\ IsSeq(RestFrom(s, n, i)) /\ Len(RestFrom(s, n, i)) = n - i
             /\ \A j \in 1..(n - i) : RestFrom(s, n, i)[j] = s[i + j]
  <2> DEFINE f == RestFrom(s, n, i)
             m == n - i
  <2>1. m \in Nat
    OBVIOUS
  <2>2. f = [j \in 1..m |-> f[j]] /\ \A j \in 1..m : f[j] = s[i + j]
    BY DEF RestFrom
  <2> HIDE DEF f, m
  <2>3. IsSeq(f) /\ Len(f) = m
    BY <2>1, <2>2, ListIsSeq
  <2> QED BY <2>2, <2>3 DEF f, m
<1>2. RestFrom(s, n, 0) = s
  <2>1. [j \in 1..(n - 0) |-> s[0 + j]] = [i \in 1..n |-> s[i]]
    OBVIOUS
  <2> QED BY <2>1 DEF RestFrom
<1>3. ASSUME NEW t, IsSeq(t) PROVE RestFrom(s, n, n) \o t = t
  <2>1. RestFrom(s, n, n) = <<>>
    <3>1. n - n = 0 /\ n \in 0..n
      OBVIOUS
    <3>2. IsSeq(RestFrom(s, n, n)) /\ Len(RestFrom(s, n, n)) = 0
      BY <1>1, <3>1
    <3> QED BY <3>2, EmptySeq DEF IsSeq
  <2> QED BY <1>3, <2>1, EmptyConcat
<1>4. ASSUME NEW i \in 1..n PROVE RestFrom(s, n, i - 1) = <<s[i]>> \o RestFrom(s, n, i)
  <2> DEFINE a == RestFrom(s, n, i - 1)
             b == RestFrom(s, n, i)
             one == <<s[i]>>
  <2>1. i - 1 \in 0..n /\ i \in 0..n /\ n - (i - 1) = (n - i) + 1 /\ n - i \in Nat
    OBVIOUS
  <2>2. /\ IsSeq(a) /\ Len(a) = (n - i) + 1
        /\ \A j \in 1..((n - i) + 1) : a[j] = s[(i - 1) + j]
    BY <1>1, <2>1
  <2>3. IsSeq(b) /\ Len(b) = n - i /\ \A j \in 1..(n - i) : b[j] = s[i + j]
    BY <1>1, <2>1
  <2>4. IsSeq(one) /\ Len(one) = 1 /\ one[1] = s[i]
    BY Tuples
  <2> HIDE DEF a, b, one
  <2> DEFINE c == one \o b
  <2>5. /\ IsSeq(c) /\ Len(c) = 1 + (n - i)
        /\ \A j \in 1..(1 + (n - i)) : c[j] = IF j <= 1 THEN one[j] ELSE b[j - 1]
    <3>1. /\ IsSeq(one \o b) /\ Len(one \o b) = Len(one) + Len(b)
          /\ \A j \in 1..(Len(one) + Len(b)) :
               (one \o b)[j] = IF j <= Len(one) THEN one[j] ELSE b[j - Len(one)]
      BY <2>3, <2>4, SetOfConcat
    <3> HIDE DEF c
    <3>2. c = one \o b
      BY DEF c
    <3>3. /\ IsSeq(c) /\ Len(c) = Len(one) + Len(b)
          /\ \A j \in 1..(Len(one) + Len(b)) : c[j] = IF j <= Len(one) THEN one[j] ELSE b[j - Len(one)]
      BY <3>1, <3>2
    <3> DEFINE m == n - i
    <3>4. m \in Nat /\ Len(b) = m
      BY <2>1, <2>3
    <3> HIDE DEF m
    <3>5. IsSeq(c) /\ Len(c) = 1 + m /\ \A j \in 1..(1 + m) : c[j] = IF j <= 1 THEN one[j] ELSE b[j - 1]
      BY <2>4, <3>3, <3>4
    <3> QED BY <3>5 DEF m
  <2> HIDE DEF c
  <2>6. Len(a) = Len(c)
    BY <2>1, <2>2, <2>5
  <2>7. ASSUME NEW j \in 1..Len(a) PROVE a[j] = c[j]
    <3>0. j \in 1..((n - i) + 1)
      BY <2>2
    <3>1. CASE j = 1
      <4>1. (i - 1) + j = i /\ j <= 1 /\ j \in 1..(1 + (n - i))
        BY <2>1, <3>1
      <4> QED BY <2>2, <2>4, <2>5, <3>0, <3>1, <4>1
    <3>2. CASE j # 1
      <4>1. /\ j \in 1..(1 + (n - i)) /\ ~(j <= 1) /\ j - 1 \in 1..(n - i)
            /\ i + (j - 1) = (i - 1) + j
        BY <2>1, <3>0, <3>2
      <4> QED BY <2>2, <2>3, <2>5, <3>0, <4>1
    <3> QED BY <3>1, <3>2
  <2>8. PICK U : a \in Seq(U) /\ c \in Seq(U)
    BY <2>2, <2>5, Together
  <2>9. a = c
    BY <2>6, <2>7, <2>8, SeqEqual
  <2> QED BY <2>9 DEF a, b, c, one
<1> QED BY <1>1, <1>2, <1>3, <1>4

LEMMA OneMore ==
  ASSUME NEW x, NEW s, IsSeq(s), NEW t, IsSeq(t)
  PROVE  (<<x>> \o s) \o t = <<x>> \o (s \o t)
<1> DEFINE one == <<x>>
<1>1. IsSeq(one)
  BY Tuples
<1> HIDE DEF one
<1>2. (one \o s) \o t = one \o (s \o t)
  BY <1>1, Grouped
<1> QED BY <1>2 DEF one

\* Counting down from the last to none.
LEMMA CountDown ==
  ASSUME NEW n \in Nat, NEW Good, n \in Good, \A i \in 1..n : i \in Good => i - 1 \in Good
  PROVE  0 \in Good
<1> DEFINE Bad == {k \in Nat : k <= n /\ n - k \notin Good}
<1>1. Bad = {}
  <2> SUFFICES ASSUME Bad # {} PROVE FALSE
    OBVIOUS
  <2>1. PICK k \in Bad : \A m \in Bad : k <= m
    <3>1. Bad \in SUBSET Nat
      OBVIOUS
    <3> HIDE DEF Bad
    <3> QED BY <3>1, SmallestNumber
  <2>2. k # 0
    <3>1. n - 0 = n
      OBVIOUS
    <3> QED BY <3>1
  <2>3. k - 1 \in Nat /\ ~(k <= k - 1) /\ k - 1 <= n
    BY <2>2
  <2>4. n - (k - 1) \in Good
    BY <2>1, <2>3
  <2>5. n - (k - 1) \in 1..n /\ (n - (k - 1)) - 1 = n - k
    BY <2>3
  <2>6. n - k \in Good
    BY <2>4, <2>5
  <2> QED BY <2>6
<1>2. n - n = 0
  OBVIOUS
<1> QED BY <1>1, <1>2

\* Steps that carry a disk from one to the next.
LEMMA StepsCarry ==
  ASSUME NEW n \in Nat, NEW s, s = [i \in 1..n |-> s[i]], NEW h, NEW rest, IsSeq(rest), NEW old, NEW r,
         \A i \in 1..n : /\ MayFail(s[i], h[i - 1], old)
                         /\ Possible(h[i - 1], s[i].call) => DiskAfter(h[i - 1], s[i].call) = h[i],
         Carries(rest, h[n], old, r)
  PROVE  Carries(s \o rest, h[0], old, r)
<1> DEFINE Good == {i \in 0..n : Carries(RestFrom(s, n, i) \o rest, h[i], old, r)}
<1>0. /\ RestFrom(s, n, 0) = s /\ RestFrom(s, n, n) \o rest = rest
      /\ \A i \in 0..n : IsSeq(RestFrom(s, n, i))
      /\ \A i \in 1..n : RestFrom(s, n, i - 1) = <<s[i]>> \o RestFrom(s, n, i)
  BY RestFromIs
<1>1. n \in Good
  <2>1. RestFrom(s, n, n) \o rest = rest /\ n \in 0..n
    BY <1>0
  <2>2. Carries(RestFrom(s, n, n) \o rest, h[n], old, r)
    BY <2>1, Zenon
  <2> QED BY <2>1, <2>2
<1>2. ASSUME NEW i \in 1..n, i \in Good PROVE i - 1 \in Good
  <2> DEFINE one == <<s[i]>>
             more == RestFrom(s, n, i)
  <2>1. i \in 0..n /\ i - 1 \in 0..n
    OBVIOUS
  <2>2. IsSeq(one) /\ IsSeq(more) /\ RestFrom(s, n, i - 1) = one \o more
    <3>1. IsSeq(one)
      BY Tuples
    <3> QED BY <1>0, <2>1, <3>1
  <2>3. Carries(more \o rest, h[i], old, r)
    BY <1>2
  <2> HIDE DEF more
  <2>4. IsSeq(more \o rest)
    BY <2>2, SetOfConcat
  <2> DEFINE tail == more \o rest
  <2> HIDE DEF tail
  <2>5. Carries(<<s[i]>> \o tail, h[i - 1], old, r)
    BY <2>3, <2>4, OnMore DEF tail
  <2>6. RestFrom(s, n, i - 1) \o rest = one \o tail
    <3>1. (<<s[i]>> \o more) \o rest = <<s[i]>> \o (more \o rest)
      BY <2>2, OneMore
    <3> QED BY <2>2, <3>1 DEF tail
  <2> QED BY <2>1, <2>5, <2>6
<1> HIDE DEF Good
<1>3. 0 \in Good
  BY <1>1, <1>2, CountDown
<1> QED BY <1>0, <1>3 DEF Good

\* Calls that bring a disk back from one to the next.
LEMMA CallsRestore ==
  ASSUME NEW n \in Nat, NEW s, s = [i \in 1..n |-> s[i]], NEW h, NEW rest, IsSeq(rest), NEW old,
         \A i \in 1..n : Tried(h[i - 1], s[i]) = h[i],
         Restores(rest, h[n], old)
  PROVE  Restores(s \o rest, h[0], old)
<1> DEFINE Good == {i \in 0..n : Restores(RestFrom(s, n, i) \o rest, h[i], old)}
<1>0. /\ RestFrom(s, n, 0) = s /\ RestFrom(s, n, n) \o rest = rest
      /\ \A i \in 0..n : IsSeq(RestFrom(s, n, i))
      /\ \A i \in 1..n : RestFrom(s, n, i - 1) = <<s[i]>> \o RestFrom(s, n, i)
  BY RestFromIs
<1>1. n \in Good
  <2>1. RestFrom(s, n, n) \o rest = rest /\ n \in 0..n
    BY <1>0
  <2>2. Restores(RestFrom(s, n, n) \o rest, h[n], old)
    BY <2>1, Zenon
  <2> QED BY <2>1, <2>2
<1>2. ASSUME NEW i \in 1..n, i \in Good PROVE i - 1 \in Good
  <2> DEFINE one == <<s[i]>>
             more == RestFrom(s, n, i)
  <2>1. i \in 0..n /\ i - 1 \in 0..n
    OBVIOUS
  <2>2. IsSeq(one) /\ IsSeq(more) /\ RestFrom(s, n, i - 1) = one \o more
    <3>1. IsSeq(one)
      BY Tuples
    <3> QED BY <1>0, <2>1, <3>1
  <2>3. Restores(more \o rest, h[i], old)
    BY <1>2
  <2> HIDE DEF more
  <2>4. IsSeq(more \o rest)
    BY <2>2, SetOfConcat
  <2> DEFINE tail == more \o rest
  <2> HIDE DEF tail
  <2>5. Restores(<<s[i]>> \o tail, h[i - 1], old)
    BY <2>3, <2>4, BackMore DEF tail
  <2>6. RestFrom(s, n, i - 1) \o rest = one \o tail
    <3>1. (<<s[i]>> \o more) \o rest = <<s[i]>> \o (more \o rest)
      BY <2>2, OneMore
    <3> QED BY <2>2, <3>1 DEF tail
  <2> QED BY <2>1, <2>5, <2>6
<1> HIDE DEF Good
<1>3. 0 \in Good
  BY <1>1, <1>2, CountDown
<1> QED BY <1>0, <1>3 DEF Good

\* A disk on which the first j of these files have their new texts.
Overlaid(g, texts, files, j) ==
  [q \in DOMAIN g |-> IF \E m \in 1..j : q = files[m] THEN texts[q] ELSE g[q]]

\* Two disks that differ in nothing but the texts of these n files.
Differ(g, e, files, n) ==
  /\ Disk(g) /\ Disk(e) /\ DOMAIN e = DOMAIN g
  /\ \A i \in 1..n : files[i] \in DOMAIN g
  /\ \A q \in DOMAIN g : e[q] = g[q] \/ \E m \in 1..n : q = files[m]

\* They lead from the one to the other, file by file.
Passes(g, e, files, n) ==
  /\ Overlaid(g, e, files, 0) = g /\ Overlaid(g, e, files, n) = e
  /\ \A i \in 1..n : Set(Overlaid(g, e, files, i - 1), files[i], e[files[i]]) = Overlaid(g, e, files, i)

LEMMA OverlaidIs ==
  ASSUME NEW g, NEW e, NEW n \in Nat, NEW files, Differ(g, e, files, n)
  PROVE  Passes(g, e, files, n)
<1>0. /\ Disk(g) /\ Disk(e) /\ DOMAIN e = DOMAIN g
      /\ \A i \in 1..n : files[i] \in DOMAIN g
      /\ \A q \in DOMAIN g : e[q] = g[q] \/ \E m \in 1..n : q = files[m]
  BY DEF Differ
<1>1. ASSUME NEW j PROVE /\ DOMAIN Overlaid(g, e, files, j) = DOMAIN g /\ Disk(Overlaid(g, e, files, j))
                         /\ \A q \in DOMAIN g : Overlaid(g, e, files, j)[q]
                                                  = IF \E m \in 1..j : q = files[m] THEN e[q] ELSE g[q]
  BY DEF Overlaid, Disk
<1>2. Overlaid(g, e, files, 0) = g
  <2>1. \A q \in DOMAIN g : ~ \E m \in 1..0 : q = files[m]
    OBVIOUS
  <2>2. \A q \in DOMAIN g : Overlaid(g, e, files, 0)[q] = g[q]
    BY <1>1, <2>1
  <2> QED BY <1>0, <1>1, <2>2, SameDisk
<1>3. Overlaid(g, e, files, n) = e
  <2>1. \A q \in DOMAIN g : Overlaid(g, e, files, n)[q] = e[q]
    BY <1>0, <1>1
  <2> QED BY <1>0, <1>1, <2>1, SameDisk
<1>4. ASSUME NEW i \in 1..n
      PROVE  Set(Overlaid(g, e, files, i - 1), files[i], e[files[i]]) = Overlaid(g, e, files, i)
  <2> DEFINE a == Overlaid(g, e, files, i - 1)
             b == Overlaid(g, e, files, i)
             c == Set(a, files[i], e[files[i]])
  <2>1. DOMAIN a = DOMAIN g /\ DOMAIN b = DOMAIN g /\ Disk(b) /\ files[i] \in DOMAIN g
    BY <1>0, <1>1
  <2>2. ASSUME NEW q \in DOMAIN g PROVE b[q] = IF q = files[i] THEN e[q] ELSE a[q]
    <3>1. (\E m \in 1..i : q = files[m]) <=> q = files[i] \/ \E m \in 1..(i - 1) : q = files[m]
      <4>1. \A m \in 1..i : m = i \/ m \in 1..(i - 1)
        OBVIOUS
      <4>2. i \in 1..i /\ \A m \in 1..(i - 1) : m \in 1..i
        OBVIOUS
      <4> QED BY <4>1, <4>2
    <3>2. a[q] = IF \E m \in 1..(i - 1) : q = files[m] THEN e[q] ELSE g[q]
      BY <1>1
    <3>3. b[q] = IF \E m \in 1..i : q = files[m] THEN e[q] ELSE g[q]
      BY <1>1
    <3> HIDE DEF a, b
    <3> QED BY <3>1, <3>2, <3>3
  <2>3. Disk(c) /\ DOMAIN c = DOMAIN g /\ \A q \in DOMAIN g : c[q] = IF q = files[i] THEN e[files[i]] ELSE a[q]
    <3> HIDE DEF a
    <3>1. Disk(c)
      BY DisksMade
    <3>2. DOMAIN c = DOMAIN a \cup {files[i]} /\ \A q \in DOMAIN c : c[q] = IF q = files[i] THEN e[files[i]] ELSE a[q]
      BY DEF Set
    <3> HIDE DEF c
    <3> QED BY <2>1, <3>1, <3>2
  <2> HIDE DEF a, b, c
  <2>4. c = b
    BY <2>1, <2>2, <2>3, SameDisk
  <2> QED BY <2>4 DEF a, b, c
<1> QED BY <1>2, <1>3, <1>4 DEF Passes

\* Writing their old texts brings the files back.
LEMMA PutsRestore ==
  ASSUME NEW n \in Nat, NEW s, s = [i \in 1..n |-> s[i]], NEW files, NEW f, NEW g,
         Differ(g, f, files, n), \A i \in 1..n : s[i] = Put(files[i], f[files[i]]),
         NEW rest, IsSeq(rest), NEW old, Restores(rest, f, old)
  PROVE  Restores(s \o rest, g, old)
<1> DEFINE h == [i \in 0..n |-> Overlaid(g, f, files, i)]
<1>0. Passes(g, f, files, n)
  BY OverlaidIs
<1>1. /\ Overlaid(g, f, files, 0) = g /\ Overlaid(g, f, files, n) = f
      /\ \A i \in 1..n : Set(Overlaid(g, f, files, i - 1), files[i], f[files[i]]) = Overlaid(g, f, files, i)
  BY <1>0 DEF Passes
<1>2. h[0] = g /\ h[n] = f
  BY <1>1
<1>3. ASSUME NEW i \in 1..n PROVE Tried(h[i - 1], s[i]) = h[i]
  <2>1. h[i - 1] = Overlaid(g, f, files, i - 1) /\ h[i] = Overlaid(g, f, files, i)
    OBVIOUS
  <2> HIDE DEF h
  <2>2. Tried(h[i - 1], Put(files[i], f[files[i]])) = Set(h[i - 1], files[i], f[files[i]])
    BY PutIs
  <2> QED BY <1>1, <2>1, <2>2
<1> HIDE DEF h
<1>4. Restores(rest, h[n], old)
  BY <1>2
<1>5. Restores(s \o rest, h[0], old)
  BY <1>3, <1>4, CallsRestore
<1> QED BY <1>2, <1>5

\* Writing their new texts leads on.
LEMMA PutsCarry ==
  ASSUME NEW n \in Nat, NEW s, s = [i \in 1..n |-> s[i]], NEW files, NEW f, NEW e,
         Differ(f, e, files, n), NEW old, NEW r,
         \A i \in 1..n : s[i].call = Put(files[i], e[files[i]]) /\ MayFail(s[i], Overlaid(f, e, files, i - 1), old),
         NEW rest, IsSeq(rest), Carries(rest, e, old, r)
  PROVE  Carries(s \o rest, f, old, r)
<1> DEFINE h == [i \in 0..n |-> Overlaid(f, e, files, i)]
<1>0. Passes(f, e, files, n)
  BY OverlaidIs
<1>1. /\ Overlaid(f, e, files, 0) = f /\ Overlaid(f, e, files, n) = e
      /\ \A i \in 1..n : Set(Overlaid(f, e, files, i - 1), files[i], e[files[i]]) = Overlaid(f, e, files, i)
  BY <1>0 DEF Passes
<1>2. h[0] = f /\ h[n] = e
  BY <1>1
<1>3. ASSUME NEW i \in 1..n PROVE MayFail(s[i], h[i - 1], old) /\ DiskAfter(h[i - 1], s[i].call) = h[i]
  <2>1. h[i - 1] = Overlaid(f, e, files, i - 1) /\ h[i] = Overlaid(f, e, files, i)
    OBVIOUS
  <2> HIDE DEF h
  <2>2. DiskAfter(h[i - 1], Put(files[i], e[files[i]])) = Set(h[i - 1], files[i], e[files[i]])
    BY PutIs
  <2> QED BY <1>1, <2>1, <2>2
<1> HIDE DEF h
<1>4. Carries(rest, h[n], old, r)
  BY <1>2
<1>5. Carries(s \o rest, h[0], old, r)
  BY <1>3, <1>4, StepsCarry
<1> QED BY <1>2, <1>5

-----------------------------------------------------------------------------
(* A move.                                                                   *)

MoveTo(r) == Append(r.to, r.name)
AliasOf(parent) == IF parent = <<>> THEN "root" ELSE Last(parent)
OwnText(d, r) == [d[FaceFile(r.dir)] EXCEPT !.parent = r.to, !.alias = AliasOf(r.to)]
\* A child of the module says where its parent is now.
Remade(r, text) ==
  IF text.is = "face" /\ text.parent = r.dir THEN [text EXCEPT !.parent = MoveTo(r)] ELSE text
MovedText(d, r, p) == IF p = FaceFile(r.dir) THEN OwnText(d, r) ELSE Remade(r, d[p])
\* The module keeps its name, goes where a registry takes it, and the new place is free.
Moving(d, r) ==
  /\ Typed(d) /\ Tidy(d) /\ Faced(d, r.dir) /\ r.to \in Dirs /\ r.op = "move" /\ r.name = Last(r.dir)
  /\ Mountable(d, r.to) /\ ~Unsound(d, r)
  /\ Under(d, MoveTo(r)) = {} /\ ~IsPrefix(r.dir, MoveTo(r))

LEMMA MovingIs ==
  ASSUME NEW d, NEW r, Moving(d, r)
  PROVE  /\ r.dir \in Dirs \ {<<>>} /\ MoveTo(r) \in Dirs \ {<<>>} /\ r.to \in Dirs
         /\ Last(MoveTo(r)) = Last(r.dir) /\ Last(r.dir) # "registry_rule" /\ Front(MoveTo(r)) = r.to
         /\ Apart(r.dir, MoveTo(r)) /\ ~IsPrefix(r.dir, r.to) /\ ~IsPrefix(MoveTo(r), r.to)
         /\ FaceFile(MoveTo(r)) = New(r.dir, MoveTo(r), FaceFile(r.dir))
         /\ FaceFile(r.dir) \in DOMAIN d /\ d[FaceFile(r.dir)] \in FaceTexts
<1> DEFINE dir == r.dir
           to == MoveTo(r)
           face == FaceFile(dir)
<1>1. /\ dir \in Dirs \ {<<>>} /\ face \in DOMAIN d /\ d[face] \in FaceTexts /\ face.dir = dir
      /\ r.name = Last(dir) /\ r.to \in Dirs /\ Typed(d) /\ Under(d, to) = {} /\ ~IsPrefix(dir, to)
  BY FaceFileIs DEF Moving, Faced
<1>2. FreshName(r.name)
  BY FacedName DEF Moving
<1>3. to \in Dirs \ {<<>>} /\ Front(to) = r.to /\ Last(to) = r.name
  BY <1>1, <1>2, AppendIs DEF MoveTo, FreshName
<1> HIDE DEF to, face, dir
<1>4. ~IsPrefix(to, dir)
  BY <1>1, <1>3, NothingUnder
<1>5. ~IsPrefix(dir, r.to) /\ ~IsPrefix(to, r.to)
  BY <1>1, <1>3, PrefixOfFront
<1>6. FaceFile(to) = New(dir, to, FaceFile(dir))
  <2>1. New(dir, to, FaceFile(dir)) = At(to, Last(dir))
    BY <1>1, <1>3, NewFace
  <2> QED BY <1>1, <1>3, <2>1, FaceFileIs
<1> QED BY <1>1, <1>2, <1>3, <1>4, <1>5, <1>6 DEF to, face, dir, FreshName, Apart

LEMMA OwnTextIs ==
  ASSUME NEW d, NEW r, Moving(d, r)
  PROVE  LET old == d[FaceFile(r.dir)]
             text == OwnText(d, r)
         IN /\ text \in FaceTexts /\ text.is = "face" /\ text.kind = old.kind /\ text.owns = old.owns
            /\ text.names = old.names /\ text.parent = r.to /\ text.alias = AliasOf(r.to)
<1> DEFINE old == d[FaceFile(r.dir)]
           alias == AliasOf(r.to)
           parent == r.to
<1>1. old \in FaceTexts /\ parent \in Dirs
  BY MovingIs
<1>2. alias \in Words
  BY <1>1, DirParts DEF AliasOf, Words
<1>3. OwnText(d, r) = [old EXCEPT !.parent = parent, !.alias = alias]
  BY DEF OwnText
<1> DEFINE half == [old EXCEPT !.parent = parent]
           text == [half EXCEPT !.alias = alias]
<1>4. [old EXCEPT !.parent = parent, !.alias = alias] = text
  OBVIOUS
<1>5. parent \in Seq(Words)
  BY <1>1 DEF Dirs
<1> HIDE DEF old, alias, parent, half, text
<1>6. /\ half \in FaceTexts /\ half.is = "face" /\ half.kind = old.kind /\ half.owns = old.owns
      /\ half.names = old.names /\ half.parent = parent
  BY <1>1, <1>5 DEF half, FaceTexts
<1>7. /\ text \in FaceTexts /\ text.is = "face" /\ text.kind = half.kind /\ text.owns = half.owns
      /\ text.names = half.names /\ text.parent = half.parent /\ text.alias = alias
  BY <1>2, <1>6 DEF text, FaceTexts
<1>8. OwnText(d, r) = text
  BY <1>3, <1>4
<1> QED BY <1>6, <1>7, <1>8 DEF old, alias, parent

LEMMA RemadeIs ==
  ASSUME NEW r, MoveTo(r) \in Dirs, NEW text \in FaceTexts
  PROVE  LET more == Remade(r, text)
         IN /\ more \in FaceTexts /\ more.is = "face" /\ more.kind = text.kind /\ more.owns = text.owns
            /\ more.names = text.names /\ more.alias = text.alias
            /\ more.parent = IF text.parent = r.dir THEN MoveTo(r) ELSE text.parent
<1> DEFINE to == MoveTo(r)
           more == [text EXCEPT !.parent = to]
<1>1. to \in Seq(Words)
  BY DEF Dirs
<1> HIDE DEF to
<1>2. /\ more \in FaceTexts /\ more.is = "face" /\ more.kind = text.kind /\ more.owns = text.owns
      /\ more.names = text.names /\ more.alias = text.alias /\ more.parent = to
  BY <1>1 DEF FaceTexts
<1>3. text.is = "face"
  BY DEF FaceTexts
<1>4. CASE text.parent = r.dir
  <2>1. Remade(r, text) = more
    BY <1>3, <1>4 DEF Remade, to
  <2> HIDE DEF more
  <2> QED BY <1>2, <1>4, <2>1 DEF to
<1>5. CASE text.parent # r.dir
  <2>1. Remade(r, text) = text
    BY <1>5 DEF Remade
  <2> QED BY <1>3, <1>5, <2>1
<1> QED BY <1>4, <1>5

\* What a face of the moved tree says.
LEMMA MovedTextIs ==
  ASSUME NEW d, NEW r, Moving(d, r), NEW p \in DOMAIN d, d[p].is = "face"
  PROVE  LET text == MovedText(d, r, p)
             place == New(r.dir, MoveTo(r), p)
         IN /\ text \in FaceTexts /\ Follows(text, d[p], place) /\ text.kind = d[p].kind
            /\ p # FaceFile(r.dir) => /\ text.alias = d[p].alias
                                      /\ text.parent = Atomic!Rebased(r.dir, MoveTo(r), d[p].parent)
            /\ p = FaceFile(r.dir) => text.alias = AliasOf(r.to) /\ text.parent = r.to
<1> DEFINE text == MovedText(d, r, p)
           dir == r.dir
           to == MoveTo(r)
           above == d[p].parent
           place == New(dir, to, p)
<1>1. /\ p.dir \in Dirs \ {<<>>} /\ p = FaceFile(p.dir) /\ d[p] \in FaceTexts
      /\ above = Front(p.dir) /\ d[p].names = d[p].owns /\ d[p].is = "face" /\ above \in Dirs
  <2>1. /\ p.dir \in Dirs \ {<<>>} /\ p = FaceFile(p.dir) /\ d[p] \in FaceTexts
        /\ above = Front(p.dir) /\ d[p].names = d[p].owns
    BY FacesInOrder DEF Moving
  <2> QED BY <2>1, FrontIs
<1>2. /\ dir \in Dirs \ {<<>>} /\ to \in Dirs \ {<<>>} /\ r.to \in Dirs /\ Front(to) = r.to
      /\ FaceFile(to) = New(dir, to, FaceFile(dir))
  BY MovingIs
<1>3. place.dir = Atomic!Rebased(dir, to, p.dir)
  BY <1>1, <1>2, NewParts DEF Moving, Typed
<1>4. CASE p = FaceFile(dir)
  <2>1. text = OwnText(d, r)
    BY <1>4 DEF MovedText
  <2>2. /\ text \in FaceTexts /\ text.is = "face" /\ text.kind = d[p].kind /\ text.owns = d[p].owns
        /\ text.names = d[p].names /\ text.parent = r.to /\ text.alias = AliasOf(r.to)
    <3> HIDE DEF text
    <3> QED BY <1>4, <2>1, OwnTextIs
  <2>3. place.dir = to
    BY <1>2, <1>4, FaceFileIs
  <2> HIDE DEF text, place
  <2>4. Follows(text, d[p], place)
    BY <1>1, <1>2, <2>2, <2>3 DEF Follows
  <2> QED BY <1>4, <2>2, <2>4 DEF text, place
<1>5. CASE p # FaceFile(dir)
  <2>1. text = Remade(r, d[p])
    BY <1>5 DEF MovedText
  <2>2. /\ text \in FaceTexts /\ text.is = "face" /\ text.kind = d[p].kind /\ text.owns = d[p].owns
        /\ text.names = d[p].names /\ text.alias = d[p].alias
        /\ text.parent = IF above = dir THEN to ELSE above
    <3> HIDE DEF text
    <3> QED BY <1>1, <1>2, <2>1, RemadeIs
  <2>3. p.dir # dir
    BY <1>1, <1>5
  <2>4. Front(place.dir) = Atomic!Rebased(dir, to, above)
    <3> DEFINE own == p.dir
    <3>1. own \in Dirs \ {<<>>} /\ own # dir /\ above = Front(own) /\ place.dir = Atomic!Rebased(dir, to, own)
      BY <1>1, <1>3, <2>3
    <3> HIDE DEF own, above, place, to, dir
    <3> QED BY <1>2, <3>1, RebasedShape
  <2>5. text.parent = Atomic!Rebased(dir, to, above)
    <3>1. CASE above = dir
      <4>1. Atomic!Rebased(dir, to, dir) = to
        <5> HIDE DEF dir, to
        <5> QED BY <1>2, RebasedItself
      <4> QED BY <2>2, <3>1, <4>1
    <3>2. CASE above # dir
      <4>1. ~IsPrefix(dir, above)
        <5>1. p \in Standard(d)
          BY <1>1, FaceFileIs DEF Standard
        <5>2. ~(Len(above) > Len(dir) /\ IsPrefix(dir, above))
          BY <5>1 DEF Moving, Unsound
        <5> SUFFICES ASSUME IsPrefix(dir, above) PROVE FALSE
          OBVIOUS
        <5> HIDE DEF above, dir
        <5>3. above \in Seq(Words) /\ dir \in Seq(Words) /\ Len(above) \in Nat /\ Len(dir) \in Nat
          BY <1>1, <1>2, LenProperties DEF Dirs
        <5>4. Len(dir) <= Len(above) /\ \A i \in 1..Len(dir) : dir[i] = above[i]
          BY <5>3, PrefixPointwise
        <5>5. Len(dir) = Len(above)
          BY <5>2, <5>3, <5>4
        <5>6. dir = above
          BY <5>3, <5>4, <5>5, SeqEqual
        <5> QED BY <3>2, <5>6
      <4>2. Atomic!Rebased(dir, to, above) = above
        BY <4>1, RebasedElsewhere
      <4> QED BY <2>2, <3>2, <4>2
    <3> QED BY <3>1, <3>2
  <2> HIDE DEF text, place, above
  <2>6. Follows(text, d[p], place)
    BY <1>1, <2>2, <2>4, <2>5 DEF Follows
  <2> QED BY <1>5, <2>2, <2>5, <2>6 DEF text, place, above
<1> QED BY <1>4, <1>5

\* The tree as a move leaves it, and the note in it.
MoveMade(d, r) ==
  LET c == Carried(d, r.dir, MoveTo(r))
  IN [q \in DOMAIN c |-> IF q = FaceFile(MoveTo(r)) THEN OwnText(d, r) ELSE Remade(r, c[q])]
Noted(e) == Set(e, MoveNote, [is |-> "note"])

LEMMA RootStays ==
  ASSUME NEW from \in Dirs \ {<<>>}, NEW to \in Dirs \ {<<>>}, NEW p \in Places
  PROVE  /\ p.dir = <<>> => New(from, to, p) = p
         /\ p.dir # <<>> => New(from, to, p).dir # <<>>
<1>1. CASE p.dir = <<>>
  <2>1. ~IsPrefix(from, <<>>)
    BY EmptySeq, LenProperties DEF IsPrefix, Dirs
  <2>2. Atomic!Rebased(from, to, <<>>) = <<>>
    BY <2>1, RebasedElsewhere
  <2> QED BY <1>1, <2>2, PlaceParts DEF New
<1>2. CASE p.dir # <<>>
  <2>1. p.dir \in Dirs
    BY PlaceParts
  <2> QED BY <1>2, <2>1, RebasedTyped, NewParts
<1> QED BY <1>1, <1>2

LEMMA MadeIs ==
  ASSUME NEW d, NEW r, Moving(d, r)
  PROVE  LET e == MoveMade(d, r)
         IN /\ Disk(e) /\ Typed(e) /\ DOMAIN e = DOMAIN Carried(d, r.dir, MoveTo(r))
            /\ \A p \in DOMAIN d : /\ New(r.dir, MoveTo(r), p) \in DOMAIN e
                                   /\ e[New(r.dir, MoveTo(r), p)] = MovedText(d, r, p)
            /\ \A q \in DOMAIN e : \E p \in DOMAIN d : q = New(r.dir, MoveTo(r), p)
<1> DEFINE dir == r.dir
           to == MoveTo(r)
           c == Carried(d, dir, to)
           e == MoveMade(d, r)
<1>1. /\ dir \in Dirs \ {<<>>} /\ to \in Dirs \ {<<>>} /\ Typed(d) /\ Under(d, to) = {}
      /\ FaceFile(to) = New(dir, to, FaceFile(dir)) /\ FaceFile(dir) \in DOMAIN d
  BY MovingIs DEF Moving
<1>2. /\ DOMAIN e = DOMAIN c /\ e = [q \in DOMAIN e |-> e[q]]
      /\ \A q \in DOMAIN c : e[q] = IF q = FaceFile(to) THEN OwnText(d, r) ELSE Remade(r, c[q])
  BY DEF MoveMade
<1> HIDE DEF e
<1>3. /\ \A p \in DOMAIN d : New(dir, to, p) \in DOMAIN c /\ c[New(dir, to, p)] = d[p]
      /\ \A q \in DOMAIN c : \E p \in DOMAIN d : q = New(dir, to, p)
      /\ \A p, q \in DOMAIN d : New(dir, to, p) = New(dir, to, q) => p = q
      /\ Typed(c)
  <2> HIDE DEF dir, to
  <2> QED BY <1>1, CarriedKeeps, CarriedTyped
<1>4. ASSUME NEW p \in DOMAIN d PROVE New(dir, to, p) \in DOMAIN e /\ e[New(dir, to, p)] = MovedText(d, r, p)
  <2> DEFINE q == New(dir, to, p)
  <2>1. q \in DOMAIN c /\ c[q] = d[p] /\ (q = FaceFile(to) <=> p = FaceFile(dir))
    BY <1>1, <1>3
  <2> HIDE DEF q, c, to
  <2>2. e[q] = IF q = FaceFile(to) THEN OwnText(d, r) ELSE Remade(r, d[p])
    BY <1>2, <2>1
  <2> QED BY <1>2, <2>1, <2>2 DEF MovedText, q
<1>5. Typed(e)
  <2>1. IsFiniteSet(DOMAIN e) /\ \A q \in DOMAIN e : q \in Places
    BY <1>2, <1>3 DEF Typed
  <2>2. ASSUME NEW q \in DOMAIN e, e[q].is = "face" PROVE e[q] \in FaceTexts /\ FacePlace(q)
    <3>1. PICK p \in DOMAIN d : q = New(dir, to, p)
      BY <1>2, <1>3
    <3>2. e[q] = MovedText(d, r, p) /\ c[q] = d[p] /\ q \in DOMAIN c
      BY <1>3, <1>4, <3>1
    <3>3. d[p].is = "face"
      <4> SUFFICES ASSUME d[p].is # "face" PROVE FALSE
        OBVIOUS
      <4>1. p # FaceFile(dir)
        BY MovingIs DEF FaceTexts
      <4>2. MovedText(d, r, p) = d[p]
        BY <4>1 DEF MovedText, Remade
      <4> QED BY <2>2, <3>2, <4>2
    <3>4. MovedText(d, r, p) \in FaceTexts
      BY <3>3, MovedTextIs
    <3>5. FacePlace(q)
      BY <1>3, <3>2, <3>3 DEF Typed
    <3> QED BY <3>2, <3>4, <3>5
  <2> QED BY <2>1, <2>2 DEF Typed
<1> QED BY <1>2, <1>3, <1>4, <1>5 DEF Disk, e, dir, to, c

LEMMA NotedIs ==
  ASSUME NEW e, Typed(e)
  PROVE  /\ Typed(Noted(e)) /\ Disk(Noted(e)) /\ DOMAIN Noted(e) = DOMAIN e \cup {MoveNote}
         /\ Noted(e)[MoveNote] = [is |-> "note"]
         /\ \A q \in DOMAIN e : q # MoveNote => Noted(e)[q] = e[q]
<1> DEFINE text == [is |-> "note"]
<1>1. MoveNote \in Places /\ text.is # "face"
  BY OtherPlaces
<1> HIDE DEF text
<1>2. Typed(Set(e, MoveNote, text)) /\ Disk(Set(e, MoveNote, text))
  BY <1>1, SetTyped, DisksMade
<1>3. /\ DOMAIN Set(e, MoveNote, text) = DOMAIN e \cup {MoveNote} /\ Set(e, MoveNote, text)[MoveNote] = text
      /\ \A q \in DOMAIN e : q # MoveNote => Set(e, MoveNote, text)[q] = e[q]
  BY DEF Set
<1>4. Noted(e) = Set(e, MoveNote, text)
  BY DEF Noted, text
<1> HIDE DEF Noted
<1> QED BY <1>2, <1>3, <1>4 DEF text

\* What a move leaves behind is the tree with its module at the other place.
LEMMA MoveRelocates ==
  ASSUME NEW d, NEW r, Moving(d, r)
  PROVE  /\ Relocating(d, Noted(MoveMade(d, r)), r.dir, MoveTo(r))
         /\ \A p \in DOMAIN d : p.dir # <<>> =>
              Noted(MoveMade(d, r))[New(r.dir, MoveTo(r), p)] = MovedText(d, r, p)
<1> DEFINE dir == r.dir
           to == MoveTo(r)
           e == MoveMade(d, r)
           f == Noted(e)
<1>1. /\ dir \in Dirs \ {<<>>} /\ to \in Dirs \ {<<>>} /\ Typed(d) /\ Tidy(d) /\ Under(d, to) = {}
      /\ FaceFile(to) = New(dir, to, FaceFile(dir)) /\ Last(to) = Last(dir) /\ Last(dir) # "registry_rule"
  BY MovingIs DEF Moving
<1>2. /\ Disk(e) /\ Typed(e)
      /\ \A p \in DOMAIN d : New(dir, to, p) \in DOMAIN e /\ e[New(dir, to, p)] = MovedText(d, r, p)
      /\ \A q \in DOMAIN e : \E p \in DOMAIN d : q = New(dir, to, p)
  BY MadeIs
<1> HIDE DEF e
<1>3. /\ Typed(f) /\ Disk(f) /\ DOMAIN f = DOMAIN e \cup {MoveNote} /\ f[MoveNote] = [is |-> "note"]
      /\ \A q \in DOMAIN e : q # MoveNote => f[q] = e[q]
  BY <1>2, NotedIs
<1> HIDE DEF f, to, dir
<1>4. \A p \in DOMAIN d : p \in Places
  BY <1>1 DEF Typed
<1>5. \A p \in DOMAIN d : /\ p.dir = <<>> => New(dir, to, p) = p
                          /\ p.dir # <<>> => New(dir, to, p).dir # <<>>
                          /\ Spot(dir, to, p) = New(dir, to, p)
  BY <1>1, <1>4, RootStays DEF Spot
<1>6. MoveNote.dir = <<>>
  BY RootPlaces
<1>7. \A p \in DOMAIN d : p.dir # <<>> => /\ New(dir, to, p) \in DOMAIN f /\ f[New(dir, to, p)] = MovedText(d, r, p)
                                          /\ New(dir, to, p) # MoveNote
  BY <1>2, <1>3, <1>5, <1>6
<1>8. \A p \in DOMAIN d : d[p].is # "face" => MovedText(d, r, p) = d[p]
  BY MovingIs DEF FaceTexts, MovedText, Remade
<1>9. \A p \in DOMAIN d : p.dir = <<>> => d[p].is # "face"
  BY <1>1 DEF Typed, FacePlace
<1>10. ASSUME NEW q, q.dir = <<>>, q # MoveNote
       PROVE  (q \in DOMAIN f <=> q \in DOMAIN d) /\ (q \in DOMAIN d => f[q] = d[q])
  <2>1. ASSUME q \in DOMAIN d PROVE q \in DOMAIN f /\ f[q] = d[q]
    <3>1. New(dir, to, q) = q /\ MovedText(d, r, q) = d[q]
      BY <1>5, <1>8, <1>9, <1>10, <2>1
    <3> QED BY <1>2, <1>3, <1>10, <2>1, <3>1
  <2>2. ASSUME q \in DOMAIN f PROVE q \in DOMAIN d
    <3>1. PICK p \in DOMAIN d : q = New(dir, to, p)
      BY <1>2, <1>3, <1>10, <2>2
    <3> QED BY <1>5, <1>10, <3>1
  <2> QED BY <2>1, <2>2
<1>11. Relocated(d, f, dir, to)
  <2>1. \A p \in DOMAIN d : p.dir # <<>> =>
          /\ Spot(dir, to, p) \in DOMAIN f
          /\ d[p].is = "face" => Follows(f[Spot(dir, to, p)], d[p], Spot(dir, to, p))
          /\ d[p].is # "face" => f[Spot(dir, to, p)] = d[p]
    <3> SUFFICES ASSUME NEW p \in DOMAIN d, p.dir # <<>>
                 PROVE  /\ New(dir, to, p) \in DOMAIN f
                        /\ d[p].is = "face" => Follows(f[New(dir, to, p)], d[p], New(dir, to, p))
                        /\ d[p].is # "face" => f[New(dir, to, p)] = d[p]
      BY <1>5
    <3>1. New(dir, to, p) \in DOMAIN f /\ f[New(dir, to, p)] = MovedText(d, r, p)
      BY <1>7
    <3>2. d[p].is = "face" => Follows(MovedText(d, r, p), d[p], New(dir, to, p))
      BY MovedTextIs DEF dir, to
    <3> QED BY <1>8, <3>1, <3>2
  <2>2. \A q \in DOMAIN f : q.dir # <<>> => \E p \in DOMAIN d : p.dir # <<>> /\ q = Spot(dir, to, p)
    <3> SUFFICES ASSUME NEW q \in DOMAIN f, q.dir # <<>>
                 PROVE  \E p \in DOMAIN d : p.dir # <<>> /\ q = Spot(dir, to, p)
      OBVIOUS
    <3>1. PICK p \in DOMAIN d : q = New(dir, to, p)
      BY <1>2, <1>3, <1>6
    <3> QED BY <1>5, <3>1
  <2>3. \A q \in {Entry, Record, Anchor, Lock} : (q \in DOMAIN f <=> q \in DOMAIN d) /\ (q \in DOMAIN d => f[q] = d[q])
    <3>1. \A q \in {Entry, Record, Anchor, Lock} : q.dir = <<>> /\ q # MoveNote
      BY RootPlaces
    <3> QED BY <1>10, <3>1
  <2>4. \A q \in DOMAIN f : q.dir = <<>> => f[q].is \notin {"torn", "rule"}
    <3> SUFFICES ASSUME NEW q \in DOMAIN f, q.dir = <<>> PROVE f[q].is \notin {"torn", "rule"}
      OBVIOUS
    <3>1. CASE q = MoveNote
      BY <1>3, <3>1
    <3>2. CASE q # MoveNote
      <4>1. q \in DOMAIN d /\ f[q] = d[q]
        BY <1>10, <3>2
      <4> QED BY <1>1, <4>1 DEF Tidy, Proper
    <3> QED BY <3>1, <3>2
  <2> QED BY <2>1, <2>2, <2>3, <2>4 DEF Relocated
<1> QED BY <1>1, <1>3, <1>7, <1>11 DEF Relocating, f, e, to, dir

\* A face whose parent line follows the renaming has its parent where it says.
LEMMA ParentFollows ==
  ASSUME NEW d, NEW e, NEW from, NEW to, Relocating(d, e, from, to), NEW x \in Dirs, NEW text,
         x # <<>> => /\ IsFace(d, FaceFile(x)) /\ d[FaceFile(x)].owns
                     /\ RuleOf(d, x) = "strict" => text.kind = "k1",
         text.parent = Atomic!Rebased(from, to, x), text.alias = AliasOf(text.parent)
  PROVE  Parented(e, text)
<1> DEFINE y == Atomic!Rebased(from, to, x)
<1>1. from \in Dirs \ {<<>>} /\ to \in Dirs \ {<<>>} /\ Under(d, to) = {} /\ Typed(d)
  BY DEF Relocating
<1>2. text.alias = IF text.parent = <<>> THEN "root" ELSE Last(text.parent)
  BY DEF AliasOf
<1>3. CASE x = <<>>
  <2>1. ~IsPrefix(from, <<>>)
    BY <1>1, EmptySeq, LenProperties DEF IsPrefix, Dirs
  <2>2. text.parent = <<>>
    BY <1>3, <2>1, RebasedElsewhere
  <2> QED BY <1>2, <2>2 DEF Parented
<1>4. CASE x # <<>>
  <2>1. FaceFile(x) \in DOMAIN d /\ FaceFile(x).dir = x
    BY <1>4, FaceFileIs DEF IsFace
  <2>2. ~IsPrefix(to, FaceFile(x).dir)
    BY <1>1, <2>1, NothingUnder
  <2>3. ~IsPrefix(to, x) /\ x \in Dirs \ {<<>>}
    BY <1>4, <2>1, <2>2
  <2>4. IsFace(e, FaceFile(y)) /\ e[FaceFile(y)].owns = d[FaceFile(x)].owns /\ RuleOf(e, y) = RuleOf(d, x)
    BY <1>4, <2>3, RelocatedModule
  <2> HIDE DEF y
  <2>5. text.parent = y
    BY DEF y
  <2> QED BY <1>2, <1>4, <2>4, <2>5 DEF Parented
<1> QED BY <1>3, <1>4

LEMMA MoveLoads ==
  ASSUME NEW d, NEW r, Moving(d, r)
  PROVE  Loads(Noted(MoveMade(d, r)))
<1> DEFINE dir == r.dir
           to == MoveTo(r)
           f == Noted(MoveMade(d, r))
<1>1. /\ Relocating(d, f, dir, to)
      /\ \A p \in DOMAIN d : p.dir # <<>> => f[New(dir, to, p)] = MovedText(d, r, p)
  BY MoveRelocates
<1>2. /\ dir \in Dirs \ {<<>>} /\ to \in Dirs \ {<<>>} /\ r.to \in Dirs /\ Typed(d) /\ Tidy(d)
      /\ FaceFile(to) = New(dir, to, FaceFile(dir)) /\ ~IsPrefix(dir, r.to) /\ Last(to) = Last(dir)
  BY MovingIs DEF Moving
<1> HIDE DEF f
<1>3. ASSUME NEW q \in DOMAIN f, f[q].is \in {"face", "torn"}, q.dir # <<>>
      PROVE  f[q].is = "face" /\ Parented(f, f[q])
  <2>1. PICK p \in DOMAIN d : p.dir # <<>> /\ q = Spot(dir, to, p)
    BY <1>1, <1>3 DEF Relocating, Relocated
  <2>2. q = New(dir, to, p)
    BY <1>2, <2>1 DEF Spot
  <2>3. f[q] = MovedText(d, r, p)
    BY <1>1, <2>1, <2>2
  <2>4. d[p].is = "face"
    <3> SUFFICES ASSUME d[p].is # "face" PROVE FALSE
      OBVIOUS
    <3>1. MovedText(d, r, p) = d[p]
      BY MovingIs DEF FaceTexts, MovedText, Remade
    <3> QED BY <1>2, <1>3, <2>3, <3>1 DEF Tidy, Proper
  <2> DEFINE text == MovedText(d, r, p)
             above == d[p].parent
  <2>5. /\ text.is = "face" /\ text.kind = d[p].kind
        /\ p # FaceFile(dir) => text.alias = d[p].alias /\ text.parent = Atomic!Rebased(dir, to, above)
        /\ p = FaceFile(dir) => text.alias = AliasOf(r.to) /\ text.parent = r.to
    BY <2>4, MovedTextIs DEF Follows
  <2> HIDE DEF text, to, dir
  <2>6. CASE p = FaceFile(dir)
    <3> DEFINE x == r.to
    <3>1. Atomic!Rebased(dir, to, x) = x
      BY <1>2, RebasedElsewhere
    <3>2. x # <<>> => /\ IsFace(d, FaceFile(x)) /\ d[FaceFile(x)].owns
                      /\ RuleOf(d, x) = "strict" => text.kind = "k1"
      BY <2>5, <2>6 DEF Moving, Mountable, Unsound, dir
    <3>3. text.parent = Atomic!Rebased(dir, to, x) /\ text.alias = AliasOf(text.parent) /\ x \in Dirs
      BY <1>2, <2>5, <2>6, <3>1
    <3> HIDE DEF x
    <3>4. Parented(f, text)
      BY <1>1, <3>2, <3>3, ParentFollows
    <3> QED BY <2>3, <2>5, <3>4 DEF text
  <2>7. CASE p # FaceFile(dir)
    <3>1. Parented(d, d[p]) /\ above = Front(p.dir) /\ p.dir \in Dirs \ {<<>>}
      BY <1>2, <2>4, FacesInOrder
    <3>2. above \in Dirs
      BY <3>1, FrontIs
    <3>3. above # <<>> => /\ IsFace(d, FaceFile(above)) /\ d[FaceFile(above)].owns
                          /\ RuleOf(d, above) = "strict" => text.kind = "k1"
      BY <2>5, <3>1 DEF Parented
    <3>4. text.alias = AliasOf(above)
      BY <2>5, <2>7, <3>1 DEF Parented, AliasOf
    <3>5. AliasOf(Atomic!Rebased(dir, to, above)) = AliasOf(above)
      <4>1. CASE above = <<>>
        <5>1. ~IsPrefix(dir, <<>>)
          BY <1>2, EmptySeq, LenProperties DEF IsPrefix, Dirs
        <5> HIDE DEF above
        <5> QED BY <4>1, <5>1, RebasedElsewhere
      <4>2. CASE above = dir
        <5>1. Atomic!Rebased(dir, to, dir) = to
          BY <1>2, RebasedItself
        <5> HIDE DEF above
        <5> QED BY <1>2, <4>2, <5>1 DEF AliasOf
      <4>3. CASE above # <<>> /\ above # dir
        <5> HIDE DEF above
        <5>1. /\ Atomic!Rebased(dir, to, above) \in Dirs \ {<<>>}
              /\ Last(Atomic!Rebased(dir, to, above)) = Last(above)
          BY <1>2, <3>2, <4>3, RebasedShape
        <5> QED BY <4>3, <5>1 DEF AliasOf
      <4> QED BY <4>1, <4>2, <4>3
    <3>6. text.parent = Atomic!Rebased(dir, to, above) /\ text.alias = AliasOf(text.parent)
      BY <2>5, <2>7, <3>4, <3>5
    <3> HIDE DEF above
    <3>7. Parented(f, text)
      BY <1>1, <3>2, <3>3, <3>6, ParentFollows
    <3> QED BY <2>3, <2>5, <3>7 DEF text
  <2> QED BY <2>6, <2>7
<1>4. Loads(f)
  BY <1>3, LoadsIs
<1> QED BY <1>4 DEF f

MovedFaces(t, r) ==
  [x \in DOMAIN t.faces |->
     LET text == t.faces[x] IN
     IF x = r.dir
     THEN [text EXCEPT !.parent = r.to, !.alias = IF r.to = <<>> THEN "root" ELSE Last(r.to)]
     ELSE IF text.parent = r.dir THEN [text EXCEPT !.parent = MoveTo(r)] ELSE text]

\* ... in order, and what the request says.
LEMMA MoveReached ==
  ASSUME NEW d, NEW r, Moving(d, r)
  PROVE  Reached(Noted(MoveMade(d, r)), d, r)
<1> DEFINE dir == r.dir
           to == MoveTo(r)
           f == Noted(MoveMade(d, r))
           t == View(d)
           F == t.faces
           R == t.rules
           H == MovedFaces(t, r)
           G == Atomic!Rekeyed(H, dir, to)
           Q == Atomic!Rekeyed(R, dir, to)
<1>1. /\ Relocating(d, f, dir, to) /\ Loads(f)
      /\ \A p \in DOMAIN d : p.dir # <<>> => f[New(dir, to, p)] = MovedText(d, r, p)
  BY MoveRelocates, MoveLoads
<1>2. /\ dir \in Dirs \ {<<>>} /\ to \in Dirs \ {<<>>} /\ Typed(d) /\ Tidy(d) /\ Under(d, to) = {}
      /\ FaceFile(to) = New(dir, to, FaceFile(dir))
  BY MovingIs DEF Moving
<1>3. ShowsFaces(F, d) /\ t = Tree(F, R, Cuts(d), Slots(d), Plugs(d))
  BY <1>2, ViewIs
<1>4. \A x \in DOMAIN F : /\ x \in Dirs \ {<<>>} /\ FaceFile(x) \in DOMAIN d /\ F[x] = d[FaceFile(x)]
                          /\ d[FaceFile(x)].is = "face" /\ FaceFile(x).dir = x /\ ~IsPrefix(to, x)
  <2> SUFFICES ASSUME NEW x \in DOMAIN F
               PROVE  /\ x \in Dirs \ {<<>>} /\ FaceFile(x) \in DOMAIN d /\ F[x] = d[FaceFile(x)]
                      /\ d[FaceFile(x)].is = "face" /\ FaceFile(x).dir = x /\ ~IsPrefix(to, x)
    OBVIOUS
  <2> HIDE DEF F, to
  <2>1. /\ x # <<>> /\ FaceFile(x) \in DOMAIN d /\ F[x] = d[FaceFile(x)]
        /\ d[FaceFile(x)].is = "face" /\ FaceFile(x).dir = x
    BY <1>3, FaceFileIs DEF ShowsFaces, IsFace
  <2>2. FaceFile(x).dir \in Dirs /\ ~IsPrefix(to, FaceFile(x).dir)
    BY <1>2, <2>1, PlaceParts, NothingUnder DEF Typed
  <2> QED BY <2>1, <2>2
<1>5. DOMAIN H = DOMAIN F /\ \A x \in DOMAIN F : H[x] = MovedText(d, r, FaceFile(x))
  <2>1. DOMAIN H = DOMAIN F
    BY DEF MovedFaces
  <2>2. ASSUME NEW x \in DOMAIN F PROVE H[x] = MovedText(d, r, FaceFile(x))
    <3>1. H[x] = IF x = dir THEN [F[x] EXCEPT !.parent = r.to, !.alias = IF r.to = <<>> THEN "root" ELSE Last(r.to)]
                 ELSE IF F[x].parent = dir THEN [F[x] EXCEPT !.parent = to] ELSE F[x]
      BY DEF MovedFaces
    <3>2. FaceFile(x) = FaceFile(dir) <=> x = dir
      BY FaceFileIs
    <3>3. F[x] = d[FaceFile(x)] /\ d[FaceFile(x)].is = "face"
      BY <1>4
    <3> HIDE DEF H, F
    <3>4. CASE x = dir
      <4>1. H[x] = OwnText(d, r)
        BY <3>1, <3>3, <3>4 DEF OwnText, AliasOf
      <4> QED BY <3>2, <3>4, <4>1 DEF MovedText
    <3>5. CASE x # dir
      <4>1. H[x] = Remade(r, d[FaceFile(x)])
        BY <3>1, <3>3, <3>5 DEF Remade
      <4> QED BY <3>2, <3>5, <4>1 DEF MovedText
    <3> QED BY <3>4, <3>5
  <2> QED BY <2>1, <2>2
<1> HIDE DEF H, F, R
<1>6. /\ G = [y \in DOMAIN G |-> G[y]]
      /\ \A x \in DOMAIN H : Atomic!Rebased(dir, to, x) \in DOMAIN G /\ G[Atomic!Rebased(dir, to, x)] = H[x]
      /\ \A y \in DOMAIN G : \E x \in DOMAIN H : y = Atomic!Rebased(dir, to, x)
  <2>1. DOMAIN H \subseteq Dirs /\ \A x \in DOMAIN H : ~IsPrefix(to, x)
    BY <1>4, <1>5
  <2> HIDE DEF G
  <2>2. G = Atomic!Rekeyed(H, dir, to)
    BY DEF G
  <2> HIDE DEF dir, to
  <2> QED BY <1>2, <2>1, <2>2, RekeyedIs
<1> HIDE DEF G
<1>7. RelocatedFaces(G, d, f, dir, to)
  <2>1. ASSUME NEW x \in DOMAIN F
        PROVE  /\ Atomic!Rebased(dir, to, x) \in DOMAIN G
               /\ G[Atomic!Rebased(dir, to, x)] = f[FaceFile(Atomic!Rebased(dir, to, x))]
    <3> DEFINE p == FaceFile(x)
    <3>1. p \in DOMAIN d /\ p.dir = x /\ p.dir # <<>> /\ p \in Places
      BY <1>2, <1>4 DEF Typed
    <3>2. f[New(dir, to, p)] = MovedText(d, r, p)
      BY <1>1, <3>1
    <3>3. Spot(dir, to, p) = New(dir, to, p)
      BY <1>2 DEF Spot
    <3>4. Spot(dir, to, p) = FaceFile(Atomic!Rebased(dir, to, p.dir))
      <4>1. p = FaceFile(p.dir)
        BY <3>1
      <4> HIDE DEF p, dir, to
      <4> QED BY <1>2, <3>1, <4>1, SpotIs
    <3> QED BY <1>5, <1>6, <3>1, <3>2, <3>3, <3>4
  <2> QED BY <1>5, <1>6, <2>1 DEF RelocatedFaces, F, t
<1>8. Tidy(f) /\ View(f) = Tree(G, Q, Cuts(d), Slots(d), Plugs(d))
  <2> HIDE DEF f, dir, to
  <2>1. Tidy(f) /\ View(f) = Tree(G, Atomic!Rekeyed(View(d).rules, dir, to), Cuts(d), Slots(d), Plugs(d))
    BY <1>1, <1>7, RelocatedView
  <2> QED BY <2>1 DEF R, t
<1>9. Atomic!After(View(d), r) = Tree(G, Q, Cuts(d), Slots(d), Plugs(d))
  <2>1. r.op = "move"
    BY DEF Moving
  <2> HIDE DEF t
  <2>2. Atomic!After(t, r) = Atomic!Moved(t, r)
    BY <2>1 DEF Atomic!After
  <2>3. Atomic!Moved(t, r) = WithSources(t, Atomic!Rekeyed(MovedFaces(t, r), dir, to), Atomic!Rekeyed(t.rules, dir, to))
    BY DEF Atomic!Moved, WithSources, MovedFaces, MoveTo, Atomic!Last, Last
  <2>4. Atomic!Moved(t, r) = WithSources(t, G, Q)
    BY <2>3 DEF G, Q, H, R
  <2> HIDE DEF Q
  <2>5. WithSources(t, G, Q) = Tree(G, Q, Cuts(d), Slots(d), Plugs(d))
    BY <1>3, TwoSources
  <2> QED BY <2>2, <2>4, <2>5 DEF t
<1> HIDE DEF f, Q
<1> QED BY <1>8, <1>9 DEF Reached, f

LEMMA LateMayFail ==
  ASSUME NEW call, NEW undo, NEW d, NEW old, Possible(d, call)
  PROVE  /\ MayFail(Late(Step(call, undo)), d, old)
         /\ MayFail(Late(Tearing(Step(call, undo))), d, old)
BY StepParts DEF MayFail

\* The directory renamed back, and nothing else.
LEMMA Homeward ==
  ASSUME NEW d, Typed(d), Tidy(d), NEW from \in Dirs \ {<<>>}, NEW to \in Dirs \ {<<>>},
         FaceFile(from) \in DOMAIN d, Possible(d, MoveDir(from, to))
  PROVE  /\ Restores(<<MoveDir(to, from)>>, Carried(d, from, to), d)
         /\ Under(d, to) = {} /\ Under(d, from) # {} /\ Apart(from, to)
<1>1. Under(d, to) = {} /\ Under(d, from) # {} /\ ~IsPrefix(from, to)
  BY MoveIs
<1>2. ~IsPrefix(to, from)
  <2>1. ~IsPrefix(to, FaceFile(from).dir)
    BY <1>1, NothingUnder
  <2> QED BY <2>1, FaceFileIs
<1>3. Apart(from, to) /\ Disk(d)
  BY <1>1, <1>2 DEF Apart, Tidy
<1> DEFINE c == Carried(d, from, to)
           back == MoveDir(to, from)
<1>4. Tried(c, back) = d
  BY <1>1, <1>3, CarriedBack
<1> HIDE DEF c, back
<1>5. Restores(<<back>>, c, d)
  BY <1>4, BackOne
<1> QED BY <1>1, <1>3, <1>5 DEF c, back

ChildrenOf(d, r) == Listed({p \in Standard(d) : d[p].parent = r.dir})
ChildFiles(d, r) == [i \in 1..Len(ChildrenOf(d, r)) |-> New(r.dir, MoveTo(r), ChildrenOf(d, r)[i])]

\* What the writes of a move change after its own face is written.
LEMMA MoveDiffers ==
  ASSUME NEW d, NEW r, Moving(d, r)
  PROVE  LET f == Set(Carried(d, r.dir, MoveTo(r)), FaceFile(MoveTo(r)), OwnText(d, r))
             e == MoveMade(d, r)
             n == Len(ChildrenOf(d, r))
         IN /\ n \in Nat /\ Differ(f, e, ChildFiles(d, r), n)
            /\ \A i \in 1..n :
                 /\ ChildrenOf(d, r)[i] \in DOMAIN d /\ ChildrenOf(d, r)[i] \in Places
                 /\ e[ChildFiles(d, r)[i]] = [d[ChildrenOf(d, r)[i]] EXCEPT !.parent = MoveTo(r)]
<1> DEFINE dir == r.dir
           to == MoveTo(r)
           c == Carried(d, dir, to)
           f == Set(c, FaceFile(to), OwnText(d, r))
           e == MoveMade(d, r)
           places == {p \in Standard(d) : d[p].parent = r.dir}
           children == ChildrenOf(d, r)
           files == ChildFiles(d, r)
           n == Len(children)
<1>1. /\ dir \in Dirs \ {<<>>} /\ to \in Dirs \ {<<>>} /\ Typed(d) /\ Tidy(d) /\ Under(d, to) = {}
      /\ FaceFile(to) = New(dir, to, FaceFile(dir)) /\ FaceFile(dir) \in DOMAIN d
  BY MovingIs DEF Moving
<1>2. /\ Disk(e) /\ DOMAIN e = DOMAIN c
      /\ \A p \in DOMAIN d : New(dir, to, p) \in DOMAIN e /\ e[New(dir, to, p)] = MovedText(d, r, p)
      /\ \A q \in DOMAIN e : \E p \in DOMAIN d : q = New(dir, to, p)
  BY MadeIs
<1> HIDE DEF e
<1>3. /\ \A p \in DOMAIN d : c[New(dir, to, p)] = d[p]
      /\ \A p, q \in DOMAIN d : New(dir, to, p) = New(dir, to, q) => p = q
  <2> HIDE DEF dir, to
  <2> QED BY <1>1, CarriedKeeps
<1>4. /\ Disk(f) /\ DOMAIN f = DOMAIN c \cup {FaceFile(to)} /\ f[FaceFile(to)] = OwnText(d, r)
      /\ \A q \in DOMAIN c : q # FaceFile(to) => f[q] = c[q]
  <2>1. Disk(f)
    BY DisksMade
  <2> QED BY <2>1 DEF Set
<1> HIDE DEF f, c
<1>5. places \subseteq DOMAIN d /\ IsFiniteSet(places)
  <2>1. places \subseteq DOMAIN d
    BY DEF Standard
  <2>2. IsFiniteSet(DOMAIN d)
    BY <1>1 DEF Typed
  <2> HIDE DEF places
  <2> QED BY <2>1, <2>2, FS_Subset
<1>6. /\ n \in Nat /\ \A i \in 1..n : children[i] \in places
      /\ \A p \in places : \E i \in 1..n : children[i] = p
  <2>1. children = Listed(places)
    BY DEF ChildrenOf
  <2> HIDE DEF places, children
  <2> QED BY <1>1, <1>5, <2>1, ListedFiles, ListedCovers
<1>7. /\ files = [i \in 1..n |-> New(dir, to, children[i])]
      /\ \A i \in 1..n : files[i] = New(dir, to, children[i])
  BY DEF ChildFiles
<1> HIDE DEF files, children, n
<1>8. ASSUME NEW p \in places
      PROVE  /\ p \in DOMAIN d /\ p \in Places /\ p # FaceFile(dir)
             /\ MovedText(d, r, p) = [d[p] EXCEPT !.parent = to]
  <2>1. p \in DOMAIN d /\ d[p].is = "face" /\ d[p].parent = dir /\ p \in Places
    BY <1>1 DEF Standard, Typed
  <2>2. d[p].parent = Front(p.dir) /\ p.dir \in Dirs \ {<<>>}
    BY <1>1, <2>1, FacesInOrder
  <2>3. p.dir # dir
    BY <2>1, <2>2, FrontIs
  <2>4. p # FaceFile(dir)
    BY <2>3, FaceFileIs
  <2> QED BY <2>1, <2>4 DEF MovedText, Remade
<1>9. ASSUME NEW i \in 1..n
      PROVE  /\ children[i] \in DOMAIN d /\ children[i] \in Places /\ files[i] \in DOMAIN e
             /\ e[files[i]] = [d[children[i]] EXCEPT !.parent = to]
  <2> DEFINE p == children[i]
  <2>1. p \in places
    BY <1>6
  <2> HIDE DEF p, places
  <2>2. /\ p \in DOMAIN d /\ p \in Places /\ MovedText(d, r, p) = [d[p] EXCEPT !.parent = to]
    BY <1>8, <2>1
  <2>3. files[i] = New(dir, to, p)
    BY <1>7 DEF p
  <2>4. files[i] \in DOMAIN e /\ e[files[i]] = [d[p] EXCEPT !.parent = to]
    BY <1>2, <2>2, <2>3
  <2> QED BY <2>2, <2>4 DEF p
<1>10. ASSUME NEW q \in DOMAIN f PROVE e[q] = f[q] \/ \E m \in 1..n : q = files[m]
  <2>1. q \in DOMAIN e
    BY <1>1, <1>2, <1>4
  <2>2. PICK p \in DOMAIN d : q = New(dir, to, p)
    BY <1>2, <2>1
  <2>3. e[q] = MovedText(d, r, p) /\ (q = FaceFile(to) <=> p = FaceFile(dir))
    BY <1>1, <1>2, <1>3, <2>2
  <2>4. CASE p = FaceFile(dir)
    BY <1>4, <2>3, <2>4 DEF MovedText
  <2>5. CASE p # FaceFile(dir) /\ p \in places
    <3>1. PICK i \in 1..n : children[i] = p
      BY <1>6, <2>5
    <3> QED BY <1>7, <2>2, <3>1
  <2>6. CASE p # FaceFile(dir) /\ p \notin places
    <3>1. ~(d[p].is = "face" /\ d[p].parent = dir)
      BY <1>1, <2>6, TidyFiles
    <3>2. MovedText(d, r, p) = d[p]
      BY <2>6, <3>1 DEF MovedText, Remade
    <3>3. f[q] = d[p]
      BY <1>2, <1>3, <1>4, <2>1, <2>2, <2>3, <2>6
    <3> QED BY <2>3, <3>2, <3>3
  <2> QED BY <2>4, <2>5, <2>6
<1>11. DOMAIN e = DOMAIN f
  BY <1>1, <1>2, <1>4
<1>12. Differ(f, e, files, n)
  <2> HIDE DEF places
  <2> QED BY <1>2, <1>4, <1>9, <1>10, <1>11 DEF Differ
<1> QED BY <1>6, <1>9, <1>12 DEF f, e, c, files, children, n

\* apply_move: the directory, the face, each child, the note.
LEMMA MoveCarries ==
  ASSUME NEW d, Typed(d), Tidy(d), NEW r, r.op = "move", Faced(d, r.dir), r.to \in Dirs, FreshName(r.name),
         Mountable(d, r.to), ~Unsound(d, r)
  PROVE  Carries(MovePlan(d, r), d, d, r)
<1> DEFINE to == Append(r.to, r.name)
           home == <<MoveDir(to, r.dir)>>
           children == Listed({p \in Standard(d) : d[p].parent = r.dir})
           moved == [d[FaceFile(r.dir)] EXCEPT
                       !.parent = r.to, !.alias = IF r.to = <<>> THEN "root" ELSE Last(r.to)]
           place(p) == [p EXCEPT !.dir = Atomic!Rebased(r.dir, to, @)]
           first == Step(MoveDir(r.dir, to), <<>>)
           own == Tearing(Step(Put(FaceFile(to), moved), home))
           child(i) == Late(Tearing(Step(Put(place(children[i]), [d[children[i]] EXCEPT !.parent = to]), home)))
           each == [i \in 1..Len(children) |-> child(i)]
           note == Late(Step(Put(MoveNote, [is |-> "note"]), <<>>))
           rest == IF r.name # Last(r.dir) THEN <<Step(Refuse, home)>> ELSE <<own>> \o each \o <<note>>
           c == Carried(d, r.dir, to)
<1>1. MovePlan(d, r) = <<first>> \o rest
  BY DEF MovePlan
<1>2. to \in Dirs \ {<<>>} /\ Last(to) = r.name /\ r.dir \in Dirs \ {<<>>} /\ FaceFile(r.dir) \in DOMAIN d
  BY MovedDir DEF Faced
<1>3. to = MoveTo(r) /\ children = ChildrenOf(d, r) /\ moved = OwnText(d, r)
  BY DEF MoveTo, ChildrenOf, OwnText, AliasOf
<1>4. /\ first.call = MoveDir(r.dir, to) /\ first.undo = <<>> /\ own.call = Put(FaceFile(to), moved)
      /\ own.undo = home /\ MayFail(first, d, d)
  <2>1. first.call = MoveDir(r.dir, to) /\ first.undo = <<>>
    BY StepParts
  <2>2. own.call = Put(FaceFile(to), moved) /\ own.undo = home
    <3> HIDE DEF home, moved, to
    <3> QED BY StepParts
  <2>3. MayFail(first, d, d)
    <3> HIDE DEF first
    <3> QED BY <2>1, FirstMayFail
  <2> QED BY <2>1, <2>2, <2>3
<1>5. /\ each = [i \in 1..Len(children) |-> each[i]]
      /\ \A i \in 1..Len(children) : each[i] = child(i)
  OBVIOUS
<1>6. IsSeq(each)
  <2>1. Len(children) \in Nat
    <3> DEFINE places == {p \in Standard(d) : d[p].parent = r.dir}
    <3>1. places \subseteq DOMAIN d
      BY DEF Standard
    <3> HIDE DEF places
    <3> QED BY <3>1, ListedFiles DEF places
  <2> HIDE DEF each, children
  <2> QED BY <1>5, <2>1, ListIsSeq
<1>7. ASSUME Possible(d, MoveDir(r.dir, to)) PROVE Carries(rest, c, d, r)
  <2>1. Restores(home, c, d) /\ Under(d, to) = {} /\ Apart(r.dir, to)
    <3> HIDE DEF to
    <3> QED BY <1>2, <1>7, Homeward
  <2>2. CASE r.name # Last(r.dir)
    <3> DEFINE s == Step(Refuse, home)
    <3> HIDE DEF home, c
    <3>1. s.call = Refuse /\ s.undo = home
      BY StepParts
    <3>2. ~Possible(c, Refuse)
      BY CheckIs
    <3> HIDE DEF s
    <3>3. MayFail(s, c, d) /\ ~Possible(c, s.call)
      BY <2>1, <3>1, <3>2 DEF MayFail
    <3>4. Carries(<<s>>, c, d, r)
      BY <3>3, OnOne
    <3>5. rest = <<s>>
      BY <2>2 DEF s
    <3> QED BY <3>4, <3>5
  <2>3. CASE r.name = Last(r.dir)
    <3> DEFINE f == Set(c, FaceFile(to), moved)
               e == MoveMade(d, r)
               files == ChildFiles(d, r)
               n == Len(children)
    <3>1. Moving(d, r)
      BY <1>3, <2>1, <2>3 DEF Moving, Apart
    <3>2. /\ n \in Nat /\ Differ(f, e, files, n)
          /\ \A i \in 1..n : /\ children[i] \in DOMAIN d /\ children[i] \in Places
                             /\ e[files[i]] = [d[children[i]] EXCEPT !.parent = to]
                             /\ files[i] = New(r.dir, to, children[i])
      <4>1. /\ n \in Nat /\ Differ(f, e, files, n)
            /\ \A i \in 1..n : /\ children[i] \in DOMAIN d /\ children[i] \in Places
                               /\ e[files[i]] = [d[children[i]] EXCEPT !.parent = to]
        <5> HIDE DEF to, children, moved
        <5> QED BY <1>3, <3>1, MoveDiffers
      <4>2. \A i \in 1..n : files[i] = New(r.dir, to, children[i])
        BY <1>3 DEF ChildFiles
      <4> QED BY <4>1, <4>2
    <3>3. \A j : Possible(Overlaid(f, e, files, j), Put(MoveNote, [is |-> "note"]))
      BY PutIs
    <3>4. ASSUME NEW i \in 1..n
          PROVE  each[i].call = Put(files[i], e[files[i]]) /\ MayFail(each[i], Overlaid(f, e, files, i - 1), d)
      <4> DEFINE p == children[i]
                 text == [d[p] EXCEPT !.parent = to]
                 call == Put(place(p), text)
                 g == Overlaid(f, e, files, i - 1)
      <4>1. each[i] = child(i) /\ child(i) = Late(Tearing(Step(call, home)))
        BY <1>5
      <4>2. place(p) = New(r.dir, to, p)
        <5>1. p \in Places
          BY <3>2
        <5> HIDE DEF p, to
        <5> QED BY <5>1, NewIs
      <4>3. call = Put(files[i], e[files[i]])
        <5>1. files[i] = New(r.dir, to, p) /\ e[files[i]] = text
          BY <3>2
        <5> HIDE DEF text, p, files, e
        <5> QED BY <4>2, <5>1
      <4> HIDE DEF g
      <4>4. Possible(g, call)
        <5> HIDE DEF text
        <5> QED BY PutIs
      <4> HIDE DEF call, home, each, child
      <4>5. each[i].call = call
        BY <4>1, StepParts
      <4>6. MayFail(each[i], g, d)
        BY <4>1, <4>4, LateMayFail
      <4> QED BY <4>3, <4>5, <4>6 DEF g
    <3>5. Carries(<<note>>, e, d, r)
      <4> DEFINE text == [is |-> "note"]
                 call == Put(MoveNote, text)
      <4>1. Possible(e, call) /\ DiskAfter(e, call) = Set(e, MoveNote, text)
        <5> HIDE DEF text, e
        <5> QED BY PutIs
      <4>2. note = Late(Step(call, <<>>))
        OBVIOUS
      <4>3. Reached(Set(e, MoveNote, text), d, r)
        BY <3>1, MoveReached DEF Noted
      <4> HIDE DEF call, note, e, text
      <4>4. MayFail(note, e, d) /\ note.call = call
        BY <4>1, <4>2, LateMayFail, StepParts
      <4> QED BY <4>1, <4>3, <4>4, OnOne
    <3> DEFINE tail == <<note>>
    <3>6. IsSeq(tail)
      BY Tuples
    <3> HIDE DEF note, tail, e, f, files, n, each, child
    <3>7. Carries(each \o tail, f, d, r)
      <4>1. each = [i \in 1..n |-> each[i]]
        BY <1>5 DEF n
      <4> HIDE DEF to, home, children, moved, c
      <4>2. \A i \in 1..n : each[i].call = Put(files[i], e[files[i]]) /\ MayFail(each[i], Overlaid(f, e, files, i - 1), d)
        BY <3>4
      <4>3. Carries(tail, e, d, r)
        BY <3>5 DEF tail
      <4>4. n \in Nat /\ Differ(f, e, files, n)
        BY <3>2
      <4> QED BY <3>6, <4>1, <4>2, <4>3, <4>4, PutsCarry
    <3>8. IsSeq(each \o tail)
      BY <1>6, <3>6, SetOfConcat
    <3> DEFINE plan == each \o tail
    <3>9. rest = <<own>> \o plan
      <4>1. rest = (<<own>> \o each) \o tail
        BY <2>3 DEF tail
      <4>2. (<<own>> \o each) \o tail = <<own>> \o (each \o tail)
        <5> HIDE DEF own
        <5> QED BY <1>6, <3>6, OneMore
      <4> QED BY <4>1, <4>2
    <3>10. MayFail(own, c, d)
      <4> HIDE DEF own
      <4> QED BY <1>4, <2>1 DEF MayFail
    <3>11. DiskAfter(c, own.call) = f
      <4> HIDE DEF own, c, moved, to
      <4>1. DiskAfter(c, Put(FaceFile(to), moved)) = Set(c, FaceFile(to), moved)
        BY PutIs
      <4> QED BY <1>4, <4>1 DEF f
    <3>12. Carries(plan, DiskAfter(c, own.call), d, r)
      BY <3>7, <3>11
    <3> HIDE DEF plan, own, c
    <3>13. Carries(<<own>> \o plan, c, d, r)
      BY <3>8, <3>10, <3>12, OnMore DEF plan
    <3> QED BY <3>9, <3>13
  <2> QED BY <2>2, <2>3
<1>8. IsSeq(rest)
  <2> HIDE DEF each, own, note, home
  <2>1. IsSeq(<<own>> \o each)
    BY <1>6, Tuples, SetOfConcat
  <2>2. IsSeq((<<own>> \o each) \o <<note>>)
    BY <2>1, Tuples, SetOfConcat
  <2> QED BY <2>2, Tuples
<1>9. DiskAfter(d, MoveDir(r.dir, to)) = c
  <2> HIDE DEF to
  <2> QED BY MoveIs DEF c
<1> HIDE DEF first, rest, c, to
<1>10. Possible(d, first.call) => Carries(rest, DiskAfter(d, first.call), d, r)
  BY <1>4, <1>7, <1>9
<1>11. Carries(<<first>> \o rest, d, d, r)
  BY <1>4, <1>8, <1>10, OnMore
<1> QED BY <1>1, <1>11

-----------------------------------------------------------------------------
(* A rename.                                                                 *)

\* The request keeps the rule, the name is one a module may have, and it is free.
Retitling(d, r) ==
  /\ Renaming(d, r) /\ Tidy(d) /\ r.op = "edit" /\ r.name \in Names /\ SameRule(d, r)
  /\ Under(d, RenameTo(r)) = {}
\* Where each file is once both names have changed, and what came from where.
Renumbered(f, d, r) ==
  /\ Typed(f) /\ Disk(f)
  /\ \A p \in DOMAIN d : NewFile(r, p) \in DOMAIN f /\ f[NewFile(r, p)] = d[p]
  /\ \A q \in DOMAIN f : \E p \in DOMAIN d : q = NewFile(r, p)
  /\ \A p, q \in DOMAIN d : NewFile(r, p) = NewFile(r, q) => p = q

LEMMA RetitlingIs ==
  ASSUME NEW d, NEW r, Retitling(d, r)
  PROVE  /\ r.dir \in Dirs \ {<<>>} /\ RenameTo(r) \in Dirs \ {<<>>} /\ Apart(r.dir, RenameTo(r))
         /\ Last(RenameTo(r)) = r.name /\ Front(RenameTo(r)) = Front(r.dir)
         /\ Last(r.dir) # "registry_rule" /\ r.name # "registry_rule"
         /\ FaceFile(r.dir) \in DOMAIN d /\ d[FaceFile(r.dir)] \in FaceTexts
         /\ At(r.dir, r.name) \notin DOMAIN d
         /\ Typed(d) /\ Tidy(d) /\ Under(d, RenameTo(r)) = {}
<1> DEFINE dir == r.dir
           to == RenameTo(r)
<1>1. Renaming(d, r) /\ Tidy(d) /\ Typed(d) /\ r.name \in Names /\ Under(d, to) = {}
  BY DEF Retitling, Renaming
<1>2. /\ dir \in Dirs \ {<<>>} /\ to \in Dirs \ {<<>>} /\ to # dir /\ ~IsPrefix(to, dir) /\ Last(to) = r.name
  BY <1>1, RenamedDir
<1>3. /\ Last(dir) # "registry_rule" /\ r.name # "registry_rule" /\ r.name \in Words /\ r.name # Last(dir)
      /\ FaceFile(dir) \in DOMAIN d /\ d[FaceFile(dir)] \in FaceTexts
  BY <1>1, FacedName DEF Renaming, Faced, FreshName
<1>4. Front(to) = Front(dir)
  BY <1>2, <1>3, FrontIs, AppendIs DEF RenameTo
<1>5. ~IsPrefix(dir, to)
  <2> HIDE DEF dir, to
  <2> QED BY <1>2, <1>4, PrefixOfFront
<1>6. At(dir, r.name) \notin DOMAIN d
  <2> SUFFICES ASSUME At(dir, r.name) \in DOMAIN d PROVE FALSE
    OBVIOUS
  <2> DEFINE p == At(dir, r.name)
  <2>1. p.dir = dir /\ p.file = r.name
    BY DEF At
  <2> HIDE DEF p
  <2>2. Proper(d, p)
    BY <1>1 DEF Tidy, p
  <2> QED BY <1>1, <1>2, <1>3, <2>1, <2>2 DEF Proper
<1> QED BY <1>1, <1>2, <1>3, <1>4, <1>5, <1>6 DEF Apart

LEMMA RenamedIs ==
  ASSUME NEW d, NEW r, Retitling(d, r)
  PROVE  Renumbered(AfterRename(d, r), d, r)
<1> DEFINE dir == r.dir
           to == RenameTo(r)
           e == AfterMove(d, r)
           f == AfterRename(d, r)
           face == FaceFile(dir)
           new == FaceFile(to)
           old == OldName(r)
           moved(p) == New(dir, to, p)
<1>1. /\ dir \in Dirs \ {<<>>} /\ to \in Dirs \ {<<>>} /\ face \in DOMAIN d /\ At(dir, r.name) \notin DOMAIN d
      /\ Typed(d) /\ Under(d, to) = {} /\ Renaming(d, r)
  BY RetitlingIs DEF Retitling
<1>2. /\ Typed(f) /\ new \in DOMAIN f /\ f[new] = d[face]
      /\ \A p \in DOMAIN d : p # face /\ moved(p) # new => moved(p) \in DOMAIN f /\ f[moved(p)] = d[p]
      /\ \A p \in DOMAIN d : moved(p) = new => p = At(dir, r.name)
  BY <1>1, RenamedFiles
<1>3. /\ \A q \in DOMAIN e : \E p \in DOMAIN d : q = moved(p)
      /\ \A p, q \in DOMAIN d : moved(p) = moved(q) => p = q
  <2> HIDE DEF dir, to
  <2> QED BY <1>1, CarriedKeeps DEF AfterMove, dir, to
<1>4. moved(face) = old
  <2>1. New(dir, to, FaceFile(dir)) = At(to, Last(dir))
    <3> HIDE DEF to, dir
    <3> QED BY <1>1, NewFace
  <2> QED BY <2>1 DEF OldName
<1>5. DOMAIN f = (DOMAIN e \ {old}) \cup {new} /\ Disk(f)
  <2>1. Disk(f)
    BY DisksMade DEF AfterRename
  <2>2. DOMAIN f = (DOMAIN e \ {old}) \cup {new}
    <3> HIDE DEF e, new, old
    <3> QED BY DEF AfterRename, Set, Only, e, new, old
  <2> QED BY <2>1, <2>2
<1>6. \A p : NewFile(r, p) = IF p = face THEN new ELSE moved(p)
  BY DEF NewFile
<1> HIDE DEF e, f, face, new, old, moved
<1>7. \A p \in DOMAIN d : moved(p) # new
  BY <1>1, <1>2
<1>8. \A p \in DOMAIN d : NewFile(r, p) \in DOMAIN f /\ f[NewFile(r, p)] = d[p]
  BY <1>2, <1>6, <1>7
<1>9. \A q \in DOMAIN f : \E p \in DOMAIN d : q = NewFile(r, p)
  BY <1>1, <1>3, <1>4, <1>5, <1>6
<1>10. \A p, q \in DOMAIN d : NewFile(r, p) = NewFile(r, q) => p = q
  BY <1>3, <1>6, <1>7
<1> QED BY <1>2, <1>5, <1>8, <1>9, <1>10 DEF Renumbered, f

\* The directory takes its old name again, and then the face file does.
LEMMA HomeAgain ==
  ASSUME NEW d, NEW r, Retitling(d, r)
  PROVE  Restores(<<MoveDir(RenameTo(r), r.dir), Back(r)>>, AfterRename(d, r), d)
<1> DEFINE dir == r.dir
           to == RenameTo(r)
           f == AfterRename(d, r)
           g == Carried(f, to, dir)
           face == FaceFile(dir)
           new == FaceFile(to)
           other == At(dir, r.name)
           h == Set(Only(g, DOMAIN g \ {other}), face, g[other])
<1>1. /\ dir \in Dirs \ {<<>>} /\ to \in Dirs \ {<<>>} /\ Apart(dir, to) /\ Last(to) = r.name
      /\ face \in DOMAIN d /\ other \notin DOMAIN d /\ Typed(d) /\ Tidy(d) /\ Under(d, to) = {}
      /\ Renumbered(f, d, r)
  BY RetitlingIs, RenamedIs
<1>2. \A p : NewFile(r, p) = IF p = face THEN new ELSE New(dir, to, p)
  BY DEF NewFile
<1>3. face.dir = dir /\ new.dir = to /\ New(to, dir, new) = other
  <2>1. New(to, dir, FaceFile(to)) = At(dir, Last(to))
    <3> HIDE DEF to, dir
    <3> QED BY <1>1, NewFace
  <2> QED BY <1>1, <2>1, FaceFileIs
<1> HIDE DEF f, to, dir, face, new, other
<1>4. \A p \in DOMAIN d : p \in Places /\ p.dir \in Dirs /\ ~IsPrefix(to, p.dir)
  BY <1>1, NothingUnder, PlaceParts DEF Typed
<1>5. ASSUME NEW p \in DOMAIN d
      PROVE  /\ ~IsPrefix(dir, NewFile(r, p).dir)
             /\ p # face => New(to, dir, NewFile(r, p)) = p
  <2>1. CASE p = face
    BY <1>1, <1>2, <1>3, <2>1 DEF Apart
  <2>2. CASE p # face
    <3>1. NewFile(r, p) = New(dir, to, p)
      BY <1>2, <2>2
    <3>2. New(dir, to, p).dir = Atomic!Rebased(dir, to, p.dir) /\ New(to, dir, New(dir, to, p)) = p
      BY <1>1, <1>4, NewParts, NewBack
    <3>3. ~IsPrefix(dir, Atomic!Rebased(dir, to, p.dir))
      BY <1>1, <1>4, NewLeaves
    <3> QED BY <3>1, <3>2, <3>3
  <2> QED BY <2>1, <2>2
<1>6. Under(f, dir) = {} /\ Under(f, to) # {} /\ Typed(f)
  <2>1. Under(f, dir) = {}
    BY <1>1, <1>5, NothingUnder DEF Renumbered
  <2>2. new \in DOMAIN f
    BY <1>1, <1>2 DEF Renumbered
  <2>3. IsPrefix(to, to)
    BY <1>1, RebasedItself
  <2>4. new \in Under(f, to)
    BY <1>1, <1>3, <2>2, <2>3 DEF Under
  <2> QED BY <1>1, <2>1, <2>4 DEF Renumbered
<1>7. /\ \A q \in DOMAIN f : New(to, dir, q) \in DOMAIN g /\ g[New(to, dir, q)] = f[q]
      /\ \A q \in DOMAIN g : \E p \in DOMAIN f : q = New(to, dir, p)
  BY <1>1, <1>6, CarriedKeeps
<1>8. Tried(f, MoveDir(to, dir)) = g
  <2>1. Possible(f, MoveDir(to, dir)) /\ DiskAfter(f, MoveDir(to, dir)) = g
    BY <1>1, <1>6, MoveIs DEF Apart
  <2> QED BY <2>1 DEF Tried
<1> HIDE DEF g
<1>9. other \in DOMAIN g /\ g[other] = d[face]
  <2>1. new \in DOMAIN f /\ f[new] = d[face]
    BY <1>1, <1>2 DEF Renumbered
  <2> QED BY <1>3, <1>7, <2>1
<1>10. Tried(g, Back(r)) = h
  <2>1. Back(r) = Rename(other, face)
    BY DEF Back, other, face, dir
  <2>2. Possible(g, Rename(other, face)) /\ DiskAfter(g, Rename(other, face)) = h
    BY <1>9, RenameIs
  <2> QED BY <2>1, <2>2 DEF Tried
<1>11. /\ DOMAIN h = (DOMAIN g \ {other}) \cup {face} /\ h[face] = d[face] /\ Disk(h)
       /\ \A q \in DOMAIN g \ {other, face} : h[q] = g[q]
  <2>1. Disk(h)
    BY DisksMade
  <2> QED BY <1>9, <2>1 DEF Set, Only
<1> HIDE DEF h
<1>12. ASSUME NEW p \in DOMAIN d PROVE p \in DOMAIN h /\ h[p] = d[p]
  <2>1. CASE p = face
    BY <1>11, <2>1
  <2>2. CASE p # face
    <3> DEFINE q == NewFile(r, p)
    <3>1. q \in DOMAIN f /\ f[q] = d[p] /\ New(to, dir, q) = p
      BY <1>1, <1>5, <2>2 DEF Renumbered
    <3> HIDE DEF q
    <3>2. p \in DOMAIN g /\ g[p] = d[p]
      BY <1>7, <3>1
    <3>3. p # other
      BY <1>1
    <3> QED BY <1>11, <2>2, <3>2, <3>3
  <2> QED BY <2>1, <2>2
<1>13. ASSUME NEW q \in DOMAIN h PROVE q \in DOMAIN d
  <2>1. CASE q = face
    BY <1>1, <2>1
  <2>2. CASE q # face
    <3>1. q \in DOMAIN g /\ q # other
      BY <1>11, <2>2
    <3>2. PICK m \in DOMAIN f : q = New(to, dir, m)
      BY <1>7, <3>1
    <3>3. PICK p \in DOMAIN d : m = NewFile(r, p)
      BY <1>1 DEF Renumbered
    <3>4. p # face
      BY <1>2, <1>3, <3>1, <3>2, <3>3
    <3> QED BY <1>5, <3>2, <3>3, <3>4
  <2> QED BY <2>1, <2>2
<1>14. h = d
  <2>1. DOMAIN h = DOMAIN d /\ \A p \in DOMAIN d : h[p] = d[p]
    BY <1>12, <1>13
  <2> QED BY <1>1, <1>11, <2>1, SameDisk DEF Tidy
<1> DEFINE one == MoveDir(to, dir)
           two == Back(r)
<1>15. Tried(Tried(f, one), two) = d
  BY <1>8, <1>10, <1>14
<1> HIDE DEF one, two
<1>16. Restores(<<one, two>>, f, d)
  BY <1>15, BackTwo
<1> QED BY <1>16 DEF one, two, f, to, dir

RollbackSteps(d, r, n) ==
  [i \in 1..n |-> Put(NewFile(r, Files(d, r)[n + 1 - i]), d[Files(d, r)[n + 1 - i]])]

\* What undoing a rename after n rewritten files consists of.
LEMMA RollbackIs ==
  ASSUME NEW d, Typed(d), NEW r, NEW n \in 0..Len(Files(d, r))
  PROVE  Rollback(d, r, Files(d, r), n) = RollbackSteps(d, r, n) \o <<MoveDir(RenameTo(r), r.dir), Back(r)>>
<1> DEFINE to == RenameTo(r)
           moved == Files(d, r)
           end == <<MoveDir(to, r.dir), Back(r)>>
           back(p) == Put(IF p = FaceFile(r.dir) THEN FaceFile(to)
                          ELSE [p EXCEPT !.dir = Atomic!Rebased(r.dir, to, @)], d[p])
<1>1. Len(moved) \in Nat /\ \A i \in 1..Len(moved) : moved[i] \in Places
  BY FilesListed
<1>2. Rollback(d, r, moved, n) = [i \in 1..n |-> back(moved[n + 1 - i])] \o end
  BY DEF Rollback, RenameTo, Back
<1>3. ASSUME NEW i \in 1..n
      PROVE  back(moved[n + 1 - i]) = Put(NewFile(r, moved[n + 1 - i]), d[moved[n + 1 - i]])
  <2>1. n + 1 - i \in 1..Len(moved)
    BY <1>1
  <2> DEFINE p == moved[n + 1 - i]
  <2>2. p \in Places
    BY <1>1, <2>1
  <2>3. [p EXCEPT !.dir = Atomic!Rebased(r.dir, to, @)] = New(r.dir, to, p)
    BY <2>2, NewIs
  <2> HIDE DEF p
  <2> QED BY <2>3 DEF NewFile, p
<1>4. [i \in 1..n |-> back(moved[n + 1 - i])] = RollbackSteps(d, r, n)
  BY <1>3 DEF RollbackSteps
<1> HIDE DEF end, back, moved
<1> QED BY <1>2, <1>4 DEF end, moved, to

\* However many files are rewritten, the rollback gives the tree back.
LEMMA RollbackRestores ==
  ASSUME NEW d, NEW r, Retitling(d, r), NEW n \in 0..Len(Files(d, r)), NEW g, Disk(g),
         DOMAIN g = DOMAIN AfterRename(d, r),
         \A q \in DOMAIN g : AfterRename(d, r)[q] = g[q] \/ \E m \in 1..n : q = NewFile(r, Files(d, r)[m])
  PROVE  Restores(Rollback(d, r, Files(d, r), n), g, d)
<1> DEFINE f == AfterRename(d, r)
           moved == Files(d, r)
           files == [i \in 1..n |-> NewFile(r, moved[n + 1 - i])]
           s == RollbackSteps(d, r, n)
           rest == <<MoveDir(RenameTo(r), r.dir), Back(r)>>
<1>1. /\ Typed(d) /\ Renumbered(f, d, r) /\ Restores(rest, f, d)
  BY RetitlingIs, RenamedIs, HomeAgain
<1>2. /\ Len(moved) \in Nat /\ n \in Nat /\ \A i \in 1..Len(moved) : moved[i] \in DOMAIN d
  <2>1. Len(moved) \in Nat /\ \A i \in 1..Len(moved) : moved[i] \in DOMAIN d
    BY <1>1, FilesListed
  <2> QED BY <2>1
<1>3. Rollback(d, r, moved, n) = s \o rest
  BY <1>1, RollbackIs
<1>4. IsSeq(rest)
  BY Tuples
<1>5. /\ s = [i \in 1..n |-> s[i]]
      /\ \A i \in 1..n : s[i] = Put(NewFile(r, moved[n + 1 - i]), d[moved[n + 1 - i]])
      /\ \A i \in 1..n : files[i] = NewFile(r, moved[n + 1 - i])
  BY DEF RollbackSteps
<1> HIDE DEF s, files, f, rest, moved
<1>6. ASSUME NEW i \in 1..n PROVE n + 1 - i \in 1..Len(moved) /\ n + 1 - i \in 1..n
  <2>1. n <= Len(moved)
    BY DEF moved
  <2> QED BY <1>2, <2>1
<1>7. ASSUME NEW i \in 1..n PROVE files[i] \in DOMAIN f /\ s[i] = Put(files[i], f[files[i]])
  <2> DEFINE p == moved[n + 1 - i]
  <2>1. p \in DOMAIN d
    BY <1>2, <1>6
  <2>2. s[i] = Put(NewFile(r, p), d[p]) /\ files[i] = NewFile(r, p)
    BY <1>5
  <2> HIDE DEF p
  <2>3. NewFile(r, p) \in DOMAIN f /\ f[NewFile(r, p)] = d[p]
    BY <1>1, <2>1 DEF Renumbered
  <2> QED BY <2>2, <2>3
<1>8. ASSUME NEW m \in 1..n PROVE \E k \in 1..n : NewFile(r, moved[m]) = files[k]
  <2>1. n + 1 - m \in 1..n /\ n + 1 - (n + 1 - m) = m
    BY <1>2
  <2> DEFINE k == n + 1 - m
  <2>2. k \in 1..n /\ n + 1 - k = m
    BY <2>1
  <2> HIDE DEF k
  <2>3. files[k] = NewFile(r, moved[m])
    BY <1>5, <2>2
  <2> QED BY <2>2, <2>3
<1>9. Differ(g, f, files, n)
  <2>1. \A q \in DOMAIN g : f[q] = g[q] \/ \E m \in 1..n : q = NewFile(r, moved[m])
    BY DEF f, moved
  <2>2. ASSUME NEW q \in DOMAIN g, f[q] # g[q] PROVE \E m \in 1..n : q = files[m]
    <3>1. PICK m \in 1..n : q = NewFile(r, moved[m])
      BY <2>1, <2>2
    <3>2. PICK k \in 1..n : NewFile(r, moved[m]) = files[k]
      BY <1>8
    <3> QED BY <3>1, <3>2
  <2>3. DOMAIN g = DOMAIN f
    BY DEF f
  <2> QED BY <1>1, <1>7, <2>2, <2>3 DEF Differ, Renumbered
<1>10. \A i \in 1..n : s[i] = Put(files[i], f[files[i]])
  BY <1>7
<1>11. Restores(s \o rest, g, d)
  BY <1>1, <1>2, <1>4, <1>5, <1>9, <1>10, PutsRestore
<1> QED BY <1>3, <1>11 DEF moved

\* What a file says once a rename has rewritten the files of the module.
NewText(d, r, p) == IF IsPrefix(r.dir, p.dir) THEN Rewritten(d, r, p) ELSE d[p]
RenameMade(d, r) ==
  [q \in DOMAIN AfterRename(d, r) |-> NewText(d, r, CHOOSE p \in DOMAIN d : q = NewFile(r, p))]

LEMMA RewrittenIs ==
  ASSUME NEW d, NEW r, Retitling(d, r), NEW p \in DOMAIN d, d[p].is = "face"
  PROVE  LET text == Rewritten(d, r, p)
         IN /\ text \in FaceTexts /\ text.is = "face" /\ text.owns = d[p].owns /\ text.names = text.owns
            /\ text.parent = Atomic!Rebased(r.dir, RenameTo(r), Front(p.dir))
<1> DEFINE dir == r.dir
           to == RenameTo(r)
           face == FaceFile(dir)
           old == IF p = face THEN Rendered(d, r) ELSE d[p]
           parent == Atomic!Rebased(dir, to, old.parent)
           alias == IF Len(dir) = 1 /\ old.alias = Last(dir) THEN r.name ELSE old.alias
<1>1. /\ dir \in Dirs \ {<<>>} /\ to \in Dirs \ {<<>>} /\ Typed(d) /\ Tidy(d) /\ Renaming(d, r) /\ SameRule(d, r)
      /\ Faced(d, dir) /\ AskedFace(r.face)
  BY RetitlingIs DEF Retitling, Renaming
<1>2. /\ p.dir \in Dirs \ {<<>>} /\ d[p] \in FaceTexts /\ d[p].parent = Front(p.dir) /\ d[p].names = d[p].owns
  BY <1>1, FacesInOrder
<1>3. /\ old \in FaceTexts /\ old.owns = d[p].owns /\ old.names = old.owns /\ old.parent = Front(p.dir)
  <2>1. CASE p = face
    <3>1. p.dir = dir
      BY <2>1, FaceFileIs
    <3>2. /\ Rendered(d, r) \in FaceTexts /\ Rendered(d, r).parent = Front(dir)
          /\ Rendered(d, r).owns = d[FaceFile(dir)].owns /\ Rendered(d, r).names = Rendered(d, r).owns
      BY <1>1, RenderedIs, SameRuleKept
    <3> QED BY <2>1, <3>1, <3>2
  <2>2. CASE p # face
    BY <1>2, <2>2
  <2> QED BY <2>1, <2>2
<1>4. Rewritten(d, r, p) = IF old.is # "face" THEN old ELSE [old EXCEPT !.parent = parent, !.alias = alias]
  BY DEF Rewritten, RenameTo
<1>5. old.is = "face" /\ old.parent \in Dirs /\ old.alias \in Words /\ r.name \in Words
  <2>1. r.name \in Words
    BY <1>1 DEF Renaming, FreshName
  <2> HIDE DEF old
  <2> QED BY <1>3, <2>1 DEF FaceTexts, Dirs
<1> HIDE DEF old
<1>6. parent \in Seq(Words) /\ alias \in Words
  <2>1. parent \in Dirs
    BY <1>1, <1>5, RebasedTyped
  <2> QED BY <1>5, <2>1 DEF Dirs
<1>7. parent = Atomic!Rebased(dir, to, Front(p.dir))
  BY <1>3
<1> HIDE DEF parent, alias
<1> DEFINE half == [old EXCEPT !.parent = parent]
           text == [half EXCEPT !.alias = alias]
<1>8. [old EXCEPT !.parent = parent, !.alias = alias] = text
  OBVIOUS
<1> HIDE DEF half, text
<1>9. /\ half \in FaceTexts /\ half.is = "face" /\ half.owns = old.owns /\ half.names = old.names
      /\ half.parent = parent
  BY <1>3, <1>6 DEF half, FaceTexts
<1>10. /\ text \in FaceTexts /\ text.is = "face" /\ text.owns = half.owns /\ text.names = half.names
       /\ text.parent = half.parent
  BY <1>6, <1>9 DEF text, FaceTexts
<1>11. Rewritten(d, r, p) = text
  BY <1>4, <1>5, <1>8
<1> QED BY <1>3, <1>7, <1>9, <1>10, <1>11

LEMMA NewTextIs ==
  ASSUME NEW d, NEW r, Retitling(d, r), NEW p \in DOMAIN d
  PROVE  LET text == NewText(d, r, p)
         IN /\ d[p].is = "face" => text \in FaceTexts /\ Follows(text, d[p], NewFile(r, p))
            /\ d[p].is # "face" => text = d[p]
<1> DEFINE dir == r.dir
           to == RenameTo(r)
           text == NewText(d, r, p)
<1>1. /\ dir \in Dirs \ {<<>>} /\ to \in Dirs \ {<<>>} /\ Typed(d) /\ Tidy(d) /\ FaceFile(dir) \in DOMAIN d
      /\ d[FaceFile(dir)] \in FaceTexts /\ Front(to) = Front(dir)
  BY RetitlingIs
<1>2. ASSUME d[p].is # "face" PROVE text = d[p]
  <2>1. p # FaceFile(dir)
    BY <1>1, <1>2 DEF FaceTexts
  <2>2. Rewritten(d, r, p) = d[p]
    BY <1>2, <2>1 DEF Rewritten
  <2> QED BY <2>2 DEF NewText
<1>3. ASSUME d[p].is = "face" PROVE text \in FaceTexts /\ Follows(text, d[p], NewFile(r, p))
  <2>1. /\ p.dir \in Dirs \ {<<>>} /\ p = FaceFile(p.dir) /\ d[p] \in FaceTexts
        /\ d[p].parent = Front(p.dir) /\ d[p].names = d[p].owns /\ p \in Places
    BY <1>1, <1>3, FacesInOrder DEF Typed
  <2>2. /\ text \in FaceTexts /\ text.is = "face" /\ text.owns = d[p].owns /\ text.names = text.owns
        /\ text.parent = Atomic!Rebased(dir, to, Front(p.dir))
    <3>1. CASE IsPrefix(dir, p.dir)
      <4>1. text = Rewritten(d, r, p)
        BY <3>1 DEF NewText
      <4> HIDE DEF text
      <4> QED BY <1>3, <4>1, RewrittenIs
    <3>2. CASE ~IsPrefix(dir, p.dir)
      <4>1. text = d[p]
        BY <3>2 DEF NewText
      <4>2. ~IsPrefix(dir, Front(p.dir))
        BY <1>1, <2>1, <3>2, PrefixOfFront
      <4>3. Atomic!Rebased(dir, to, Front(p.dir)) = Front(p.dir)
        BY <4>2, RebasedElsewhere
      <4> HIDE DEF text
      <4> QED BY <1>3, <2>1, <4>1, <4>3
    <3> QED BY <3>1, <3>2
  <2>3. Front(NewFile(r, p).dir) = Atomic!Rebased(dir, to, Front(p.dir))
    <3>1. CASE p = FaceFile(dir)
      <4>1. NewFile(r, p).dir = to /\ p.dir = dir
        BY <3>1, FaceFileIs DEF NewFile
      <4>2. ~IsPrefix(dir, Front(dir))
        BY <1>1, PrefixOfFront
      <4>3. Atomic!Rebased(dir, to, Front(dir)) = Front(dir)
        BY <4>2, RebasedElsewhere
      <4> QED BY <1>1, <4>1, <4>3
    <3>2. CASE p # FaceFile(dir)
      <4>1. NewFile(r, p).dir = Atomic!Rebased(dir, to, p.dir)
        BY <1>1, <2>1, <3>2, NewParts DEF NewFile
      <4> DEFINE own == p.dir
      <4>2. own # dir /\ own \in Dirs \ {<<>>} /\ NewFile(r, p).dir = Atomic!Rebased(dir, to, own)
        BY <2>1, <3>2, <4>1
      <4> HIDE DEF own, dir, to
      <4>3. Front(Atomic!Rebased(dir, to, own)) = Atomic!Rebased(dir, to, Front(own))
        BY <1>1, <4>2, RebasedShape
      <4> QED BY <4>2, <4>3 DEF own
    <3> QED BY <3>1, <3>2
  <2> HIDE DEF text
  <2> QED BY <2>2, <2>3 DEF Follows
<1> QED BY <1>2, <1>3

LEMMA RenameMadeIs ==
  ASSUME NEW d, NEW r, Retitling(d, r)
  PROVE  LET e == RenameMade(d, r)
         IN /\ Disk(e) /\ Typed(e) /\ DOMAIN e = DOMAIN AfterRename(d, r)
            /\ \A p \in DOMAIN d : NewFile(r, p) \in DOMAIN e /\ e[NewFile(r, p)] = NewText(d, r, p)
<1> DEFINE f == AfterRename(d, r)
           e == RenameMade(d, r)
           from(q) == CHOOSE p \in DOMAIN d : q = NewFile(r, p)
<1>1. Renumbered(f, d, r)
  BY RenamedIs
<1>2. Disk(e) /\ DOMAIN e = DOMAIN f /\ \A q \in DOMAIN f : e[q] = NewText(d, r, from(q))
  BY DEF RenameMade, Disk
<1> HIDE DEF e, f
<1>3. ASSUME NEW p \in DOMAIN d PROVE NewFile(r, p) \in DOMAIN e /\ e[NewFile(r, p)] = NewText(d, r, p)
  <2> DEFINE q == NewFile(r, p)
  <2>1. from(q) \in DOMAIN d /\ q = NewFile(r, from(q))
    OBVIOUS
  <2>2. \A x \in DOMAIN d : NewFile(r, x) = NewFile(r, p) => x = p
    BY <1>1 DEF Renumbered
  <2>3. from(q) = p
    BY <2>1, <2>2
  <2>4. q \in DOMAIN f
    BY <1>1 DEF Renumbered
  <2> HIDE DEF q, from
  <2> QED BY <1>2, <2>3, <2>4 DEF q
<1>4. Typed(e)
  <2>1. IsFiniteSet(DOMAIN e) /\ \A q \in DOMAIN e : q \in Places
    BY <1>1, <1>2 DEF Renumbered, Typed
  <2>2. ASSUME NEW q \in DOMAIN e, e[q].is = "face" PROVE e[q] \in FaceTexts /\ FacePlace(q)
    <3>1. PICK p \in DOMAIN d : q = NewFile(r, p)
      BY <1>1, <1>2 DEF Renumbered
    <3>2. e[q] = NewText(d, r, p) /\ q \in DOMAIN f /\ f[q] = d[p]
      BY <1>1, <1>3, <3>1 DEF Renumbered
    <3>3. d[p].is = "face" /\ NewText(d, r, p) \in FaceTexts
      BY <2>2, <3>2, NewTextIs
    <3> QED BY <1>1, <3>2, <3>3 DEF Renumbered, Typed
  <2> QED BY <2>1, <2>2 DEF Typed
<1> QED BY <1>2, <1>3, <1>4 DEF e, f

\* What a rename leaves behind is the tree with its module under the other name.
LEMMA RenameRelocates ==
  ASSUME NEW d, NEW r, Retitling(d, r)
  PROVE  Relocating(d, RenameMade(d, r), r.dir, RenameTo(r))
<1> DEFINE dir == r.dir
           to == RenameTo(r)
           f == AfterRename(d, r)
           e == RenameMade(d, r)
<1>1. /\ dir \in Dirs \ {<<>>} /\ to \in Dirs \ {<<>>} /\ Typed(d) /\ Tidy(d) /\ Under(d, to) = {}
      /\ Last(dir) # "registry_rule" /\ Last(to) # "registry_rule" /\ Renumbered(f, d, r)
  BY RetitlingIs, RenamedIs
<1>2. /\ Disk(e) /\ Typed(e) /\ DOMAIN e = DOMAIN f
      /\ \A p \in DOMAIN d : NewFile(r, p) \in DOMAIN e /\ e[NewFile(r, p)] = NewText(d, r, p)
  BY RenameMadeIs
<1>3. \A p : Spot(dir, to, p) = NewFile(r, p)
  BY DEF Spot, NewFile
<1> HIDE DEF e, f, dir, to
<1>4. \A p \in DOMAIN d : /\ d[p].is = "face" => Follows(NewText(d, r, p), d[p], NewFile(r, p))
                          /\ d[p].is # "face" => NewText(d, r, p) = d[p]
  BY NewTextIs
<1>5. \A p \in DOMAIN d : /\ p.dir = <<>> => NewFile(r, p) = p /\ d[p].is # "face"
                          /\ p.dir # <<>> => NewFile(r, p).dir # <<>>
  <2> SUFFICES ASSUME NEW p \in DOMAIN d
               PROVE  /\ p.dir = <<>> => NewFile(r, p) = p /\ d[p].is # "face"
                      /\ p.dir # <<>> => NewFile(r, p).dir # <<>>
    OBVIOUS
  <2>1. p \in Places /\ (p.dir = <<>> => d[p].is # "face")
    BY <1>1 DEF Typed, FacePlace
  <2>2. /\ p.dir = <<>> => New(dir, to, p) = p
        /\ p.dir # <<>> => New(dir, to, p).dir # <<>>
    BY <1>1, <2>1, RootStays
  <2>3. FaceFile(dir).dir # <<>> /\ FaceFile(to).dir # <<>>
    BY <1>1, FaceFileIs
  <2>4. NewFile(r, p) = IF p = FaceFile(dir) THEN FaceFile(to) ELSE New(dir, to, p)
    BY DEF NewFile, dir, to
  <2> QED BY <2>1, <2>2, <2>3, <2>4
<1>6. ASSUME NEW q, q.dir = <<>>
      PROVE  (q \in DOMAIN e <=> q \in DOMAIN d) /\ (q \in DOMAIN d => e[q] = d[q])
  <2>1. ASSUME q \in DOMAIN d PROVE q \in DOMAIN e /\ e[q] = d[q]
    BY <1>2, <1>4, <1>5, <1>6, <2>1
  <2>2. ASSUME q \in DOMAIN e PROVE q \in DOMAIN d
    <3>1. PICK p \in DOMAIN d : q = NewFile(r, p)
      BY <1>1, <1>2, <2>2 DEF Renumbered
    <3> QED BY <1>5, <1>6, <3>1
  <2> QED BY <2>1, <2>2
<1>7. Relocated(d, e, dir, to)
  <2>1. \A p \in DOMAIN d : p.dir # <<>> =>
          /\ Spot(dir, to, p) \in DOMAIN e
          /\ d[p].is = "face" => Follows(e[Spot(dir, to, p)], d[p], Spot(dir, to, p))
          /\ d[p].is # "face" => e[Spot(dir, to, p)] = d[p]
    <3> SUFFICES ASSUME NEW p \in DOMAIN d
                 PROVE  /\ NewFile(r, p) \in DOMAIN e
                        /\ d[p].is = "face" => Follows(e[NewFile(r, p)], d[p], NewFile(r, p))
                        /\ d[p].is # "face" => e[NewFile(r, p)] = d[p]
      BY <1>3
    <3> QED BY <1>2, <1>4
  <2>2. \A q \in DOMAIN e : q.dir # <<>> => \E p \in DOMAIN d : p.dir # <<>> /\ q = Spot(dir, to, p)
    <3> SUFFICES ASSUME NEW q \in DOMAIN e, q.dir # <<>>
                 PROVE  \E p \in DOMAIN d : p.dir # <<>> /\ q = Spot(dir, to, p)
      OBVIOUS
    <3>1. PICK p \in DOMAIN d : q = NewFile(r, p)
      BY <1>1, <1>2 DEF Renumbered
    <3> QED BY <1>3, <1>5, <3>1
  <2>3. \A q \in {Entry, Record, Anchor, Lock} : (q \in DOMAIN e <=> q \in DOMAIN d) /\ (q \in DOMAIN d => e[q] = d[q])
    BY <1>6, RootPlaces
  <2>4. \A q \in DOMAIN e : q.dir = <<>> => e[q].is \notin {"torn", "rule"}
    <3> SUFFICES ASSUME NEW q \in DOMAIN e, q.dir = <<>> PROVE e[q].is \notin {"torn", "rule"}
      OBVIOUS
    <3>1. q \in DOMAIN d /\ e[q] = d[q]
      BY <1>6
    <3> QED BY <1>1, <3>1 DEF Tidy, Proper
  <2> QED BY <2>1, <2>2, <2>3, <2>4 DEF Relocated
<1> QED BY <1>1, <1>2, <1>7 DEF Relocating, e, dir, to

RenamedFaces(t, r) ==
  LET follow(text) == [text EXCEPT !.parent = Atomic!Rebased(r.dir, RenameTo(r), @),
                         !.alias = IF Len(r.dir) = 1 /\ @ = Last(r.dir) THEN r.name ELSE @]
  IN [x \in DOMAIN t.faces |->
        IF x = r.dir THEN follow(Atomic!Edited(t, r))
        ELSE IF IsPrefix(r.dir, x) THEN follow(t.faces[x]) ELSE t.faces[x]]

LEMMA RenamedFaceIs ==
  ASSUME NEW d, NEW r, Retitling(d, r), NEW x \in DOMAIN View(d).faces, View(d).faces[x] = d[FaceFile(x)],
         View(d).faces[r.dir] = d[FaceFile(r.dir)], d[FaceFile(x)].is = "face"
  PROVE  RenamedFaces(View(d), r)[x] = NewText(d, r, FaceFile(x))
<1> DEFINE dir == r.dir
           to == RenameTo(r)
           t == View(d)
           follow(text) == [text EXCEPT !.parent = Atomic!Rebased(dir, to, @),
                              !.alias = IF Len(dir) = 1 /\ @ = Last(dir) THEN r.name ELSE @]
           p == FaceFile(x)
<1>1. RenamedFaces(t, r)[x] = IF x = dir THEN follow(Atomic!Edited(t, r))
                              ELSE IF IsPrefix(dir, x) THEN follow(t.faces[x]) ELSE t.faces[x]
  BY DEF RenamedFaces
<1>2. Rewritten(d, r, p) = IF (IF p = FaceFile(dir) THEN Rendered(d, r) ELSE d[p]).is # "face"
                           THEN IF p = FaceFile(dir) THEN Rendered(d, r) ELSE d[p]
                           ELSE follow(IF p = FaceFile(dir) THEN Rendered(d, r) ELSE d[p])
  BY DEF Rewritten, RenameTo
<1>3. Atomic!Edited(t, r) = Rendered(d, r)
  BY DEF Atomic!Edited, Rendered, Face
<1>4. p.dir = x /\ (p = FaceFile(dir) <=> x = dir) /\ dir \in Dirs \ {<<>>} /\ t.faces[x] = d[p] /\ d[p].is = "face"
  BY RetitlingIs, FaceFileIs
<1>5. Rendered(d, r).is = "face"
  <2>1. Rendered(d, r) \in FaceTexts
    BY RetitlingIs, RenderedIs DEF Retitling, Renaming
  <2> QED BY <2>1 DEF FaceTexts
<1> HIDE DEF follow, t, p, to
<1>6. CASE x = dir
  <2>1. IsPrefix(dir, x)
    BY <1>4, <1>6, RebasedItself
  <2>2. NewText(d, r, p) = Rewritten(d, r, p)
    BY <1>4, <2>1 DEF NewText
  <2>3. Rewritten(d, r, p) = follow(Rendered(d, r))
    BY <1>2, <1>4, <1>5, <1>6
  <2> QED BY <1>1, <1>3, <1>6, <2>2, <2>3 DEF t, p
<1>7. CASE x # dir /\ IsPrefix(dir, x)
  <2>1. NewText(d, r, p) = Rewritten(d, r, p)
    BY <1>4, <1>7 DEF NewText
  <2>2. Rewritten(d, r, p) = follow(d[p])
    BY <1>2, <1>4, <1>7
  <2> QED BY <1>1, <1>4, <1>7, <2>1, <2>2 DEF t, p
<1>8. CASE x # dir /\ ~IsPrefix(dir, x)
  <2>1. NewText(d, r, p) = d[p]
    BY <1>4, <1>8 DEF NewText
  <2> QED BY <1>1, <1>4, <1>8, <2>1 DEF t, p
<1> QED BY <1>6, <1>7, <1>8

\* ... in order, and what the request says.
LEMMA RenameReached ==
  ASSUME NEW d, NEW r, Retitling(d, r), Loads(RenameMade(d, r))
  PROVE  Reached(RenameMade(d, r), d, r)
<1> DEFINE dir == r.dir
           to == RenameTo(r)
           e == RenameMade(d, r)
           t == View(d)
           F == t.faces
           R == t.rules
           H == RenamedFaces(t, r)
           G == Atomic!Rekeyed(H, dir, to)
           Q == Atomic!Rekeyed(R, dir, to)
<1>1. /\ Relocating(d, e, dir, to) /\ Loads(e)
      /\ \A p \in DOMAIN d : NewFile(r, p) \in DOMAIN e /\ e[NewFile(r, p)] = NewText(d, r, p)
  BY RenameRelocates, RenameMadeIs
<1>2. /\ dir \in Dirs \ {<<>>} /\ to \in Dirs \ {<<>>} /\ Typed(d) /\ Tidy(d) /\ Under(d, to) = {}
      /\ FaceFile(dir) \in DOMAIN d /\ d[FaceFile(dir)] \in FaceTexts
  BY RetitlingIs
<1>3. ShowsFaces(F, d) /\ t = Tree(F, R, Cuts(d), Slots(d), Plugs(d))
  BY <1>2, ViewIs
<1>4. \A x \in DOMAIN F : /\ x \in Dirs \ {<<>>} /\ FaceFile(x) \in DOMAIN d /\ F[x] = d[FaceFile(x)]
                          /\ d[FaceFile(x)].is = "face" /\ FaceFile(x).dir = x /\ ~IsPrefix(to, x)
  <2> SUFFICES ASSUME NEW x \in DOMAIN F
               PROVE  /\ x \in Dirs \ {<<>>} /\ FaceFile(x) \in DOMAIN d /\ F[x] = d[FaceFile(x)]
                      /\ d[FaceFile(x)].is = "face" /\ FaceFile(x).dir = x /\ ~IsPrefix(to, x)
    OBVIOUS
  <2> HIDE DEF F, to
  <2>1. /\ x # <<>> /\ FaceFile(x) \in DOMAIN d /\ F[x] = d[FaceFile(x)]
        /\ d[FaceFile(x)].is = "face" /\ FaceFile(x).dir = x
    BY <1>3, FaceFileIs DEF ShowsFaces, IsFace
  <2>2. FaceFile(x).dir \in Dirs /\ ~IsPrefix(to, FaceFile(x).dir)
    BY <1>2, <2>1, PlaceParts, NothingUnder DEF Typed
  <2> QED BY <2>1, <2>2
<1>5. DOMAIN H = DOMAIN F /\ \A x \in DOMAIN F : H[x] = NewText(d, r, FaceFile(x))
  <2>1. DOMAIN H = DOMAIN F
    BY DEF RenamedFaces
  <2>2. F[dir] = d[FaceFile(dir)]
    <3>1. IsFace(d, FaceFile(dir)) /\ dir # <<>>
      BY <1>2 DEF IsFace, FaceTexts
    <3> HIDE DEF F, dir
    <3> QED BY <1>3, <3>1 DEF ShowsFaces
  <2>3. ASSUME NEW x \in DOMAIN F PROVE H[x] = NewText(d, r, FaceFile(x))
    <3>1. /\ x \in DOMAIN View(d).faces /\ View(d).faces[x] = d[FaceFile(x)]
          /\ View(d).faces[r.dir] = d[FaceFile(r.dir)] /\ d[FaceFile(x)].is = "face"
      BY <1>4, <2>2
    <3>2. RenamedFaces(View(d), r)[x] = NewText(d, r, FaceFile(x))
      BY <3>1, RenamedFaceIs
    <3> QED BY <3>2
  <2> QED BY <2>1, <2>3
<1> HIDE DEF H, F, R
<1>6. /\ G = [y \in DOMAIN G |-> G[y]]
      /\ \A x \in DOMAIN H : Atomic!Rebased(dir, to, x) \in DOMAIN G /\ G[Atomic!Rebased(dir, to, x)] = H[x]
      /\ \A y \in DOMAIN G : \E x \in DOMAIN H : y = Atomic!Rebased(dir, to, x)
  <2>1. DOMAIN H \subseteq Dirs /\ \A x \in DOMAIN H : ~IsPrefix(to, x)
    BY <1>4, <1>5
  <2> HIDE DEF G
  <2>2. G = Atomic!Rekeyed(H, dir, to)
    BY DEF G
  <2> HIDE DEF dir, to
  <2> QED BY <1>2, <2>1, <2>2, RekeyedIs
<1> HIDE DEF G
<1>7. RelocatedFaces(G, d, e, dir, to)
  <2>1. ASSUME NEW x \in DOMAIN F
        PROVE  /\ Atomic!Rebased(dir, to, x) \in DOMAIN G
               /\ G[Atomic!Rebased(dir, to, x)] = e[FaceFile(Atomic!Rebased(dir, to, x))]
    <3> DEFINE p == FaceFile(x)
    <3>1. p \in DOMAIN d /\ p.dir = x /\ p.dir # <<>> /\ p \in Places
      BY <1>2, <1>4 DEF Typed
    <3>2. e[NewFile(r, p)] = NewText(d, r, p)
      BY <1>1, <3>1
    <3>3. Spot(dir, to, p) = NewFile(r, p)
      BY DEF Spot, NewFile
    <3>4. Spot(dir, to, p) = FaceFile(Atomic!Rebased(dir, to, p.dir))
      <4>1. p = FaceFile(p.dir)
        BY <3>1
      <4> HIDE DEF p, dir, to
      <4> QED BY <1>2, <3>1, <4>1, SpotIs
    <3> QED BY <1>5, <1>6, <3>1, <3>2, <3>3, <3>4
  <2> QED BY <1>5, <1>6, <2>1 DEF RelocatedFaces, F, t
<1>8. Tidy(e) /\ View(e) = Tree(G, Q, Cuts(d), Slots(d), Plugs(d))
  <2> HIDE DEF e, dir, to
  <2>1. Tidy(e) /\ View(e) = Tree(G, Atomic!Rekeyed(View(d).rules, dir, to), Cuts(d), Slots(d), Plugs(d))
    BY <1>1, <1>7, RelocatedView
  <2> QED BY <2>1 DEF R, t
<1>9. Atomic!After(View(d), r) = Tree(G, Q, Cuts(d), Slots(d), Plugs(d))
  <2>1. r.op = "edit" /\ r.name # Last(r.dir)
    BY DEF Retitling, Renaming
  <2> HIDE DEF t
  <2>2. Atomic!After(t, r) = Atomic!Renamed(t, r)
    BY <2>1 DEF Atomic!After, Atomic!Last, Last
  <2>3. Atomic!Renamed(t, r) = WithSources(t, Atomic!Rekeyed(RenamedFaces(t, r), dir, to), Atomic!Rekeyed(t.rules, dir, to))
    BY DEF Atomic!Renamed, WithSources, RenamedFaces, RenameTo, Atomic!Last, Last, Atomic!Front, Front,
           Atomic!IsPrefix, IsPrefix
  <2>4. Atomic!Renamed(t, r) = WithSources(t, G, Q)
    BY <2>3 DEF G, Q, H, R
  <2> HIDE DEF Q
  <2>5. WithSources(t, G, Q) = Tree(G, Q, Cuts(d), Slots(d), Plugs(d))
    BY <1>3, TwoSources
  <2> QED BY <2>2, <2>4, <2>5 DEF t
<1> HIDE DEF e, Q
<1> QED BY <1>8, <1>9 DEF Reached, e

\* What the writes of a rename change once both names have changed.
NewFiles(d, r) == [i \in 1..Len(Files(d, r)) |-> NewFile(r, Files(d, r)[i])]
LEMMA RenameDiffers ==
  ASSUME NEW d, NEW r, Retitling(d, r)
  PROVE  LET f == AfterRename(d, r)
             e == RenameMade(d, r)
             n == Len(Files(d, r))
         IN /\ n \in Nat /\ Differ(f, e, NewFiles(d, r), n)
            /\ \A i \in 1..n : /\ NewFiles(d, r)[i] = NewFile(r, Files(d, r)[i])
                               /\ e[NewFiles(d, r)[i]] = Rewritten(d, r, Files(d, r)[i])
<1> DEFINE f == AfterRename(d, r)
           e == RenameMade(d, r)
           places == {p \in Under(d, r.dir) \ {At(r.dir, r.name)} : d[p].is # "torn"}
           moved == Files(d, r)
           files == NewFiles(d, r)
           n == Len(moved)
<1>1. /\ Typed(d) /\ Tidy(d) /\ r.dir \in Dirs \ {<<>>} /\ Renumbered(f, d, r)
      /\ At(r.dir, r.name) \notin DOMAIN d
  BY RetitlingIs, RenamedIs
<1>2. /\ Disk(e) /\ DOMAIN e = DOMAIN f
      /\ \A p \in DOMAIN d : NewFile(r, p) \in DOMAIN e /\ e[NewFile(r, p)] = NewText(d, r, p)
  BY RenameMadeIs
<1>3. \A p : p \in places <=> p \in DOMAIN d /\ IsPrefix(r.dir, p.dir)
  <2>1. Under(d, r.dir) = {p \in DOMAIN d : IsPrefix(r.dir, p.dir)}
    BY <1>1, NothingUnder
  <2>2. \A p \in DOMAIN d : d[p].is # "torn"
    BY <1>1 DEF Tidy, Proper
  <2> QED BY <1>1, <2>1, <2>2
<1>4. /\ n \in Nat /\ \A i \in 1..n : moved[i] \in places
      /\ \A p \in places : \E i \in 1..n : moved[i] = p
  <2>1. moved = Listed(places)
    BY DEF Files
  <2>2. places \subseteq DOMAIN d /\ IsFiniteSet(DOMAIN d)
    BY <1>1, <1>3 DEF Typed
  <2> HIDE DEF places, moved
  <2>3. IsFiniteSet(places)
    BY <2>2, FS_Subset
  <2> QED BY <1>1, <2>1, <2>2, <2>3, ListedFiles, ListedCovers
<1>5. \A i \in 1..n : files[i] = NewFile(r, moved[i])
  BY DEF NewFiles
<1> HIDE DEF e, f, places, moved, files, n
<1>6. ASSUME NEW i \in 1..n PROVE files[i] \in DOMAIN e /\ e[files[i]] = Rewritten(d, r, moved[i])
  <2> DEFINE p == moved[i]
  <2>1. p \in DOMAIN d /\ IsPrefix(r.dir, p.dir) /\ files[i] = NewFile(r, p)
    BY <1>3, <1>4, <1>5
  <2> HIDE DEF p
  <2>2. NewText(d, r, p) = Rewritten(d, r, p)
    BY <2>1 DEF NewText
  <2>3. files[i] \in DOMAIN e /\ e[files[i]] = Rewritten(d, r, p)
    BY <1>2, <2>1, <2>2
  <2> QED BY <2>3 DEF p
<1>7. ASSUME NEW q \in DOMAIN f, e[q] # f[q] PROVE \E m \in 1..n : q = files[m]
  <2>1. PICK p \in DOMAIN d : q = NewFile(r, p)
    BY <1>1 DEF Renumbered
  <2>2. e[q] = NewText(d, r, p) /\ f[q] = d[p]
    BY <1>1, <1>2, <2>1 DEF Renumbered
  <2>3. p \in places
    BY <1>3, <1>7, <2>2 DEF NewText
  <2>4. PICK m \in 1..n : moved[m] = p
    BY <1>4, <2>3
  <2> QED BY <1>5, <2>1, <2>4
<1>8. Differ(f, e, files, n)
  BY <1>1, <1>2, <1>6, <1>7 DEF Differ, Renumbered
<1> QED BY <1>4, <1>5, <1>6, <1>8 DEF f, e, moved, files, n

\* A plan carries on if its first call may fail and the rest carries on after it.
LEMMA OnFirst ==
  ASSUME NEW plan, plan # <<>>, NEW d, NEW old, NEW r, MayFail(Head(plan), d, old),
         Possible(d, Head(plan).call) => Carries(Tail(plan), DiskAfter(d, Head(plan).call), old, r)
  PROVE  Carries(plan, d, old, r)
<1> DEFINE next == Left(Tail(plan), DiskAfter(d, Head(plan).call))
<1>1. PICK states : LeadsOn(states, old, r) /\ (Possible(d, Head(plan).call) => next \in states)
  <2>1. CASE Possible(d, Head(plan).call)
    BY <2>1 DEF Carries
  <2>2. CASE ~Possible(d, Head(plan).call)
    <3>1. LeadsOn({}, old, r)
      BY DEF LeadsOn
    <3> QED BY <2>2, <3>1
  <2> QED BY <2>1, <2>2
<1> DEFINE more == states \cup {Left(plan, d)}
<1>2. LeadsOn(more, old, r)
  <2> SUFFICES ASSUME NEW x \in more
               PROVE  /\ x.left = <<>> => Reached(x.on, old, r)
                      /\ x.left # <<>> =>
                           /\ MayFail(Head(x.left), x.on, old)
                           /\ Possible(x.on, Head(x.left).call)
                                => Left(Tail(x.left), DiskAfter(x.on, Head(x.left).call)) \in more
    BY DEF LeadsOn
  <2>1. CASE x \in states
    BY <1>1, <2>1 DEF LeadsOn
  <2>2. CASE x = Left(plan, d)
    <3>1. x.left = plan /\ x.on = d
      BY <2>2, LeftIs
    <3> QED BY <1>1, <3>1
  <2> QED BY <2>1, <2>2
<1> QED BY <1>2 DEF Carries

\* The writes of a rename and the registry's word, whatever of them fails.
LEMMA RewritesCarry ==
  ASSUME NEW d, NEW r, Retitling(d, r)
  PROVE  Carries(RenameRest(d, r), AfterRename(d, r), d, r)
<1> DEFINE f == AfterRename(d, r)
           e == RenameMade(d, r)
           moved == Files(d, r)
           files == NewFiles(d, r)
           n == Len(moved)
           step(i) == Step(Put(NewFile(r, moved[i]), Rewritten(d, r, moved[i])), Rollback(d, r, moved, i))
           s == [i \in 1..n |-> step(i)]
           final == Step(Check, Rollback(d, r, moved, n))
           tail == <<final>>
<1>1. RenameRest(d, r) = s \o tail
  BY DEF RenameRest
<1>2. /\ n \in Nat /\ Differ(f, e, files, n)
      /\ \A i \in 1..n : files[i] = NewFile(r, moved[i]) /\ e[files[i]] = Rewritten(d, r, moved[i])
  BY RenameDiffers
<1>3. s = [i \in 1..n |-> s[i]] /\ \A i \in 1..n : s[i] = step(i)
  OBVIOUS
<1> HIDE DEF e, files, s, n, tail, final, moved, f
<1>4. DOMAIN e = DOMAIN f /\ Disk(e)
  BY <1>2 DEF Differ
<1>5. ASSUME NEW i \in 1..n
      PROVE  s[i].call = Put(files[i], e[files[i]]) /\ MayFail(s[i], Overlaid(f, e, files, i - 1), d)
  <2> DEFINE g == Overlaid(f, e, files, i - 1)
             call == Put(NewFile(r, moved[i]), Rewritten(d, r, moved[i]))
             undo == Rollback(d, r, moved, i)
  <2>1. s[i] = Step(call, undo)
    BY <1>3
  <2>2. call = Put(files[i], e[files[i]])
    BY <1>2
  <2>3. Disk(g) /\ DOMAIN g = DOMAIN f
    BY DEF Overlaid, Disk
  <2>4. ASSUME NEW q \in DOMAIN g, f[q] # g[q] PROVE \E m \in 1..i : q = NewFile(r, moved[m])
    <3>1. \E m \in 1..(i - 1) : q = files[m]
      BY <2>3, <2>4 DEF Overlaid
    <3>2. PICK m \in 1..(i - 1) : q = files[m]
      BY <3>1
    <3>3. m \in 1..n /\ m \in 1..i
      BY <1>2, <3>2
    <3> QED BY <1>2, <3>2, <3>3
  <2> HIDE DEF g, call, undo
  <2>5. Restores(undo, g, d)
    <3>1. i \in 0..Len(Files(d, r))
      BY <1>2 DEF n, moved
    <3>2. DOMAIN g = DOMAIN AfterRename(d, r)
      BY <2>3 DEF f
    <3>3. \A q \in DOMAIN g : AfterRename(d, r)[q] = g[q] \/ \E m \in 1..i : q = NewFile(r, Files(d, r)[m])
      BY <2>4 DEF f, moved
    <3>4. Restores(Rollback(d, r, Files(d, r), i), g, d)
      BY <2>3, <3>1, <3>2, <3>3, RollbackRestores
    <3> QED BY <3>4 DEF undo, moved
  <2>6. s[i].call = call /\ s[i].undo = undo
    BY <2>1, StepParts
  <2>7. MayFail(s[i], g, d)
    BY <2>5, <2>6 DEF MayFail
  <2> QED BY <2>2, <2>6, <2>7 DEF g
<1>6. Carries(tail, e, d, r)
  <2> DEFINE undo == Rollback(d, r, moved, n)
  <2>1. final.call = Check /\ final.undo = undo
    <3> HIDE DEF undo
    <3>1. final = Step(Check, undo)
      BY DEF final, undo
    <3> QED BY <3>1, StepParts
  <2>2. Restores(undo, e, d)
    <3>1. n \in 0..Len(Files(d, r))
      BY <1>2 DEF n, moved
    <3>2. DOMAIN e = DOMAIN AfterRename(d, r)
      BY <1>4 DEF f
    <3>3. ASSUME NEW q \in DOMAIN e
          PROVE  AfterRename(d, r)[q] = e[q] \/ \E m \in 1..n : q = NewFile(r, Files(d, r)[m])
      <4>1. CASE e[q] = f[q]
        BY <4>1 DEF f
      <4>2. CASE e[q] # f[q]
        <5>1. PICK m \in 1..n : q = files[m]
          BY <1>2, <1>4, <4>2 DEF Differ
        <5> QED BY <1>2, <5>1 DEF moved
      <4> QED BY <4>1, <4>2
    <3>4. Restores(Rollback(d, r, Files(d, r), n), e, d)
      <4>1. \A q \in DOMAIN e : AfterRename(d, r)[q] = e[q] \/ \E m \in 1..n : q = NewFile(r, Files(d, r)[m])
        BY <3>3
      <4> QED BY <1>4, <3>1, <3>2, <4>1, RollbackRestores
    <3> QED BY <3>4 DEF moved
  <2> HIDE DEF undo
  <2>3. MayFail(final, e, d)
    BY <2>1, <2>2 DEF MayFail
  <2>4. Possible(e, final.call) => Reached(DiskAfter(e, final.call), d, r)
    BY <2>1, CheckIs, RenameReached DEF e
  <2>5. Carries(<<final>>, e, d, r)
    BY <2>3, <2>4, OnOne
  <2> QED BY <2>5 DEF tail
<1>7. IsSeq(tail)
  BY Tuples DEF tail
<1>8. \A i \in 1..n : s[i].call = Put(files[i], e[files[i]]) /\ MayFail(s[i], Overlaid(f, e, files, i - 1), d)
  BY <1>5
<1>9. Carries(s \o tail, f, d, r)
  BY <1>2, <1>3, <1>6, <1>7, <1>8, PutsCarry
<1> QED BY <1>1, <1>9 DEF f

\* migrate_module_subtree: two renames, the files below, the registry's word.
LEMMA RenameCarries ==
  ASSUME NEW d, Tidy(d), NEW r, Renaming(d, r), r.op = "edit", r.name \in Names, ~Unsound(d, r),
         Under(d, RenameTo(r)) = {}
  PROVE  Carries(RenamePlan(d, r), d, d, r)
<1> DEFINE dir == r.dir
           to == RenameTo(r)
           plan == RenamePlan(d, r)
           more == Tail(plan)
           c == AfterMove(d, r)
           f == AfterRename(d, r)
           home == <<MoveDir(to, dir)>>
<1>1. Retitling(d, r)
  BY DEF Retitling, Unsound, Renaming
<1>2. /\ dir \in Dirs \ {<<>>} /\ to \in Dirs \ {<<>>} /\ Apart(dir, to) /\ Typed(d) /\ Under(d, to) = {}
      /\ FaceFile(dir) \in DOMAIN d
  BY <1>1, RetitlingIs
<1>3. /\ plan # <<>> /\ Head(plan) = FirstStep(r) /\ more # <<>> /\ Head(more) = SecondStep(r)
      /\ Tail(more) = RenameRest(d, r)
  BY <1>2, RenameShape
<1>4. /\ FirstStep(r).call = MoveDir(dir, to) /\ FirstStep(r).undo = <<>>
      /\ SecondStep(r).call = Rename(OldName(r), FaceFile(to)) /\ SecondStep(r).undo = home
  <2>1. FirstStep(r).call = MoveDir(dir, to) /\ FirstStep(r).undo = <<>>
    BY StepParts DEF FirstStep
  <2>2. SecondStep(r) = Step(Rename(OldName(r), FaceFile(to)), home)
    BY DEF SecondStep
  <2> HIDE DEF home, to
  <2>3. SecondStep(r).call = Rename(OldName(r), FaceFile(to)) /\ SecondStep(r).undo = home
    BY <2>2, StepParts
  <2> QED BY <2>1, <2>3 DEF to
<1>5. DiskAfter(d, MoveDir(dir, to)) = c
  BY MoveIs DEF AfterMove
<1>6. DiskAfter(c, Rename(OldName(r), FaceFile(to))) = f
  <2> HIDE DEF c
  <2>1. DiskAfter(c, Rename(OldName(r), FaceFile(to)))
          = Set(Only(c, DOMAIN c \ {OldName(r)}), FaceFile(to), c[OldName(r)])
    BY RenameIs
  <2>2. f = Set(Only(c, DOMAIN c \ {OldName(r)}), FaceFile(to), c[OldName(r)])
    BY DEF AfterRename, c
  <2> QED BY <2>1, <2>2
<1>7. Carries(RenameRest(d, r), f, d, r)
  BY <1>1, RewritesCarry
<1>8. ASSUME Possible(d, MoveDir(dir, to)) PROVE Carries(more, c, d, r)
  <2>1. Restores(home, c, d)
    <3> HIDE DEF dir, to
    <3>1. Restores(<<MoveDir(to, dir)>>, Carried(d, dir, to), d)
      BY <1>2, <1>8, Homeward
    <3> QED BY <3>1 DEF AfterMove, dir, to
  <2> HIDE DEF plan, more, c, f, home
  <2>2. MayFail(Head(more), c, d)
    BY <1>3, <1>4, <2>1 DEF MayFail
  <2>3. Carries(Tail(more), DiskAfter(c, Head(more).call), d, r)
    BY <1>3, <1>4, <1>6, <1>7
  <2> QED BY <1>3, <2>2, <2>3, OnFirst
<1> HIDE DEF plan, c
<1>9. MayFail(Head(plan), d, d)
  BY <1>3, <1>4, FirstMayFail
<1>10. Possible(d, Head(plan).call) => Carries(Tail(plan), DiskAfter(d, Head(plan).call), d, r)
  BY <1>3, <1>4, <1>5, <1>8
<1>11. Carries(plan, d, d, r)
  BY <1>3, <1>9, <1>10, OnFirst
<1> QED BY <1>11 DEF plan

\* The name an edit asks for: a fresh word, or the one the face has.
LEMMA EditName ==
  ASSUME NEW d, Typed(d), NEW r \in Atomic!Requests(View(d)), r.op = "edit"
  PROVE  r.name \in Names \cup {Last(r.dir)}
<1> DEFINE faces == DOMAIN View(d).faces
           wanted == [kind : Kinds, owns : BOOLEAN, rule : Atomic!Rules]
           creates == [op : {"create"}, dir : {Append(x, n) : x \in faces \cup {<<>>}, n \in Names}, face : wanted]
           edits(x) == [op : {"edit"}, dir : {x}, name : Names \cup {Last(x)}, face : wanted]
           promotes == [op : {"promote"}, dir : faces, face : wanted]
           others == [op : {"delete", "deepen", "cut", "graft", "retire"}, dir : faces]
           moves(x) == [op : {"move"}, dir : {x}, to : faces \cup {<<>>}, name : Names \cup {Last(x)}]
           plugins == [op : {"plugin"}, dir : {<<>>}]
<1> HIDE DEF faces
<1>1. Atomic!Requests(View(d)) =
        creates \cup (UNION {edits(x) : x \in faces}) \cup promotes \cup others
          \cup (UNION {moves(x) : x \in faces}) \cup plugins
  BY DEF Atomic!Requests, Atomic!Last, Last, faces
<1> HIDE DEF creates, edits, promotes, others, moves, plugins
<1>2. \/ r \in creates \/ (\E x \in faces : r \in edits(x)) \/ r \in promotes \/ r \in others
      \/ (\E x \in faces : r \in moves(x)) \/ r \in plugins
  BY <1>1
<1>3. PICK x \in faces : r \in edits(x)
  <2>1. r \notin creates /\ r \notin promotes /\ r \notin others /\ r \notin plugins
    BY DEF creates, promotes, others, plugins
  <2>2. \A x \in faces : r \notin moves(x)
    BY DEF moves
  <2> QED BY <1>2, <2>1, <2>2
<1> QED BY <1>3 DEF edits

\* Every plan, taken up on the tree it was made for, leads to the tree that was
\* asked for, and from wherever it stops its undoing leads back.
LEMMA PlanCarries ==
  ASSUME NEW d, Typed(d), Tidy(d), NEW r \in Atomic!Requests(View(d)), Accepted(d, r), ~Unsound(d, r)
  PROVE  Carries(Plan(d, r), d, d, r)
<1>1. /\ r.op \in {"create", "edit", "promote", "delete", "deepen", "cut", "graft", "retire", "move", "plugin"}
      /\ r.op \notin {"create", "plugin"} => Faced(d, r.dir)
      /\ r.op = "create" => r.dir \in Dirs \ {<<>>} /\ FreshName(Last(r.dir))
      /\ r.op \in {"edit", "move"} => FreshName(r.name)
      /\ r.op \in {"create", "edit", "promote"} => AskedFace(r.face)
      /\ r.op = "move" => r.to \in Dirs
  BY RequestParts
<1>2. CASE r.op = "create"
  <2>1. Plan(d, r) = CreatePlan(d, r)
    BY <1>2 DEF Plan
  <2>2. Carries(CreatePlan(d, r), d, d, r)
    BY <1>1, <1>2, CreateCarries
  <2> QED BY <2>1, <2>2
<1>3. CASE r.op = "edit" /\ r.name # Last(r.dir)
  <2>1. Plan(d, r) = RenamePlan(d, r)
    BY <1>3, PlanOf DEF Renames
  <2>2. Renaming(d, r)
    BY <1>1, <1>3 DEF Renaming
  <2>3. r.name \in Names
    BY <1>3, EditName
  <2>4. EditAccepted(d, r)
    BY <1>3 DEF Accepted
  <2>5. Under(d, RenameTo(r)) = {}
    BY <1>3, <2>4 DEF EditAccepted, RenameTo
  <2>6. Carries(RenamePlan(d, r), d, d, r)
    BY <1>3, <2>2, <2>3, <2>5, RenameCarries
  <2> QED BY <2>1, <2>6
<1>4. CASE r.op = "edit" /\ r.name = Last(r.dir) /\ r.face.kind # d[FaceFile(r.dir)].kind
  <2>1. Plan(d, r) = KindPlan(d, r)
    BY <1>4 DEF Plan
  <2>2. Carries(KindPlan(d, r), d, d, r)
    BY <1>1, <1>4, KindEdit
  <2> QED BY <2>1, <2>2
<1>5. CASE r.op = "edit" /\ r.name = Last(r.dir) /\ r.face.kind = d[FaceFile(r.dir)].kind
  <2>1. Plan(d, r) = ReplacePlan(d, r)
    BY <1>5 DEF Plan
  <2>2. Carries(ReplacePlan(d, r), d, d, r)
    BY <1>1, <1>5, ReplaceEdit
  <2> QED BY <2>1, <2>2
<1>6. CASE r.op = "delete"
  <2>1. Plan(d, r) = DeletePlan(d, r)
    BY <1>6 DEF Plan
  <2>2. r.dir \in Dirs \ {<<>>}
    BY <1>1, <1>6 DEF Faced
  <2>3. Carries(DeletePlan(d, r), d, d, r)
    BY <1>6, <2>2, DeleteCarries
  <2> QED BY <2>1, <2>3
<1>7. CASE r.op = "deepen"
  <2>1. Plan(d, r) = DeepenPlan(d, r)
    BY <1>7 DEF Plan
  <2>2. Carries(DeepenPlan(d, r), d, d, r)
    BY <1>1, <1>7, DeepenCarries
  <2> QED BY <2>1, <2>2
<1>8. CASE r.op = "move"
  <2>1. Plan(d, r) = MovePlan(d, r)
    BY <1>8, PlanOf
  <2>2. Mountable(d, r.to)
    BY <1>8 DEF Accepted
  <2>3. Carries(MovePlan(d, r), d, d, r)
    BY <1>1, <1>8, <2>2, MoveCarries
  <2> QED BY <2>1, <2>3
<1>9. CASE r.op = "cut"
  <2>1. Plan(d, r) = CutPlan(d, r)
    BY <1>9 DEF Plan
  <2>2. Carries(CutPlan(d, r), d, d, r)
    BY <1>9, CutCarries
  <2> QED BY <2>1, <2>2
<1>10. CASE r.op = "graft"
  <2>1. Plan(d, r) = GraftPlan(d, r)
    BY <1>10 DEF Plan
  <2>2. Record \notin DOMAIN d
    BY <1>10 DEF Accepted
  <2>3. Carries(GraftPlan(d, r), d, d, r)
    BY <1>10, <2>2, GraftCarries
  <2> QED BY <2>1, <2>3
<1>11. CASE r.op = "retire"
  <2>1. Plan(d, r) = RetirePlan(d, r)
    BY <1>11 DEF Plan
  <2>2. Carries(RetirePlan(d, r), d, d, r)
    BY <1>11, RetireCarries
  <2> QED BY <2>1, <2>2
<1>12. CASE r.op = "promote"
  <2>1. Plan(d, r) = PromotePlan(d, r)
    BY <1>12 DEF Plan
  <2>2. Carries(PromotePlan(d, r), d, d, r)
    BY <1>1, <1>12, PromoteCarries
  <2> QED BY <2>1, <2>2
<1>13. CASE r.op = "plugin"
  <2>1. Plan(d, r) = PluginPlan(d, r)
    BY <1>13 DEF Plan
  <2>2. Carries(PluginPlan(d, r), d, d, r)
    BY <1>13, PluginCarries
  <2> QED BY <2>1, <2>2
<1> QED
  BY <1>1, <1>2, <1>3, <1>4, <1>5, <1>6, <1>7, <1>8, <1>9, <1>10, <1>11, <1>12, <1>13

-----------------------------------------------------------------------------
(* The invariant: what is still to do leads to the tree that was asked for,  *)
(* and whatever is to be undone leads back to the tree as it was.            *)
TreeInv ==
  /\ excused \in BOOLEAN
  /\ ~excused =>
       /\ mode = "idle" => Tidy(disk)
       /\ mode # "idle" => Tidy(before)
       /\ mode = "working" => /\ request \in Atomic!Requests(View(before))
                              /\ Carries(todo, disk, before, request)
       /\ mode = "undoing" => Restores(undoing, disk, before)

LEMMA TreeInit ==
  ASSUME Tidy(Start), Init
  PROVE  TreeInv
BY DEF Init, TreeInv

\* Once excused, always excused.
LEMMA ExcusedStays ==
  ASSUME excused \in BOOLEAN, [Next]_authoringVars
  PROVE  excused' \in BOOLEAN /\ (excused => excused')
<1>1. CASE Begin \/ Fail
  <2>1. CASE Begin
    BY <2>1 DEF Begin
  <2>2. CASE Fail
    <3> DEFINE late == Head(todo).late
    <3>1. excused' = excused \/ excused' = (excused \/ late) \/ excused' = TRUE
      BY <2>2 DEF Fail
    <3> HIDE DEF late
    <3> QED BY <3>1
  <2> QED BY <1>1, <2>1, <2>2
<1>2. CASE Do \/ Undo
  BY <1>2 DEF Do, Undo
<1>3. CASE Finish \/ Report \/ Crash
  BY <1>3 DEF Finish, Report, Answer, Crash
<1>4. CASE UNCHANGED authoringVars
  BY <1>4 DEF authoringVars
<1> QED BY <1>1, <1>2, <1>3, <1>4 DEF Next

\* Each kind of step of the executor keeps the invariant.
LEMMA BeginCarries ==
  ASSUME Typed(disk), TreeInv, Begin, ~excused'
  PROVE  TreeInv'
<1>1. /\ mode = "idle" /\ mode' = "working" /\ before' = disk /\ disk' = disk
  BY DEF Begin
<1>2. PICK r \in Atomic!Requests(View(disk)) :
        /\ Accepted(disk, r) /\ request' = r /\ todo' = Plan(disk, r)
        /\ excused' = (excused \/ Unsound(disk, r))
  BY DEF Begin
<1>3. ~excused /\ ~Unsound(disk, r) /\ excused' \in BOOLEAN
  BY <1>2 DEF TreeInv
<1>4. Tidy(disk)
  BY <1>1, <1>3 DEF TreeInv
<1>5. Carries(Plan(disk, r), disk, disk, r)
  BY <1>2, <1>3, <1>4, PlanCarries
<1>6. Carries(todo', disk', before', request') /\ request' \in Atomic!Requests(View(before')) /\ Tidy(before')
  BY <1>1, <1>2, <1>4, <1>5
<1> QED BY <1>1, <1>3, <1>6 DEF TreeInv

LEMMA DoCarries ==
  ASSUME TreeInv, Do, ~excused'
  PROVE  TreeInv'
<1>1. /\ mode = "working" /\ mode' = mode /\ todo # <<>> /\ Possible(disk, Head(todo).call)
      /\ disk' = DiskAfter(disk, Head(todo).call) /\ todo' = Tail(todo)
      /\ before' = before /\ request' = request /\ excused' = excused
  BY DEF Do
<1>2. Carries(todo, disk, before, request) /\ Tidy(before) /\ request \in Atomic!Requests(View(before))
  BY <1>1 DEF TreeInv
<1>3. Carries(todo', disk', before', request')
  BY <1>1, <1>2, OnStep
<1> QED BY <1>1, <1>2, <1>3 DEF TreeInv

LEMMA FailRestores ==
  ASSUME TreeInv, Fail, ~excused'
  PROVE  TreeInv'
<1>1. /\ mode = "working" /\ mode' = "undoing" /\ todo # <<>> /\ undoing' = Head(todo).undo
      /\ before' = before
      /\ \/ ~Possible(disk, Head(todo).call) /\ disk' = disk /\ excused' = excused
         \/ /\ Possible(disk, Head(todo).call) /\ disk' = disk
            /\ excused' = (excused \/ Head(todo).late)
  BY DEF Fail, Whole
<1>2. ~excused /\ excused' = excused /\ disk' = disk
      /\ (Possible(disk, Head(todo).call) => ~Head(todo).late)
  <2>1. CASE excused' = excused /\ disk' = disk /\ ~Possible(disk, Head(todo).call)
    BY <2>1
  <2>2. CASE excused' = (excused \/ Head(todo).late) /\ disk' = disk
    <3>1. ~excused /\ ~Head(todo).late /\ excused' \in BOOLEAN
      BY <2>2
    <3> QED BY <2>2, <3>1 DEF TreeInv
  <2> QED BY <1>1, <2>1, <2>2
<1>3. Carries(todo, disk, before, request) /\ Tidy(before)
  BY <1>1, <1>2 DEF TreeInv
<1>4. Restores(Head(todo).undo, disk, before)
  BY <1>1, <1>2, <1>3, OnStep DEF MayFail
<1> QED BY <1>1, <1>2, <1>3, <1>4 DEF TreeInv

LEMMA UndoRestores ==
  ASSUME TreeInv, Undo, ~excused'
  PROVE  TreeInv'
<1>1. /\ mode = "undoing" /\ mode' = mode /\ undoing # <<>> /\ undoing' = Tail(undoing)
      /\ disk' = Tried(disk, Head(undoing)) /\ before' = before /\ excused' = excused
  BY DEF Undo, Tried
<1>2. Restores(undoing, disk, before) /\ Tidy(before)
  BY <1>1 DEF TreeInv
<1>3. Restores(undoing', disk', before')
  BY <1>1, <1>2, BackStep
<1> QED BY <1>1, <1>2, <1>3 DEF TreeInv

\* A request that is answered did what it was asked, or nothing.
LEMMA Answered ==
  ASSUME TreeInv, ~excused, Finish \/ Report
  PROVE  /\ Tidy(disk)
         /\ \/ /\ Finish /\ request \in Atomic!Requests(View(before))
               /\ View(disk) = Atomic!After(View(before), request)
            \/ Report /\ disk = before
<1>1. CASE Finish
  <2>1. mode = "working" /\ todo = <<>>
    BY <1>1 DEF Finish
  <2>2. Carries(todo, disk, before, request) /\ request \in Atomic!Requests(View(before))
    BY <2>1 DEF TreeInv
  <2> QED BY <1>1, <2>1, <2>2, OnStep DEF Reached
<1>2. CASE Report
  <2>1. mode = "undoing" /\ undoing = <<>>
    BY <1>2 DEF Report
  <2>2. Restores(undoing, disk, before) /\ Tidy(before)
    BY <2>1 DEF TreeInv
  <2>3. disk = before
    BY <2>1, <2>2, BackStep
  <2> QED BY <1>2, <2>2, <2>3
<1> QED BY <1>1, <1>2

LEMMA TreeNext ==
  ASSUME Typed(disk), TreeInv, [Next]_authoringVars
  PROVE  TreeInv'
<1>1. excused' \in BOOLEAN /\ (excused => excused')
  BY ExcusedStays DEF TreeInv
<1>2. CASE excused'
  BY <1>1, <1>2 DEF TreeInv
<1>3. CASE ~excused'
  <2>1. CASE Begin
    BY <1>3, <2>1, BeginCarries
  <2>2. CASE Do
    BY <1>3, <2>2, DoCarries
  <2>3. CASE Fail
    BY <1>3, <2>3, FailRestores
  <2>4. CASE Undo
    BY <1>3, <2>4, UndoRestores
  <2>5. CASE Finish \/ Report
    <3>1. Tidy(disk)
      BY <1>1, <1>3, <2>5, Answered
    <3>2. mode' = "idle" /\ disk' = disk
      BY <2>5 DEF Finish, Report, Answer
    <3> QED BY <1>1, <3>1, <3>2 DEF TreeInv
  <2>6. CASE Crash
    BY <1>3, <2>6 DEF Crash
  <2>7. CASE UNCHANGED authoringVars
    <3>1. UNCHANGED <<disk, before, request, todo, undoing, mode, excused>>
      BY <2>7 DEF authoringVars, progress
    <3> QED BY <3>1 DEF TreeInv
  <2> QED BY <2>1, <2>2, <2>3, <2>4, <2>5, <2>6, <2>7 DEF Next
<1> QED BY <1>2, <1>3

\* A step of the executor is a step of the promise, or none.
LEMMA StepIsAtomic ==
  ASSUME TreeInv, [Next]_authoringVars
  PROVE  [Atomic!AtomicNext]_<<(IF mode = "idle" THEN View(disk) ELSE View(before)), excused>>
<1> DEFINE tree == IF mode = "idle" THEN View(disk) ELSE View(before)
<1>1. excused' \in BOOLEAN /\ (excused => excused') /\ excused \in BOOLEAN
  BY ExcusedStays DEF TreeInv
<1>2. CASE excused'
  BY <1>1, <1>2 DEF Atomic!AtomicNext, Atomic!Excuse
<1>3. ASSUME ~excused'
      PROVE  \/ tree' = tree
             \/ \E r \in Atomic!Requests(tree) : tree' = Atomic!After(tree, r)
  <2>1. CASE Begin
    <3>1. mode = "idle" /\ mode' = "working" /\ before' = disk
      BY <2>1 DEF Begin
    <3> QED BY <3>1
  <2>2. CASE Do \/ Fail \/ Undo
    <3>1. mode # "idle" /\ mode' # "idle" /\ before' = before
      BY <2>2 DEF Do, Fail, Undo
    <3> QED BY <3>1
  <2>3. CASE Finish \/ Report
    <3>1. mode # "idle" /\ mode' = "idle" /\ disk' = disk
      BY <2>3 DEF Finish, Report, Answer
    <3>2. tree = View(before) /\ tree' = View(disk)
      BY <3>1
    <3>3. \/ /\ request \in Atomic!Requests(View(before))
             /\ View(disk) = Atomic!After(View(before), request)
          \/ disk = before
      BY <1>1, <1>3, <2>3, Answered
    <3> HIDE DEF tree
    <3> QED BY <3>2, <3>3
  <2>4. CASE Crash
    BY <1>3, <2>4 DEF Crash
  <2>5. CASE UNCHANGED authoringVars
    BY <2>5 DEF authoringVars, progress
  <2> QED BY <2>1, <2>2, <2>3, <2>4, <2>5 DEF Next
<1>4. CASE ~excused'
  <2>1. excused' = excused
    BY <1>1, <1>4
  <2>2. \/ tree' = tree
        \/ \E r \in Atomic!Requests(tree) : tree' = Atomic!After(tree, r)
    BY <1>3, <1>4
  <2> QED BY <2>1, <2>2 DEF Atomic!AtomicNext, Atomic!Fulfil
<1> QED BY <1>2, <1>4

\* Every request is all or nothing, on any tree that is in order when the
\* session opens: the tree becomes what the request says or stays as it was,
\* whatever fails, until one of the events that excuse it (AuthoringContext).
THEOREM RequestsAreAtomic ==
  ASSUME Tidy(Start)
  PROVE  Spec => AllOrNothing
<1>1. Init => HandIInv /\ TreeInv
  BY HandInit, TreeInit
<1>2. HandIInv /\ TreeInv /\ [Next]_authoringVars => HandIInv' /\ TreeInv'
  BY HandNext, TreeNext DEF HandIInv
<1>3. Init => Atomic!AtomicInit
  <2> SUFFICES ASSUME Init PROVE Atomic!AtomicInit
    OBVIOUS
  <2>1. mode = "idle" /\ disk = Start /\ excused = FALSE
    BY DEF Init
  <2>2. View(Start).strays = {}
    <3>1. \A p \in DOMAIN Start : Start[p].is # "torn" /\ (Start[p].is = "face" => p \in Standard(Start))
      BY StartAssumption DEF Tidy, Proper, Standard, Typed, FacePlace
    <3> QED BY <3>1 DEF View
  <2> QED BY <2>1, <2>2 DEF Atomic!AtomicInit
<1>4. TreeInv /\ [Next]_authoringVars
        => [Atomic!AtomicNext]_<<(IF mode = "idle" THEN View(disk) ELSE View(before)), excused>>
  BY StepIsAtomic
<1> QED BY <1>1, <1>2, <1>3, <1>4, PTL DEF Spec, AllOrNothing, Atomic!AtomicSpec

\* What a request leaves behind loads again, and no face spells a rule whose
\* file is missing, on any tree that is in order when the session opens.
THEOREM RequestsLeaveASoundTree ==
  ASSUME Tidy(Start)
  PROVE  Spec => []LeavesASoundTree
<1>1. Init => HandIInv /\ TreeInv
  BY HandInit, TreeInit
<1>2. HandIInv /\ TreeInv /\ [Next]_authoringVars => HandIInv' /\ TreeInv'
  BY HandNext, TreeNext DEF HandIInv
<1>3. TreeInv => LeavesASoundTree
  BY DEF TreeInv, LeavesASoundTree, Sound, Tidy, Proper, Standard
<1> QED BY <1>1, <1>2, <1>3, PTL DEF Spec
=============================================================================
