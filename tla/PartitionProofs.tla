-------------------------- MODULE PartitionProofs --------------------------
(* What a partition keeps for any crates, configs, manifests, interruptions  *)
(* and edits of the user. The user's text is kept, but for what the code is  *)
(* known to do to it, however many tools are at work; with one tool, what it *)
(* says it has done it has done, and packages that mount the host's files    *)
(* stay under the remap.                                                     *)
EXTENDS Partition, SequenceTheorems, TLAPS

\* The stages still ahead of an operation are the last ones of its order.
Ahead(do) ==
  CASE do = "write"   -> {<<"clear", "config", "members", "make", "save">>,
                          <<"config", "members", "make", "save">>, <<"members", "make", "save">>,
                          <<"make", "save">>, <<"save">>}
    [] do = "release" -> {<<"clear", "members", "make", "save">>, <<"members", "make", "save">>,
                          <<"make", "save">>, <<"save">>}
    [] do = "revert"  -> {<<"members", "clear", "config", "save">>, <<"clear", "config", "save">>,
                          <<"config", "save">>, <<"save">>}
Follows(do, stage) ==
  CASE stage = "clear"   -> IF do = "release" THEN "members" ELSE "config"
    [] stage = "config"  -> IF do = "write" THEN "members" ELSE "save"
    [] stage = "members" -> IF do = "revert" THEN "clear" ELSE "make"
    [] OTHER             -> "save"
Stage(t) == Head(work[t].left)
Active(t) == work[t].do \in Operations
Past(t, stages) == Active(t) /\ Stage(t) \in stages

Ordered(w) ==
  /\ w.left \in Ahead(w.do) /\ w.todo \subseteq w.dirs /\ Facade \in w.dirs
  /\ Head(w.left) # "make" => w.file = "directory"
  /\ Head(w.left) \notin {"clear", "make"} => w.todo = w.dirs
OrderInv == \A t \in Tools : Active(t) => Ordered(work[t])

\* The places an operation has cleared, and has not made a package at.
Taken(t) ==
  IF ~Active(t) \/ (work[t].do = "revert" /\ Stage(t) = "members") THEN {}
  ELSE IF Stage(t) = "clear" THEN work[t].dirs \ work[t].todo
  ELSE work[t].dirs

HasText(c) == c.keeps \/ c.comments \/ c.theirs # "none" \/ c.remap
\* The user's things are at places no operation has taken, and a config that
\* is not there has none of the user's lines.
UserInv ==
  /\ \A p \in theirs : disk[p] \in {"folder", "package"}
  /\ \A t \in Tools : Taken(t) \cap theirs = {}
  /\ HasText(config) => config.file

KeptInv == PartitionTypeOK /\ OrderInv /\ UserInv

-----------------------------------------------------------------------------
\* One tool at work: its plan is the declaration's, and what it has done so far
\* is what the order of its stages says.
OneTool == \A t, u \in Tools : t = u
Shape(do) == IF do = "write" THEN "development" ELSE "release"
Making(t) == Active(t) /\ Stage(t) = "make"
PlanAt(t) ==
  /\ Active(t) => work[t].dirs = declared \cup {Facade}
  /\ work[t] # Idle => last = Nobody
Made(t, p) == (Making(t) /\ p \notin work[t].todo) \/ (Stage(t) = "save" /\ work[t].do # "revert")
InHand(t, p) == Making(t) /\ p = FirstOf(work[t].todo)
DiskAt(t) ==
  \A p \in Taken(t) :
    /\ Made(t, p) => disk[p] = Shape(work[t].do) /\ p \in whole
    /\ ~Made(t, p) /\ ~InHand(t, p) => disk[p] = "absent"
    /\ InHand(t, p) => disk[p] = CASE work[t].file = "directory" -> "absent"
                                    [] work[t].file = "manifest" -> "folder"
                                    [] work[t].file = "rest" -> Shape(work[t].do)
ConfigAt(t) ==
  Active(t) /\ work[t].remap =>
    /\ work[t].do = "write" /\ Stage(t) \in {"members", "make", "save"} => config.remap
    /\ work[t].do = "revert" /\ Stage(t) = "save" => ~config.remap
Settled(do, dirs, m) ==
  IF do = "revert" THEN dirs \cap (m.listed \ m.glued) = {} ELSE dirs \subseteq m.listed
Computed(t) ==
  Active(t) /\ (Stage(t) \in {"make", "save"} \/ (work[t].do = "revert" /\ Stage(t) # "members"))
MembersAt(t) ==
  Computed(t) /\ workspace =>
    /\ work[t].edit = {} => Settled(work[t].do, work[t].dirs, manifest)
    /\ \A m \in work[t].edit : Settled(work[t].do, work[t].dirs, m)
MountAt(t) ==
  /\ work[t].do = "judge" =>
       \A p \in mounted : disk[p] = "development" => p \in work[t].before \cup lost
  /\ Active(t) /\ work[t].do = "write" /\ ~work[t].remap => Taken(t) \cap mounted = {}
AtWork(t) == PlanAt(t) /\ DiskAt(t) /\ ConfigAt(t) /\ MembersAt(t) /\ MountAt(t)
MountedNamed == \A p \in mounted : disk[p] = "development" => p \in declared \cup lost

WorkInv == /\ \A t \in Tools : AtWork(t)
           /\ MountedNamed /\ DoneMeansDone /\ RemapWhileMounted

-----------------------------------------------------------------------------
(* The pure operators.                                                       *)

LEMMA TailOf2 == ASSUME NEW a, NEW b PROVE Tail(<<a, b>>) = <<b>> /\ Head(<<a, b>>) = a
OBVIOUS
LEMMA TailOf3 == ASSUME NEW a, NEW b, NEW c PROVE Tail(<<a, b, c>>) = <<b, c>> /\ Head(<<a, b, c>>) = a
OBVIOUS
LEMMA TailOf4 ==
  ASSUME NEW a, NEW b, NEW c, NEW d
  PROVE  Tail(<<a, b, c, d>>) = <<b, c, d>> /\ Head(<<a, b, c, d>>) = a
OBVIOUS
LEMMA TailOf5 ==
  ASSUME NEW a, NEW b, NEW c, NEW d, NEW e
  PROVE  Tail(<<a, b, c, d, e>>) = <<b, c, d, e>> /\ Head(<<a, b, c, d, e>>) = a
OBVIOUS

\* An operation that passes a stage comes to the next one of its order.
Passes(do, left) ==
  /\ left \in Seq({"clear", "config", "members", "make", "save"})
  /\ Head(left) \in {"clear", "config", "members", "make", "save"}
  /\ do = "release" => Head(left) # "config"
  /\ do = "revert" => Head(left) # "make"
  /\ Head(left) # "save" => Tail(left) \in Ahead(do) /\ Head(Tail(left)) = Follows(do, Head(left))
LEMMA AheadTyped ==
  ASSUME NEW do \in Operations, NEW left \in Ahead(do)
  PROVE  Passes(do, left)
<1>1. ASSUME do = "write" PROVE Passes(do, left)
  <2>1. Ahead(do) = {<<"clear", "config", "members", "make", "save">>,
          <<"config", "members", "make", "save">>, <<"members", "make", "save">>,
          <<"make", "save">>, <<"save">>}
    BY <1>1 DEF Ahead
  <2>2. Passes(do, <<"clear", "config", "members", "make", "save">>)
    BY <1>1, <2>1, TailOf5, TailOf4 DEF Follows, Passes
  <2>3. Passes(do, <<"config", "members", "make", "save">>)
    BY <1>1, <2>1, TailOf4, TailOf3 DEF Follows, Passes
  <2>4. Passes(do, <<"members", "make", "save">>) /\ Passes(do, <<"make", "save">>) /\ Passes(do, <<"save">>)
    BY <1>1, <2>1, TailOf3, TailOf2 DEF Follows, Passes
  <2>. QED
    BY <2>1, <2>2, <2>3, <2>4
<1>2. ASSUME do = "release" PROVE Passes(do, left)
  <2>1. Ahead(do) = {<<"clear", "members", "make", "save">>, <<"members", "make", "save">>,
                     <<"make", "save">>, <<"save">>}
    BY <1>2 DEF Ahead
  <2>2. Passes(do, <<"clear", "members", "make", "save">>)
    BY <1>2, <2>1, TailOf4, TailOf3 DEF Follows, Passes
  <2>3. Passes(do, <<"members", "make", "save">>) /\ Passes(do, <<"make", "save">>) /\ Passes(do, <<"save">>)
    BY <1>2, <2>1, TailOf3, TailOf2 DEF Follows, Passes
  <2>. QED
    BY <2>1, <2>2, <2>3
<1>3. ASSUME do = "revert" PROVE Passes(do, left)
  <2>1. Ahead(do) = {<<"members", "clear", "config", "save">>, <<"clear", "config", "save">>,
                     <<"config", "save">>, <<"save">>}
    BY <1>3 DEF Ahead
  <2>2. Passes(do, <<"members", "clear", "config", "save">>)
    BY <1>3, <2>1, TailOf4, TailOf3 DEF Follows, Passes
  <2>3. Passes(do, <<"clear", "config", "save">>) /\ Passes(do, <<"config", "save">>) /\ Passes(do, <<"save">>)
    BY <1>3, <2>1, TailOf3, TailOf2 DEF Follows, Passes
  <2>. QED
    BY <2>1, <2>2, <2>3
<1>. QED
  BY <1>1, <1>2, <1>3 DEF Operations

LEMMA StagesAhead ==
  ASSUME NEW do \in Operations
  PROVE  Stages(do) \in Ahead(do) /\ Head(Stages(do)) = (IF do = "revert" THEN "members" ELSE "clear")
BY DEF Operations, Ahead, Stages

\* What the rewrites of the config do with the remap and with the user's lines.
LEMMA ConfigRewrites ==
  ASSUME NEW c \in Config, NEW wanted \in BOOLEAN
  PROVE  /\ Merged(c, wanted) \in Config /\ Stripped(c, wanted) \in Config
         /\ wanted => Merged(c, wanted).remap /\ ~Stripped(c, wanted).remap
         /\ c.file /\ c.remap => Merged(c, wanted).remap
         /\ ~wanted => Stripped(c, wanted) = c
<1>. USE DEF Config, NoConfig, OwnConfig, Rejoined
<1>1. Merged(c, wanted) \in Config
  <2>1. CASE ~c.file
    <3>1. Merged(c, wanted) = [file |-> TRUE, tables |-> 1, flags |-> "line", remap |-> wanted,
                               theirs |-> "none", comments |-> FALSE, keeps |-> FALSE]
      BY <2>1 DEF Merged
    <3>. QED
      BY <3>1
  <2>2. CASE c.file /\ (~wanted \/ c.remap)
    BY <2>2 DEF Merged
  <2>3. CASE c.file /\ wanted /\ ~c.remap /\ c.flags = "line"
    BY <2>3 DEF Merged
  <2>4. CASE c.file /\ wanted /\ ~c.remap /\ c.flags # "line"
    <3>1. Merged(c, wanted) = [c EXCEPT !.tables = IF c.tables = 0 THEN 1 ELSE 2,
                                        !.flags = "line", !.remap = TRUE]
      BY <2>4 DEF Merged
    <3>2. (IF c.tables = 0 THEN 1 ELSE 2) \in 0..2
      OBVIOUS
    <3>. QED
      BY <3>1, <3>2
  <2>. QED
    BY <2>1, <2>2, <2>3, <2>4
<1>2. Stripped(c, wanted) \in Config
  <2>1. CASE ~wanted \/ ~c.remap
    BY <2>1 DEF Stripped
  <2>2. CASE wanted /\ c.remap /\ c.theirs # "none"
    BY <2>2 DEF Stripped
  <2>3. CASE wanted /\ c.remap /\ c.theirs = "none" /\ c.keeps
    BY <2>3 DEF Stripped
  <2>4. CASE wanted /\ c.remap /\ c.theirs = "none" /\ ~c.keeps
    <3>1. Stripped(c, wanted) = NoConfig
      BY <2>4 DEF Stripped
    <3>. QED
      BY <3>1
  <2>. QED
    BY <2>1, <2>2, <2>3, <2>4
<1>3. /\ wanted => Merged(c, wanted).remap
      /\ c.file /\ c.remap => Merged(c, wanted).remap
  <2>1. CASE ~c.file
    <3>1. Merged(c, wanted).remap = wanted
      BY <2>1 DEF Merged
    <3>. QED
      BY <2>1, <3>1
  <2>2. CASE c.file /\ (~wanted \/ c.remap)
    BY <2>2 DEF Merged
  <2>3. CASE c.file /\ wanted /\ ~c.remap
    BY <2>3 DEF Merged
  <2>. QED
    BY <2>1, <2>2, <2>3
<1>4. wanted => ~Stripped(c, wanted).remap
  BY DEF Stripped
<1>5. ~wanted => Stripped(c, wanted) = c
  BY DEF Stripped
<1>. QED
  BY <1>1, <1>2, <1>3, <1>4, <1>5

\* A rewrite keeps the text of the user, but for flags that are split and for
\* the comments of a config that has nothing else.
KeepsText(c, d) ==
  /\ d.theirs = c.theirs \/ SplitsFlags(c, d)
  /\ c.comments => d.comments \/ HasOnlyComments(c)
  /\ c.keeps => d.keeps
LEMMA ConfigKeeps ==
  ASSUME NEW c \in Config, NEW wanted \in BOOLEAN, HasText(c) => c.file
  PROVE  \A d \in {Merged(c, wanted), Stripped(c, wanted)} :
           KeepsText(c, d) /\ (HasText(d) => d.file)
<1>. USE DEF Config, NoConfig, OwnConfig, Rejoined, SplitsFlags, HasOnlyComments, KeepsText, HasText
<1>1. KeepsText(c, Merged(c, wanted)) /\ (HasText(Merged(c, wanted)) => Merged(c, wanted).file)
  <2>1. CASE ~c.file
    <3>1. Merged(c, wanted) = [file |-> TRUE, tables |-> 1, flags |-> "line", remap |-> wanted,
                               theirs |-> "none", comments |-> FALSE, keeps |-> FALSE]
      BY <2>1 DEF Merged
    <3>. QED
      BY <2>1, <3>1
  <2>2. CASE c.file
    BY <2>2 DEF Merged
  <2>. QED
    BY <2>1, <2>2
<1>2. KeepsText(c, Stripped(c, wanted)) /\ (HasText(Stripped(c, wanted)) => Stripped(c, wanted).file)
  <2>1. CASE ~wanted \/ ~c.remap
    BY <2>1 DEF Stripped
  <2>2. CASE wanted /\ c.remap /\ c.theirs # "none"
    BY <2>2 DEF Stripped
  <2>3. CASE wanted /\ c.remap /\ c.theirs = "none" /\ c.keeps
    BY <2>3 DEF Stripped
  <2>4. CASE wanted /\ c.remap /\ c.theirs = "none" /\ ~c.keeps
    BY <2>4 DEF Stripped
  <2>. QED
    BY <2>1, <2>2, <2>3, <2>4
<1>. QED
  BY <1>1, <1>2

\* The two edits of the member list are manifests, and settle the plan's packages.
LEMMA MemberEdits ==
  ASSUME NEW m \in Manifest, NEW dirs \in SUBSET Packages
  PROVE  /\ Adding(m, dirs) \subseteq Manifest /\ Removing(m, dirs) \subseteq Manifest
         /\ Adding(m, dirs) = {} => dirs \subseteq m.listed
         /\ \A n \in Adding(m, dirs) : dirs \subseteq n.listed
         /\ Removing(m, dirs) = {} => dirs \cap (m.listed \ m.glued) = {}
         /\ \A n \in Removing(m, dirs) : dirs \cap (n.listed \ n.glued) = {}
<1>1. ASSUME NEW n \in Adding(m, dirs)
      PROVE  n \in Manifest /\ dirs \subseteq n.listed
  <2>. DEFINE missing == dirs \ m.listed
              glued == m.glued \cup IF m.shape = "ragged" THEN {CHOOSE d \in missing : TRUE} ELSE {}
  <2>1. missing # {} /\ n = [listed |-> m.listed \cup dirs, shape |-> "list", glued |-> glued]
    BY <1>1 DEF Adding
  <2>2. (CHOOSE d \in missing : TRUE) \in missing
    BY <2>1
  <2>3. glued \subseteq Packages
    BY <2>2 DEF Manifest
  <2>4. m.listed \cup dirs \subseteq Packages
    BY DEF Manifest
  <2>. HIDE DEF glued, missing
  <2>. QED
    BY <2>1, <2>3, <2>4 DEF Manifest
<1>2. Adding(m, dirs) = {} => dirs \subseteq m.listed
  BY DEF Adding
<1>3. ASSUME NEW n \in Removing(m, dirs)
      PROVE  n \in Manifest /\ dirs \cap (n.listed \ n.glued) = {}
  <2>. DEFINE found == (m.listed \ m.glued) \cap dirs
  <2>1. n = [m EXCEPT !.listed = m.listed \ found, !.shape = "list"]
    BY <1>3 DEF Removing
  <2>2. n.listed = m.listed \ found /\ n.glued = m.glued /\ n \in Manifest
    BY <2>1 DEF Manifest
  <2>. QED
    BY <2>2
<1>4. Removing(m, dirs) = {} => dirs \cap (m.listed \ m.glued) = {}
  BY DEF Removing
<1>. QED
  BY <1>1, <1>2, <1>3, <1>4

\* The package an operation is at is one it has still to do.
LEMMA FirstIsOne ==
  ASSUME NEW todo, todo # {}
  PROVE  FirstOf(todo) \in todo
BY DEF FirstOf

-----------------------------------------------------------------------------
(* How a plan moves on.                                                      *)

SamePlan(w, v) == v.do = w.do /\ v.dirs = w.dirs /\ v.remap = w.remap
Emptied == [do : Operations, dirs : SUBSET Packages, remap : BOOLEAN,
            left : Seq({"clear", "config", "members", "make", "save"}),
            todo : SUBSET Packages, file : {"directory", "manifest", "rest"},
            edit : SUBSET Manifest, changed : BOOLEAN]

\* A plan that passes a stage starts the next one with all its packages.
LEMMA Passing ==
  ASSUME NEW w \in Emptied, w.left \in Ahead(w.do), Facade \in w.dirs, Head(w.left) # "save",
         w.file = "directory"
  PROVE  LET v == StagePassed(w)
         IN /\ v \in Plans /\ SamePlan(w, v) /\ v.file = w.file /\ v.edit = w.edit
            /\ v.changed = w.changed /\ v.left = Tail(w.left) /\ v.todo = w.dirs /\ Ordered(v)
            /\ Head(v.left) = Follows(w.do, Head(w.left))
<1>. DEFINE v == StagePassed(w)
<1>1. /\ Tail(w.left) \in Ahead(w.do) /\ Head(Tail(w.left)) = Follows(w.do, Head(w.left))
      /\ w.do \in Operations
  BY AheadTyped DEF Passes, Emptied
<1>2. Tail(w.left) \in Seq({"clear", "config", "members", "make", "save"})
  BY <1>1, AheadTyped DEF Passes
<1>3. v = [w EXCEPT !.left = Tail(w.left), !.todo = w.dirs]
  BY DEF StagePassed
<1>4. /\ SamePlan(w, v) /\ v.file = w.file /\ v.edit = w.edit
      /\ v.changed = w.changed /\ v.left = Tail(w.left) /\ v.todo = w.dirs
  BY <1>3 DEF Emptied, SamePlan
<1>. HIDE DEF v
<1>5. v \in Plans
  <2>1. w.dirs \in (SUBSET Packages) \ {{}}
    BY DEF Emptied
  <2>2. v = [do |-> w.do, dirs |-> w.dirs, remap |-> w.remap, left |-> Tail(w.left),
             todo |-> w.dirs, file |-> w.file, edit |-> w.edit, changed |-> w.changed]
    BY <1>3 DEF Emptied
  <2>3. /\ w.do \in Operations /\ w.dirs \in SUBSET Packages /\ w.remap \in BOOLEAN
        /\ w.file \in {"directory", "manifest", "rest"} /\ w.edit \in SUBSET Manifest
        /\ w.changed \in BOOLEAN
    BY DEF Emptied
  <2>. QED
    BY <1>2, <2>1, <2>2, <2>3 DEF Plans
<1>6. Ordered(v)
  BY <1>1, <1>4 DEF Ordered, SamePlan
<1>. QED
  BY <1>1, <1>4, <1>5, <1>6 DEF v

LEMMA PassedChanged == ASSUME NEW w \in Emptied PROVE StagePassed(w).changed = w.changed
BY DEF StagePassed, Emptied

\* A plan that is done with a package goes to the next, or to the next stage.
Moved(w, v, p) ==
  /\ SamePlan(w, v) /\ v \in Plans /\ Ordered(v) /\ v.file = "directory" /\ v.edit = w.edit
  /\ \/ v.left = w.left /\ v.todo = w.todo \ {p}
     \/ /\ w.todo \ {p} = {} /\ v.left = Tail(w.left) /\ v.todo = w.dirs
        /\ Head(v.left) = Follows(w.do, Head(w.left))
LEMMA Moving ==
  ASSUME NEW w \in Plans, Ordered(w), NEW v \in Emptied, NEW p \in w.todo,
         Head(w.left) \in {"clear", "make"}, SamePlan(w, v), v.left = w.left, v.edit = w.edit,
         v.todo = w.todo \ {p}, v.file = "directory"
  PROVE  Moved(w, IF v.todo = {} THEN StagePassed(v) ELSE v, p)
<1>1. CASE v.todo = {}
  <2>1. v.left \in Ahead(v.do) /\ Facade \in v.dirs /\ Head(v.left) # "save"
    BY DEF SamePlan, Ordered
  <2>. QED
    BY <1>1, <2>1, Passing DEF Moved, SamePlan
<1>2. CASE v.todo # {}
  <2>1. v \in Plans
    BY <1>2 DEF Emptied, Plans
  <2>2. Ordered(v)
    BY DEF Ordered, SamePlan
  <2>. QED
    BY <1>2, <2>1, <2>2 DEF Moved
<1>. QED
  BY <1>1, <1>2

-----------------------------------------------------------------------------
(* What the steps of an operation do.                                        *)

LEMMA ActivePlan ==
  ASSUME PartitionTypeOK, NEW t \in Tools
  PROVE  /\ Active(t) => work[t] \in Plans
         /\ work[t].do = "judge" => work[t] \in Rulings
         /\ ~Active(t) /\ work[t].do # "judge" => work[t] = Idle
BY DEF PartitionTypeOK, Active, Plans, Rulings, Idle, Operations

\* A step of one tool leaves the others where they are.
Others(t, v) == work' = [work EXCEPT ![t] = v]
LEMMA OrderKept ==
  ASSUME PartitionTypeOK, OrderInv, NEW t \in Tools, NEW v, Others(t, v),
         v = Idle \/ v \in Rulings \/ (v \in Plans /\ Ordered(v))
  PROVE  /\ work' \in [Tools -> {Idle} \cup Rulings \cup Plans] /\ OrderInv'
         /\ work'[t] = v /\ \A u \in Tools \ {t} : work'[u] = work[u]
         /\ \A u \in Tools \ {t} : Taken(u)' = Taken(u) /\ Active(u)' = Active(u) /\ Stage(u)' = Stage(u)
<1>1. work \in [Tools -> {Idle} \cup Rulings \cup Plans]
  BY DEF PartitionTypeOK
<1>2. /\ work' \in [Tools -> {Idle} \cup Rulings \cup Plans] /\ work'[t] = v
      /\ \A u \in Tools \ {t} : work'[u] = work[u]
  BY <1>1 DEF Others
<1>3. OrderInv'
  <2>1. ASSUME NEW u \in Tools, Active(u)' PROVE Ordered(work'[u])
    BY <1>2, <2>1 DEF OrderInv, Active, Idle, Rulings, Operations
  <2>. QED
    BY <2>1 DEF OrderInv
<1>. QED
  BY <1>2, <1>3 DEF Taken, Active, Stage

\* A package that is cleared was nobody's or nothing; it is one the plan has
\* still to do.
LEMMA ClearEffect ==
  ASSUME PartitionTypeOK, OrderInv, NEW t \in Tools, Clear(t)
  PROVE  LET p == FirstOf(work[t].todo)
         IN /\ Active(t) /\ Stage(t) = "clear" /\ p \in work[t].todo /\ p \in Packages
            /\ disk[p] \in Marked \cup {"absent"}
            /\ disk' = [disk EXCEPT ![p] = "absent"]
            /\ whole' = whole \ {p} /\ mounted' = mounted \ {p}
            /\ Others(t, work'[t]) /\ Moved(work[t], work'[t], p)
            /\ UNCHANGED <<config, manifest, declared, outside, last, faults, halfway, lost>>
<1>. DEFINE w == work[t]
            p == FirstOf(w.todo)
<1>1. Active(t) /\ Stage(t) = "clear" /\ w \in Plans /\ Ordered(w)
  BY ActivePlan DEF Clear, Working, Active, Stage, Operations, OrderInv
<1>2. p \in w.todo /\ p \in Packages
  BY <1>1, FirstIsOne DEF Plans
<1>3. /\ disk[p] \in Marked \cup {"absent"} /\ disk' = [disk EXCEPT ![p] = "absent"]
      /\ whole' = whole \ {p} /\ mounted' = mounted \ {p}
      /\ UNCHANGED <<config, manifest, declared, outside, last, faults, halfway, lost>>
  BY DEF Clear
<1>4. PICK v \in Emptied :
        /\ SamePlan(w, v) /\ v.left = w.left /\ v.edit = w.edit
        /\ v.todo = w.todo \ {p} /\ v.file = "directory"
        /\ work' = [work EXCEPT ![t] = IF v.todo = {} THEN StagePassed(v) ELSE v]
  <2>. DEFINE a == [w EXCEPT !.todo = @ \ {p}, !.file = "directory", !.changed = TRUE]
              b == [w EXCEPT !.todo = @ \ {p}]
  <2>1. /\ a \in Emptied /\ SamePlan(w, a) /\ a.left = w.left /\ a.edit = w.edit
        /\ a.todo = w.todo \ {p} /\ a.file = "directory"
    BY <1>1 DEF Plans, Emptied, SamePlan
  <2>2. /\ b \in Emptied /\ SamePlan(w, b) /\ b.left = w.left /\ b.edit = w.edit
        /\ b.todo = w.todo \ {p} /\ b.file = "directory"
    BY <1>1 DEF Plans, Emptied, SamePlan, Ordered, Stage
  <2>3. CASE disk[p] # "absent"
    <3>1. work' = [work EXCEPT ![t] = IF a.todo = {} THEN StagePassed(a) ELSE a]
      BY <2>3 DEF Clear, Did
    <3>. QED
      BY <2>1, <3>1
  <2>4. CASE disk[p] = "absent"
    <3>1. work' = [work EXCEPT ![t] = IF b.todo = {} THEN StagePassed(b) ELSE b]
      BY <2>4 DEF Clear
    <3>. QED
      BY <2>2, <3>1
  <2>. QED
    BY <2>3, <2>4
<1>5. Moved(w, IF v.todo = {} THEN StagePassed(v) ELSE v, p)
  BY <1>1, <1>2, <1>4, Moving DEF Stage
<1>6. work'[t] = (IF v.todo = {} THEN StagePassed(v) ELSE v)
  BY <1>4 DEF PartitionTypeOK
<1>. QED
  BY <1>1, <1>2, <1>3, <1>4, <1>5, <1>6 DEF Others

\* A stage that is one call ends the operation, or passes.
Passed(w, v) ==
  /\ SamePlan(w, v) /\ v \in Plans /\ Ordered(v)
  /\ v.left = Tail(w.left) /\ v.todo = w.dirs /\ Head(v.left) = Follows(w.do, Head(w.left))
  /\ v.file = "directory"
LEMMA PassedStage ==
  ASSUME NEW w \in Plans, Ordered(w), Head(w.left) \in {"config", "members"}
  PROVE  /\ \A c \in BOOLEAN : LET v == [StagePassed(w) EXCEPT !.changed = c]
                               IN Passed(w, v) /\ v.edit = w.edit /\ v.changed = c
         /\ \A e \in SUBSET Manifest : LET v == [StagePassed(w) EXCEPT !.edit = e]
                                       IN Passed(w, v) /\ v.edit = e /\ v.changed = w.changed
<1>. DEFINE x == StagePassed(w)
<1>1. w \in Emptied
  BY DEF Plans, Emptied
<1>2. /\ x \in Plans /\ SamePlan(w, x) /\ x.file = "directory" /\ x.edit = w.edit
      /\ x.changed = w.changed
      /\ x.left = Tail(w.left) /\ x.todo = w.dirs /\ Ordered(x)
      /\ Head(x.left) = Follows(w.do, Head(w.left))
  BY <1>1, Passing DEF Ordered
<1>. HIDE DEF x
<1>3. ASSUME NEW c \in BOOLEAN
      PROVE  /\ Passed(w, [x EXCEPT !.changed = c]) /\ [x EXCEPT !.changed = c].edit = w.edit
             /\ [x EXCEPT !.changed = c].changed = c
  <2>. DEFINE v == [x EXCEPT !.changed = c]
  <2>1. /\ v \in Plans /\ SamePlan(w, v) /\ v.file = x.file /\ v.edit = x.edit /\ v.left = x.left
        /\ v.todo = x.todo /\ SamePlan(x, v) /\ v.changed = c
    BY <1>2 DEF Plans, SamePlan
  <2>. HIDE DEF v
  <2>2. Ordered(v)
    BY <1>2, <2>1 DEF Ordered, SamePlan
  <2>3. Passed(w, v) /\ v.edit = w.edit /\ v.changed = c
    BY <1>2, <2>1, <2>2 DEF Passed
  <2>. QED
    BY <2>3 DEF v
<1>4. ASSUME NEW e \in SUBSET Manifest
      PROVE  /\ Passed(w, [x EXCEPT !.edit = e]) /\ [x EXCEPT !.edit = e].edit = e
             /\ [x EXCEPT !.edit = e].changed = w.changed
  <2>. DEFINE v == [x EXCEPT !.edit = e]
  <2>1. /\ v \in Plans /\ SamePlan(w, v) /\ v.file = x.file /\ v.edit = e /\ v.left = x.left
        /\ v.todo = x.todo /\ SamePlan(x, v) /\ v.changed = w.changed
    BY <1>2 DEF Plans, SamePlan
  <2>. HIDE DEF v
  <2>2. Ordered(v)
    BY <1>2, <2>1 DEF Ordered, SamePlan
  <2>3. Passed(w, v) /\ v.edit = e /\ v.changed = w.changed
    BY <1>2, <2>1, <2>2 DEF Passed
  <2>. QED
    BY <2>3 DEF v
<1>. QED
  BY <1>3, <1>4 DEF x

\* The config is rewritten as the plan wants it, or left alone and the
\* operation given up.
Ended(t) == Others(t, Idle)
LEMMA ConfigEffect ==
  ASSUME PartitionTypeOK, OrderInv, NEW t \in Tools, MergeConfig(t) \/ StripConfig(t)
  PROVE  /\ Active(t) /\ Stage(t) = "config" /\ work[t] \in Plans /\ work[t].do # "release"
         /\ UNCHANGED <<disk, whole, manifest, declared, outside, last, faults, mounted, lost>>
         /\ \/ Ended(t) /\ GivesUp(t) /\ config' = config /\ halfway' \in BOOLEAN
            \/ /\ Others(t, work'[t]) /\ Passed(work[t], work'[t]) /\ work'[t].edit = work[t].edit
               /\ work[t].changed => work'[t].changed
               /\ config' = IF work[t].do = "write" THEN Merged(config, work[t].remap)
                            ELSE Stripped(config, work[t].remap)
               /\ halfway' = halfway
<1>. DEFINE w == work[t]
<1>1. Active(t) /\ Stage(t) = "config" /\ w \in Plans /\ Ordered(w) /\ w.do \in {"write", "revert"}
  BY ActivePlan DEF MergeConfig, StripConfig, Working, Active, Stage, Operations, OrderInv
<1>2. UNCHANGED <<disk, whole, manifest, declared, outside, last, faults, mounted, lost>>
  BY DEF MergeConfig, StripConfig
<1>3. CASE GivesUp(t) /\ config' = config
  BY <1>1, <1>2, <1>3 DEF GivesUp, Ended, Others, PartitionTypeOK
<1>4. ASSUME NEW c \in BOOLEAN, halfway' = halfway,
             config' = IF w.do = "write" THEN Merged(config, w.remap) ELSE Stripped(config, w.remap),
             work' = [work EXCEPT ![t] = [StagePassed(w) EXCEPT !.changed = c]]
      PROVE  /\ Others(t, work'[t]) /\ Passed(w, work'[t]) /\ work'[t].edit = w.edit
             /\ halfway' = halfway /\ work'[t].changed = c
             /\ config' = IF w.do = "write" THEN Merged(config, w.remap) ELSE Stripped(config, w.remap)
  <2>1. work'[t] = [StagePassed(w) EXCEPT !.changed = c]
    BY <1>4 DEF PartitionTypeOK
  <2>2. LET x == [StagePassed(w) EXCEPT !.changed = c]
        IN Passed(w, x) /\ x.edit = w.edit /\ x.changed = c
    BY <1>1, PassedStage, Zenon DEF Stage
  <2>3. Passed(w, work'[t]) /\ work'[t].edit = w.edit /\ work'[t].changed = c
    BY <2>1, <2>2, Zenon
  <2>. QED
    BY <1>4, <2>1, <2>3 DEF Others
<1>5. CASE ~(GivesUp(t) /\ config' = config)
  <2>. DEFINE c == (StagePassed(w).changed \/ config' # config)
  <2>1. c \in BOOLEAN /\ (w.changed => c)
    <3>1. w \in Emptied
      BY <1>1 DEF Plans, Emptied
    <3>2. StagePassed(w).changed = w.changed
      BY <3>1, PassedChanged
    <3>. QED
      BY <3>2
  <2>3. work' = [work EXCEPT ![t] = [StagePassed(w) EXCEPT !.changed = c]]
    <3>1. CASE MergeConfig(t)
      BY <1>5, <3>1 DEF MergeConfig
    <3>2. CASE StripConfig(t)
      BY <1>5, <3>2 DEF StripConfig
    <3>. QED
      BY <3>1, <3>2
  <2>4. /\ halfway' = halfway
        /\ config' = IF w.do = "write" THEN Merged(config, w.remap) ELSE Stripped(config, w.remap)
    <3>1. CASE MergeConfig(t)
      BY <1>5, <3>1 DEF MergeConfig
    <3>2. CASE StripConfig(t)
      BY <1>5, <3>2 DEF StripConfig
    <3>. QED
      BY <3>1, <3>2
  <2>. HIDE DEF c
  <2>. QED
    BY <1>1, <1>2, <1>4, <2>1, <2>3, <2>4
<1>. QED
  BY <1>3, <1>5

LEMMA MembersEffect ==
  ASSUME PartitionTypeOK, OrderInv, NEW t \in Tools, ComputeMembers(t)
  PROVE  /\ Active(t) /\ Stage(t) = "members" /\ work[t] \in Plans
         /\ UNCHANGED <<files, outside, last, faults, mounted, lost>>
         /\ \/ Ended(t) /\ GivesUp(t) /\ halfway' \in BOOLEAN
            \/ /\ Others(t, work'[t]) /\ Passed(work[t], work'[t]) /\ halfway' = halfway
               /\ work'[t].changed = work[t].changed
               /\ work'[t].edit = IF workspace THEN EditFor(manifest, work[t]) ELSE {}
<1>. DEFINE w == work[t]
            e == IF workspace THEN EditFor(manifest, w) ELSE {}
<1>1. Active(t) /\ Stage(t) = "members" /\ w \in Plans /\ Ordered(w)
  BY ActivePlan DEF ComputeMembers, Working, Active, Stage, Operations, OrderInv
<1>2. UNCHANGED <<files, outside, last, faults, mounted, lost>>
  BY DEF ComputeMembers
<1>3. CASE workspace /\ EditRefused(manifest, w)
  BY <1>1, <1>2, <1>3 DEF ComputeMembers, GivesUp, Ended, Others, PartitionTypeOK
<1>4. CASE ~(workspace /\ EditRefused(manifest, w))
  <2>1. work' = [work EXCEPT ![t] = [StagePassed(w) EXCEPT !.edit = e]] /\ halfway' = halfway
    BY <1>4 DEF ComputeMembers
  <2>2. work'[t] = [StagePassed(w) EXCEPT !.edit = e]
    BY <2>1 DEF PartitionTypeOK
  <2>3. e \in SUBSET Manifest
    BY <1>1, MemberEdits DEF EditFor, PartitionTypeOK, Plans
  <2>4. Passed(w, work'[t]) /\ work'[t].edit = e /\ work'[t].changed = w.changed
    BY <1>1, <2>2, <2>3, PassedStage DEF Stage
  <2>. QED
    BY <1>1, <1>2, <2>1, <2>2, <2>4 DEF Others
<1>. QED
  BY <1>3, <1>4

\* A package is made in three calls, and only the last goes on to the next one.
LEMMA MakeEffect ==
  ASSUME PartitionTypeOK, OrderInv, NEW t \in Tools, Make(t)
  PROVE  LET p == FirstOf(work[t].todo)
             w == work[t]
             v == work'[t]
         IN /\ Making(t) /\ w \in Plans /\ w.do \in {"write", "release"} /\ p \in w.todo /\ p \in Packages
            /\ Others(t, v) /\ Ordered(v) /\ v \in Plans /\ SamePlan(w, v) /\ v.edit = w.edit
            /\ UNCHANGED <<config, manifest, declared, outside, last, faults, halfway, lost>>
            /\ disk' \in [Packages -> Marked \cup WithManifest \cup {"absent", "folder"}]
            /\ \A q \in Packages \ {p} : disk'[q] = disk[q]
            /\ \/ /\ w.file = "directory" /\ v.file = "manifest" /\ v.left = w.left /\ v.todo = w.todo
                  /\ disk'[p] = (IF disk[p] = "absent" THEN "folder" ELSE disk[p])
                  /\ UNCHANGED <<whole, mounted>>
               \/ /\ w.file = "manifest" /\ v.file = "rest" /\ v.left = w.left /\ v.todo = w.todo
                  /\ disk'[p] = Shape(w.do)
                  /\ UNCHANGED <<whole, mounted>>
               \/ /\ w.file = "rest" /\ Moved(w, v, p)
                  /\ disk[p] \notin {"absent", "folder"} => disk'[p] = disk[p]
                  /\ disk'[p] = "development" => disk[p] = "development"
                  /\ whole' = IF disk[p] = Shape(w.do) THEN whole \cup {p} ELSE whole
                  /\ mounted' = IF w.do = "write" /\ w.remap THEN mounted \cup ({p} \ {Facade})
                                ELSE mounted
<1>. DEFINE p == FirstOf(work[t].todo)
            w == work[t]
            v == work'[t]
            place == Marked \cup WithManifest \cup {"absent", "folder"}
<1>1. /\ Making(t) /\ w \in Plans /\ Ordered(w) /\ w.do \in {"write", "release"}
      /\ Head(w.left) = "make"
  <2>1. Active(t) /\ Stage(t) = "make" /\ w \in Plans /\ Ordered(w)
    BY ActivePlan DEF Make, Working, Active, Stage, Operations, OrderInv
  <2>2. w.do # "revert"
    BY <2>1, AheadTyped DEF Passes, Ordered, Stage, Plans
  <2>. QED
    BY <2>1, <2>2 DEF Making, Plans, Operations, Stage
<1>2. p \in w.todo /\ p \in Packages
  BY <1>1, FirstIsOne DEF Plans
<1>3. UNCHANGED <<config, manifest, declared, outside, last, faults, halfway, lost>>
  BY DEF Make
<1>4. disk \in [Packages -> place] /\ Shape(w.do) \in place
  BY DEF PartitionTypeOK, Shape, Marked
<1>5. /\ disk' \in [Packages -> place] /\ \A q \in Packages \ {p} : disk'[q] = disk[q]
  BY <1>2, <1>4 DEF Make, Marked, Shape
<1>6. CASE w.file = "directory"
  <2>1. /\ work' = [work EXCEPT ![t] = [w EXCEPT !.file = "manifest", !.changed = TRUE]]
        /\ disk' = [disk EXCEPT ![p] = IF disk[p] = "absent" THEN "folder" ELSE disk[p]]
        /\ UNCHANGED <<whole, mounted>>
    BY <1>6 DEF Make
  <2>2. v = [w EXCEPT !.file = "manifest", !.changed = TRUE]
    BY <2>1 DEF PartitionTypeOK
  <2>3. /\ v \in Plans /\ SamePlan(w, v) /\ v.edit = w.edit /\ v.file = "manifest"
        /\ v.left = w.left /\ v.todo = w.todo
    BY <1>1, <2>2 DEF Plans, SamePlan
  <2>4. Ordered(v)
    BY <1>1, <2>3 DEF Ordered, SamePlan
  <2>5. disk'[p] = (IF disk[p] = "absent" THEN "folder" ELSE disk[p])
    BY <1>2, <1>4, <2>1
  <2>. QED
    BY <1>1, <1>2, <1>3, <1>5, <1>6, <2>1, <2>2, <2>3, <2>4, <2>5 DEF Others
<1>7. CASE w.file = "manifest"
  <2>1. /\ work' = [work EXCEPT ![t] = [w EXCEPT !.file = "rest"]]
        /\ disk' = [disk EXCEPT ![p] = Shape(w.do)]
        /\ UNCHANGED <<whole, mounted>>
    BY <1>7 DEF Make, Shape
  <2>2. v = [w EXCEPT !.file = "rest"]
    BY <2>1 DEF PartitionTypeOK
  <2>3. /\ v \in Plans /\ SamePlan(w, v) /\ v.edit = w.edit /\ v.file = "rest"
        /\ v.left = w.left /\ v.todo = w.todo
    BY <1>1, <2>2 DEF Plans, SamePlan
  <2>4. Ordered(v)
    BY <1>1, <2>3 DEF Ordered, SamePlan
  <2>5. disk'[p] = Shape(w.do)
    BY <1>2, <1>4, <2>1
  <2>. QED
    BY <1>1, <1>2, <1>3, <1>5, <1>7, <2>1, <2>2, <2>3, <2>4, <2>5 DEF Others
<1>8. CASE w.file = "rest"
  <2>. DEFINE a == [w EXCEPT !.todo = @ \ {p}, !.file = "directory", !.changed = TRUE]
  <2>1. /\ work' = [work EXCEPT ![t] = IF a.todo = {} THEN StagePassed(a) ELSE a]
        /\ disk' = [disk EXCEPT ![p] = IF disk[p] \in {"absent", "folder"} THEN "bare" ELSE disk[p]]
        /\ whole' = (IF disk[p] = Shape(w.do) THEN whole \cup {p} ELSE whole)
    <3>1. Did(t, p)
      BY <1>8 DEF Make
    <3>2. /\ disk' = [disk EXCEPT ![p] = IF disk[p] \in {"absent", "folder"} THEN "bare" ELSE disk[p]]
          /\ whole' = (IF disk[p] = Shape(w.do) THEN whole \cup {p} ELSE whole)
      BY <1>8 DEF Make, Shape
    <3>. QED
      BY <3>1, <3>2 DEF Did
  <2>2. mounted' = IF w.do = "write" /\ w.remap THEN mounted \cup ({p} \ {Facade}) ELSE mounted
    BY <1>8, <1>1 DEF Make
  <2>3. /\ a \in Emptied /\ SamePlan(w, a) /\ a.left = w.left /\ a.edit = w.edit
        /\ a.todo = w.todo \ {p} /\ a.file = "directory"
    BY <1>1 DEF Plans, Emptied, SamePlan
  <2>4. v = (IF a.todo = {} THEN StagePassed(a) ELSE a)
    BY <2>1 DEF PartitionTypeOK
  <2>5. Moved(w, v, p)
    <3>1. Head(w.left) \in {"clear", "make"}
      BY <1>1
    <3>. HIDE DEF a
    <3>2. Moved(w, IF a.todo = {} THEN StagePassed(a) ELSE a, p)
      BY <1>1, <1>2, <2>3, <3>1, Moving
    <3>. QED
      BY <2>4, <3>2
  <2>6. disk'[p] = IF disk[p] \in {"absent", "folder"} THEN "bare" ELSE disk[p]
    BY <1>2, <1>4, <2>1
  <2>7. /\ disk[p] \notin {"absent", "folder"} => disk'[p] = disk[p]
        /\ disk'[p] = "development" => disk[p] = "development"
    BY <2>6
  <2>. HIDE DEF a
  <2>. QED
    BY <1>1, <1>2, <1>3, <1>5, <1>8, <2>1, <2>2, <2>4, <2>5, <2>7 DEF Others, Moved
<1>. QED
  BY <1>1, <1>6, <1>7, <1>8 DEF Plans

-----------------------------------------------------------------------------
(* The text of the user is kept.                                             *)

UserStep ==
  (\A p \in theirs \cap theirs' : disk'[p] = disk[p]) /\ KeepsText(config, config')
TypeRest ==
  /\ declared \subseteq Crates /\ sources \subseteq Crates /\ faces \subseteq Crates
  /\ disk \in [Packages -> Marked \cup WithManifest \cup {"absent", "folder"}]
  /\ whole \subseteq Packages /\ config \in Config /\ manifest \in Manifest /\ workspace \in BOOLEAN
  /\ last \in [do : Operations \cup {"nothing"}, dirs : SUBSET Packages, remap : BOOLEAN]
  /\ faults \in 0..MaxFaults /\ edits \in 0..MaxEdits
  /\ theirs \subseteq Packages /\ mounted \subseteq Crates /\ halfway \in BOOLEAN /\ lost \subseteq Crates
Rewritten == config' = config \/ \E b \in BOOLEAN : config' \in {Merged(config, b), Stripped(config, b)}

\* A step of a tool keeps what is the user's if it works at places it has taken.
LEMMA KeptByTool ==
  ASSUME KeptInv, NEW t \in Tools, NEW v, Others(t, v),
         v = Idle \/ v \in Rulings \/ (v \in Plans /\ Ordered(v)),
         TypeRest', theirs' = theirs, \A p \in theirs : disk'[p] = disk[p],
         v \in Plans => Taken(t)' \cap theirs = {},
         Rewritten
  PROVE  KeptInv' /\ UserStep
<1>1. /\ work' \in [Tools -> {Idle} \cup Rulings \cup Plans] /\ OrderInv'
      /\ work'[t] = v
      /\ \A u \in Tools \ {t} : Taken(u)' = Taken(u)
  BY OrderKept DEF KeptInv
<1>2. PartitionTypeOK'
  BY <1>1 DEF PartitionTypeOK, TypeRest
<1>3. Taken(t)' \cap theirs = {}
  BY <1>1 DEF Taken, Active, Idle, Rulings, Operations
<1>4. \A u \in Tools : Taken(u)' \cap theirs' = {}
  BY <1>1, <1>3 DEF KeptInv, UserInv
<1>5. KeepsText(config, config') /\ (HasText(config') => config'.file)
  <2>1. config \in Config /\ (HasText(config) => config.file)
    BY DEF KeptInv, UserInv, PartitionTypeOK
  <2>2. CASE config' = config
    BY <2>1, <2>2 DEF KeepsText
  <2>3. ASSUME NEW b \in BOOLEAN, config' \in {Merged(config, b), Stripped(config, b)}
        PROVE  KeepsText(config, config') /\ (HasText(config') => config'.file)
    BY <2>1, <2>3, ConfigKeeps
  <2>. QED
    BY <2>2, <2>3 DEF Rewritten
<1>6. UserInv'
  BY <1>4, <1>5 DEF UserInv, KeptInv
<1>. QED
  BY <1>1, <1>2, <1>5, <1>6 DEF KeptInv, UserStep

LEMMA KeptTypes == PartitionTypeOK => TypeRest
BY DEF PartitionTypeOK, TypeRest

LEMMA ClearKept ==
  ASSUME KeptInv, NEW t \in Tools, Clear(t)
  PROVE  KeptInv' /\ UserStep
<1>. DEFINE p == FirstOf(work[t].todo)
            w == work[t]
<1>1. /\ Active(t) /\ Stage(t) = "clear" /\ p \in w.todo /\ p \in Packages
      /\ disk[p] \in Marked \cup {"absent"} /\ disk' = [disk EXCEPT ![p] = "absent"]
      /\ whole' = whole \ {p} /\ mounted' = mounted \ {p}
      /\ Others(t, work'[t]) /\ Moved(w, work'[t], p)
      /\ UNCHANGED <<config, manifest, declared, outside, last, faults, halfway, lost>>
  BY ClearEffect DEF KeptInv
<1>2. TypeRest'
  BY <1>1, KeptTypes DEF KeptInv, TypeRest, outside
<1>3. p \notin theirs
  BY <1>1 DEF KeptInv, UserInv, Marked
<1>4. \A q \in theirs : disk'[q] = disk[q]
  BY <1>1, <1>3 DEF KeptInv, PartitionTypeOK
<1>5. Taken(t)' \cap theirs = {}
  <2>1. Taken(t)' \subseteq (w.dirs \ w.todo) \cup {p}
    BY <1>1 DEF Moved, SamePlan, Taken, Active, Stage, KeptInv, OrderInv, Ordered
  <2>2. Taken(t) = w.dirs \ w.todo
    BY <1>1 DEF Taken
  <2>. QED
    BY <1>3, <2>1, <2>2 DEF KeptInv, UserInv
<1>. QED
  BY <1>1, <1>2, <1>4, <1>5, KeptByTool DEF Moved, Rewritten, outside

LEMMA ConfigKept ==
  ASSUME KeptInv, NEW t \in Tools, MergeConfig(t) \/ StripConfig(t)
  PROVE  KeptInv' /\ UserStep
<1>. DEFINE w == work[t]
<1>1. /\ Active(t) /\ Stage(t) = "config" /\ w \in Plans /\ w.do # "release"
      /\ UNCHANGED <<disk, whole, manifest, declared, outside, last, faults, mounted, lost>>
      /\ \/ Ended(t) /\ config' = config /\ halfway' \in BOOLEAN
         \/ /\ Others(t, work'[t]) /\ Passed(w, work'[t])
            /\ config' = (IF w.do = "write" THEN Merged(config, w.remap) ELSE Stripped(config, w.remap))
            /\ halfway' = halfway
  BY ConfigEffect DEF KeptInv
<1>2. Rewritten
  <2>1. w.remap \in BOOLEAN
    BY <1>1 DEF Plans
  <2>. QED
    BY <1>1, <2>1 DEF Rewritten
<1>3. TypeRest'
  <2>1. config' \in Config
    BY <1>2, ConfigRewrites DEF Rewritten, KeptInv, PartitionTypeOK
  <2>. QED
    BY <1>1, <2>1, KeptTypes DEF KeptInv, TypeRest, outside
<1>4. CASE Ended(t)
  BY <1>1, <1>2, <1>3, <1>4, KeptByTool DEF Ended, Idle, Plans, outside
<1>5. CASE Others(t, work'[t]) /\ Passed(w, work'[t])
  <2>1. Taken(t)' = Taken(t)
    BY <1>1, <1>5 DEF Passed, SamePlan, Taken, Active, Stage, Follows, Plans, Operations
  <2>. QED
    BY <1>1, <1>2, <1>3, <1>5, <2>1, KeptByTool DEF Passed, outside, KeptInv, UserInv
<1>. QED
  BY <1>1, <1>4, <1>5

LEMMA MembersKept ==
  ASSUME KeptInv, NEW t \in Tools, ComputeMembers(t)
  PROVE  KeptInv' /\ UserStep
<1>. DEFINE w == work[t]
<1>1. /\ Active(t) /\ Stage(t) = "members" /\ w \in Plans
      /\ UNCHANGED <<files, outside, last, faults, mounted, lost>>
      /\ \/ Ended(t) /\ halfway' \in BOOLEAN
         \/ Others(t, work'[t]) /\ Passed(w, work'[t]) /\ halfway' = halfway
  BY MembersEffect DEF KeptInv
<1>2. TypeRest' /\ Rewritten
  BY <1>1, KeptTypes DEF KeptInv, TypeRest, outside, files, Rewritten
<1>3. CASE Ended(t)
  BY <1>1, <1>2, <1>3, KeptByTool DEF Ended, Idle, Plans, outside, files
<1>4. CASE Others(t, work'[t]) /\ Passed(w, work'[t])
  <2>1. Taken(t)' = Taken(t)
    BY <1>1, <1>4 DEF Passed, SamePlan, Taken, Active, Stage, Follows, Plans, Operations
  <2>. QED
    BY <1>1, <1>2, <1>4, <2>1, KeptByTool DEF Passed, outside, files, KeptInv, UserInv
<1>. QED
  BY <1>1, <1>3, <1>4

LEMMA MakeKept ==
  ASSUME KeptInv, NEW t \in Tools, Make(t)
  PROVE  KeptInv' /\ UserStep
<1>. DEFINE p == FirstOf(work[t].todo)
            w == work[t]
<1>1. /\ Making(t) /\ w \in Plans /\ p \in w.todo /\ p \in Packages /\ w.do \in {"write", "release"}
      /\ Others(t, work'[t]) /\ Ordered(work'[t]) /\ work'[t] \in Plans /\ SamePlan(w, work'[t])
      /\ UNCHANGED <<config, manifest, declared, outside, last, faults, halfway, lost>>
      /\ disk' \in [Packages -> Marked \cup WithManifest \cup {"absent", "folder"}]
      /\ \A q \in Packages \ {p} : disk'[q] = disk[q]
      /\ whole' \subseteq whole \cup {p} /\ mounted' \subseteq mounted \cup ({p} \ {Facade})
  BY MakeEffect DEF KeptInv
<1>2. TypeRest'
  <2>1. {p} \ {Facade} \subseteq Crates
    BY <1>1, PartitionAssumption
  <2>. QED
    BY <1>1, <2>1, KeptTypes DEF KeptInv, TypeRest, outside
<1>3. Taken(t) = w.dirs /\ p \in w.dirs
  BY <1>1 DEF Taken, Making, KeptInv, OrderInv, Ordered
<1>4. \A q \in theirs : disk'[q] = disk[q]
  BY <1>1, <1>3 DEF KeptInv, UserInv, PartitionTypeOK
<1>5. Taken(t)' \cap theirs = {}
  <2>1. Taken(t)' \subseteq w.dirs
    BY <1>1 DEF Taken, SamePlan
  <2>. QED
    BY <1>3, <2>1 DEF KeptInv, UserInv
<1>. QED
  BY <1>1, <1>2, <1>4, <1>5, KeptByTool DEF Rewritten, outside

\* An operation that stops, or has saved the member list, is at no place.
LEMMA EndKept ==
  ASSUME KeptInv, NEW t \in Tools,
         ClearRefuses(t) \/ SaveMembers(t) \/ Stop(t) \/ StopRemoving(t)
  PROVE  KeptInv' /\ UserStep
<1>1. Others(t, Idle) /\ UNCHANGED <<config, declared, sources, faces, workspace, edits, theirs, lost>>
  BY DEF ClearRefuses, SaveMembers, Stop, StopRemoving, GivesUp, Others, files, outside
<1>2. TypeRest' /\ \A p \in theirs : disk'[p] = disk[p]
  <2>1. CASE ClearRefuses(t) \/ Stop(t)
    <3>1. UNCHANGED <<files, outside, last, mounted, lost>> /\ halfway' \in BOOLEAN
      BY <2>1 DEF ClearRefuses, Stop, GivesUp, KeptInv, PartitionTypeOK
    <3>2. faults' \in 0..MaxFaults
      BY <2>1, PartitionAssumption DEF ClearRefuses, Stop, KeptInv, PartitionTypeOK
    <3>. QED
      BY <3>1, <3>2, KeptTypes DEF KeptInv, TypeRest, outside, files
  <2>2. CASE SaveMembers(t)
    <3>1. work[t] \in Plans
      BY <2>2, ActivePlan DEF SaveMembers, Working, Active, Operations, KeptInv
    <3>2. manifest' \in Manifest
      BY <2>2, <3>1 DEF SaveMembers, Plans, KeptInv, PartitionTypeOK
    <3>3. last' \in [do : Operations \cup {"nothing"}, dirs : SUBSET Packages, remap : BOOLEAN]
      BY <2>2, <3>1 DEF SaveMembers, Plans
    <3>. QED
      BY <2>2, <3>2, <3>3, KeptTypes DEF SaveMembers, KeptInv, TypeRest, outside
  <2>3. CASE StopRemoving(t)
    <3>. DEFINE p == FirstOf(work[t].todo)
    <3>1. PICK rest \in {disk[p], "folder", "bare"} : disk' = [disk EXCEPT ![p] = rest]
      BY <2>3 DEF StopRemoving
    <3>2. disk[p] \in Marked /\ p \notin theirs
      BY <2>3 DEF StopRemoving, KeptInv, UserInv, Marked
    <3>3. disk' \in [Packages -> Marked \cup WithManifest \cup {"absent", "folder"}]
      BY <3>1, <3>2 DEF KeptInv, PartitionTypeOK, Marked
    <3>4. \A q \in theirs : disk'[q] = disk[q]
      BY <3>1, <3>2 DEF KeptInv, PartitionTypeOK
    <3>5. faults' \in 0..MaxFaults
      BY <2>3, PartitionAssumption DEF StopRemoving, KeptInv, PartitionTypeOK
    <3>6. whole' \subseteq whole /\ halfway' \in BOOLEAN /\ UNCHANGED <<manifest, last, mounted>>
      BY <2>3 DEF StopRemoving
    <3>. QED
      BY <1>1, <3>3, <3>4, <3>5, <3>6, KeptTypes DEF KeptInv, TypeRest
  <2>. QED
    BY <2>1, <2>2, <2>3
<1>. QED
  BY <1>1, <1>2, KeptByTool DEF Rewritten, Idle, Plans

\* A new operation has taken no place yet.
LEMMA BeginEffect ==
  ASSUME PartitionTypeOK, NEW t \in Tools, NEW front, NEW do \in Operations, Begin(t, front, do)
  PROVE  LET v == work'[t]
         IN /\ work[t] = Idle /\ Others(t, v) /\ v \in Plans /\ Ordered(v) /\ v.do = do
            /\ v.dirs = declared \cup {Facade} /\ v.todo = v.dirs /\ v.edit = {}
            /\ Head(v.left) = (IF do = "revert" THEN "members" ELSE "clear")
            /\ last' = Nobody /\ UNCHANGED <<files, outside, faults, mounted, halfway, lost>>
<1>. DEFINE v == [do |-> do, dirs |-> Targets, remap |-> declared \cap faces # {}, left |-> Stages(do),
                  todo |-> Targets, file |-> "directory", edit |-> {}, changed |-> FALSE]
<1>1. /\ work[t] = Idle /\ work' = [work EXCEPT ![t] = v]
      /\ last' = Nobody /\ UNCHANGED <<files, outside, faults, mounted, halfway, lost>>
  BY DEF Begin
<1>2. work'[t] = v
  BY <1>1 DEF PartitionTypeOK
<1>3. /\ Stages(do) \in Ahead(do) /\ Head(Stages(do)) = (IF do = "revert" THEN "members" ELSE "clear")
      /\ Stages(do) \in Seq({"clear", "config", "members", "make", "save"})
  BY StagesAhead, AheadTyped DEF Passes
<1>4. Targets = declared \cup {Facade} /\ Targets \in (SUBSET Packages) \ {{}} /\ Targets \in SUBSET Packages
  BY PartitionAssumption DEF Targets, PartitionTypeOK
<1>5. (declared \cap faces # {}) \in BOOLEAN
  OBVIOUS
<1>6. v \in Plans
  BY <1>3, <1>4, <1>5 DEF Plans
<1>7. /\ v.left = Stages(do) /\ v.do = do /\ v.dirs = Targets /\ v.todo = Targets /\ v.edit = {}
      /\ v.file = "directory"
  OBVIOUS
<1>. HIDE DEF v
<1>8. Ordered(v)
  BY <1>3, <1>4, <1>7 DEF Ordered
<1>9. Others(t, v)
  BY <1>1 DEF Others
<1>. QED
  BY <1>1, <1>2, <1>3, <1>4, <1>6, <1>7, <1>8, <1>9

LEMMA BeginKept ==
  ASSUME KeptInv, NEW t \in Tools, NEW front, NEW do \in Operations, Begin(t, front, do)
  PROVE  KeptInv' /\ UserStep
<1>1. /\ Others(t, work'[t]) /\ work'[t] \in Plans /\ Ordered(work'[t]) /\ work'[t].do = do
      /\ work'[t].todo = work'[t].dirs
      /\ Head(work'[t].left) = (IF do = "revert" THEN "members" ELSE "clear")
      /\ last' = Nobody /\ UNCHANGED <<files, outside, faults, mounted, halfway, lost>>
  BY BeginEffect DEF KeptInv
<1>2. TypeRest'
  <2>1. Nobody \in [do : Operations \cup {"nothing"}, dirs : SUBSET Packages, remap : BOOLEAN]
    BY DEF Nobody
  <2>. QED
    BY <1>1, <2>1, KeptTypes DEF KeptInv, TypeRest, outside, files
<1>3. Taken(t)' = {}
  BY <1>1 DEF Taken, Stage
<1>. QED
  BY <1>1, <1>2, <1>3, KeptByTool DEF Rewritten, outside, files

\* The declaration is edited and judged beside the packages.
LEMMA RulingEffect ==
  ASSUME PartitionTypeOK, NEW t \in Tools, NEW n \in Crates, Declare(t, n) \/ Undeclare(t, n)
  PROVE  /\ work[t] = Idle /\ Others(t, work'[t]) /\ work'[t] \in Rulings /\ work'[t].before = declared
         /\ declared' \in {declared \cup {n}, declared \ {n}} /\ last' = Nobody
         /\ lost' \in {lost, lost \cup {n}}
         /\ UNCHANGED <<disk, whole, config, manifest, outside, faults, mounted, halfway>>
<1>. DEFINE v == [do |-> "judge", before |-> declared]
<1>1. /\ work[t] = Idle /\ work' = [work EXCEPT ![t] = v] /\ last' = Nobody
      /\ declared' \in {declared \cup {n}, declared \ {n}} /\ lost' \in {lost, lost \cup {n}}
      /\ UNCHANGED <<disk, whole, config, manifest, outside, faults, mounted, halfway>>
  BY DEF Declare, Undeclare, Edited
<1>2. v \in Rulings /\ v.before = declared
  BY DEF PartitionTypeOK, Rulings
<1>. HIDE DEF v
<1>3. work'[t] = v
  BY <1>1 DEF PartitionTypeOK
<1>4. Others(t, work'[t])
  BY <1>1, <1>3 DEF Others
<1>. QED
  BY <1>1, <1>2, <1>3, <1>4

LEMMA RulingKept ==
  ASSUME KeptInv, NEW t \in Tools,
         Judge(t) \/ \E n \in Crates : Declare(t, n) \/ Undeclare(t, n)
  PROVE  KeptInv' /\ UserStep
<1>1. CASE Judge(t)
  <2>1. work[t] \in Rulings
    BY <1>1, ActivePlan DEF Judge, KeptInv
  <2>2. Others(t, Idle) /\ UNCHANGED <<disk, whole, config, manifest, outside, last, faults, ghosts>>
    BY <1>1 DEF Judge, Others
  <2>3. declared' \subseteq Crates
    BY <1>1, <2>1 DEF Judge, Rulings, KeptInv, PartitionTypeOK
  <2>4. TypeRest'
    BY <2>2, <2>3, KeptTypes DEF KeptInv, TypeRest, outside, ghosts
  <2>. QED
    BY <2>2, <2>4, KeptByTool DEF Rewritten, Idle, Plans, ghosts
<1>2. ASSUME NEW n \in Crates, Declare(t, n) \/ Undeclare(t, n) PROVE KeptInv' /\ UserStep
  <2>1. /\ Others(t, work'[t]) /\ work'[t] \in Rulings /\ last' = Nobody
        /\ declared' \in {declared \cup {n}, declared \ {n}} /\ lost' \in {lost, lost \cup {n}}
        /\ UNCHANGED <<disk, whole, config, manifest, outside, faults, mounted, halfway>>
    BY <1>2, RulingEffect DEF KeptInv
  <2>2. Nobody \in [do : Operations \cup {"nothing"}, dirs : SUBSET Packages, remap : BOOLEAN]
    BY DEF Nobody
  <2>3. TypeRest'
    BY <2>1, <2>2, KeptTypes DEF KeptInv, TypeRest, outside
  <2>4. work'[t] \notin Plans
    BY <2>1 DEF Plans, Rulings, Operations
  <2>. QED
    BY <2>1, <2>3, <2>4, KeptByTool DEF Rewritten, outside
<1>. QED
  BY <1>1, <1>2

\* The user works while no tool holds a place, and never undoes their own lines.
LEMMA EditsTyped ==
  ASSUME KeptInv, Edits
  PROVE  /\ work' = work /\ \A t \in Tools : work[t] = Idle /\ Taken(t)' = {}
         /\ edits' \in 0..MaxEdits /\ last' = Nobody
         /\ Nobody \in [do : Operations \cup {"nothing"}, dirs : SUBSET Packages, remap : BOOLEAN]
         /\ UNCHANGED <<whole, workspace, faces, faults, mounted, halfway>>
<1>1. /\ work' = work /\ (\A t \in Tools : work[t] = Idle) /\ last' = Nobody
      /\ UNCHANGED <<whole, workspace, faces, faults, mounted, halfway>>
  BY DEF Edits
<1>2. edits' \in 0..MaxEdits
  BY PartitionAssumption DEF Edits, KeptInv, PartitionTypeOK
<1>3. \A t \in Tools : Taken(t)' = {}
  BY <1>1 DEF Taken, Active, Idle, Operations
<1>. QED
  BY <1>1, <1>2, <1>3 DEF Nobody

LEMMA UserKept ==
  ASSUME KeptInv,
         (\E p \in Packages : Occupy(p) \/ Tidy(p)) \/ Reformat \/ MoveSources \/ HandEdit \/ Build
  PROVE  KeptInv' /\ UserStep
<1>1. ASSUME work' = work, TypeRest', \A t \in Tools : Taken(t)' \cap theirs' = {},
             \A p \in theirs \cap theirs' : disk'[p] = disk[p],
             \A p \in theirs' : disk'[p] \in {"folder", "package"},
             config' = config \/ config' = [config EXCEPT !.flags = "other"]
      PROVE  KeptInv' /\ UserStep
  <2>1. PartitionTypeOK' /\ OrderInv'
    BY <1>1 DEF KeptInv, PartitionTypeOK, TypeRest, OrderInv, Active
  <2>2. /\ config'.keeps = config.keeps /\ config'.theirs = config.theirs
        /\ config'.comments = config.comments
        /\ config'.remap = config.remap /\ config'.file = config.file
    BY <1>1 DEF KeptInv, PartitionTypeOK, Config
  <2>3. KeepsText(config, config') /\ (HasText(config') <=> HasText(config))
    BY <2>2 DEF KeepsText, HasText
  <2>. QED
    BY <1>1, <2>1, <2>2, <2>3 DEF KeptInv, UserInv, UserStep
<1>2. CASE Build
  <2>1. /\ UNCHANGED <<disk, whole, config, manifest, declared, sources, workspace, work, last, faults>>
        /\ UNCHANGED <<edits, theirs, mounted, halfway, lost>> /\ faces' = sources
    BY <1>2 DEF Build, files, ghosts
  <2>2. TypeRest'
    BY <2>1, KeptTypes DEF KeptInv, TypeRest
  <2>3. \A t \in Tools : Taken(t)' = Taken(t)
    BY <2>1 DEF Taken, Active, Stage
  <2>. QED
    BY <1>1, <2>1, <2>2, <2>3 DEF KeptInv, UserInv
<1>3. ASSUME NEW p \in Packages, Occupy(p) \/ Tidy(p) PROVE KeptInv' /\ UserStep
  <2>1. UNCHANGED <<config, manifest, declared, sources, lost>> /\ Edits
    BY <1>3 DEF Occupy, Tidy
  <2>2. PICK d \in {"folder", "package", "absent"} :
          /\ disk' = [disk EXCEPT ![p] = d]
          /\ \/ d # "absent" /\ disk[p] = "absent" /\ theirs' = theirs \cup {p}
             \/ d = "absent" /\ theirs' = theirs \ {p}
    BY <1>3 DEF Occupy, Tidy
  <2>3. TypeRest'
    BY <2>1, <2>2, EditsTyped, KeptTypes DEF KeptInv, TypeRest, WithManifest
  <2>4. disk'[p] = d /\ \A q \in Packages \ {p} : disk'[q] = disk[q]
    BY <2>2 DEF KeptInv, PartitionTypeOK
  <2>5. theirs \subseteq Packages /\ \A q \in theirs : disk[q] \in {"folder", "package"}
    BY DEF KeptInv, UserInv, PartitionTypeOK
  <2>6. /\ \A q \in theirs \cap theirs' : disk'[q] = disk[q]
        /\ \A q \in theirs' : disk'[q] \in {"folder", "package"}
    BY <2>2, <2>4, <2>5
  <2>. QED
    BY <1>1, <2>1, <2>3, <2>6, EditsTyped
<1>4. CASE Reformat
  <2>1. Edits /\ UNCHANGED <<disk, declared, theirs, sources, lost>>
    BY <1>4 DEF Reformat
  <2>2. manifest' \in Manifest
    BY <1>4, PartitionAssumption DEF Reformat, KeptInv, PartitionTypeOK, Manifest
  <2>3. config' = config \/ config' = [config EXCEPT !.flags = "other"]
    BY <1>4 DEF Reformat
  <2>4. config' \in Config
    BY <2>3 DEF KeptInv, PartitionTypeOK, Config
  <2>5. TypeRest'
    BY <2>1, <2>2, <2>4, EditsTyped, KeptTypes DEF KeptInv, TypeRest
  <2>. QED
    BY <1>1, <2>1, <2>3, <2>5, EditsTyped DEF KeptInv, UserInv
<1>5. CASE MoveSources \/ HandEdit
  <2>1. Edits /\ UNCHANGED <<disk, config, manifest, theirs>>
    BY <1>5 DEF MoveSources, HandEdit
  <2>2. declared' \subseteq Crates /\ sources' \subseteq Crates /\ lost' \subseteq Crates
    BY <1>5 DEF MoveSources, HandEdit, KeptInv, PartitionTypeOK
  <2>3. TypeRest'
    BY <2>1, <2>2, EditsTyped, KeptTypes DEF KeptInv, TypeRest
  <2>. QED
    BY <1>1, <2>1, <2>3, EditsTyped DEF KeptInv, UserInv
<1>. QED
  BY <1>2, <1>3, <1>4, <1>5

LEMMA InitKept == PartitionInit => KeptInv
<1>. SUFFICES ASSUME PartitionInit PROVE KeptInv
  OBVIOUS
<1>. USE DEF PartitionInit
<1>1. config \in Config /\ manifest \in Manifest /\ (config.file \/ config = NoConfig)
  BY PartitionAssumption
<1>2. \A t \in Tools : work[t] = Idle /\ ~Active(t)
  BY DEF Active, Idle, Operations
<1>3. PartitionTypeOK
  <2>1. disk \in [Packages -> Marked \cup WithManifest \cup {"absent", "folder"}]
    OBVIOUS
  <2>2. work \in [Tools -> {Idle} \cup Rulings \cup Plans]
    OBVIOUS
  <2>3. last \in [do : Operations \cup {"nothing"}, dirs : SUBSET Packages, remap : BOOLEAN]
    BY DEF Nobody
  <2>4. faults \in 0..MaxFaults /\ edits \in 0..MaxEdits
    BY PartitionAssumption
  <2>. QED
    BY <1>1, <2>1, <2>2, <2>3, <2>4 DEF PartitionTypeOK
<1>4. OrderInv /\ \A t \in Tools : Taken(t) = {}
  BY <1>2 DEF OrderInv, Taken
<1>5. HasText(config) => config.file
  BY <1>1 DEF NoConfig, HasText
<1>. QED
  BY <1>3, <1>4, <1>5 DEF KeptInv, UserInv

LEMMA NextKept == KeptInv /\ [PartitionNext]_partitionVars => KeptInv' /\ UserStep
<1>. SUFFICES ASSUME KeptInv, [PartitionNext]_partitionVars PROVE KeptInv' /\ UserStep
  OBVIOUS
<1>1. CASE UNCHANGED partitionVars
  <2>1. UNCHANGED <<declared, sources, faces, disk, whole, config, manifest, workspace, work, last,
                    faults, edits, theirs, mounted, halfway, lost>>
    BY <1>1 DEF partitionVars, files, ghosts
  <2>. QED
    BY <2>1 DEF KeptInv, PartitionTypeOK, OrderInv, UserInv, UserStep, KeepsText, Active, Taken, Stage
<1>2. ASSUME NEW t \in Tools, NEW front \in {"cli", "view"}, NEW do \in {"write", "release", "revert"},
             Begin(t, front, do)
      PROVE  KeptInv' /\ UserStep
  BY <1>2, BeginKept DEF Operations
<1>3. ASSUME NEW t \in Tools, ClearRefuses(t) \/ Clear(t) \/ MergeConfig(t) \/ StripConfig(t)
               \/ ComputeMembers(t) \/ Make(t) \/ SaveMembers(t) \/ Stop(t) \/ StopRemoving(t)
      PROVE  KeptInv' /\ UserStep
  BY <1>3, ClearKept, ConfigKept, MembersKept, MakeKept, EndKept
<1>4. ASSUME NEW t \in Tools, Judge(t) \/ \E n \in Crates : Declare(t, n) \/ Undeclare(t, n)
      PROVE  KeptInv' /\ UserStep
  BY <1>4, RulingKept
<1>5. CASE (\E p \in Packages : Occupy(p) \/ Tidy(p)) \/ Reformat \/ MoveSources \/ HandEdit \/ Build
  BY <1>5, UserKept
<1>. QED
  BY <1>1, <1>2, <1>3, <1>4, <1>5 DEF PartitionNext

\* Every state of a project with a partition is a well-typed one.
THEOREM PartitionTypeCorrect == PartitionSpec => []PartitionTypeOK
<1>1. KeptInv => PartitionTypeOK
  BY DEF KeptInv
<1>2. KeptInv /\ [PartitionNext]_partitionVars => KeptInv'
  BY NextKept
<1>. QED
  BY <1>1, <1>2, InitKept, PTL DEF PartitionSpec

\* Whatever the tools do, in any number and stopped anywhere, the things the
\* user has put at a package's place stay, and so do the flags, the comments and
\* the other lines the user has in the config, but for a flag with commas, which
\* is split, and for comments with nothing else of the user beside them
\* (clear_generated, merge_workspace_config, strip_workspace_config).
THEOREM UsersTextIsKept == PartitionSpec => UsersKept
<1>1. KeptInv /\ [PartitionNext]_partitionVars => KeptInv'
  BY NextKept
<1>2. KeptInv /\ [PartitionNext]_partitionVars =>
        [/\ \A p \in theirs \cap theirs' : disk'[p] = disk[p]
         /\ config'.theirs = config.theirs \/ SplitsFlags(config, config')
         /\ config.comments => config'.comments \/ HasOnlyComments(config)
         /\ config.keeps => config'.keeps]_partitionVars
  BY NextKept DEF UserStep, KeepsText
<1>. QED
  BY <1>1, <1>2, InitKept, PTL DEF PartitionSpec, UsersKept

-----------------------------------------------------------------------------
(* With one tool at work, a step has only its own plan to answer for.        *)

LEMMA Alone ==
  ASSUME OneTool, NEW t \in Tools, AtWork(t)', MountedNamed', DoneMeansDone', RemapWhileMounted'
  PROVE  WorkInv'
<1>1. \A u \in Tools : u = t
  BY DEF OneTool
<1>. QED
  BY <1>1 DEF WorkInv

\* A tool that has nothing in hand answers for nothing.
LEMMA AtRest == ASSUME NEW t \in Tools, work'[t] = Idle PROVE AtWork(t)'
<1>1. ~Active(t)' /\ work'[t].do # "judge"
  BY DEF Active, Idle, Operations
<1>. QED
  BY <1>1 DEF AtWork, PlanAt, DiskAt, ConfigAt, MembersAt, MountAt, Taken, Computed

LEMMA NothingSaid == ASSUME last' = Nobody PROVE DoneMeansDone'
BY DEF DoneMeansDone, Nobody

LEMMA ClearWorks ==
  ASSUME OneTool, KeptInv, WorkInv, NEW t \in Tools, Clear(t)
  PROVE  WorkInv'
<1>. DEFINE p == FirstOf(work[t].todo)
            w == work[t]
            v == work'[t]
<1>1. /\ Active(t) /\ Stage(t) = "clear" /\ p \in w.todo /\ p \in Packages
      /\ disk' = [disk EXCEPT ![p] = "absent"] /\ mounted' = mounted \ {p}
      /\ Moved(w, v, p)
      /\ UNCHANGED <<config, manifest, declared, workspace, last, lost>>
  BY ClearEffect DEF KeptInv, outside
<1>2. /\ w \in Plans /\ Ordered(w) /\ AtWork(t) /\ last' = Nobody
      /\ w.do \in Operations /\ w # Idle
  BY <1>1, ActivePlan DEF KeptInv, OrderInv, WorkInv, AtWork, PlanAt, Active, Idle, Operations
<1>3. disk'[p] = "absent" /\ \A q \in Packages : q # p => disk'[q] = disk[q]
  BY <1>1 DEF KeptInv, PartitionTypeOK
<1>4. /\ v.do = w.do /\ v.dirs = w.dirs /\ v.remap = w.remap /\ v.edit = w.edit /\ Active(t)'
  BY <1>1, <1>2 DEF Moved, SamePlan, Active
<1>5. Taken(t) = w.dirs \ w.todo /\ w.todo \subseteq w.dirs /\ w.dirs \subseteq Packages
  BY <1>1, <1>2 DEF Taken, Ordered, Plans
<1>6. /\ Stage(t)' \in {"clear", "config", "members"} /\ (Stage(t)' = "members" => w.do = "release")
      /\ Taken(t)' \subseteq Taken(t) \cup {p}
  <2>1. CASE v.left = w.left /\ v.todo = w.todo \ {p}
    BY <1>1, <1>4, <1>5, <2>1 DEF Taken, Stage
  <2>2. CASE w.todo \ {p} = {} /\ Head(v.left) = Follows(w.do, Head(w.left))
    BY <1>1, <1>4, <1>5, <2>2 DEF Taken, Stage, Follows
  <2>. QED
    BY <1>1, <2>1, <2>2 DEF Moved
<1>7. \A q \in Taken(t)' : disk'[q] = "absent"
  BY <1>1, <1>2, <1>3, <1>5, <1>6 DEF AtWork, DiskAt, Made, InHand, Making
<1>8. AtWork(t)'
  <2>1. PlanAt(t)'
    BY <1>1, <1>2, <1>4 DEF AtWork, PlanAt
  <2>2. DiskAt(t)'
    BY <1>6, <1>7 DEF DiskAt, Made, InHand, Making
  <2>3. ConfigAt(t)'
    BY <1>4, <1>6 DEF ConfigAt
  <2>4. MembersAt(t)'
    BY <1>1, <1>2, <1>4, <1>6 DEF AtWork, MembersAt, Computed
  <2>5. MountAt(t)'
    BY <1>1, <1>2, <1>4, <1>6 DEF AtWork, MountAt, Operations
  <2>. QED
    BY <2>1, <2>2, <2>3, <2>4, <2>5 DEF AtWork
<1>9. MountedNamed' /\ RemapWhileMounted'
  BY <1>1, <1>3, PartitionAssumption
  DEF MountedNamed, RemapWhileMounted, WorkInv, KeptInv, PartitionTypeOK
<1>. QED
  BY <1>2, <1>8, <1>9, Alone, NothingSaid

LEMMA ConfigWorks ==
  ASSUME OneTool, KeptInv, WorkInv, NEW t \in Tools, MergeConfig(t) \/ StripConfig(t)
  PROVE  WorkInv'
<1>. DEFINE w == work[t]
            v == work'[t]
<1>1. /\ Active(t) /\ Stage(t) = "config" /\ w \in Plans /\ w.do \in {"write", "revert"}
      /\ UNCHANGED <<disk, whole, manifest, declared, workspace, last, mounted, lost>>
      /\ \/ Ended(t) /\ config' = config
         \/ /\ Passed(w, v) /\ v.edit = w.edit
            /\ config' = IF w.do = "write" THEN Merged(config, w.remap) ELSE Stripped(config, w.remap)
  BY ConfigEffect DEF KeptInv, outside, Plans, Operations
<1>2. /\ Ordered(w) /\ AtWork(t) /\ last' = Nobody /\ w # Idle
      /\ config \in Config /\ (config.remap => config.file) /\ w.remap \in BOOLEAN
  BY <1>1 DEF KeptInv, OrderInv, UserInv, HasText, PartitionTypeOK, WorkInv, AtWork, PlanAt, Active, Idle, Operations,
              Plans
<1>3. MountedNamed'
  BY <1>1 DEF MountedNamed, WorkInv
<1>4. CASE Ended(t)
  <2>1. work'[t] = Idle
    BY <1>4 DEF Ended, Others, KeptInv, PartitionTypeOK
  <2>2. config' = config
    BY <1>1, <2>1 DEF Passed, Plans, Idle
  <2>3. RemapWhileMounted'
    BY <1>1, <2>2 DEF RemapWhileMounted, WorkInv
  <2>. QED
    BY <1>2, <1>3, <2>1, <2>3, Alone, AtRest, NothingSaid
<1>5. CASE /\ Passed(w, v) /\ v.edit = w.edit
           /\ config' = IF w.do = "write" THEN Merged(config, w.remap) ELSE Stripped(config, w.remap)
  <2>1. /\ v.do = w.do /\ v.dirs = w.dirs /\ v.remap = w.remap /\ Active(t)'
        /\ Stage(t)' = IF w.do = "write" THEN "members" ELSE "save"
    BY <1>1, <1>5 DEF Passed, SamePlan, Active, Stage, Follows
  <2>2. Taken(t) = w.dirs /\ Taken(t)' = w.dirs
    BY <1>1, <2>1 DEF Taken
  <2>3. \A q \in w.dirs : disk[q] = "absent" /\ disk'[q] = "absent"
    BY <1>1, <1>2, <2>2 DEF AtWork, DiskAt, Made, InHand, Making
  <2>4. /\ w.do = "write" => (w.remap => config'.remap) /\ (config.remap => config'.remap)
        /\ w.do = "revert" => (w.remap => ~config'.remap) /\ (~w.remap => config' = config)
    BY <1>1, <1>2, <1>5, ConfigRewrites
  <2>5. AtWork(t)'
    <3>1. PlanAt(t)'
      BY <1>1, <1>2, <2>1 DEF AtWork, PlanAt
    <3>2. DiskAt(t)'
      BY <1>1, <2>1, <2>2, <2>3 DEF DiskAt, Made, InHand, Making
    <3>3. ConfigAt(t)'
      BY <1>1, <2>1, <2>4 DEF ConfigAt
    <3>4. MembersAt(t)'
      BY <1>1, <1>2, <1>5, <2>1 DEF AtWork, MembersAt, Computed
    <3>5. MountAt(t)'
      BY <1>1, <1>2, <2>1, <2>2 DEF AtWork, MountAt
    <3>. QED
      BY <3>1, <3>2, <3>3, <3>4, <3>5 DEF AtWork
  <2>6. RemapWhileMounted'
    <3>1. ASSUME NEW q \in mounted \ lost, disk[q] = "development" PROVE config'.remap
      <4>1. config.remap /\ q \in declared
        BY <3>1 DEF WorkInv, RemapWhileMounted, MountedNamed
      <4>2. w.dirs = declared \cup {Facade}
        BY <1>1, <1>2 DEF AtWork, PlanAt
      <4>. QED
        BY <3>1, <4>1, <4>2, <2>3
    <3>. QED
      BY <1>1, <3>1 DEF RemapWhileMounted
  <2>. QED
    BY <1>2, <1>3, <2>5, <2>6, Alone, NothingSaid
<1>. QED
  BY <1>1, <1>4, <1>5

LEMMA MembersWorks ==
  ASSUME OneTool, KeptInv, WorkInv, NEW t \in Tools, ComputeMembers(t)
  PROVE  WorkInv'
<1>. DEFINE w == work[t]
            v == work'[t]
<1>1. /\ Active(t) /\ Stage(t) = "members" /\ w \in Plans
      /\ UNCHANGED <<disk, whole, config, manifest, declared, workspace, last, mounted, lost>>
      /\ \/ Ended(t)
         \/ Passed(w, v) /\ (workspace => v.edit = EditFor(manifest, w))
  BY MembersEffect DEF KeptInv, outside, files
<1>2. Ordered(w) /\ AtWork(t) /\ last' = Nobody /\ w # Idle /\ w.do \in Operations
  BY <1>1 DEF KeptInv, OrderInv, WorkInv, AtWork, PlanAt, Active, Idle, Operations, Plans
<1>3. MountedNamed' /\ RemapWhileMounted'
  BY <1>1 DEF MountedNamed, RemapWhileMounted, WorkInv
<1>4. CASE Ended(t)
  <2>1. work'[t] = Idle
    BY <1>4 DEF Ended, Others, KeptInv, PartitionTypeOK
  <2>. QED
    BY <1>2, <1>3, <2>1, Alone, AtRest, NothingSaid
<1>5. CASE Passed(w, v) /\ (workspace => v.edit = EditFor(manifest, w))
  <2>1. /\ v.do = w.do /\ v.dirs = w.dirs /\ v.remap = w.remap /\ Active(t)'
        /\ v.file = "directory" /\ v.todo = w.dirs
        /\ Stage(t)' = IF w.do = "revert" THEN "clear" ELSE "make"
    BY <1>1, <1>5 DEF Passed, SamePlan, Active, Stage, Follows
  <2>2. /\ Taken(t) = IF w.do = "revert" THEN {} ELSE w.dirs
        /\ Taken(t)' = IF w.do = "revert" THEN {} ELSE w.dirs
    BY <1>1, <2>1 DEF Taken
  <2>3. \A q \in Taken(t)' : disk'[q] = "absent"
    BY <1>1, <1>2, <2>2 DEF AtWork, DiskAt, Made, InHand, Making
  <2>4. AtWork(t)'
    <3>1. PlanAt(t)'
      BY <1>1, <1>2, <2>1 DEF AtWork, PlanAt
    <3>2. DiskAt(t)'
      BY <1>1, <2>1, <2>2, <2>3 DEF DiskAt, Made, InHand, Making
    <3>3. ConfigAt(t)'
      BY <1>1, <1>2, <2>1 DEF AtWork, ConfigAt
    <3>4. MembersAt(t)'
      <4>1. ASSUME workspace
            PROVE  /\ v.edit = {} => Settled(w.do, w.dirs, manifest)
                   /\ \A m \in v.edit : Settled(w.do, w.dirs, m)
        <5>1. manifest \in Manifest /\ w.dirs \in SUBSET Packages
          BY <1>1 DEF Plans, KeptInv, PartitionTypeOK
        <5>. QED
          BY <1>5, <4>1, <5>1, MemberEdits DEF EditFor, Settled
      <4>. QED
        BY <1>1, <2>1, <4>1 DEF MembersAt
    <3>5. MountAt(t)'
      BY <1>1, <1>2, <2>1, <2>2 DEF AtWork, MountAt, Operations
    <3>. QED
      BY <3>1, <3>2, <3>3, <3>4, <3>5 DEF AtWork
  <2>. QED
    BY <1>2, <1>3, <2>4, Alone, NothingSaid
<1>. QED
  BY <1>1, <1>4, <1>5

LEMMA MakeWorks ==
  ASSUME OneTool, KeptInv, WorkInv, NEW t \in Tools, Make(t)
  PROVE  WorkInv'
<1>. DEFINE p == FirstOf(work[t].todo)
            w == work[t]
            v == work'[t]
<1>1. /\ Making(t) /\ w \in Plans /\ w.do \in {"write", "release"} /\ p \in w.todo /\ p \in Packages
      /\ v \in Plans /\ SamePlan(w, v) /\ v.edit = w.edit
      /\ UNCHANGED <<config, manifest, declared, workspace, last, lost>>
      /\ \A q \in Packages \ {p} : disk'[q] = disk[q]
  BY MakeEffect DEF KeptInv, outside
<1>2. \/ /\ w.file = "directory" /\ v.file = "manifest" /\ v.left = w.left /\ v.todo = w.todo
         /\ disk'[p] = (IF disk[p] = "absent" THEN "folder" ELSE disk[p])
         /\ UNCHANGED <<whole, mounted>>
      \/ /\ w.file = "manifest" /\ v.file = "rest" /\ v.left = w.left /\ v.todo = w.todo
         /\ disk'[p] = Shape(w.do)
         /\ UNCHANGED <<whole, mounted>>
      \/ /\ w.file = "rest" /\ Moved(w, v, p)
         /\ disk[p] \notin {"absent", "folder"} => disk'[p] = disk[p]
         /\ whole' = IF disk[p] = Shape(w.do) THEN whole \cup {p} ELSE whole
         /\ mounted' = IF w.do = "write" /\ w.remap THEN mounted \cup ({p} \ {Facade}) ELSE mounted
  BY MakeEffect DEF KeptInv
<1>3. /\ Active(t) /\ Stage(t) = "make" /\ Ordered(w) /\ AtWork(t) /\ last' = Nobody /\ w # Idle
  BY <1>1 DEF Making, KeptInv, OrderInv, WorkInv, AtWork, PlanAt, Active, Idle, Operations
<1>4. /\ v.do = w.do /\ v.dirs = w.dirs /\ v.remap = w.remap /\ Active(t)'
      /\ Taken(t) = w.dirs /\ p \in w.dirs /\ w.dirs \subseteq Packages /\ w.todo \subseteq w.dirs
  BY <1>1, <1>3 DEF SamePlan, Active, Taken, Ordered, Plans
<1>5. InHand(t, p) /\ ~Made(t, p)
  BY <1>1, <1>3 DEF InHand, Made
<1>6. disk[p] = CASE w.file = "directory" -> "absent"
                  [] w.file = "manifest" -> "folder"
                  [] w.file = "rest" -> Shape(w.do)
  BY <1>3, <1>4, <1>5 DEF AtWork, DiskAt
<1>7. /\ Stage(t)' \in {"make", "save"} /\ Taken(t)' = w.dirs
      /\ Stage(t)' = "make" => (v.todo = w.todo \ {p} /\ v.file = "directory" /\ w.file = "rest")
                               \/ (v.todo = w.todo /\ w.file # "rest")
      /\ Stage(t)' = "save" => w.todo \ {p} = {} /\ w.file = "rest"
  <2>1. CASE w.file # "rest"
    BY <1>1, <1>2, <1>3, <1>4, <2>1 DEF Stage, Taken
  <2>2. CASE w.file = "rest"
    <3>1. /\ v.file = "directory"
          /\ \/ v.left = w.left /\ v.todo = w.todo \ {p}
             \/ w.todo \ {p} = {} /\ Head(v.left) = Follows(w.do, Head(w.left))
      BY <1>2, <2>2 DEF Moved
    <3>2. CASE v.left = w.left /\ v.todo = w.todo \ {p}
      BY <1>1, <1>3, <1>4, <2>2, <3>1, <3>2 DEF Stage, Taken
    <3>3. CASE w.todo \ {p} = {} /\ Head(v.left) = Follows(w.do, Head(w.left))
      BY <1>1, <1>3, <1>4, <2>2, <3>3 DEF Stage, Taken, Follows
    <3>. QED
      BY <3>1, <3>2, <3>3
  <2>. QED
    BY <2>1, <2>2
<1>8. DiskAt(t)'
  <2>1. ASSUME w.file # "rest" PROVE DiskAt(t)'
    <3>1. /\ Stage(t)' = "make" /\ v.todo = w.todo /\ whole' = whole
          /\ v.file = (IF w.file = "directory" THEN "manifest" ELSE "rest")
      BY <1>2, <1>7, <2>1
    <3>2. disk'[p] = (IF v.file = "manifest" THEN "folder" ELSE Shape(w.do))
      BY <1>2, <1>6, <2>1
    <3>3. ASSUME NEW q \in w.dirs
          PROVE  /\ Made(t, q)' <=> Made(t, q)
                 /\ InHand(t, q)' <=> InHand(t, q)
                 /\ ~InHand(t, q) => disk'[q] = disk[q]
      BY <1>1, <1>3, <1>4, <3>1 DEF Made, InHand, Making
    <3>4. ASSUME NEW q \in w.dirs
          PROVE  /\ Made(t, q) => disk'[q] = Shape(w.do) /\ q \in whole
                 /\ ~Made(t, q) /\ ~InHand(t, q) => disk'[q] = "absent"
                 /\ InHand(t, q) => q = p
      BY <1>3, <1>4, <1>5, <3>3 DEF AtWork, DiskAt, InHand
    <3>. QED
      BY <1>4, <1>7, <3>1, <3>2, <3>3, <3>4 DEF DiskAt
  <2>2. ASSUME w.file = "rest" PROVE DiskAt(t)'
    <3>1. disk'[p] = Shape(w.do) /\ whole' = whole \cup {p}
      BY <1>2, <1>6, <2>2 DEF Shape
    <3>2. ASSUME NEW q \in w.dirs
          PROVE  /\ Made(t, q)' <=> (Made(t, q) \/ q = p)
                 /\ InHand(t, q)' => q # p /\ ~Made(t, q) /\ v.file = "directory"
      <4>1. CASE Stage(t)' = "make"
        <5>1. v.todo = w.todo \ {p} /\ v.file = "directory" /\ v.todo # {}
          BY <1>1, <1>7, <2>2, <4>1 DEF Plans
        <5>2. FirstOf(v.todo) \in w.todo \ {p}
          BY <5>1, FirstIsOne
        <5>. QED
          BY <1>1, <1>3, <1>4, <4>1, <5>1, <5>2 DEF Made, InHand, Making
      <4>2. CASE Stage(t)' = "save"
        BY <1>1, <1>3, <1>4, <1>7, <4>2 DEF Made, InHand, Making
      <4>. QED
        BY <1>7, <4>1, <4>2
    <3>3. ASSUME NEW q \in w.dirs
          PROVE  /\ Made(t, q) => disk[q] = Shape(w.do) /\ q \in whole
                 /\ ~Made(t, q) /\ q # p => disk[q] = "absent"
      BY <1>3, <1>4 DEF AtWork, DiskAt, InHand
    <3>4. \A q \in w.dirs : q # p => disk'[q] = disk[q]
      BY <1>1, <1>4
    <3>. QED
      BY <1>4, <1>7, <3>1, <3>2, <3>3, <3>4 DEF DiskAt
  <2>. QED
    BY <2>1, <2>2
<1>9. AtWork(t)'
  <2>1. PlanAt(t)'
    BY <1>1, <1>3, <1>4 DEF AtWork, PlanAt
  <2>2. ConfigAt(t)'
    BY <1>1, <1>3, <1>4 DEF AtWork, ConfigAt
  <2>3. MembersAt(t)'
    BY <1>1, <1>3, <1>4 DEF AtWork, MembersAt, Computed
  <2>4. MountAt(t)'
    BY <1>1, <1>2, <1>3, <1>4, <1>7 DEF AtWork, MountAt
  <2>. QED
    BY <1>8, <2>1, <2>2, <2>3, <2>4 DEF AtWork
<1>10. MountedNamed' /\ RemapWhileMounted'
  <2>1. mounted \subseteq Crates /\ mounted' \subseteq Crates /\ Facade \notin Crates
        /\ mounted' \subseteq mounted \cup {p} /\ Crates \subseteq Packages
    BY <1>1, <1>2, PartitionAssumption DEF KeptInv, PartitionTypeOK
  <2>2. w.dirs = declared \cup {Facade}
    BY <1>3 DEF AtWork, PlanAt
  <2>3. MountedNamed'
    BY <1>1, <1>4, <2>1, <2>2 DEF MountedNamed, WorkInv
  <2>4. ASSUME p \in mounted', disk'[p] = "development" PROVE config.remap
    <3>1. w.do = "write"
      BY <1>1, <1>2, <1>6, <2>4 DEF Shape
    <3>2. w.remap
      BY <1>2, <1>3, <1>4, <2>4, <3>1 DEF AtWork, MountAt
    <3>. QED
      BY <1>3, <3>1, <3>2 DEF AtWork, ConfigAt
  <2>5. RemapWhileMounted'
    BY <1>1, <2>1, <2>4 DEF RemapWhileMounted, WorkInv
  <2>. QED
    BY <2>3, <2>5
<1>. QED
  BY <1>3, <1>9, <1>10, Alone, NothingSaid

\* What an operation says when it has saved the member list is what it has done.
LEMMA SaveWorks ==
  ASSUME OneTool, KeptInv, WorkInv, NEW t \in Tools, SaveMembers(t)
  PROVE  WorkInv'
<1>. DEFINE w == work[t]
<1>1. /\ Active(t) /\ Stage(t) = "save" /\ w \in Plans /\ AtWork(t) /\ w.do \in Operations
      /\ work'[t] = Idle /\ last' = [do |-> w.do, dirs |-> w.dirs, remap |-> w.remap]
      /\ manifest' = (IF w.edit = {} THEN manifest ELSE CHOOSE m \in w.edit : TRUE)
      /\ UNCHANGED <<disk, whole, config, declared, workspace, mounted, lost>>
  BY ActivePlan DEF SaveMembers, Working, Active, Stage, Operations, WorkInv, outside, KeptInv, PartitionTypeOK
<1>2. Taken(t) = w.dirs
  BY <1>1 DEF Taken
<1>3. \A q \in w.dirs : IF w.do = "revert" THEN disk[q] = "absent"
                        ELSE disk[q] = Shape(w.do) /\ q \in whole
  BY <1>1, <1>2 DEF AtWork, DiskAt, Made, InHand, Making
<1>4. workspace => Settled(w.do, w.dirs, manifest')
  BY <1>1 DEF AtWork, MembersAt, Computed
<1>5. w.remap => (w.do = "write" => config.remap) /\ (w.do = "revert" => ~config.remap)
  BY <1>1 DEF AtWork, ConfigAt
<1>6. DoneMeansDone'
  <2>1. CASE w.do = "revert"
    BY <1>1, <1>3, <1>4, <1>5, <2>1 DEF DoneMeansDone, Settled
  <2>2. CASE w.do \in {"write", "release"}
    BY <1>1, <1>3, <1>4, <1>5, <2>2 DEF DoneMeansDone, Settled, Shape
  <2>. QED
    BY <1>1, <2>1, <2>2 DEF Operations
<1>7. MountedNamed' /\ RemapWhileMounted'
  BY <1>1 DEF MountedNamed, RemapWhileMounted, WorkInv
<1>. QED
  BY <1>1, <1>6, <1>7, Alone, AtRest

\* An operation may stop anywhere.
LEMMA StopWorks ==
  ASSUME OneTool, KeptInv, WorkInv, NEW t \in Tools, ClearRefuses(t) \/ Stop(t) \/ StopRemoving(t)
  PROVE  WorkInv'
<1>1. /\ work'[t] = Idle /\ work[t] # Idle
      /\ UNCHANGED <<config, declared, last, mounted, lost>>
  BY DEF ClearRefuses, Stop, StopRemoving, GivesUp, Working, Idle, files, KeptInv, PartitionTypeOK
<1>2. last' = Nobody
  BY <1>1 DEF WorkInv, AtWork, PlanAt
<1>3. \A q \in Packages : disk'[q] = "development" => disk[q] = "development"
  <2>1. CASE ClearRefuses(t) \/ Stop(t)
    BY <2>1 DEF ClearRefuses, Stop, files
  <2>2. CASE StopRemoving(t)
    BY <2>2 DEF StopRemoving, KeptInv, PartitionTypeOK
  <2>. QED
    BY <2>1, <2>2
<1>4. mounted \subseteq Packages
  BY PartitionAssumption DEF KeptInv, PartitionTypeOK
<1>5. MountedNamed' /\ RemapWhileMounted'
  BY <1>1, <1>3, <1>4 DEF MountedNamed, RemapWhileMounted, WorkInv
<1>. QED
  BY <1>1, <1>2, <1>5, Alone, AtRest, NothingSaid

LEMMA BeginWorks ==
  ASSUME OneTool, KeptInv, WorkInv, NEW t \in Tools, NEW front, NEW do \in Operations, Begin(t, front, do)
  PROVE  WorkInv'
<1>1. /\ work'[t] \in Plans /\ work'[t].do = do /\ work'[t].dirs = declared \cup {Facade}
      /\ work'[t].todo = work'[t].dirs
      /\ Head(work'[t].left) = (IF do = "revert" THEN "members" ELSE "clear")
      /\ last' = Nobody
      /\ UNCHANGED <<disk, whole, config, manifest, declared, workspace, mounted, lost>>
  BY BeginEffect DEF KeptInv, files, outside
<1>2. Active(t)' /\ Taken(t)' = {}
  BY <1>1 DEF Active, Taken, Stage
<1>3. AtWork(t)'
  BY <1>1, <1>2 DEF AtWork, PlanAt, DiskAt, ConfigAt, MembersAt, MountAt, Computed, Stage, Operations
<1>4. MountedNamed' /\ RemapWhileMounted'
  BY <1>1 DEF MountedNamed, RemapWhileMounted, WorkInv
<1>. QED
  BY <1>1, <1>3, <1>4, Alone, NothingSaid

\* A crate is undeclared only when its package is gone.
LEMMA RulingWorks ==
  ASSUME OneTool, KeptInv, WorkInv, NEW t \in Tools,
         Judge(t) \/ \E n \in Crates : Declare(t, n) \/ Undeclare(t, n)
  PROVE  WorkInv'
<1>1. CASE Judge(t)
  <2>1. /\ work[t].do = "judge" /\ work[t] # Idle /\ work'[t] = Idle
        /\ declared' \in {declared, work[t].before}
        /\ UNCHANGED <<disk, config, last, mounted, lost>>
    BY <1>1 DEF Judge, Idle, ghosts, KeptInv, PartitionTypeOK
  <2>2. AtWork(t) /\ last' = Nobody
    BY <2>1 DEF WorkInv, AtWork, PlanAt
  <2>3. MountedNamed' /\ RemapWhileMounted'
    BY <2>1, <2>2 DEF AtWork, MountAt, MountedNamed, RemapWhileMounted, WorkInv
  <2>. QED
    BY <2>1, <2>2, <2>3, Alone, AtRest, NothingSaid
<1>2. ASSUME NEW n \in Crates, Declare(t, n) \/ Undeclare(t, n) PROVE WorkInv'
  <2>1. /\ work'[t] \in Rulings /\ work'[t].before = declared /\ last' = Nobody
        /\ declared' \in {declared \cup {n}, declared \ {n}} /\ lost \subseteq lost'
        /\ UNCHANGED <<disk, config, mounted>>
    BY <1>2, RulingEffect DEF KeptInv
  <2>2. declared' = declared \cup {n} \/ disk[n] = "absent"
    BY <1>2 DEF Declare, Undeclare, Edited, Gone
  <2>3. work'[t].do = "judge" /\ ~Active(t)'
    BY <2>1 DEF Rulings, Active, Operations
  <2>4. MountedNamed' /\ RemapWhileMounted'
    BY <2>1, <2>2 DEF MountedNamed, RemapWhileMounted, WorkInv
  <2>5. MountAt(t)'
    BY <2>1, <2>3 DEF MountAt, MountedNamed, WorkInv
  <2>6. AtWork(t)'
    BY <2>1, <2>3, <2>5 DEF AtWork, PlanAt, DiskAt, ConfigAt, MembersAt, Computed, Taken
  <2>. QED
    BY <2>1, <2>4, <2>6, Alone, NothingSaid
<1>. QED
  BY <1>1, <1>2

\* What the user edits while no tool is at work costs no package its remap.
LEMMA UserWorks ==
  ASSUME KeptInv, WorkInv, (\E p \in Packages : Occupy(p) \/ Tidy(p)) \/ Reformat \/ MoveSources \/ HandEdit
  PROVE  WorkInv'
<1>1. /\ \A t \in Tools : work'[t] = Idle
      /\ last' = Nobody /\ mounted' = mounted
  BY EditsTyped DEF Occupy, Tidy, Reformat, MoveSources, HandEdit
<1>2. /\ \A q \in Packages : disk'[q] = "development" => disk[q] = "development"
      /\ declared \cup lost \subseteq declared' \cup lost' /\ lost \subseteq lost'
      /\ config'.remap = config.remap
  <2>1. ASSUME NEW p \in Packages, Occupy(p) \/ Tidy(p)
        PROVE  /\ \A q \in Packages : disk'[q] = "development" => disk[q] = "development"
               /\ UNCHANGED <<declared, lost, config>>
    BY <2>1 DEF Occupy, Tidy, KeptInv, PartitionTypeOK
  <2>2. CASE Reformat
    BY <2>2 DEF Reformat, KeptInv, PartitionTypeOK, Config
  <2>3. CASE MoveSources \/ HandEdit
    BY <2>3 DEF MoveSources, HandEdit
  <2>. QED
    BY <2>1, <2>2, <2>3
<1>3. mounted \subseteq Packages
  BY PartitionAssumption DEF KeptInv, PartitionTypeOK
<1>4. MountedNamed' /\ RemapWhileMounted'
  BY <1>1, <1>2, <1>3 DEF MountedNamed, RemapWhileMounted, WorkInv
<1>. QED
  BY <1>1, <1>4, AtRest, NothingSaid DEF WorkInv

LEMMA InitWorks == PartitionInit => WorkInv
<1>. SUFFICES ASSUME PartitionInit PROVE WorkInv
  OBVIOUS
<1>1. /\ \A t \in Tools : work[t] = Idle /\ ~Active(t) /\ work[t].do # "judge"
      /\ last = Nobody /\ mounted = {}
  BY DEF PartitionInit, Active, Idle, Operations
<1>2. \A t \in Tools : AtWork(t)
  BY <1>1 DEF AtWork, PlanAt, DiskAt, ConfigAt, MembersAt, MountAt, Taken, Computed
<1>. QED
  BY <1>1, <1>2 DEF WorkInv, MountedNamed, DoneMeansDone, RemapWhileMounted, Nobody

LEMMA NextWorks == OneTool /\ KeptInv /\ WorkInv /\ [PartitionNext]_partitionVars => WorkInv'
<1>. SUFFICES ASSUME OneTool, KeptInv, WorkInv, [PartitionNext]_partitionVars PROVE WorkInv'
  OBVIOUS
<1>1. CASE UNCHANGED partitionVars \/ Build
  <2>1. UNCHANGED <<declared, disk, whole, config, manifest, workspace, work, last, mounted, lost>>
    BY <1>1 DEF Build, partitionVars, files, ghosts
  <2>2. ASSUME NEW t \in Tools PROVE AtWork(t)'
    <3>1. AtWork(t)
      BY DEF WorkInv
    <3>2. PlanAt(t)' /\ ConfigAt(t)' /\ MembersAt(t)'
      BY <2>1, <3>1 DEF AtWork, PlanAt, ConfigAt, MembersAt, Active, Stage, Computed
    <3>3. Taken(t)' = Taken(t) /\ Active(t)' = Active(t)
      BY <2>1 DEF Taken, Active, Stage
    <3>4. DiskAt(t)'
      BY <2>1, <3>1, <3>3 DEF AtWork, DiskAt, Made, InHand, Making, Stage
    <3>5. MountAt(t)'
      BY <2>1, <3>1, <3>3 DEF AtWork, MountAt
    <3>. QED
      BY <3>2, <3>4, <3>5 DEF AtWork
  <2>3. MountedNamed' /\ DoneMeansDone' /\ RemapWhileMounted'
    BY <2>1 DEF WorkInv, MountedNamed, DoneMeansDone, RemapWhileMounted
  <2>. QED
    BY <2>2, <2>3 DEF WorkInv
<1>2. ASSUME NEW t \in Tools, NEW front \in {"cli", "view"}, NEW do \in {"write", "release", "revert"},
             Begin(t, front, do)
      PROVE  WorkInv'
  BY <1>2, BeginWorks DEF Operations
<1>3. ASSUME NEW t \in Tools, ClearRefuses(t) \/ Clear(t) \/ MergeConfig(t) \/ StripConfig(t)
               \/ ComputeMembers(t) \/ Make(t) \/ SaveMembers(t) \/ Stop(t) \/ StopRemoving(t)
      PROVE  WorkInv'
  BY <1>3, ClearWorks, ConfigWorks, MembersWorks, MakeWorks, SaveWorks, StopWorks
<1>4. ASSUME NEW t \in Tools, Judge(t) \/ \E n \in Crates : Declare(t, n) \/ Undeclare(t, n)
      PROVE  WorkInv'
  BY <1>4, RulingWorks
<1>5. CASE (\E p \in Packages : Occupy(p) \/ Tidy(p)) \/ Reformat \/ MoveSources \/ HandEdit
  BY <1>5, UserWorks
<1>. QED
  BY <1>1, <1>2, <1>3, <1>4, <1>5 DEF PartitionNext

\* With one tool at work, an operation that ended well has done all of it,
\* whatever was on disk before, however often earlier ones were stopped and
\* wherever, and whatever the user edits in between (write_partition,
\* write_release, revert_partition).
THEOREM WhatIsDoneIsDone ==
  ASSUME OneTool PROVE PartitionSpec => []DoneMeansDone
<1>1. KeptInv /\ [PartitionNext]_partitionVars => KeptInv'
  BY NextKept
<1>2. WorkInv => DoneMeansDone
  BY DEF WorkInv
<1>3. KeptInv /\ WorkInv /\ [PartitionNext]_partitionVars => WorkInv'
  BY NextWorks
<1>. QED
  BY <1>1, <1>2, <1>3, InitKept, InitWorks, PTL DEF PartitionSpec

\* With one tool at work, a package that mounts the host's files is never on
\* disk without the remap that keeps their identities, at every stop too.
THEOREM MountedUnderTheRemap ==
  ASSUME OneTool PROVE PartitionSpec => []RemapWhileMounted
<1>1. KeptInv /\ [PartitionNext]_partitionVars => KeptInv'
  BY NextKept
<1>2. WorkInv => RemapWhileMounted
  BY DEF WorkInv
<1>3. KeptInv /\ WorkInv /\ [PartitionNext]_partitionVars => WorkInv'
  BY NextWorks
<1>. QED
  BY <1>1, <1>2, <1>3, InitKept, InitWorks, PTL DEF PartitionSpec

-----------------------------------------------------------------------------
(* Nothing is stranded. What shows on disk or in the member list is named;   *)
(* and while no operation has changed anything without ending well, a crate  *)
(* that is listed has its package, and so has one beside the facade's: that  *)
(* is why a crate whose package is gone may be undeclared.                   *)

Listed == manifest.listed \ manifest.glued
Showing(p) == disk[p] \in Marked \/ p \in Listed
Built(p) == disk[p] \in {"development", "release"}
NamedBy(crates) ==
  \A p \in Packages : Showing(p) => crates \cup lost # {} /\ p \in crates \cup lost \cup {Facade}
Quiet == ~halfway /\ \A t \in Tools : Active(t) => ~work[t].changed
Answered(crates) ==
  Quiet => /\ \A p \in crates \ lost : p \in Listed => Built(p)
           /\ Showing(Facade) => lost # {} \/ \E p \in crates : Built(p)
PlanNamed(t) ==
  /\ Active(t) =>
       /\ declared # {}
       /\ work[t].file # "directory" => work[t].changed
       /\ \A m \in work[t].edit : m.listed \ m.glued \subseteq Listed \cup work[t].dirs
       /\ ~workspace => work[t].edit = {}
  /\ work[t].do = "judge" => NamedBy(work[t].before) /\ Answered(work[t].before)
StrandInv ==
  /\ NamedBy(declared) /\ Answered(declared)
  /\ ~workspace => Listed = {}
  /\ \A t \in Tools : PlanNamed(t)

LEMMA NamedMeansTaken == NamedBy(declared) => NothingStranded
BY DEF NamedBy, NothingStranded, Showing, Listed

\* A step of an operation names what it shows by the plan it follows.
LEMMA Continues ==
  ASSUME OneTool, WorkInv, StrandInv, NEW t \in Tools, Active(t),
         UNCHANGED <<manifest, declared, lost, workspace>>,
         \A q \in Packages : Showing(q)' => Showing(q) \/ q \in work[t].dirs,
         Quiet' => Quiet /\ disk' = disk,
         work'[t].do # "judge",
         Active(t)' =>
           /\ work'[t].dirs = work[t].dirs
           /\ work'[t].file # "directory" => work'[t].changed
           /\ \A m \in work'[t].edit : m.listed \ m.glued \subseteq Listed \cup work[t].dirs
           /\ ~workspace => work'[t].edit = {}
  PROVE  StrandInv'
<1>1. work[t].dirs = declared \cup {Facade} /\ declared # {}
  BY DEF WorkInv, AtWork, PlanAt, StrandInv, PlanNamed
<1>2. NamedBy(declared)'
  BY <1>1 DEF StrandInv, NamedBy
<1>3. Listed' = Listed
  BY DEF Listed
<1>4. Answered(declared)'
  BY <1>3 DEF StrandInv, Answered, Showing, Built
<1>5. PlanNamed(t)'
  BY <1>1, <1>3 DEF PlanNamed
<1>6. \A u \in Tools : u = t
  BY DEF OneTool
<1>. QED
  BY <1>2, <1>3, <1>4, <1>5, <1>6 DEF StrandInv

\* An operation that stops with something changed has stopped half-way.
LEMMA GivenUp ==
  ASSUME PartitionTypeOK, NEW t \in Tools, Active(t), GivesUp(t), Quiet'
  PROVE  ~halfway /\ ~work[t].changed
BY DEF GivesUp, Quiet, Active, Operations

LEMMA ClearNamed ==
  ASSUME OneTool, KeptInv, WorkInv, StrandInv, NEW t \in Tools, Clear(t)
  PROVE  StrandInv'
<1>. DEFINE w == work[t]
            v == work'[t]
            p == FirstOf(w.todo)
<1>1. /\ Active(t) /\ p \in w.todo /\ p \in Packages
      /\ disk' = [disk EXCEPT ![p] = "absent"] /\ Moved(w, v, p)
      /\ UNCHANGED <<config, manifest, declared, outside, last, faults, halfway, lost>>
  BY ClearEffect DEF KeptInv
<1>2. w \in Plans /\ OneTool /\ disk \in [Packages -> Marked \cup WithManifest \cup {"absent", "folder"}]
      /\ \A u \in Tools : u = t
  BY <1>1, ActivePlan DEF KeptInv, OneTool, PartitionTypeOK
<1>3. ~v.changed => ~w.changed /\ disk' = disk
  <2>. DEFINE a == [w EXCEPT !.todo = @ \ {p}, !.file = "directory", !.changed = TRUE]
              b == [w EXCEPT !.todo = @ \ {p}]
  <2>1. a \in Emptied /\ a.changed /\ b \in Emptied /\ b.changed = w.changed
    BY <1>2 DEF Plans, Emptied
  <2>2. CASE disk[p] # "absent"
    <3>1. v = IF a.todo = {} THEN StagePassed(a) ELSE a
      BY <2>2 DEF Clear, Did, KeptInv, PartitionTypeOK
    <3>. HIDE DEF a
    <3>. QED
      BY <2>1, <3>1, PassedChanged
  <2>3. CASE disk[p] = "absent"
    <3>1. v = IF b.todo = {} THEN StagePassed(b) ELSE b
      BY <2>3 DEF Clear, KeptInv, PartitionTypeOK
    <3>2. disk' = disk
      BY <1>1, <1>2, <2>3
    <3>. HIDE DEF b
    <3>. QED
      BY <2>1, <3>1, <3>2, PassedChanged
  <2>. QED
    BY <2>2, <2>3
<1>4. /\ Active(t)' /\ v.dirs = w.dirs /\ v.file = "directory" /\ v.edit = w.edit /\ v.do # "judge"
  BY <1>1 DEF Moved, SamePlan, Active, Operations
<1>5. Quiet' => Quiet /\ disk' = disk
  BY <1>1, <1>2, <1>3, <1>4 DEF Quiet
<1>6. \A q \in Packages : Showing(q)' => Showing(q)
  BY <1>1, <1>2 DEF Showing, Listed, Marked
<1>7. /\ \A m \in v.edit : m.listed \ m.glued \subseteq Listed \cup w.dirs
      /\ ~workspace => v.edit = {}
  BY <1>1, <1>4 DEF StrandInv, PlanNamed
<1>. QED
  BY <1>1, <1>4, <1>5, <1>6, <1>7, Continues DEF outside

\* A stage that is one call, or an operation that gives up there, touches no
\* package and no member list.
LEMMA StageNamed ==
  ASSUME OneTool, KeptInv, WorkInv, StrandInv, NEW t \in Tools, Active(t),
         UNCHANGED <<disk, manifest, declared, lost, workspace>>,
         \/ Ended(t) /\ GivesUp(t)
         \/ /\ Passed(work[t], work'[t]) /\ work'[t].edit = work[t].edit
            /\ (work[t].changed => work'[t].changed) /\ halfway' = halfway
  PROVE  StrandInv'
<1>. DEFINE w == work[t]
            v == work'[t]
<1>1. \A q \in Packages : Showing(q)' => Showing(q)
  BY DEF Showing, Listed
<1>2. CASE Ended(t) /\ GivesUp(t)
  <2>1. v = Idle
    BY <1>2 DEF Ended, Others, KeptInv, PartitionTypeOK
  <2>2. ~Active(t)' /\ v.do # "judge"
    BY <2>1 DEF Active, Idle, Operations
  <2>3. Quiet' => Quiet
    BY <1>2, GivenUp DEF Quiet, KeptInv, OneTool
  <2>. QED
    BY <1>1, <2>2, <2>3, Continues
<1>3. CASE /\ Passed(w, v) /\ v.edit = w.edit
           /\ (w.changed => v.changed) /\ halfway' = halfway
  <2>1. Active(t)' /\ v.dirs = w.dirs /\ v.file = "directory" /\ v.do # "judge"
    BY <1>3 DEF Passed, SamePlan, Active, Operations
  <2>2. Quiet' => Quiet
    BY <1>3, <2>1 DEF Quiet, OneTool
  <2>3. /\ \A m \in v.edit : m.listed \ m.glued \subseteq Listed \cup w.dirs
        /\ ~workspace => v.edit = {}
    BY <1>3 DEF StrandInv, PlanNamed
  <2>. QED
    BY <1>1, <2>1, <2>2, <2>3, Continues
<1>. QED
  BY <1>2, <1>3

\* Both edits of the member list name only the packages of the plan.
LEMMA EditsNameThePlan ==
  ASSUME manifest \in Manifest, NEW dirs \in SUBSET Packages
  PROVE  \A m \in Adding(manifest, dirs) \cup Removing(manifest, dirs) :
           m.listed \ m.glued \subseteq Listed \cup dirs
<1>1. ASSUME NEW m \in Adding(manifest, dirs)
      PROVE  m.listed \ m.glued \subseteq Listed \cup dirs
  <2>1. m.listed = manifest.listed \cup dirs /\ manifest.glued \subseteq m.glued
    BY <1>1 DEF Adding
  <2>. QED
    BY <2>1 DEF Listed
<1>2. ASSUME NEW m \in Removing(manifest, dirs)
      PROVE  m.listed \ m.glued \subseteq Listed \cup dirs
  <2>. DEFINE found == (manifest.listed \ manifest.glued) \cap dirs
  <2>1. m = [manifest EXCEPT !.listed = manifest.listed \ found, !.shape = "list"]
    BY <1>2 DEF Removing
  <2>2. m.listed = manifest.listed \ found /\ m.glued = manifest.glued
    BY <2>1 DEF Manifest
  <2>. QED
    BY <2>2 DEF Listed
<1>. QED
  BY <1>1, <1>2

LEMMA ConfigNamed ==
  ASSUME OneTool, KeptInv, WorkInv, StrandInv, NEW t \in Tools, MergeConfig(t) \/ StripConfig(t)
  PROVE  StrandInv'
<1>. DEFINE w == work[t]
            v == work'[t]
<1>1. /\ Active(t) /\ w \in Plans
      /\ UNCHANGED <<disk, whole, manifest, declared, outside, last, faults, mounted, lost>>
      /\ \/ Ended(t) /\ GivesUp(t)
         \/ Passed(w, v) /\ v.edit = w.edit /\ (w.changed => v.changed) /\ halfway' = halfway
  BY ConfigEffect DEF KeptInv
<1>. QED
  BY <1>1, StageNamed DEF outside

LEMMA MembersNamed ==
  ASSUME OneTool, KeptInv, WorkInv, StrandInv, NEW t \in Tools, ComputeMembers(t)
  PROVE  StrandInv'
<1>. DEFINE w == work[t]
            v == work'[t]
<1>1. /\ Active(t) /\ w \in Plans
      /\ UNCHANGED <<files, outside, last, faults, mounted, lost>>
      /\ \/ Ended(t) /\ GivesUp(t)
         \/ Passed(w, v) /\ v.changed = w.changed /\ halfway' = halfway
            /\ v.edit = IF workspace THEN EditFor(manifest, w) ELSE {}
  BY MembersEffect DEF KeptInv
<1>2. CASE Ended(t) /\ GivesUp(t)
  BY <1>1, <1>2, StageNamed DEF outside, files
<1>3. CASE Passed(w, v) /\ v.changed = w.changed /\ halfway' = halfway
           /\ v.edit = IF workspace THEN EditFor(manifest, w) ELSE {}
  <2>1. \A m \in v.edit : m.listed \ m.glued \subseteq Listed \cup w.dirs
    <3>1. w.dirs \in SUBSET Packages /\ manifest \in Manifest
      BY <1>1 DEF Plans, KeptInv, PartitionTypeOK
    <3>2. \A m \in Adding(manifest, w.dirs) \cup Removing(manifest, w.dirs) :
             m.listed \ m.glued \subseteq Listed \cup w.dirs
      BY <3>1, EditsNameThePlan
    <3>. QED
      BY <1>3, <3>2 DEF EditFor
  <2>2. Active(t)' /\ v.dirs = w.dirs /\ v.file = "directory" /\ v.do # "judge"
    BY <1>1, <1>3 DEF Passed, SamePlan, Active, Operations
  <2>3. Quiet' => Quiet
    BY <1>3, <2>2 DEF Quiet, OneTool
  <2>. QED
    BY <1>1, <1>3, <2>1, <2>2, <2>3, Continues DEF outside, files, Showing, Listed
<1>. QED
  BY <1>1, <1>2, <1>3

LEMMA MakeNamed ==
  ASSUME OneTool, KeptInv, WorkInv, StrandInv, NEW t \in Tools, Make(t)
  PROVE  StrandInv'
<1>. DEFINE w == work[t]
            v == work'[t]
            p == FirstOf(w.todo)
<1>1. /\ Making(t) /\ w \in Plans /\ p \in w.todo /\ p \in Packages
      /\ Ordered(v) /\ v \in Plans /\ SamePlan(w, v) /\ v.edit = w.edit
      /\ UNCHANGED <<config, manifest, declared, outside, last, faults, halfway, lost>>
      /\ \A q \in Packages \ {p} : disk'[q] = disk[q]
      /\ v.file = "directory" \/ w.file \in {"directory", "manifest"}
  BY MakeEffect DEF KeptInv, Moved
<1>2. Active(t) /\ Active(t)' /\ v.dirs = w.dirs /\ v.do # "judge" /\ p \in w.dirs
  BY <1>1 DEF Making, SamePlan, Active, Operations, KeptInv, OrderInv, Ordered
<1>3. v.changed
  <2>1. w.file # "directory" => w.changed
    BY <1>2 DEF StrandInv, PlanNamed
  <2>2. CASE w.file = "directory"
    <3>1. v = [w EXCEPT !.file = "manifest", !.changed = TRUE]
      BY <2>2 DEF Make, KeptInv, PartitionTypeOK
    <3>. QED
      BY <1>1, <3>1 DEF Plans
  <2>3. CASE w.file = "manifest"
    <3>1. v = [w EXCEPT !.file = "rest"]
      BY <2>3 DEF Make, KeptInv, PartitionTypeOK
    <3>. QED
      BY <1>1, <2>1, <2>3, <3>1 DEF Plans
  <2>4. CASE w.file = "rest"
    <3>. DEFINE a == [w EXCEPT !.todo = @ \ {p}, !.file = "directory", !.changed = TRUE]
    <3>1. Did(t, p)
      BY <2>4 DEF Make
    <3>2. v = IF a.todo = {} THEN StagePassed(a) ELSE a
      BY <3>1 DEF Did, KeptInv, PartitionTypeOK
    <3>3. a \in Emptied /\ a.changed
      BY <1>1 DEF Plans, Emptied
    <3>. HIDE DEF a
    <3>. QED
      BY <3>2, <3>3, PassedChanged
  <2>. QED
    BY <1>1, <2>2, <2>3, <2>4 DEF Plans
<1>4. ~Quiet'
  BY <1>2, <1>3 DEF Quiet
<1>5. \A q \in Packages : Showing(q)' => Showing(q) \/ q \in w.dirs
  BY <1>1, <1>2 DEF Showing, Listed
<1>6. /\ \A m \in v.edit : m.listed \ m.glued \subseteq Listed \cup w.dirs
      /\ ~workspace => v.edit = {}
  BY <1>1, <1>2 DEF StrandInv, PlanNamed
<1>. QED
  BY <1>1, <1>2, <1>3, <1>4, <1>5, <1>6, Continues DEF outside

\* An operation that ends well leaves every package of its plan with its entry,
\* or none of them with either.
LEMMA SaveNamed ==
  ASSUME OneTool, KeptInv, WorkInv, StrandInv, NEW t \in Tools, SaveMembers(t)
  PROVE  StrandInv'
<1>. DEFINE w == work[t]
<1>1. /\ Active(t) /\ Stage(t) = "save" /\ w \in Plans /\ AtWork(t) /\ w.do \in Operations
      /\ work'[t] = Idle
      /\ manifest' = (IF w.edit = {} THEN manifest ELSE CHOOSE m \in w.edit : TRUE)
      /\ UNCHANGED <<disk, declared, workspace, lost>>
  BY ActivePlan DEF SaveMembers, Working, Active, Stage, Operations, WorkInv, outside, KeptInv, PartitionTypeOK
<1>2. w.dirs = declared \cup {Facade} /\ declared # {} /\ declared \subseteq Packages
  BY <1>1, PartitionAssumption DEF AtWork, PlanAt, StrandInv, PlanNamed, KeptInv, PartitionTypeOK
<1>3. \A q \in w.dirs : IF w.do = "revert" THEN disk[q] = "absent" ELSE Built(q)
  BY <1>1 DEF AtWork, DiskAt, Made, InHand, Making, Taken, Shape, Built
<1>4. /\ workspace => Settled(w.do, w.dirs, manifest')
      /\ Listed' \subseteq Listed \cup w.dirs
      /\ ~workspace => Listed' = {}
  <2>1. workspace => Settled(w.do, w.dirs, manifest')
    BY <1>1 DEF AtWork, MembersAt, Computed
  <2>2. CASE w.edit = {}
    BY <1>1, <2>1, <2>2 DEF Listed, StrandInv
  <2>3. CASE w.edit # {}
    <3>1. manifest' \in w.edit /\ workspace
      BY <1>1, <2>3 DEF StrandInv, PlanNamed
    <3>2. Listed' \subseteq Listed \cup w.dirs
      BY <1>1, <3>1 DEF StrandInv, PlanNamed, Listed
    <3>. QED
      BY <1>1, <2>1, <3>1, <3>2
  <2>. QED
    BY <2>2, <2>3
<1>5. NamedBy(declared)'
  BY <1>1, <1>2, <1>4 DEF StrandInv, NamedBy, Showing
<1>6. Answered(declared)'
  <2>1. CASE w.do = "revert"
    <3>1. \A q \in w.dirs : q \notin Listed'
      BY <1>4, <2>1 DEF Settled, Listed
    <3>2. ~Showing(Facade)'
      BY <1>1, <1>2, <1>3, <2>1, <3>1 DEF Showing, Marked
    <3>. QED
      BY <1>1, <1>2, <3>1, <3>2 DEF Answered
  <2>2. CASE w.do # "revert"
    <3>1. \A q \in declared : Built(q)'
      BY <1>1, <1>2, <1>3, <2>2 DEF Built
    <3>. QED
      BY <1>1, <1>2, <3>1 DEF Answered
  <2>. QED
    BY <2>1, <2>2
<1>7. PlanNamed(t)'
  BY <1>1 DEF PlanNamed, Active, Idle, Operations
<1>. QED
  BY <1>1, <1>4, <1>5, <1>6, <1>7 DEF StrandInv, OneTool

LEMMA StopNamed ==
  ASSUME OneTool, KeptInv, WorkInv, StrandInv, NEW t \in Tools, ClearRefuses(t) \/ Stop(t) \/ StopRemoving(t)
  PROVE  StrandInv'
<1>1. CASE (ClearRefuses(t) \/ Stop(t)) /\ Active(t)
  <2>1. GivesUp(t) /\ Ended(t) /\ UNCHANGED <<disk, manifest, declared, lost, workspace>>
    BY <1>1 DEF ClearRefuses, Stop, files, outside, GivesUp, Ended, Others
  <2>. QED
    BY <1>1, <2>1, StageNamed
<1>2. CASE Stop(t) /\ ~Active(t)
  <2>1. /\ work'[t] = Idle /\ UNCHANGED <<disk, manifest, declared, lost, workspace>>
        /\ halfway' => halfway \/ work[t].do # "judge"
        /\ halfway => halfway'
    BY <1>2 DEF Stop, files, outside, GivesUp, KeptInv, PartitionTypeOK
  <2>2. Quiet' => Quiet
    BY <1>2, <2>1 DEF Quiet, OneTool
  <2>3. NamedBy(declared)' /\ Answered(declared)' /\ (~workspace => Listed = {})'
    BY <2>1, <2>2 DEF StrandInv, NamedBy, Answered, Showing, Built, Listed
  <2>4. PlanNamed(t)'
    BY <2>1 DEF PlanNamed, Active, Idle, Operations
  <2>. QED
    BY <2>3, <2>4 DEF StrandInv, OneTool
<1>3. CASE StopRemoving(t)
  <2>. DEFINE p == FirstOf(work[t].todo)
  <2>1. Active(t) /\ work[t] \in Plans /\ p \in work[t].todo
    BY <1>3, ActivePlan, FirstIsOne DEF StopRemoving, Working, Active, Operations, KeptInv, Plans
  <2>2. /\ work'[t] = Idle /\ UNCHANGED <<manifest, declared, lost, workspace>> /\ halfway'
        /\ \A q \in Packages \ {p} : disk'[q] = disk[q]
    BY <1>3 DEF StopRemoving, outside, KeptInv, PartitionTypeOK
  <2>3. p \in work[t].dirs
    BY <2>1 DEF KeptInv, OrderInv, Ordered
  <2>4. ~Active(t)' /\ work'[t].do # "judge" /\ ~Quiet'
    BY <2>2 DEF Active, Idle, Operations, Quiet
  <2>5. \A q \in Packages : Showing(q)' => Showing(q) \/ q \in work[t].dirs
    BY <2>2, <2>3 DEF Showing, Listed
  <2>. QED
    BY <2>1, <2>2, <2>4, <2>5, Continues
<1>. QED
  BY <1>1, <1>2, <1>3 DEF ClearRefuses, Working, Active, Operations

LEMMA BeginNamed ==
  ASSUME OneTool, KeptInv, WorkInv, StrandInv, NEW t \in Tools, NEW front, NEW do \in Operations,
         Begin(t, front, do)
  PROVE  StrandInv'
<1>. DEFINE v == work'[t]
<1>1. /\ work[t] = Idle /\ v \in Plans /\ Ordered(v) /\ v.do = do /\ v.edit = {}
      /\ Head(v.left) = (IF do = "revert" THEN "members" ELSE "clear")
      /\ UNCHANGED <<files, outside, faults, mounted, halfway, lost>>
  BY BeginEffect DEF KeptInv
<1>2. declared # {} /\ v.file = "directory" /\ v.do # "judge"
  BY <1>1 DEF Begin, Planned, Ordered, Operations
<1>3. Quiet' => Quiet
  BY <1>1 DEF Quiet, OneTool, Active, Idle, Operations
<1>4. NamedBy(declared)' /\ Answered(declared)' /\ (~workspace => Listed = {})'
  BY <1>1, <1>3 DEF StrandInv, NamedBy, Answered, Showing, Built, Listed, files, outside
<1>5. PlanNamed(t)'
  BY <1>1, <1>2 DEF PlanNamed, files
<1>. QED
  BY <1>4, <1>5 DEF StrandInv, OneTool

\* The declaration may lose a crate only when nothing of it is left.
LEMMA RulingNamed ==
  ASSUME OneTool, KeptInv, WorkInv, StrandInv, NEW t \in Tools,
         Judge(t) \/ \E n \in Crates : Declare(t, n) \/ Undeclare(t, n)
  PROVE  StrandInv'
<1>0. /\ Facade \notin Crates /\ Packages = Crates \cup {Facade}
      /\ declared \subseteq Crates /\ lost \subseteq Crates
  BY PartitionAssumption DEF KeptInv, PartitionTypeOK
<1>1. CASE Judge(t)
  <2>1. /\ work[t].do = "judge" /\ work'[t] = Idle
        /\ declared' \in {declared, work[t].before}
        /\ UNCHANGED <<disk, manifest, workspace, lost, halfway>>
    <3>1. work'[t] = Idle
      BY <1>1 DEF Judge, KeptInv, PartitionTypeOK
    <3>. QED
      BY <1>1, <3>1 DEF Judge, ghosts, outside
  <2>2. Quiet' => Quiet
    BY <2>1 DEF Quiet, OneTool, Active, Idle, Operations
  <2>3. /\ NamedBy(declared) /\ Answered(declared)
        /\ NamedBy(work[t].before) /\ Answered(work[t].before)
    BY <2>1 DEF StrandInv, PlanNamed
  <2>4. NamedBy(declared)' /\ Answered(declared)' /\ (~workspace => Listed = {})'
    BY <2>1, <2>2, <2>3 DEF StrandInv, NamedBy, Answered, Showing, Built, Listed
  <2>5. PlanNamed(t)'
    BY <2>1 DEF PlanNamed, Active, Idle, Operations
  <2>. QED
    BY <2>4, <2>5 DEF StrandInv, OneTool
<1>2. ASSUME NEW n \in Crates, Declare(t, n) \/ Undeclare(t, n) PROVE StrandInv'
  <2>1. /\ work[t] = Idle /\ work'[t] \in Rulings /\ work'[t].before = declared
        /\ declared' \in {declared \cup {n}, declared \ {n}}
        /\ lost' \in {lost, lost \cup {n}}
        /\ UNCHANGED <<disk, manifest, outside, halfway>>
    BY <1>2, RulingEffect DEF KeptInv
  <2>2. work'[t].do = "judge" /\ ~Active(t)' /\ ~Active(t) /\ workspace' = workspace
    BY <2>1 DEF Rulings, Active, Operations, Idle, outside
  <2>3. (Quiet' <=> ~halfway) /\ (Quiet <=> ~halfway)
    BY <2>1, <2>2 DEF Quiet, OneTool
  <2>4. Quiet' => lost' = lost
    <3>1. CASE Declare(t, n)
      BY <3>1 DEF Declare
    <3>2. CASE Undeclare(t, n)
      BY <2>3, <3>2 DEF Undeclare
    <3>. QED
      BY <1>2, <3>1, <3>2
  <2>5. \A q \in Packages : Showing(q)' = Showing(q) /\ Built(q)' = Built(q)
    BY <2>1 DEF Showing, Built, Listed
  <2>6. NamedBy(declared) /\ Answered(declared) /\ Listed' = Listed
    BY <2>1 DEF StrandInv, Listed
  <2>7. NamedBy(work[t].before)' /\ Answered(work[t].before)'
    <3>1. NamedBy(work[t].before)'
      BY <1>0, <2>1, <2>5, <2>6 DEF NamedBy
    <3>2. Answered(work[t].before)'
      BY <1>0, <2>1, <2>3, <2>4, <2>5, <2>6 DEF Answered
    <3>. QED
      BY <3>1, <3>2
  <2>8. PlanNamed(t)'
    BY <2>2, <2>7 DEF PlanNamed
  <2>9. NamedBy(declared)' /\ Answered(declared)'
    <3>1. CASE Declare(t, n)
      <4>1. declared' = declared \cup {n} /\ lost' = lost /\ n \notin declared
        BY <3>1 DEF Declare, Edited
      <4>2. NamedBy(declared)'
        BY <2>5, <2>6, <4>1 DEF NamedBy
      <4>3. n \notin lost => n \notin Listed
        BY <1>0, <2>6, <4>1 DEF NamedBy, Showing
      <4>4. Answered(declared)'
        BY <1>0, <2>3, <2>5, <2>6, <4>1, <4>3 DEF Answered
      <4>. QED
        BY <4>2, <4>4
    <3>2. CASE Undeclare(t, n)
      <4>1. /\ declared' = declared \ {n} /\ n \in declared /\ disk[n] = "absent"
            /\ lost' = IF halfway THEN lost \cup {n} ELSE lost
        BY <3>2 DEF Undeclare, Edited, Gone
      <4>2. ~Built(n) /\ (Showing(n) => n \in Listed)
        BY <4>1 DEF Built, Showing, Marked
      <4>3. CASE halfway
        <5>1. NamedBy(declared)'
          BY <1>0, <2>5, <2>6, <4>1, <4>3 DEF NamedBy
        <5>. QED
          BY <2>3, <4>3, <5>1 DEF Answered
      <4>4. CASE ~halfway
        <5>1. lost' = lost /\ Quiet
          BY <2>3, <4>1, <4>4
        <5>2. n \notin lost => ~Showing(n)
          BY <2>6, <4>1, <4>2, <5>1 DEF Answered
        <5>3. Showing(Facade) => lost # {} \/ \E q \in declared \ {n} : Built(q)
          BY <2>6, <4>2, <5>1 DEF Answered
        <5>4. NamedBy(declared)'
          BY <1>0, <2>5, <2>6, <4>1, <5>1, <5>2, <5>3 DEF NamedBy
        <5>5. Answered(declared)'
          BY <1>0, <2>5, <2>6, <4>1, <5>1, <5>3 DEF Answered
        <5>. QED
          BY <5>4, <5>5
      <4>. QED
        BY <4>3, <4>4
    <3>. QED
      BY <1>2, <3>1, <3>2
  <2>. QED
    BY <2>2, <2>6, <2>8, <2>9 DEF StrandInv, OneTool
<1>. QED
  BY <1>1, <1>2

\* What the user takes out of the declaration by hand is lost, and named so.
LEMMA UserNamed ==
  ASSUME KeptInv, StrandInv, (\E p \in Packages : Occupy(p) \/ Tidy(p)) \/ Reformat \/ MoveSources \/ HandEdit
  PROVE  StrandInv'
<1>0. /\ Facade \notin Crates /\ Packages = Crates \cup {Facade}
      /\ declared \subseteq Crates /\ lost \subseteq Crates
      /\ disk \in [Packages -> Marked \cup WithManifest \cup {"absent", "folder"}]
      /\ manifest \in Manifest
  BY PartitionAssumption DEF KeptInv, PartitionTypeOK
<1>1. /\ \A t \in Tools : work'[t] = Idle /\ work[t] = Idle
      /\ UNCHANGED <<workspace, halfway>>
  BY EditsTyped DEF Occupy, Tidy, Reformat, MoveSources, HandEdit
<1>2. \A t \in Tools : PlanNamed(t)'
  BY <1>1 DEF PlanNamed, Active, Idle, Operations
<1>3. Quiet' <=> Quiet
  BY <1>1 DEF Quiet, Active, Idle, Operations
<1>4. /\ \A q \in Packages : Showing(q)' => Showing(q)
      /\ \A q \in Packages : Built(q) => Built(q)'
      /\ Listed' = Listed
      /\ declared' \subseteq Crates /\ lost \subseteq lost'
      /\ declared \subseteq declared' \cup lost'
  <2>1. ASSUME NEW p \in Packages, Occupy(p) \/ Tidy(p)
        PROVE  /\ \A q \in Packages : Showing(q)' => Showing(q)
               /\ \A q \in Packages : Built(q) => Built(q)'
               /\ UNCHANGED <<manifest, declared, lost>>
    <3>1. PICK place \in {"folder", "package", "absent"} :
            disk' = [disk EXCEPT ![p] = place] /\ disk[p] \in {"folder", "package", "absent"}
      BY <2>1 DEF Occupy, Tidy
    <3>2. UNCHANGED <<manifest, declared, lost>>
      BY <2>1 DEF Occupy, Tidy
    <3>. QED
      BY <1>0, <3>1, <3>2 DEF Showing, Built, Listed, Marked
  <2>2. CASE Reformat
    <3>1. UNCHANGED <<disk, declared, lost>> /\ Listed' = Listed
      BY <1>0, <2>2 DEF Reformat, Listed, Manifest
    <3>. QED
      BY <1>0, <3>1 DEF Showing, Built
  <2>3. CASE MoveSources \/ HandEdit
    <3>1. /\ UNCHANGED <<disk, manifest>> /\ lost \subseteq lost'
          /\ declared' \subseteq Crates /\ declared \subseteq declared' \cup lost'
      BY <1>0, <2>3 DEF MoveSources, HandEdit
    <3>. QED
      BY <3>1 DEF Showing, Built, Listed
  <2>. QED
    BY <1>0, <2>1, <2>2, <2>3 DEF Listed
<1>5. NamedBy(declared)'
  BY <1>4 DEF StrandInv, NamedBy
<1>6. Answered(declared)'
  <2>1. ASSUME Quiet, NEW q \in declared' \ lost', q \in Listed PROVE Built(q)
    <3>1. q \in Packages /\ q # Facade /\ q \notin lost
      BY <1>0, <1>4, <2>1
    <3>2. q \in declared \cup lost
      BY <2>1, <3>1 DEF StrandInv, NamedBy, Showing
    <3>. QED
      BY <2>1, <3>1, <3>2 DEF StrandInv, Answered
  <2>2. ASSUME Quiet, Showing(Facade) PROVE lost' # {} \/ \E q \in declared' : Built(q)
    BY <1>4, <2>2 DEF StrandInv, Answered
  <2>. QED
    BY <1>0, <1>3, <1>4, <2>1, <2>2 DEF Answered
<1>. QED
  BY <1>1, <1>2, <1>4, <1>5, <1>6 DEF StrandInv

LEMMA InitNamed == PartitionInit => StrandInv
<1>. SUFFICES ASSUME PartitionInit PROVE StrandInv
  OBVIOUS
<1>1. manifest.listed = {} /\ \A p \in Packages : disk[p] = "absent"
  BY PartitionAssumption DEF PartitionInit
<1>2. Listed = {} /\ \A p \in Packages : ~Showing(p)
  BY <1>1 DEF Listed, Showing, Marked
<1>3. \A t \in Tools : PlanNamed(t)
  BY DEF PartitionInit, PlanNamed, Active, Idle, Operations
<1>4. Facade \in Packages
  BY PartitionAssumption
<1>. QED
  BY <1>2, <1>3, <1>4 DEF StrandInv, NamedBy, Answered

LEMMA NextNamed ==
  OneTool /\ KeptInv /\ WorkInv /\ StrandInv /\ [PartitionNext]_partitionVars => StrandInv'
<1>. SUFFICES ASSUME OneTool, KeptInv, WorkInv, StrandInv, [PartitionNext]_partitionVars PROVE StrandInv'
  OBVIOUS
<1>1. CASE UNCHANGED partitionVars \/ Build
  <2>1. UNCHANGED <<declared, disk, manifest, workspace, work, halfway, lost>>
    BY <1>1 DEF Build, partitionVars, files, ghosts
  <2>2. Listed' = Listed /\ Quiet' = Quiet
    BY <2>1 DEF Listed, Quiet, Active
  <2>3. \A q : Showing(q)' = Showing(q) /\ Built(q)' = Built(q)
    BY <2>1, <2>2 DEF Showing, Built
  <2>4. NamedBy(declared)' /\ Answered(declared)'
    BY <2>1, <2>2, <2>3 DEF StrandInv, NamedBy, Answered
  <2>5. ASSUME NEW t \in Tools PROVE PlanNamed(t)'
    BY <2>1, <2>2, <2>3 DEF StrandInv, PlanNamed, NamedBy, Answered, Active
  <2>. QED
    BY <2>1, <2>2, <2>4, <2>5 DEF StrandInv
<1>2. ASSUME NEW t \in Tools, NEW front \in {"cli", "view"}, NEW do \in {"write", "release", "revert"},
             Begin(t, front, do)
      PROVE  StrandInv'
  BY <1>2, BeginNamed DEF Operations
<1>3. ASSUME NEW t \in Tools, ClearRefuses(t) \/ Clear(t) \/ MergeConfig(t) \/ StripConfig(t)
               \/ ComputeMembers(t) \/ Make(t) \/ SaveMembers(t) \/ Stop(t) \/ StopRemoving(t)
      PROVE  StrandInv'
  BY <1>3, ClearNamed, ConfigNamed, MembersNamed, MakeNamed, SaveNamed, StopNamed
<1>4. ASSUME NEW t \in Tools, Judge(t) \/ \E n \in Crates : Declare(t, n) \/ Undeclare(t, n)
      PROVE  StrandInv'
  BY <1>4, RulingNamed
<1>5. CASE (\E p \in Packages : Occupy(p) \/ Tidy(p)) \/ Reformat \/ MoveSources \/ HandEdit
  BY <1>5, UserNamed
<1>. QED
  BY <1>1, <1>2, <1>3, <1>4, <1>5 DEF PartitionNext

\* With one tool at work, whatever the tools have put on disk or into the member
\* list is named by the declaration, so that a revert can take it back, at every
\* stop and whatever the user edits; what is taken out of the declaration by hand
\* or after an operation stopped half-way is the one exception (crates.rs).
THEOREM NothingIsStranded ==
  ASSUME OneTool PROVE PartitionSpec => []NothingStranded
<1>1. KeptInv /\ [PartitionNext]_partitionVars => KeptInv'
  BY NextKept
<1>2. KeptInv /\ WorkInv /\ [PartitionNext]_partitionVars => WorkInv'
  BY NextWorks
<1>3. KeptInv /\ WorkInv /\ StrandInv /\ [PartitionNext]_partitionVars => StrandInv'
  BY NextNamed
<1>4. StrandInv => NothingStranded
  BY NamedMeansTaken DEF StrandInv
<1>. QED
  BY <1>1, <1>2, <1>3, <1>4, InitKept, InitWorks, InitNamed, PTL DEF PartitionSpec
=============================================================================
