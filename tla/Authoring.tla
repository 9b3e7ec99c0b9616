------------------------------ MODULE Authoring ------------------------------
(* The authoring executor: how a request becomes a sequence of file-system   *)
(* calls, and what each of them undoes when it fails.                        *)
(* toolchain/src/run_method/src/authoring/{operations,external_graft},       *)
(* toolchain/src/mcp/src/{apply,apply_move,apply_promote,apply_cut}.rs and   *)
(* Studio's submit_plugin. One request runs at a time; a call may fail, an   *)
(* undoing call may fail too, and the process may die between two calls.     *)
EXTENDS Naturals, Sequences, FiniteSets, SequencesExt, TLC

CONSTANTS
  Names, Kinds,   \* as in AtomicAuthoring
  Start,          \* the source tree the session opens: a disk, as below
  MaxRequests,    \* bound: requests begun
  MaxFaults       \* bound: calls that fail by themselves

\* Strings; those this module spells are named for the provers, which do not
\* know them to be members of STRING.
Words == STRING \cup {"none", "root", "lib.rs", "graft.plan", "plugins.rs",
                     "plugins.lock", "moves", "registry_rule"}
\* A module called registry_rule would be its own rule file.
ASSUME AuthoringAssumption ==
  /\ MaxRequests \in Nat /\ MaxFaults \in Nat
  /\ Names \subseteq Words \ {"registry_rule"}

VARIABLES
  disk,      \* every file of the project: a place |-> its text
  trash,     \* every text under .xirang/trash
  before,    \* the disk when the request under way began
  request,   \* that request, or the last one
  todo,      \* the calls it still has to make
  undoing,   \* the calls a failure still has to make
  mode,      \* "idle", "working" or "undoing"
  verdict,   \* what the last request answered: "none", "done", "failed"
  begun, faults,   \* counted against the bounds
  shed,      \* hand-written text that a call replaces without keeping it
  excused    \* an event after which the tree may be left half-written
progress == <<before, request, todo, undoing, mode, verdict>>
authoringVars == <<disk, trash, progress, begun, faults, shed, excused>>

\* A place is a module directory and a file name in it; a directory exists
\* while a file is in it.
At(dir, file) == [dir |-> dir, file |-> file]
FaceFile(dir) == At(dir, Last(dir))
RuleFile(dir) == At(dir, "registry_rule")
Entry == At(<<>>, "lib.rs")
Record == At(<<>>, "graft.plan")
Anchor == At(<<>>, "plugins.rs")
Lock == At(<<>>, "plugins.lock")
MoveNote == At(<<>>, "moves")
Torn == [is |-> "torn"]

Places == [dir : Seq(Words), file : Words]
FacePlace(p) == p.dir # <<>> /\ p.file # "registry_rule"
FaceTexts ==
  [is : {"face"}, kind : Kinds, parent : Seq(Words), alias : Words,
   owns : BOOLEAN, names : BOOLEAN, deep : BOOLEAN, hand : Words]
Typed(d) ==
  /\ IsFiniteSet(DOMAIN d)
  /\ \A p \in DOMAIN d :
       p \in Places /\ (d[p].is = "face" => d[p] \in FaceTexts /\ FacePlace(p))
ASSUME StartAssumption == Typed(Start)

IsFace(d, p) == p \in DOMAIN d /\ d[p].is = "face"
Standard(d) == {p \in DOMAIN d : p.dir # <<>> /\ p.file = Last(p.dir) /\ d[p].is = "face"}
RuleOf(d, dir) ==
  IF dir # <<>> /\ RuleFile(dir) \in DOMAIN d /\ d[RuleFile(dir)].is = "rule"
  THEN d[RuleFile(dir)].rule ELSE "ANY"

View(d) ==
  [faces |-> [dir \in {p.dir : p \in Standard(d)} |-> d[FaceFile(dir)]],
   rules |-> [dir \in {p.dir : p \in {q \in DOMAIN d : d[q].is = "rule"}} |-> d[RuleFile(dir)].rule],
   entry |-> IF Entry \in DOMAIN d /\ d[Entry].is = "entry" THEN d[Entry].cuts ELSE {},
   record |-> IF Record \in DOMAIN d /\ d[Record].is = "record" THEN {d[Record].slot} ELSE {},
   plugin |-> (IF Anchor \in DOMAIN d THEN {"anchor"} ELSE {})
              \cup (IF Lock \in DOMAIN d THEN {"lock"} ELSE {}),
   strays |-> {p \in DOMAIN d : d[p].is = "torn"}
              \cup {p \in DOMAIN d : d[p].is = "face" /\ p \notin Standard(d)}]

Atomic == INSTANCE AtomicAuthoring WITH
            tree <- IF mode = "idle" THEN View(disk) ELSE View(before),
            excused <- excused
Face(kind, parent, owns, rule) == Atomic!Written(kind, parent, owns, rule)

\* generated_snapshots and the registration of what it reads: every face file
\* parses, its alias and its parent line agree, the parent is a face that owns
\* a registry, and the rule beside the parent admits the child.
Loads(d) ==
  \A p \in {q \in DOMAIN d : d[q].is \in {"face", "torn"} /\ q.dir # <<>>} :
    /\ d[p].is = "face"
    /\ d[p].alias = IF d[p].parent = <<>> THEN "root" ELSE Last(d[p].parent)
    /\ d[p].parent # <<>> =>
         /\ IsFace(d, FaceFile(d[p].parent)) /\ d[FaceFile(d[p].parent)].owns
         /\ RuleOf(d, d[p].parent) = "strict" => d[p].kind = "k1"

----------------------------------------------------------------------------
(* Calls. A call is [do, at, text, from, to] and a step of a plan is a call  *)
(* with the calls its failure makes (undo), whether a failing write leaves a *)
(* torn file (tears), and whether the code has no way back from there (late).*)
Call(do, at, text) == [do |-> do, at |-> at, text |-> text, from |-> <<>>, to |-> <<>>]
Put(p, text) == Call("put", p, text)
Create(p, text) == Call("create", p, text)
Drop(p) == Call("drop", p, Torn)
Stash(text) == Call("stash", Entry, text)
Discard(p) == Call("discard", p, Torn)
Check == Call("check", Entry, Torn)
Refuse == Call("refuse", Entry, Torn)
MoveDir(from, to) == [Call("move", Entry, Torn) EXCEPT !.from = from, !.to = to]
Rename(p, q) == [Call("rename", p, Torn) EXCEPT !.to = q]
TrashDir(dir) == [Call("trash", Entry, Torn) EXCEPT !.from = dir]

Step(call, undo) == [call |-> call, undo |-> undo, tears |-> FALSE, late |-> FALSE]
Tearing(step) == [step EXCEPT !.tears = TRUE]
Late(step) == [step EXCEPT !.late = TRUE]

Under(d, dir) == {p \in DOMAIN d : p.dir # <<>> /\ IsPrefix(dir, p.dir)}
Only(d, places) == [p \in places |-> d[p]]
Set(d, p, text) == [q \in DOMAIN d \cup {p} |-> IF q = p THEN text ELSE d[q]]
Carried(d, from, to) ==
  LET new(p) == [p EXCEPT !.dir = IF p \in Under(d, from) THEN Atomic!Rebased(from, to, @) ELSE @]
  IN [q \in {new(p) : p \in DOMAIN d} |-> d[CHOOSE p \in DOMAIN d : new(p) = q]]

\* Whether the file system, or the registry for "check", lets a call through.
Possible(d, c) ==
  CASE c.do = "check" -> Loads(d)
    [] c.do = "refuse" -> FALSE
    [] c.do = "create" -> c.at \notin DOMAIN d
    [] c.do \in {"drop", "discard"} -> c.at \in DOMAIN d
    [] c.do = "move" -> /\ Under(d, c.from) # {} /\ Under(d, c.to) = {}
                        /\ ~IsPrefix(c.from, c.to)
    [] c.do = "rename" -> c.at \in DOMAIN d
    [] c.do = "trash" -> Under(d, c.from) # {}
    [] OTHER -> TRUE

DiskAfter(d, c) ==
  CASE c.do \in {"put", "create"} -> Set(d, c.at, c.text)
    [] c.do \in {"drop", "discard"} -> Only(d, DOMAIN d \ {c.at})
    [] c.do = "move" -> Carried(d, c.from, c.to)
    [] c.do = "rename" -> Set(Only(d, DOMAIN d \ {c.at}), c.to, d[c.at])
    [] c.do = "trash" -> Only(d, DOMAIN d \ Under(d, c.from))
    [] OTHER -> d
TrashAfter(d, t, c) ==
  CASE c.do = "stash" -> t \cup {c.text}
    [] c.do = "discard" -> t \cup {d[c.at]}
    [] c.do = "trash" -> t \cup {d[p] : p \in Under(d, c.from)}
    [] OTHER -> t

----------------------------------------------------------------------------
(* Plans: what each request does to disk d, in order.                        *)
Listed(places) == FoldSet(LAMBDA p, seq : Append(seq, p), <<>>, places)
RuleText(rule) == [is |-> "rule", rule |-> rule]
\* Undoing a write: the old text again, or no file.
PutBack(d, p) == IF p \in DOMAIN d THEN Put(p, d[p]) ELSE Drop(p)

\* create_module and write_new_module_files.
CreatePlan(d, r) ==
  LET text == Face(r.face.kind, Front(r.dir), r.face.owns, r.face.rule)
      source(undo) == Tearing(Step(Create(FaceFile(r.dir), text), undo))
  IN IF r.face.owns
     THEN <<Tearing(Step(Create(RuleFile(r.dir), RuleText(r.face.rule)), <<>>)),
            source(<<Drop(RuleFile(r.dir))>>)>>
     ELSE <<source(<<>>)>>

\* The face file rendered again from its fields: what was added by hand goes.
Rendered(d, r) ==
  [Face(r.face.kind, d[FaceFile(r.dir)].parent, r.face.owns, r.face.rule)
     EXCEPT !.alias = d[FaceFile(r.dir)].alias]

\* Mutants: the rule step restores nothing; the text goes without being kept.
ReplacePlanNoRestore(d, r) ==
  <<Step(Stash(d[FaceFile(r.dir)]), <<>>), Step(Put(FaceFile(r.dir), Rendered(d, r)), <<>>)>>
  \o IF r.face.owns THEN <<Step(Put(RuleFile(r.dir), RuleText(r.face.rule)), <<>>)>>
     ELSE IF RuleFile(r.dir) \in DOMAIN d THEN <<Step(Drop(RuleFile(r.dir)), <<>>)>> ELSE <<>>
ReplacePlanNoStash(d, r) ==
  <<Step(Put(FaceFile(r.dir), Rendered(d, r)), <<>>)>>

\* edit_module_face when neither the module nor the kind changes.
ReplacePlan(d, r) ==
  LET source == FaceFile(r.dir)
      rule == RuleFile(r.dir)
      text == Rendered(d, r)
      restore == <<Put(source, d[source]), PutBack(d, rule)>>
  IN (IF text = d[source] THEN <<>> ELSE <<Step(Stash(d[source]), <<>>)>>)
     \o <<Step(Put(source, text), <<Put(source, d[source])>>)>>
     \o CASE text.names /\ text.owns -> <<Step(Put(rule, RuleText(r.face.rule)), restore)>>
          [] text.names /\ ~text.owns -> <<Step(Refuse, <<>>)>>
          [] ~text.names /\ rule \in DOMAIN d -> <<Step(Drop(rule), restore)>>
          [] OTHER -> <<>>

\* migrate_kind_subtree.
KindPlan(d, r) ==
  LET source == FaceFile(r.dir)
  IN <<Step(Put(source, Rendered(d, r)), <<>>), Step(Check, <<Put(source, d[source])>>)>>

\* What rewrite_migrated_sources does to one file of the renamed module.
Rewritten(d, r, p) ==
  LET to == Append(Front(r.dir), r.name)
      text == IF p = FaceFile(r.dir) THEN Rendered(d, r) ELSE d[p]
  IN IF text.is # "face" THEN text
     ELSE [text EXCEPT !.parent = Atomic!Rebased(r.dir, to, @),
             !.alias = IF Len(r.dir) = 1 /\ @ = Last(r.dir) THEN r.name ELSE @]

\* Mutant: the texts rewritten so far stay rewritten.
RollbackNamesOnly(d, r, moved, n) ==
  LET to == Append(Front(r.dir), r.name)
  IN <<MoveDir(to, r.dir), Rename(At(r.dir, r.name), FaceFile(r.dir))>>

\* rollback_migration: the texts read so far in reverse, the directory, the file.
Rollback(d, r, moved, n) ==
  LET to == Append(Front(r.dir), r.name)
      back(p) == Put(IF p = FaceFile(r.dir) THEN FaceFile(to)
                     ELSE [p EXCEPT !.dir = Atomic!Rebased(r.dir, to, @)], d[p])
  IN [i \in 1..n |-> back(moved[n + 1 - i])]
     \o <<MoveDir(to, r.dir), Rename(At(r.dir, r.name), FaceFile(r.dir))>>
\* migrate_module_subtree: two renames, every file below, the registry's word.
\* A file that had the new name is not among them: the second rename replaced it.
RenamePlan(d, r) ==
  LET to == Append(Front(r.dir), r.name)
      moved == Listed({p \in Under(d, r.dir) \ {At(r.dir, r.name)} : d[p].is # "torn"})
      place(p) == IF p = FaceFile(r.dir) THEN FaceFile(to)
                  ELSE [p EXCEPT !.dir = Atomic!Rebased(r.dir, to, @)]
  IN <<Step(MoveDir(r.dir, to), <<>>),
       Step(Rename(At(to, Last(r.dir)), FaceFile(to)), <<MoveDir(to, r.dir)>>)>>
     \o [i \in 1..Len(moved) |->
           Step(Put(place(moved[i]), Rewritten(d, r, moved[i])), Rollback(d, r, moved, i))]
     \o <<Step(Check, Rollback(d, r, moved, Len(moved)))>>

\* apply_move and write_record: files are rewritten in place, and every
\* failure renames the directory back and does nothing else.
MovePlan(d, r) ==
  LET to == Append(r.to, r.name)
      home == <<MoveDir(to, r.dir)>>
      children == Listed({p \in Standard(d) : d[p].parent = r.dir})
      moved == [d[FaceFile(r.dir)] EXCEPT
                  !.parent = r.to, !.alias = IF r.to = <<>> THEN "root" ELSE Last(r.to)]
      place(p) == [p EXCEPT !.dir = Atomic!Rebased(r.dir, to, @)]
  IN <<Step(MoveDir(r.dir, to), <<>>)>>
     \o IF r.name # Last(r.dir) THEN <<Step(Refuse, home)>>
        ELSE <<Tearing(Step(Put(FaceFile(to), moved), home))>>
             \o [i \in 1..Len(children) |->
                   Late(Tearing(Step(Put(place(children[i]), [d[children[i]] EXCEPT !.parent = to]), home)))]
             \o <<Late(Step(Put(MoveNote, [is |-> "note"]), <<>>))>>

\* delete_module; run_deepen; run_cut; the external graft record.
DeletePlan(d, r) == <<Step(TrashDir(r.dir), <<>>)>>
DeepenPlan(d, r) ==
  <<Tearing(Step(Put(FaceFile(r.dir), [d[FaceFile(r.dir)] EXCEPT !.deep = TRUE]), <<>>))>>
Cuts(d) == IF Entry \in DOMAIN d /\ d[Entry].is = "entry" THEN d[Entry].cuts ELSE {}
EntryText(cuts) == [is |-> "entry", cuts |-> cuts]
CutPlan(d, r) ==
  <<Tearing(Step(Put(Entry, EntryText(Cuts(d) \cup {[cut |-> r.dir, graft |-> "external"]})), <<>>))>>
GraftPlan(d, r) == <<Step(Put(Record, [is |-> "record", slot |-> r.dir]), <<Drop(Record)>>)>>
RetirePlan(d, r) == <<Step(Discard(Record), <<>>)>>

\* run_promote: the face is edited, the entry repointed, the record retired.
PromotePlan(d, r) ==
  LET source == FaceFile(r.dir)
      repointed == {[cut |-> c.cut, graft |-> IF c.cut = r.dir THEN "itself" ELSE c.graft] : c \in Cuts(d)}
      land == IF r.face.kind = d[source].kind THEN ReplacePlan(d, r) ELSE KindPlan(d, r)
      undo == <<Put(source, d[source])>>
  IN land \o <<Step(Stash(EntryText(Cuts(d))), undo),
               Tearing(Step(Put(Entry, EntryText(repointed)), undo)),
               Late(Step(Discard(Record), <<>>))>>

\* submit_plugin: the anchor is appended, then the lock is written.
PluginPlan(d, r) ==
  <<Tearing(Step(Put(Anchor, [is |-> "anchor"]), <<>>)),
    Tearing(Step(Put(Lock, [is |-> "lock"]), <<PutBack(d, Anchor)>>))>>

Plan(d, r) ==
  CASE r.op = "create" -> CreatePlan(d, r)
    [] r.op = "edit" /\ r.name # Last(r.dir) -> RenamePlan(d, r)
    [] r.op = "edit" /\ r.name = Last(r.dir) /\ r.face.kind # d[FaceFile(r.dir)].kind -> KindPlan(d, r)
    [] r.op = "edit" /\ r.name = Last(r.dir) /\ r.face.kind = d[FaceFile(r.dir)].kind -> ReplacePlan(d, r)
    [] r.op = "delete" -> DeletePlan(d, r)
    [] r.op = "deepen" -> DeepenPlan(d, r)
    [] r.op = "move" -> MovePlan(d, r)
    [] r.op = "cut" -> CutPlan(d, r)
    [] r.op = "graft" -> GraftPlan(d, r)
    [] r.op = "retire" -> RetirePlan(d, r)
    [] r.op = "promote" -> PromotePlan(d, r)
    [] r.op = "plugin" -> PluginPlan(d, r)

----------------------------------------------------------------------------
(* Which requests the code begins on, and what is given up by beginning.     *)
Children(d, dir) == {p \in Standard(d) : d[p].parent = dir}
Mountable(d, dir) == dir = <<>> \/ (IsFace(d, FaceFile(dir)) /\ d[FaceFile(dir)].owns)
SameRule(d, r) == /\ r.face.owns = d[FaceFile(r.dir)].owns
                  /\ r.face.rule = RuleOf(d, r.dir)

EditAccepted(d, r) ==
  /\ r.face.owns \/ Children(d, r.dir) = {}
  /\ IF r.name # Last(r.dir) THEN Under(d, Append(Front(r.dir), r.name)) = {}
     ELSE r.face.kind = d[FaceFile(r.dir)].kind
            => Loads(Set(Set(d, FaceFile(r.dir), Rendered(d, r)), RuleFile(r.dir), RuleText(r.face.rule)))
Accepted(d, r) ==
  LET path == IF r.op = "move" THEN Append(r.to, r.name) ELSE r.dir
  IN CASE r.op = "create" ->
            /\ Mountable(d, Front(r.dir)) /\ FaceFile(r.dir) \notin DOMAIN d
            /\ Loads(Set(d, FaceFile(r.dir), Face(r.face.kind, Front(r.dir), r.face.owns, r.face.rule)))
       [] r.op = "edit" -> EditAccepted(d, r)
       [] r.op = "move" ->
            /\ Mountable(d, r.to) /\ FaceFile(path) \notin DOMAIN d
            /\ \A c \in Cuts(d) : c.cut # r.dir
       [] r.op = "deepen" -> ~d[FaceFile(r.dir)].deep
       [] r.op = "cut" -> \A c \in Cuts(d) : c.cut # r.dir
       [] r.op = "graft" -> Record \notin DOMAIN d
       [] r.op = "retire" -> Record \in DOMAIN d /\ d[Record].slot = r.dir
       [] r.op = "promote" ->
            /\ Record \in DOMAIN d /\ d[Record].slot = r.dir
            /\ \E c \in Cuts(d) : c.cut = r.dir
            /\ SameRule(d, r) /\ EditAccepted(d, [r EXCEPT !.op = "edit"] @@ [name |-> Last(r.dir)])
       [] r.op = "plugin" -> Lock \notin DOMAIN d
       [] OTHER -> TRUE

\* Requests after which the tree is not what was asked for, fault or no fault:
\* the source spells a rule no file holds; a face keeps an old parent line; a
\* face stands under a registry whose rule refuses it.
Unsound(d, r) ==
  \/ r.op = "create" /\ ~r.face.owns /\ r.face.rule # "ANY"
  \/ /\ r.op = "edit" /\ ~SameRule(d, r)
     /\ \/ r.name # Last(r.dir) \/ r.face.kind # d[FaceFile(r.dir)].kind
        \/ ~r.face.owns /\ r.face.rule # "ANY"
  \/ /\ r.op = "move"
     /\ \/ \E p \in Standard(d) : Len(d[p].parent) > Len(r.dir) /\ IsPrefix(r.dir, d[p].parent)
        \/ RuleOf(d, r.to) = "strict" /\ d[FaceFile(r.dir)].kind # "k1"
Hands(texts) == {text.hand : text \in {x \in texts : x.is = "face"}} \ {"none"}
\* What a request replaces and keeps no copy of: the face of a rename or of a
\* change of kind, and a file that an interrupted move left in the directory
\* under the name the face is to get (fs::rename replaces it).
Renames(r) == r.op = "edit" /\ r.name # Last(r.dir)
Given(d, r) ==
  LET replaced ==
        {p \in DOMAIN d :
           \/ r.op \in {"edit", "promote"} /\ p = FaceFile(r.dir)
              /\ (Renames(r) \/ r.face.kind # d[p].kind)
           \/ Renames(r) /\ p = At(r.dir, r.name)}
  IN Hands({d[p] : p \in replaced})

----------------------------------------------------------------------------
Init ==
  /\ disk = Start /\ before = Start /\ trash = {}
  /\ request = [op |-> "none"] /\ todo = <<>> /\ undoing = <<>>
  /\ mode = "idle" /\ verdict = "none"
  /\ begun = 0 /\ faults = 0 /\ shed = {} /\ excused = FALSE

\* A request is read against the registry the disk loads into, and planned.
Begin ==
  /\ mode = "idle" /\ begun < MaxRequests /\ Loads(disk)
  /\ \E r \in {q \in Atomic!Requests(View(disk)) : Accepted(disk, q)} :
       /\ request' = r /\ todo' = Plan(disk, r)
       /\ shed' = shed \cup Given(disk, r)
       /\ excused' = (excused \/ Unsound(disk, r))
  /\ before' = disk /\ begun' = begun + 1
  /\ mode' = "working" /\ verdict' = "none"
  /\ UNCHANGED <<disk, trash, undoing, faults>>

Do ==
  /\ mode = "working" /\ todo # <<>> /\ Possible(disk, Head(todo).call)
  /\ disk' = DiskAfter(disk, Head(todo).call)
  /\ trash' = TrashAfter(disk, trash, Head(todo).call)
  /\ todo' = Tail(todo)
  /\ UNCHANGED <<before, request, undoing, mode, verdict, begun, faults, shed, excused>>

\* A write in place that stops halfway: the file is neither text.
Tears(step) ==
  /\ step.tears /\ Possible(disk, step.call)
  /\ disk' = Set(disk, step.call.at, Torn)
  /\ shed' = shed \cup Hands({disk[p] : p \in {step.call.at} \cap DOMAIN disk})
Whole == UNCHANGED <<disk, shed>>

\* A call fails: the world does not allow it, or by itself.
Fail ==
  /\ mode = "working" /\ todo # <<>>
  /\ LET step == Head(todo) IN
       /\ undoing' = step.undo
       /\ \/ ~Possible(disk, step.call) /\ Whole /\ UNCHANGED <<faults, excused>>
          \/ /\ Possible(disk, step.call) /\ faults < MaxFaults /\ faults' = faults + 1
             /\ \/ Whole /\ excused' = (excused \/ step.late)
                \/ Tears(step) /\ excused' = TRUE
  /\ mode' = "undoing" /\ todo' = <<>>
  /\ UNCHANGED <<trash, before, request, verdict, begun>>

\* An undoing call whose own failure the code ignores.
Undo ==
  /\ mode = "undoing" /\ undoing # <<>> /\ undoing' = Tail(undoing)
  /\ \/ /\ Possible(disk, Head(undoing))
        /\ disk' = DiskAfter(disk, Head(undoing))
        /\ UNCHANGED <<faults, excused>>
     \/ ~Possible(disk, Head(undoing)) /\ UNCHANGED <<disk, faults, excused>>
     \/ /\ faults < MaxFaults /\ faults' = faults + 1 /\ excused' = TRUE
        /\ UNCHANGED disk
  /\ UNCHANGED <<trash, before, request, todo, mode, verdict, begun, shed>>

Answer(word) ==
  /\ mode' = "idle" /\ verdict' = word
  /\ UNCHANGED <<disk, trash, before, request, todo, undoing, begun, faults, shed, excused>>
Finish == mode = "working" /\ todo = <<>> /\ Answer("done")
Report == mode = "undoing" /\ undoing = <<>> /\ Answer("failed")

\* The process dies; the next one opens the tree as it finds it.
Crash ==
  /\ mode # "idle"
  /\ Whole \/ (mode = "working" /\ todo # <<>> /\ Tears(Head(todo)))
  /\ mode' = "idle" /\ verdict' = "none" /\ todo' = <<>> /\ undoing' = <<>> /\ excused' = TRUE
  /\ UNCHANGED <<trash, before, request, begun, faults>>

Next == Begin \/ Do \/ Fail \/ Undo \/ Finish \/ Report \/ Crash
Spec == Init /\ [][Next]_authoringVars

----------------------------------------------------------------------------
\* Every request is all or nothing: the source tree is what the request says,
\* or what it was, unless a fault hit a rollback, a torn write, the last step
\* of a move or a promotion, or a crash (AuthoringContext's promise).
AllOrNothing == Atomic!AtomicSpec

\* Lines somebody wrote by hand are in the tree or in the trash, through every
\* failure and every crash, but for the rewrites that keep no copy.
HandTextKept == Hands({Start[p] : p \in DOMAIN Start})
                  \subseteq Hands({disk[p] : p \in DOMAIN disk}) \cup Hands(trash) \cup shed

\* What a request leaves behind loads again, and no face spells a rule whose
\* file is missing.
Sound(d) == /\ Loads(d)
            /\ \A p \in Standard(d) : d[p].names => RuleFile(p.dir) \in DOMAIN d
LeavesASoundTree == mode = "idle" /\ ~excused => Sound(disk)

\* A tree in order, as the program's own writes leave one: it loads; every face
\* is at the path its module has and says its directory's parent; it owns and
\* names a rule where the rule file is and nowhere else; every rule file is
\* whole and beside a face; and no other file bears a module's name.
Proper(d, p) ==
  /\ d[p].is # "torn"
  /\ d[p].is = "face" =>
       /\ p.file = Last(p.dir) /\ d[p].parent = Front(p.dir)
       /\ d[p].names = d[p].owns /\ (d[p].owns <=> RuleFile(p.dir) \in DOMAIN d)
  /\ d[p].is = "rule" <=> p.dir # <<>> /\ p.file = "registry_rule"
  /\ d[p].is = "rule" => d[p] = RuleText(d[p].rule) /\ IsFace(d, FaceFile(p.dir))
  /\ p.dir # <<>> /\ p.file \in Names => p.file = Last(p.dir)
\* A disk is a function; two with the same files and texts are the same.
Disk(d) == d = [p \in DOMAIN d |-> d[p]]
Tidy(d) == Disk(d) /\ Loads(d) /\ \A p \in DOMAIN d : Proper(d, p)

\* face.rs:219: an edit never leaves a source that references a rule module
\* nobody created. The code does, with no fault at all.
NoDanglingRule ==
  mode = "idle" /\ faults = 0 /\ request.op = "edit" /\ verdict # "none"
    => \A p \in Standard(disk) : disk[p].names => RuleFile(p.dir) \in DOMAIN disk

\* apply.rs:8: a write of the bridge passes the parent's rule or is refused.
\* A move is never shown to the registry.
MovesPassTheRule ==
  mode = "idle" /\ faults = 0 /\ request.op = "move" /\ verdict = "done"
    => (RuleOf(disk, request.to) = "strict"
          => disk[FaceFile(Append(request.to, request.name))].kind = "k1")
=============================================================================
