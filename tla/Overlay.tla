------------------------------- MODULE Overlay -------------------------------
(* Graft overlays (kernel/src/registry_core/tree/graft_ops): an effective    *)
(* tree is a copy of the base tree in which cuts put external faces into     *)
(* base slots.  overlay_static applies the declared cuts one after another;  *)
(* overlay_recorded first lets the graft records that were found on disk     *)
(* replace declarations made by name.  Both answer an effective tree or      *)
(* refuse; base and external are read only.  A call is a step for every cut  *)
(* and every slot, so that the tree between two cuts is visible.             *)
(*                                                                           *)
(* A selector is a pair: <<"path", p>>, <<"id", n>>, or <<"word", w>> for a   *)
(* registry name or a kind, which only the replacement side may use.         *)
EXTENDS RegistryTree

CONSTANTS
    Refused,        \* the error side of RegistryResult, whatever its text
    NotAsked,       \* the operation was not called yet
    NoEnd,          \* a cut that is not a range
    NameRank,       \* how registry names sort
    Bases,          \* base trees
    Externals,      \* external trees
    Declarations,   \* cuts a static_graft_plan may declare
    Records,        \* records .xirang/external-grafts may hold
    MaxDeclared, MaxRecords     \* bounds: cuts of one plan, records on disk

Targets == ({"path"} \X Paths) \cup ({"id"} \X NodeIds)
Selectors == Targets \cup ({"word"} \X (Names \cup Kinds))
Cuts == [cut : Targets, end : Targets \cup {NoEnd}, graft : Selectors, full : BOOLEAN]
(* RecordedGraft: the directory a plan was found in, and the plan: the        *)
(* identity and the path of its target, and its graft.                       *)
RecordedGrafts ==
    [dir : Selectors, target : NodeIds, path : Paths, graft : Selectors, full : BOOLEAN]

ASSUME NameRankAssumption ==
    /\ NameRank \in [Names -> Nat]
    /\ \A a, b \in Names : NameRank[a] = NameRank[b] => a = b
(* Every face hangs in the registry its parent names and obeys its rule; every
   registry shows its face, the path included.                               *)
WellFormed(t) ==
    /\ \A s \in DOMAIN t.faces :
          /\ Owner(s) \in DOMAIN t.regs
          /\ t.faces[s].id = Last(s) /\ t.faces[s].parent = t.regs[Owner(s)].id
          /\ Obeys(t.faces[s], t.regs[Owner(s)].rule)
    /\ \A s \in DOMAIN t.regs \ {<<>>} :
          s \in DOMAIN t.faces /\ t.regs[s] = Header(t.faces[s], SlotPath(t, s))

ASSUME OverlayAssumption ==
    /\ \A t \in Bases \cup Externals : IsTree(t)
    /\ Declarations \subseteq Cuts /\ Records \subseteq RecordedGrafts
    /\ {MaxDeclared, MaxRecords} \subseteq Nat
\* What the transactions of a Registry leave (RegistryProofs): both trees are
\* well formed, and an identity names one face, never the root.
ASSUME RegisteredAssumption ==
    /\ \A t \in Bases \cup Externals :
          WellFormed(t) /\ IsFiniteSet(DOMAIN t.faces)
    /\ \A t \in Bases \cup Externals : \A s, p \in DOMAIN t.faces :
          /\ t.faces[s].id = t.faces[p].id => s = p
          /\ t.faces[s].id # t.regs[<<>>].id

-----------------------------------------------------------------------------
(* Selectors.                                                                *)

Matches(t, selector) ==
    {s \in DOMAIN t.faces :
        LET face == t.faces[s]
        IN  CASE selector[1] = "path" -> PathFor(t, face.id) = selector[2]
              [] selector[1] = "id"   -> s = FaceSlot(t, face.id) /\ face.id = selector[2]
              [] OTHER -> selector[2] \in {face.name, face.kind}}

(* resolve_path_strict and resolve_node: exactly one node or none at all.    *)
Resolves(t, selector) == Cardinality(Matches(t, selector)) = 1
Resolved(t, selector) == t.faces[CHOOSE s \in Matches(t, selector) : TRUE].id

TargetSlot(t, target) == Append(RegistrySlot(t, FaceById(t, target).parent), target)

(* Siblings order by their registry names; two of one name, which an edit in  *)
(* place may leave, stay as their registry's map lists them (an unstable     *)
(* sort, which inserts one by one at the length of such levels).             *)
SortsBefore(a, b) ==
    \/ NameRank[a.name] < NameRank[b.name]
    \/ NameRank[a.name] = NameRank[b.name] /\ a.id < b.id

(* Below a subtree copied twice the end points may be missing from the       *)
(* registry found for them: `expect` panics, which answers no tree either.   *)
RangeResolves(t, start, end) ==
    /\ FaceById(t, start).parent = FaceById(t, end).parent
    /\ HasRegistry(t, FaceById(t, start).parent)
    /\ {TargetSlot(t, start), TargetSlot(t, end)} \subseteq DOMAIN t.faces
    /\ ~SortsBefore(FaceById(t, end), FaceById(t, start))

Between(t, start, end) ==
    {s \in Entries(t, RegistrySlot(t, FaceById(t, start).parent)) :
        /\ ~SortsBefore(t.faces[s], FaceById(t, start))
        /\ ~SortsBefore(FaceById(t, end), t.faces[s])}

Sorting(t, among) ==
    CHOOSE list \in [1..Cardinality(among) -> among] :
        /\ ToSet(list) = among
        /\ \A i, k \in DOMAIN list : i < k => SortsBefore(t.faces[list[i]], t.faces[list[k]])

Span(t, start, end) ==
    LET list == Sorting(t, Between(t, start, end))
    IN  [i \in DOMAIN list |-> t.faces[list[i]].id]

TargetsResolve(t, cut) ==
    /\ Resolves(t, cut.cut)
    /\ cut.end # NoEnd =>
          /\ Resolves(t, cut.end)
          /\ RangeResolves(t, Resolved(t, cut.cut), Resolved(t, cut.end))

CutTargets(t, cut) ==
    IF cut.end = NoEnd THEN <<Resolved(t, cut.cut)>>
    ELSE Span(t, Resolved(t, cut.cut), Resolved(t, cut.end))

-----------------------------------------------------------------------------
(* apply_overlay_face: one external face into one slot of the staged tree.   *)

Candidate(replacement, target) ==
    [replacement EXCEPT !.id = target.id, !.parent = target.parent, !.name = target.name]

RebaseParent(face, old, new) ==
    IF face.parent = old THEN [face EXCEPT !.parent = new] ELSE face

(* The external face's child registry, copied below slot s.                  *)
GraftSubtree(t, s, face, external, from) ==
    LET path == Append(t.regs[Owner(s)].path, face.name)
        source(p) == from \o SubSeq(p, Len(s) + 1, Len(p))
        moved(slots) == {s \o SubSeq(p, Len(from) + 1, Len(p)) :
                            p \in {q \in slots : IsPrefix(from, q)}}
        regs == moved(DOMAIN external.regs)
        faces == moved(DOMAIN external.faces)
        rebased(header) == [header EXCEPT !.path = Rebase(@, external.regs[from].path, path)]
        allFaces ==
            [p \in DOMAIN Without(t, s).faces \cup faces |->
                IF p = s THEN face
                ELSE IF p \in faces
                     THEN RebaseParent(external.faces[source(p)],
                                       external.faces[from].id, face.id)
                     ELSE t.faces[p]]
        allRegs ==
            [p \in DOMAIN Without(t, s).regs \cup regs |->
                IF p \notin regs THEN t.regs[p]
                ELSE IF p = s THEN Header(face, path) ELSE rebased(external.regs[source(p)])]
    IN  [t EXCEPT !.faces = allFaces, !.regs = allRegs]

(* Without "full" the slot keeps its own child registry, if the new face may *)
(* own one; the new rule is tried on the children that stay.                 *)
ChildrenStay(t, s, face) ==
    s \in DOMAIN t.regs =>
        IF face.needs
        THEN \A p \in DOMAIN t.faces :
                IsStrictPrefix(s, p) /\ t.faces[p].parent = face.id
                    => Obeys(t.faces[p], face.rule)
        ELSE Entries(t, s) = {}

\* Fault: a slot that is taken over loses its children.
GraftEmptied(t, s, face) == Store(Without(t, s), s, face, Append(t.regs[Owner(s)].path, face.name))

GraftFace(t, s, face) ==
    LET kept == IF face.needs THEN t ELSE Without(t, s)
    IN  [kept EXCEPT
            !.faces = [p \in DOMAIN kept.faces \cup {s} |->
                          IF p = s THEN face ELSE kept.faces[p]],
            !.regs = [p \in DOMAIN kept.regs |->
                          IF p = s THEN Header(face, kept.regs[p].path) ELSE kept.regs[p]]]

\* Fault: the rule of the registry that owns the slot is not asked.
UnruledGraft(t, target, replacement, full) ==
    LET face == Candidate(replacement, FaceById(t, target))
    IN  /\ replacement.flow # NoFlow /\ replacement.flow = FaceById(t, target).flow
        /\ HasRegistry(t, face.parent) /\ TargetSlot(t, target) \in DOMAIN t.faces
        /\ full \/ ChildrenStay(t, TargetSlot(t, target), face)

CanGraft(t, target, replacement, full) ==
    LET face == Candidate(replacement, FaceById(t, target))
    IN  /\ HasFace(t, target)
        /\ replacement.flow # NoFlow /\ replacement.flow = FaceById(t, target).flow
        /\ HasRegistry(t, face.parent)
        /\ Obeys(face, t.regs[RegistrySlot(t, face.parent)].rule)
        /\ TargetSlot(t, target) \in DOMAIN t.faces
        /\ full \/ ChildrenStay(t, TargetSlot(t, target), face)

ApplyOverlayFace(t, target, replacement, full, external) ==
    LET face == Candidate(replacement, FaceById(t, target))
    IN  IF full
        THEN GraftSubtree(t, TargetSlot(t, target), face, external,
                          FaceSlot(external, replacement.id))
        ELSE GraftFace(t, TargetSlot(t, target), face)

-----------------------------------------------------------------------------
(* overlay_recorded.                                                         *)

FirstAt(t, path) ==
    LET here == Matches(t, <<"path", path>>)
    IN  t.faces[CHOOSE s \in here : \A p \in here \ {s} : PreOrder(s, p)].id

(* resolve_record refuses what reads in two ways: a directory that is not    *)
(* named for its plan's graft, an identity and a stored path of two faces.   *)
Misnamed(record) == record.dir # record.graft

\* Fault: the overlay takes the plan's graft, whatever its directory says.
ContradictsTarget(t, record) ==
    /\ HasFace(t, record.target) /\ Matches(t, <<"path", record.path>>) # {}
    /\ FirstAt(t, record.path) # record.target

Contradicts(t, record) ==
    \/ Misnamed(record)
    \/ /\ HasFace(t, record.target) /\ Matches(t, <<"path", record.path>>) # {}
       /\ FirstAt(t, record.path) # record.target

HasSlot(t, record) == HasFace(t, record.target) \/ Matches(t, <<"path", record.path>>) # {}
RecordSlot(t, record) == IF HasFace(t, record.target) THEN record.target
                         ELSE FirstAt(t, record.path)

DeclaredSlots(t, cut) == ToSet(CutTargets(t, cut))
DeclaresSlot(t, cuts, slot) == \E i \in DOMAIN cuts : slot \in DeclaredSlots(t, cuts[i])

(* The first declaration that keeps a slot decides for it.                   *)
DeclarationOf(t, cuts, slot) ==
    cuts[CHOOSE i \in DOMAIN cuts :
            /\ slot \in DeclaredSlots(t, cuts[i])
            /\ \A k \in 1..(i - 1) : slot \notin DeclaredSlots(t, cuts[k])]

ByName(cut) == cut.graft[1] # "id"

Wins(t, cuts, external, record) ==
    /\ HasSlot(t, record) /\ DeclaresSlot(t, cuts, RecordSlot(t, record))
    /\ Resolves(external, record.graft)
    /\ ByName(DeclarationOf(t, cuts, RecordSlot(t, record)))

(* A declaration a record touches is split into one cut per slot.            *)
SlotCut(t, slot, graft, full) ==
    [cut |-> <<"path", PathFor(t, slot)>>, end |-> NoEnd, graft |-> graft, full |-> full]

SplitSlot(t, cut, slot, winners) ==
    IF \E i \in DOMAIN winners : RecordSlot(t, winners[i]) = slot
    THEN FlattenSeq([i \in DOMAIN winners |->
            IF RecordSlot(t, winners[i]) = slot
            THEN <<SlotCut(t, slot, winners[i].graft, winners[i].full)>> ELSE <<>>])
    ELSE <<SlotCut(t, slot, cut.graft, cut.full)>>

SplitCut(t, cut, winners) ==
    IF \E i \in DOMAIN winners : RecordSlot(t, winners[i]) \in DeclaredSlots(t, cut)
    THEN FlattenSeq([i \in DOMAIN CutTargets(t, cut) |->
                        SplitSlot(t, cut, CutTargets(t, cut)[i], winners)])
    ELSE <<cut>>

Winners(t, records, cuts, external) ==
    FlattenSeq([i \in DOMAIN records |->
        IF Wins(t, cuts, external, records[i]) THEN <<records[i]>> ELSE <<>>])

RecordedPlan(t, records, cuts, external) ==
    FlattenSeq([i \in DOMAIN cuts |->
        SplitCut(t, cuts[i], Winners(t, records, cuts, external))])

-----------------------------------------------------------------------------
(* A host: two trees, a plan, the records on disk, and the two calls.  Both   *)
(* read the base tree and edit a copy, so that one at a time is enough.       *)
VARIABLES base, external, declared, records,
    static, recorded,   \* what overlay_static and overlay_recorded answered
    asked,              \* the call under way: "none", "static" or "recorded"
    plan,               \* the cuts it has left
    graft,              \* what the cut at hand puts in, and is it "full"
    slots,              \* the targets that cut has left
    effective,          \* the staged copy of the base tree
    seen                \* the targets that were cut
inputs == <<base, external, declared, records>>
asking == <<asked, plan, graft, slots, effective, seen>>
overlayVars == <<inputs, static, recorded, asking>>

OverlayInit ==
    /\ base \in Bases /\ external \in Externals
    /\ declared = <<>> /\ records = <<>>
    /\ static = NotAsked /\ recorded = NotAsked
    /\ asked = "none" /\ plan = <<>> /\ slots = <<>> /\ seen = {}
    /\ graft = NotAsked /\ effective = NotAsked

Asked == static # NotAsked \/ recorded # NotAsked \/ asked # "none"

Declare ==
    /\ ~Asked /\ Len(declared) < MaxDeclared
    /\ \E cut \in Declarations : declared' = Append(declared, cut)
    /\ UNCHANGED <<base, external, records, static, recorded, asking>>

\* Two directories differ in name; a plan edited by hand need not fit its own.
FindRecord ==
    /\ ~Asked /\ Len(records) < MaxRecords
    /\ \E record \in Records :
          /\ \A i \in DOMAIN records : records[i].dir # record.dir
          /\ records' = Append(records, record)
    /\ UNCHANGED <<base, external, declared, static, recorded, asking>>

\* overlay_cuts: a copy of the base tree and the cuts to apply to it.
Begin(call, cuts) ==
    /\ asked' = call /\ plan' = cuts /\ effective' = base
    /\ seen' = {} /\ slots' = <<>> /\ graft' = NotAsked
    /\ UNCHANGED <<inputs, static, recorded>>

AskStatic ==
    /\ asked = "none" /\ static = NotAsked
    /\ IF base.framework = external.framework
       THEN Begin("static", declared)
       ELSE static' = Refused /\ UNCHANGED <<inputs, recorded, asking>>

AskRecorded ==
    /\ asked = "none" /\ recorded = NotAsked
    /\ IF /\ \A i \in DOMAIN declared : TargetsResolve(base, declared[i])
          /\ \A i \in DOMAIN records : ~Contradicts(base, records[i])
          /\ base.framework = external.framework
       THEN Begin("recorded", RecordedPlan(base, records, declared, external))
       ELSE recorded' = Refused /\ UNCHANGED <<inputs, static, asking>>

Answer(answer) ==
    /\ static' = IF asked = "static" THEN answer ELSE static
    /\ recorded' = IF asked = "recorded" THEN answer ELSE recorded
    /\ asked' = "none" /\ plan' = <<>> /\ slots' = <<>> /\ seen' = {}
    /\ graft' = NotAsked /\ effective' = NotAsked
    /\ UNCHANGED inputs

CutResolves == Resolves(external, Head(plan).graft) /\ TargetsResolve(effective, Head(plan))

OpenCut ==
    /\ asked # "none" /\ slots = <<>> /\ plan # <<>>
    /\ CutResolves
    /\ slots' = CutTargets(effective, Head(plan))
    /\ graft' = [face |-> FaceById(external, Resolved(external, Head(plan).graft)),
                 full |-> Head(plan).full]
    /\ plan' = Tail(plan)
    /\ UNCHANGED <<inputs, static, recorded, asked, effective, seen>>

SlotTakes == Head(slots) \notin seen /\ CanGraft(effective, Head(slots), graft.face, graft.full)

GraftSlot ==
    /\ asked # "none" /\ slots # <<>>
    /\ SlotTakes
    /\ effective' = ApplyOverlayFace(effective, Head(slots), graft.face, graft.full, external)
    /\ seen' = seen \cup {Head(slots)}
    /\ slots' = Tail(slots)
    /\ UNCHANGED <<inputs, static, recorded, asked, plan, graft>>

\* Every `?` of overlay_cuts, the connector at the end included.
RefusePlan ==
    /\ asked # "none"
    /\ \/ slots # <<>> /\ ~SlotTakes
       \/ slots = <<>> /\ plan # <<>> /\ ~CutResolves
       \/ slots = <<>> /\ plan = <<>> /\ ~Connected(effective, external)
    /\ Answer(Refused)

ReturnTree ==
    /\ asked # "none" /\ slots = <<>> /\ plan = <<>>
    /\ Connected(effective, external)
    /\ Answer(effective)

OverlayNext ==
    \/ Declare \/ FindRecord \/ AskStatic \/ AskRecorded
    \/ OpenCut \/ GraftSlot \/ RefusePlan \/ ReturnTree
OverlaySpec == OverlayInit /\ [][OverlayNext]_overlayVars

-----------------------------------------------------------------------------
Effective == {static, recorded} \ {NotAsked, Refused}

\* In an effective tree every face hangs in the registry its parent names and
\* obeys its rule, whichever of the two a cut brought in and in whatever order,
\* and every registry shows its face, the path included, below copied subtrees
\* too (overlay.rs: each cut is applied to the tree the earlier ones left).
EffectiveWellFormed == \A t \in Effective : WellFormed(t)

Targeted(s) == \E i \in DOMAIN declared : base.faces[s].id \in DeclaredSlots(base, declared[i])
\* A base slot that a cut or a record of its own may hand over with its subtree.
FullAt(s) ==
    \/ \E i \in DOMAIN declared :
          declared[i].full /\ base.faces[s].id \in DeclaredSlots(base, declared[i])
    \/ \E i \in DOMAIN records :
          records[i].full /\ HasSlot(base, records[i])
            /\ RecordSlot(base, records[i]) = base.faces[s].id
BelowFull(s) == \E p \in DOMAIN base.faces : IsStrictPrefix(p, s) /\ FullAt(p)

\* A cut changes its own slot: "the target's untouched siblings and child
\* registry remain" (overlay.rs:92-93), whatever records are on disk.
UntouchedRemain ==
    (\A i \in DOMAIN declared : TargetsResolve(base, declared[i])) =>
    \A t \in Effective : \A s \in DOMAIN base.faces :
        ~Targeted(s) /\ ~BelowFull(s) =>
            /\ s \in DOMAIN t.faces /\ t.faces[s] = base.faces[s]
            /\ s \in DOMAIN base.regs => s \in DOMAIN t.regs /\ t.regs[s] = base.regs[s]

\* The table of docs/graft.md: a record takes a slot declared by name, if the
\* external tree has its graft; a slot declared with identities keeps its own.
\* A record is what its directory says, the name an author sees in the tree.
Occupant(s) ==
    LET id == base.faces[s].id
        cut == DeclarationOf(base, declared, id)
        offers == {i \in DOMAIN records : HasSlot(base, records[i])
                        /\ RecordSlot(base, records[i]) = id /\ Resolves(external, records[i].dir)}
    IN  IF cut.graft[1] # "id" /\ offers # {} THEN records[CHOOSE i \in offers : TRUE].dir
        ELSE cut.graft

SlotsHoldOccupants ==
    recorded \in Effective =>
        \A s \in DOMAIN base.faces :
            Targeted(s) /\ ~BelowFull(s) =>
                recorded.faces[s] = Candidate(
                    FaceById(external, Resolved(external, Occupant(s))), base.faces[s])

UnresolvedRecordsHarmless ==
    /\ static # NotAsked /\ recorded # NotAsked
    /\ \A i \in DOMAIN declared : TargetsResolve(base, declared[i])
    /\ \A i \in DOMAIN records :
          ~Resolves(external, records[i].graft) /\ ~Contradicts(base, records[i])
    => recorded = static

\* An effective tree of overlay_recorded holds, in every declared slot, the face
\* that the precedence between records and declarations names, a record standing
\* for the implementation its directory is named for; and "a bad record can never
\* break a graft the declaration could satisfy" (apply.rs:70-71): when no record's
\* graft is there the answer is that of overlay_static, a refusal or a tree, for
\* declarations about the base tree.  Bad is not ambiguous: a record that reads in
\* two ways refuses the call by design (docs/graft.md:184-192), and is excepted.
PrecedenceHolds == SlotsHoldOccupants /\ UnresolvedRecordsHarmless
=============================================================================
