----------------------------- MODULE RegistryTree -----------------------------
(***************************************************************************)
(* The registry tree of kernel/src/registry_core/tree as a value: what a   *)
(* Registry holds, how its faces are looked up, and the pure edits every   *)
(* transaction is made of.                                                 *)
(*                                                                         *)
(* A Registry in the source is a header and a map from NodeId to entries,  *)
(* each of which may own a child Registry.  Here the whole tree is two     *)
(* functions over slots.  A slot is the sequence of the NodeIds met from   *)
(* the root (the empty sequence) down to an entry:                         *)
(*     t.faces[s]  the RegistrationSnapshot stored at slot s               *)
(*     t.regs[s]   the header of the child Registry owned by the face at s *)
(* Keying by slot and not by NodeId keeps two entries with one identity    *)
(* apart, as the nested maps do.                                           *)
(***************************************************************************)
EXTENDS Naturals, Sequences, FiniteSets, SequencesExt

CONSTANTS
    NodeIds,        \* identities of faces and registries; a NodeId is ordered
    Names,          \* registry_name values, the segments of a logical path
    Namespaces,     \* package namespaces
    Frameworks,     \* FrameworkId values
    Kinds,          \* face kinds
    Features,       \* what a registration rule may ask of a face
    Capabilities,   \* what faces provide and require
    Stables,        \* explicit stable names
    NoStable,       \* stable_name: None
    Flows,          \* classes of semantically compatible flow contracts
    NoFlow          \* an undeclared flow contract

ASSUME NodeIdsAssumption == NodeIds \subseteq Nat
ASSUME SentinelAssumption == NoStable \notin Stables /\ NoFlow \notin Flows

Slots == Seq(NodeIds)
Paths == Seq(Names)

(* The gate of one registry, by path prefixes; an empty allow list admits all. *)
Admissions == [allowed : SUBSET Paths, denied : SUBSET Paths]

(* One declaration.  "features" stands for preset, parts, exports and      *)
(* traits together, "sound" for its own construction contract holding.     *)
Faces ==
    [id : NodeIds, parent : NodeIds, namespace : Namespaces, kind : Kinds,
     name : Names, stable : Stables \cup {NoStable}, needs : BOOLEAN,
     rule : SUBSET Features, features : SUBSET Features, sound : BOOLEAN,
     replaces : BOOLEAN, flow : Flows \cup {NoFlow}, admission : Admissions,
     requires : SUBSET (Capabilities \X Kinds), provides : SUBSET Capabilities]

(* A header's path is kept relative to the root: the root's own is <<>>.    *)
Headers ==
    [id : NodeIds, namespace : Namespaces, path : Paths,
     rule : SUBSET Features, admission : Admissions]

IsTree(t) ==
    /\ t.framework \in Frameworks
    /\ DOMAIN t.faces \subseteq Slots \ {<<>>}
    /\ DOMAIN t.regs \subseteq Slots
    /\ <<>> \in DOMAIN t.regs
    /\ \A s \in DOMAIN t.faces : t.faces[s] \in Faces
    /\ \A s \in DOMAIN t.regs : t.regs[s] \in Headers

AdmitsAll == [allowed |-> {}, denied |-> {}]

(* root_for_namespace: a registry with no entries and no rule of its own.   *)
EmptyRoot(framework, root, namespace) ==
    [framework |-> framework,
     faces |-> [s \in {} |-> {}],
     regs |-> [s \in {<<>>} |-> [id |-> root, namespace |-> namespace,
                                 path |-> <<>>, rule |-> {},
                                 admission |-> AdmitsAll]]]

-----------------------------------------------------------------------------
(* Lookup.  Entries of one registry are visited in NodeId order.            *)

Owner(s) == Front(s)

Entries(t, r) == {s \in DOMAIN t.faces : Owner(s) = r}

DivergeAt(p, q, k) ==
    /\ k \in DOMAIN p /\ k \in DOMAIN q
    /\ p[k] # q[k]
    /\ \A i \in 1..(k - 1) : p[i] = q[i]

(* A registry before everything below it, siblings by NodeId.               *)
PreOrder(p, q) ==
    \/ IsStrictPrefix(p, q)
    \/ \E k \in DOMAIN p : DivergeAt(p, q, k) /\ p[k] < q[k]

(* The map of one level is asked before any child registry is entered.      *)
LevelFirst(p, q) ==
    \/ IsStrictPrefix(p, q)
    \/ \E k \in DOMAIN p :
          /\ DivergeAt(p, q, k)
          /\ IF k = Len(p) THEN TRUE ELSE k # Len(q) /\ p[k] < q[k]

(* Enter the first child that leads to the target, as deep as one does.     *)
DeepFirst(p, q) ==
    \/ IsStrictPrefix(q, p)
    \/ \E k \in DOMAIN p : DivergeAt(p, q, k) /\ p[k] < q[k]

FacesOf(t, id) == {s \in DOMAIN t.faces : t.faces[s].id = id}
RegistriesOf(t, id) == {s \in DOMAIN t.regs : t.regs[s].id = id}

HasFace(t, id) == FacesOf(t, id) # {}
HasRegistry(t, id) == RegistriesOf(t, id) # {}

FaceSlot(t, id) ==
    CHOOSE s \in FacesOf(t, id) :
        \A other \in FacesOf(t, id) \ {s} : LevelFirst(s, other)

RegistrySlot(t, id) ==
    CHOOSE s \in RegistriesOf(t, id) :
        \A other \in RegistriesOf(t, id) \ {s} : PreOrder(s, other)

FaceById(t, id) == t.faces[FaceSlot(t, id)]

(* The path an entry shows: its registry's path and its own name.           *)
SlotPath(t, s) == Append(t.regs[Owner(s)].path, t.faces[s].name)
PathFor(t, id) == SlotPath(t, FaceSlot(t, id))

-----------------------------------------------------------------------------
(* Structural checks.                                                       *)

Obeys(face, rule) == rule \subseteq face.features

(* Admission by path prefix: a denied prefix wins over an allowed one.      *)
Accepts(admission, path) ==
    /\ ~ \E prefix \in admission.denied : IsPrefix(prefix, path)
    /\ \/ admission.allowed = {}
       \/ \E prefix \in admission.allowed : IsPrefix(prefix, path)

\* Fault: a tightened rule is not tried on the children already there.
ChildViolatingIgnored(t, id, rule) == FALSE

ChildViolating(t, id, rule) ==
    \E s \in DOMAIN t.faces : t.faces[s].parent = id /\ ~Obeys(t.faces[s], rule)

-----------------------------------------------------------------------------
(* The connector: who provides what a face requires, and may it be reached. *)

Provides(face, requirement) ==
    /\ requirement[1] \in face.provides
    /\ requirement[2] = face.kind

(* The entries whose child registries lead down to the registry id.         *)
AncestorSlots(t, id) ==
    LET ends == RegistriesOf(t, id) \ {<<>>}
        end == CHOOSE s \in ends : \A other \in ends \ {s} : DeepFirst(s, other)
    IN  IF ends = {} THEN {}
        ELSE {s \in DOMAIN t.faces : IsPrefix(s, end)}

(* An ancestor provider hides the others; two of the same rank are ambiguous. *)
ProviderSlots(t, owner, requirement) ==
    LET near == {s \in AncestorSlots(t, owner) : Provides(t.faces[s], requirement)}
        anywhere == {s \in DOMAIN t.faces : Provides(t.faces[s], requirement)}
    IN  IF near # {} THEN near ELSE anywhere

(* A provider at the owner's own path is the owner's parent face: external. *)
GateAdmits(t, owner, path) ==
    /\ HasRegistry(t, owner)
    /\ LET gate == t.regs[RegistrySlot(t, owner)]
       IN  IsStrictPrefix(gate.path, path) \/ Accepts(gate.admission, path)

ProviderPath(t, external, id) ==
    IF HasFace(t, id) THEN PathFor(t, id) ELSE PathFor(external, id)

Attaches(t, external, face, requirement) ==
    LET inside == ProviderSlots(t, face.parent, requirement)
        outside == ProviderSlots(external, face.parent, requirement)
        reaches(id) == GateAdmits(t, face.parent, ProviderPath(t, external, id))
    IN  \/ Cardinality(inside) = 1 /\ \A s \in inside : reaches(t.faces[s].id)
        \/ /\ inside = {}
           /\ Cardinality(outside) = 1
           /\ \A s \in outside : reaches(external.faces[s].id)

Connected(t, external) ==
    \A s \in DOMAIN t.faces :
        \A requirement \in t.faces[s].requires :
            Attaches(t, external, t.faces[s], requirement)

-----------------------------------------------------------------------------
(* Edits.  Each returns the tree the staged copy becomes.                   *)

Header(face, path) ==
    [id |-> face.id, namespace |-> face.namespace, path |-> path,
     rule |-> face.rule, admission |-> face.admission]

Without(t, s) ==
    LET kept(slots) == {p \in slots : ~IsPrefix(s, p)}
    IN  [t EXCEPT !.faces = [p \in kept(DOMAIN t.faces) |-> t.faces[p]],
                  !.regs = [p \in kept(DOMAIN t.regs) |-> t.regs[p]]]

(* Store a face at a free slot, with an empty registry when it declares one. *)
Store(t, s, face, path) ==
    LET owned == IF face.needs THEN {s} ELSE {}
    IN  [t EXCEPT
            !.faces = [p \in DOMAIN t.faces \cup {s} |->
                          IF p = s THEN face ELSE t.faces[p]],
            !.regs = [p \in DOMAIN t.regs \cup owned |->
                          IF p = s THEN Header(face, path) ELSE t.regs[p]]]

EntrySlot(t, face) == Append(RegistrySlot(t, face.parent), face.id)

Submit(t, face) ==
    LET s == EntrySlot(t, face)
        home == t.regs[RegistrySlot(t, face.parent)]
    IN  Store(Without(t, s), s, face, Append(home.path, face.name))

Submittable(t, face) ==
    /\ Obeys(face, t.regs[RegistrySlot(t, face.parent)].rule)
    /\ face.sound
    /\ face.replaces => face.flow # NoFlow

TakeEntry(t, id) ==
    Without(t, Append(RegistrySlot(t, FaceById(t, id).parent), id))

\* Fault: a rename leaves the paths below it as they were.
RebaseNothing(path, old, new) == path

Rebase(path, old, new) ==
    IF IsPrefix(old, path)
    THEN new \o SubSeq(path, Len(old) + 1, Len(path))
    ELSE path

\* Fault: the registry of an edited face keeps the gate it had.
OverwriteKeepsGate(t, s, face) ==
    LET path == Append(t.regs[Owner(s)].path, face.name)
        moved == [p \in DOMAIN t.regs |->
                    IF p = s THEN [Header(face, path) EXCEPT !.admission = t.regs[s].admission]
                    ELSE IF IsPrefix(s, p)
                    THEN [t.regs[p] EXCEPT !.path = Rebase(@, t.regs[s].path, path)]
                    ELSE t.regs[p]]
    IN  IF s \in DOMAIN t.regs /\ face.needs
        THEN [t EXCEPT !.faces[s] = face, !.regs = moved]
        ELSE Store(Without(t, s), s, face, path)

(* Put face in an occupied slot, keeping what its child registry holds.     *)
Overwrite(t, s, face) ==
    LET path == Append(t.regs[Owner(s)].path, face.name)
        faces == [t.faces EXCEPT ![s] = face]
        moved == [p \in DOMAIN t.regs |->
                    IF p = s THEN Header(face, path)
                    ELSE IF IsPrefix(s, p)
                    THEN [t.regs[p] EXCEPT !.path = Rebase(@, t.regs[s].path, path)]
                    ELSE t.regs[p]]
    IN  IF s \in DOMAIN t.regs /\ face.needs
        THEN [t EXCEPT !.faces = faces, !.regs = moved]
        ELSE Store(Without(t, s), s, face, path)

CanReplaceInfo(t, id, face) ==
    /\ HasFace(t, id)
    /\ HasRegistry(t, FaceById(t, id).parent)
    /\ LET s == Append(RegistrySlot(t, FaceById(t, id).parent), id)
       IN  /\ s \in DOMAIN t.faces
           /\ face.needs \/ Entries(t, s) = {}

ReplaceInfo(t, id, face) ==
    Overwrite(t, Append(RegistrySlot(t, FaceById(t, id).parent), id), face)

=============================================================================
