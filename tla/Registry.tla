------------------------------- MODULE Registry -------------------------------
(***************************************************************************)
(* One live Registry and the transactions that change it: a batch of       *)
(* snapshots (transaction.rs), an in-place replacement and the rehearsal   *)
(* of a subtree migration (graft_ops.rs).                                  *)
(*                                                                         *)
(* A batch is planned against the receiver, then submitted one snapshot at *)
(* a time into a staged clone, in passes over what still waits for its     *)
(* parent, and only the finished clone replaces the receiver.  Each of     *)
(* these is a step, so that what the loop leaves behind is visible.        *)
(***************************************************************************)
EXTENDS RegistryTree

CONSTANTS
    Submissions,    \* the declarations batches are drawn from
    Edits,          \* the declarations offered as in-place replacements
    MaxBatch,       \* bound: snapshots in one batch
    RootId, Framework, Namespace

ASSUME InputsAssumption ==
    /\ Submissions \subseteq Faces /\ Edits \subseteq Faces
    /\ RootId \in NodeIds /\ Framework \in Frameworks /\ Namespace \in Namespaces
    /\ MaxBatch \in Nat
\* A NodeId is the hash of a source path; no declaration hashes to its root's.
ASSUME RootAssumption == \A face \in Submissions \cup Edits : face.id # RootId

VARIABLES
    tree,           \* the live Registry
    call,           \* the transaction under way: "none", "register", "migrate"
    staged,         \* its staged clone
    batch,          \* its submissions
    pending,        \* submissions the current pass has not reached
    waiting,        \* submissions that met no registry for their parent
    progressed,     \* did the current pass place one?
    failures,       \* submissions a rule or a contract refused
    answer          \* how the last transaction ended

staging == <<call, staged, batch, pending, waiting, progressed, failures>>
vars == <<tree, staging, answer>>

None == EmptyRoot(Framework, RootId, Namespace)

TypeOK ==
    /\ IsTree(tree) /\ IsTree(staged)
    /\ call \in {"none", "register", "migrate"}
    /\ batch \subseteq Submissions
    /\ pending \subseteq batch /\ waiting \subseteq batch /\ failures \subseteq batch
    /\ progressed \in BOOLEAN
    /\ answer \in {"none", "ok", "refused"}

Init ==
    /\ tree = None
    /\ call = "none" /\ staged = None
    /\ batch = {} /\ pending = {} /\ waiting = {} /\ failures = {}
    /\ progressed = FALSE
    /\ answer = "none"

-----------------------------------------------------------------------------
(* plan_batch: what is decided before anything is staged.                   *)

\* Fault: only the batch is searched for the identity, not the tree.
FreshIdentityInBatch(t, submissions) ==
    \A face \in submissions : \A other \in submissions \ {face} : other.id # face.id

FreshIdentity(t, submissions) ==
    \A face \in submissions :
        /\ ~HasFace(t, face.id)
        /\ \A other \in submissions \ {face} : other.id # face.id

FreshStable(t, submissions) ==
    \A face \in submissions : face.stable # NoStable =>
        /\ \A s \in DOMAIN t.faces : t.faces[s].stable # face.stable
        /\ \A other \in submissions \ {face} : other.stable # face.stable

BatchParent(submissions, id) == \E face \in submissions : face.id = id

(* Every chain of parents leaves the batch, and at a registry of the tree.  *)
Grounded(t, submissions) ==
    /\ \A face \in submissions :
          BatchParent(submissions, face.parent) \/ HasRegistry(t, face.parent)
    /\ \A cycle \in SUBSET submissions \ {{}} :
          \E face \in cycle : ~BatchParent(cycle, face.parent)

FreshSibling(t, submissions) ==
    \A face \in submissions :
        /\ \A other \in submissions \ {face} :
              <<other.parent, other.name>> # <<face.parent, face.name>>
        /\ HasRegistry(t, face.parent) =>
              \A s \in Entries(t, RegistrySlot(t, face.parent)) :
                  t.faces[s].name # face.name

PlanBatch(t, submissions) ==
    /\ \A face \in submissions : face.namespace = t.regs[<<>>].namespace
    /\ FreshIdentity(t, submissions)
    /\ FreshStable(t, submissions)
    /\ Grounded(t, submissions)
    /\ FreshSibling(t, submissions)

-----------------------------------------------------------------------------
(* register_snapshot_batch.                                                 *)

Refuse ==
    /\ answer' = "refused"
    /\ UNCHANGED <<tree, staging>>

Stage(kind, receiver, submissions) ==
    /\ call' = kind
    /\ staged' = receiver
    /\ batch' = submissions /\ pending' = submissions
    /\ waiting' = {} /\ failures' = {} /\ progressed' = FALSE
    /\ UNCHANGED <<tree, answer>>

RegisterSnapshotBatch(submissions) ==
    /\ call = "none"
    /\ IF PlanBatch(tree, submissions)
       THEN Stage("register", tree, submissions)
       ELSE Refuse

SortedBefore(a, b) ==
    a.parent < b.parent \/ (a.parent = b.parent /\ a.id < b.id)

FirstPending(face) ==
    /\ face \in pending
    /\ \A other \in pending \ {face} : SortedBefore(face, other)

SubmitSnapshot(face) ==
    /\ call # "none"
    /\ FirstPending(face)
    /\ pending' = pending \ {face}
    /\ \/ /\ HasRegistry(staged, face.parent)
          /\ Submittable(staged, face)
          /\ staged' = Submit(staged, face)
          /\ progressed' = TRUE
          /\ UNCHANGED <<waiting, failures>>
       \/ /\ HasRegistry(staged, face.parent)
          /\ ~Submittable(staged, face)
          /\ failures' = failures \cup {face}
          /\ UNCHANGED <<staged, progressed, waiting>>
       \/ /\ ~HasRegistry(staged, face.parent)
          /\ waiting' = waiting \cup {face}
          /\ UNCHANGED <<staged, progressed, failures>>
    /\ UNCHANGED <<tree, call, batch, answer>>

NextPass ==
    /\ call # "none"
    /\ pending = {} /\ waiting # {} /\ progressed
    /\ pending' = waiting
    /\ waiting' = {} /\ progressed' = FALSE
    /\ UNCHANGED <<tree, call, staged, batch, failures, answer>>

\* Fault: the first pass is taken for the last.
FinishedAfterOnePass == call # "none" /\ pending = {}

Finished ==
    /\ call # "none"
    /\ pending = {}
    /\ waiting = {} \/ ~progressed

Acceptable == failures = {} /\ Connected(staged, None)

Close(verdict) ==
    /\ call' = "none" /\ answer' = verdict
    /\ staged' = None
    /\ batch' = {} /\ pending' = {} /\ waiting' = {} /\ failures' = {}
    /\ progressed' = FALSE

CommitBatch ==
    /\ Finished /\ Acceptable /\ call = "register"
    /\ tree' = staged
    /\ Close("ok")

\* Fault: the rehearsal of a migration is published.
AcceptMigrationCommits ==
    /\ Finished /\ Acceptable /\ call = "migrate"
    /\ Close("ok")
    /\ tree' = staged

AcceptMigration ==
    /\ Finished /\ Acceptable /\ call = "migrate"
    /\ Close("ok")
    /\ UNCHANGED tree

RejectBatch ==
    /\ Finished /\ ~Acceptable
    /\ Close("refused")
    /\ UNCHANGED tree

-----------------------------------------------------------------------------
(* validate_snapshot_migration: rehearse on a clone without the old subtree. *)
ValidateSnapshotMigration(current, replacements) ==
    /\ call = "none"
    /\ HasFace(tree, current)
    /\ LET home == FaceById(tree, current).parent
           rest == TakeEntry(tree, current)
       IN  IF /\ \E face \in replacements : face.parent = home
              /\ HasRegistry(tree, home)
              /\ PlanBatch(rest, replacements)
           THEN Stage("migrate", rest, replacements)
           ELSE Refuse

-----------------------------------------------------------------------------
(* validate_snapshot_replacement and apply_snapshot_replacement.            *)

\* Fault: an edit may name another parent.
SameIdentity(current, face) == face.id = current

SamePlace(current, face) ==
    /\ face.id = current
    /\ face.parent = FaceById(tree, current).parent

ReplacementValid(current, face) ==
    /\ HasFace(tree, current)
    /\ face.namespace = tree.regs[<<>>].namespace
    /\ SamePlace(current, face)
    /\ HasRegistry(tree, face.parent)
    /\ Obeys(face, tree.regs[RegistrySlot(tree, face.parent)].rule)
    /\ face.sound
    /\ ~(HasRegistry(tree, face.id) /\ ChildViolating(tree, face.id, face.rule))
    /\ CanReplaceInfo(tree, current, face)
    /\ Connected(ReplaceInfo(tree, current, face), None)

ApplySnapshotReplacement(current, face) ==
    /\ call = "none"
    /\ IF ReplacementValid(current, face)
       THEN /\ tree' = ReplaceInfo(tree, current, face)
            /\ answer' = "ok"
            /\ UNCHANGED staging
       ELSE Refuse

Batches == {b \in SUBSET Submissions : Cardinality(b) \in 1..MaxBatch}

Next ==
    \/ \E b \in Batches : RegisterSnapshotBatch(b)
    \/ \E face \in Submissions : SubmitSnapshot(face)
    \/ NextPass
    \/ CommitBatch
    \/ AcceptMigration
    \/ RejectBatch
    \/ \E id \in NodeIds, b \in Batches : ValidateSnapshotMigration(id, b)
    \/ \E id \in NodeIds, face \in Edits : ApplySnapshotReplacement(id, face)

Spec == Init /\ [][Next]_vars

-----------------------------------------------------------------------------
(* Properties.                                                              *)

\* One identity names one face of the live tree, and never the root: every
\* lookup by NodeId (find_by_id, registry, path_for) has one answer.
IdentitiesUnique ==
    \A s, p \in DOMAIN tree.faces :
        /\ tree.faces[s].id = tree.faces[p].id => s = p
        /\ tree.faces[s].id # RootId

\* A face hangs below the registry its own declaration names as its parent,
\* keyed by its own identity, through every rename and nested registration.
Linked(t) ==
    \A s \in DOMAIN t.faces :
        /\ Owner(s) \in DOMAIN t.regs
        /\ t.regs[Owner(s)].id = t.faces[s].parent
        /\ Last(s) = t.faces[s].id
TreeLinked == Linked(tree)

\* A face owns a registry exactly when it declares one, and the registry's
\* header repeats the face: its identity, the rule and gate it enforces, and
\* the path of the slot, also after an ancestor was renamed.
Mirrored(t) ==
    /\ DOMAIN t.regs = {<<>>} \cup {s \in DOMAIN t.faces : t.faces[s].needs}
    /\ \A s \in DOMAIN t.regs \ {<<>>} :
          t.regs[s] = Header(t.faces[s], SlotPath(t, s))
HeadersMirrorFaces == Mirrored(tree)

\* Every face obeys the rule of the registry that holds it, also when that
\* rule was tightened after the face was registered.
RulesHold ==
    \A s \in DOMAIN tree.faces :
        Obeys(tree.faces[s], tree.regs[Owner(s)].rule)

\* The names from the root down to a slot, as its faces have them.
Spelling(t, s) == [i \in 1..Len(s) |-> t.faces[SubSeq(s, 1, i)].name]

\* Read off the faces alone, whatever headers, lookups by identity and cached
\* paths say: what a face requires is offered by exactly one face, one of those
\* it hangs below if any of them offers it, and the gate that the face above it
\* declares lets that one through under the names the tree has now.  A later
\* batch, a rename or an edited gate may break this far from where it is made.
InputsReachable ==
    \A s \in DOMAIN tree.faces : \A requirement \in tree.faces[s].requires :
        LET offers == {p \in DOMAIN tree.faces : Provides(tree.faces[p], requirement)}
            above == {p \in offers : IsPrefix(p, Owner(s))}
            candidates == IF above # {} THEN above ELSE offers
        IN  /\ Cardinality(candidates) = 1
            /\ Owner(s) # <<>> => \A p \in candidates :
                  \/ IsStrictPrefix(Spelling(tree, Owner(s)), Spelling(tree, p))
                  \/ Accepts(tree.faces[Owner(s)].admission, Spelling(tree, p))

\* A transaction answers once and all at once: the live tree changes only in
\* the step that ends it, to a tree that keeps every face it already had.
NothingLost ==
    [][/\ tree' # tree => call' = "none" /\ answer' = "ok"
       /\ \A id \in NodeIds : HasFace(tree, id) => HasFace(tree', id)]_vars

\* A batch is accepted only when none of its snapshots was left over: the loop
\* "cannot leave `pending` non-empty" (transaction.rs:63).
AcceptsWholeBatch ==
    [][call = "register" /\ call' = "none" /\ answer' = "ok" =>
          \A face \in batch : HasFace(tree', face.id)]_vars

\* What the loop does promise: a snapshot is left over only below a snapshot of
\* the same batch that declares no registry.
OnlyBelowLeavesDropped ==
    [][call = "register" /\ call' = "none" /\ answer' = "ok" =>
          \A face \in batch : HasFace(tree', face.id) \/
              \E above \in batch :
                  /\ above.id = face.parent
                  /\ above.needs => ~HasFace(tree', above.id)]_vars

=============================================================================
