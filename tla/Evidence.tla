------------------------------ MODULE Evidence ------------------------------
(***************************************************************************)
(* What the readers make of a trace artifact: Studio, which loads it beside*)
(* the registry snapshot it shows and judges it against that snapshot      *)
(* (studio/app/trace.rs), and the bridge, which reads it for every answer  *)
(* and judges it against the project's files (mcp/trace.rs).               *)
(*                                                                         *)
(* An artifact is the nodes of its frames, whether its namespace and root  *)
(* are this project's, and whether the artifact reader accepts it.  A tree *)
(* is the nodes of its faces and how often it was edited.  No face         *)
(* declares Root.                                                          *)
(***************************************************************************)
EXTENDS Integers, FiniteSets

CONSTANTS Faces,   \* identities the project's faces may have
          Root     \* the identity of the registry root

ASSUME RootAssumption == Root \notin Faces

VARIABLES artifact,   \* the file: none or one artifact
          tree,       \* the project's files
          left,       \* how many more edits and saves there will be
          snapshot,   \* the registry Studio shows
          status,     \* Studio's verdict on the artifact: TraceStatus
          shown,      \* the nodes of the trace Studio shows
          mir         \* the edition Studio's MIR graph was built from, if it has one

studioVars == <<snapshot, status, shown, mir>>
evidenceVars == <<artifact, tree, left, studioVars>>

Trees == [faces: SUBSET Faces, edition: Nat]

\* Studio: every node of a frame must be a face of the snapshot.
Loads(a, faces) == a.sound /\ a.own /\ a.nodes \subseteq faces

\* The bridge: also the root is known.
Verifies(a, faces) == a.sound /\ a.own /\ a.nodes \subseteq faces \cup {Root}

\* rejudge_evidence: the file is read again and judged against the snapshot; the
\* MIR graph goes with the snapshot it was built beside.
Judge(faces) ==
  /\ status' = IF artifact = {} THEN "absent"
               ELSE IF \A a \in artifact : Loads(a, faces) THEN "loaded" ELSE "mismatch"
  /\ shown' = UNION {a.nodes : a \in {x \in artifact : Loads(x, faces)}}
  /\ mir' = {}

\* Mutant: the verdict and the MIR graph of the last snapshot stay.
ReplaceUnjudged(new) == snapshot' = new /\ UNCHANGED <<status, shown, mir>>

\* Every path that replaces the snapshot judges the evidence again.
Replace(new) == snapshot' = new /\ Judge(new.faces)

\* load_app: the tree, or an empty root when it does not load.
EvidenceInit ==
  /\ artifact = {}
  /\ tree \in [faces: SUBSET Faces, edition: {0}]
  /\ snapshot \in {tree, [faces |-> {}, edition |-> 0]}
  /\ status = "absent" /\ shown = {} /\ mir = {}

\* The host's document replaces the file in one rename, or not at all.
Save(own, sound, nodes) ==
  /\ left.saves > 0
  /\ left' = [left EXCEPT !.saves = @ - 1]
  /\ artifact' = {[own |-> own, sound |-> sound, nodes |-> nodes]}
  /\ UNCHANGED <<tree, studioVars>>

\* The file may also go.
Remove ==
  /\ left.saves > 0 /\ artifact # {}
  /\ left' = [left EXCEPT !.saves = @ - 1]
  /\ artifact' = {}
  /\ UNCHANGED <<tree, studioVars>>

\* Somebody edits the project.
Edit(faces) ==
  /\ left.edits > 0 /\ faces # tree.faces
  /\ left' = [left EXCEPT !.edits = @ - 1]
  /\ tree' = [faces |-> faces, edition |-> tree.edition + 1]
  /\ UNCHANGED <<artifact, studioVars>>

\* poll_hot_reload, the reload key, and a write of Studio's own that reloads; a
\* load that fails leaves everything as it was.
Reload == Replace(tree) /\ UNCHANGED <<artifact, tree, left>>

\* A write of Studio's own that hands back its batch: the snapshot grows by it.
RegisterBatch(face) ==
  /\ left.edits > 0 /\ face \notin tree.faces \cup snapshot.faces
  /\ left' = [left EXCEPT !.edits = @ - 1]
  /\ tree' = [faces |-> tree.faces \cup {face}, edition |-> tree.edition + 1]
  /\ Replace([faces |-> snapshot.faces \cup {face}, edition |-> tree.edition + 1])
  /\ UNCHANGED artifact

\* load_mir_snapshot: rustc is run on the files as they are.
LoadMir == mir' = {tree.edition} /\ UNCHANGED <<artifact, tree, left, snapshot, status, shown>>

EvidenceNext ==
  \/ Remove
  \/ \E faces \in SUBSET Faces : Edit(faces)
  \/ Reload
  \/ \E face \in Faces : RegisterBatch(face)
  \/ LoadMir

-----------------------------------------------------------------------------
\* "The trace's only real 'different build' detector is 'every recorded node
\* still exists in this snapshot'" (studio/app/trace.rs:67-71): while Studio
\* says LIVE its evidence is of the faces it shows, and its MIR graph is never
\* of an older tree than they are.
EvidenceFitsSnapshot ==
  /\ status = "loaded" => shown \subseteq snapshot.faces
  /\ status # "loaded" => shown = {}
  /\ \A built \in mir : built >= snapshot.edition

\* The bridge "keeps Studio's rule: a report is refused when the artifact
\* describes a different tree" (mcp/trace.rs:8-9): on one tree they agree.
ReadersAgree ==
  snapshot = tree =>
    \A a \in artifact : Verifies(a, tree.faces) <=> Loads(a, snapshot.faces)
=============================================================================
