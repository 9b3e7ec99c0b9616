------------------------------ MODULE Tracing ------------------------------
(***************************************************************************)
(* A host that records and writes its trace, and the readers of the file.  *)
(* In a workload without saves there is nothing to read and nobody reads.  *)
(***************************************************************************)
EXTENDS CallTrace, Evidence

vars == <<traceVars, evidenceVars>>

Init ==
  /\ TraceInit
  /\ EvidenceInit
  /\ left = [edits |-> work.edits, saves |-> work.saves]
  /\ work.saves = 0 => tree.faces = {} /\ snapshot = tree

\* write_trace_artifact: the arenas as they are, also in the middle of a call,
\* under the namespace the host was compiled with.
Write(own) ==
  /\ Save(own, Readable(frames, locals, edges), {frames[i].node : i \in DOMAIN frames})
  /\ UNCHANGED traceVars

Next ==
  \/ TraceNext /\ UNCHANGED evidenceVars
  \/ \E own \in BOOLEAN : Write(own)
  \/ work.saves > 0 /\ EvidenceNext /\ UNCHANGED traceVars

Spec == Init /\ [][Next]_vars
=============================================================================
