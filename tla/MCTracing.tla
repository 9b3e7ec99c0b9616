---------------------------- MODULE MCTracing ----------------------------
(***************************************************************************)
(* Workloads for Tracing: recording in depth with no reader, and a short   *)
(* trace with readers, edits and rewrites of the file.                     *)
(***************************************************************************)
EXTENDS Tracing

CONSTANTS a, b

Work(nodes, f, l, c, r, o, e, s) ==
  [nodes |-> nodes, frames |-> f, locals |-> l, calls |-> c, resets |-> r, reopens |-> o,
   edits |-> e, saves |-> s]

MCFaces == {a, b}
MCNodes == {a, Root}
MCWorkloads == {Work({a}, 2, 2, 4, 1, 0, 0, 0),
                Work({a}, 2, 3, 2, 1, 1, 0, 0),
                Work({a, Root}, 1, 1, 1, 0, 0, 2, 2)}

\* What a scaffolded host does: one frame under the root, written at the end.
MCRootFrame == {Work({Root}, 1, 0, 1, 0, 0, 0, 1)}
=============================================================================
